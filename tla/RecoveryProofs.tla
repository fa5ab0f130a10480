------------------------------ MODULE RecoveryProofs ------------------------------
(***************************************************************************)
(* Theorems about restarts.  What EvidenceProofs shows of one process is   *)
(* carried through export, file and import: an image that the registry     *)
(* wrote holds what its invariant says of the records, in an order that    *)
(* import can follow, and import rebuilds a registry in which it holds     *)
(* again.  Bounds on devices and records are counted along.                *)
(***************************************************************************)
EXTENDS Recovery, EvidenceProofs, FiniteSetTheorems

--------------------------------------------------------------------------------
(* Invariants.                                                             *)

HistoryRecord == [key : Key, record : Stored]

\* The devices of an image, as they were when it was written.
DevicesTyped(image) ==
  /\ image.registered \subseteq Devices
  /\ image.incarnation \in [Devices -> Incarnations \cup {None}]
  /\ image.family \in [Devices -> FamilyIds]
  /\ image.platform \in [Devices -> PlatformIds]
  /\ image.generation \in [Devices -> Generations]
  /\ image.device_boot = image.generation
  /\ image.platform_generation \in [Devices -> Generations]
  /\ image.software \in [Devices -> [Axes -> Software]]
  /\ image.axis_generation \in [Devices -> [Axes -> Generations]]
  /\ image.platforms \subseteq Platforms
  /\ \A d \in Devices \ image.registered :
       /\ image.generation[d] = 0 /\ image.platform_generation[d] = 0
       /\ \A a \in Axes : image.axis_generation[d][a] = 0

\* A record of the image was stamped by an identity that was granted, under generations of a
\* registered device that it had reached when the image was written.
EntrySound(image, e, granted) ==
  LET d == e.key[1]
      r == e.record
  IN /\ r.identity \in granted
     /\ r.device_boot = r.device_generation
     /\ d \in image.registered
     /\ r.device_generation <= image.generation[d]
     /\ r.platform_generation <= image.platform_generation[d]
     /\ \A a \in Axes : r.axes[a] <= image.axis_generation[d][a]

\* The records of a key are read in the order of their generations, and those of one
\* generation say the same.
Consecutive(e, f) ==
  e.key = f.key =>
    /\ e.record.gen <= f.record.gen
    /\ e.record.gen = f.record.gen =>
         /\ e.record.claim = f.record.claim
         /\ e.record.device_generation = f.record.device_generation

HistorySound(image, granted) ==
  /\ image.history \in Seq(HistoryRecord)
  /\ \A n \in 1 .. Len(image.history) : EntrySound(image, image.history[n], granted)
  /\ \A m, n \in 1 .. Len(image.history) :
       m < n => Consecutive(image.history[m], image.history[n])

\* The image is within the limits that import checks, families aside.
Bounded(image) ==
  /\ IsFiniteSet(image.registered) /\ Cardinality(image.registered) <= MaxDevices
  /\ Len(image.history) <= MaxHistory

SoundImage(image, granted) ==
  DevicesTyped(image) /\ HistorySound(image, granted) /\ Bounded(image)

\* The records of the registry, as EvidenceCount counts them.
Held(recs) == UNION {{<<k, r>> : r \in recs[k]} : k \in Key}

\* Devices and records are within their limits, and records are those of keys that
\* exist and of devices that are registered.
WithinLimits ==
  /\ IsFiniteSet(registered) /\ Cardinality(registered) <= MaxDevices
  /\ IsFiniteSet(Held(records)) /\ Cardinality(Held(records)) <= MaxHistory
  /\ \A k \in Key : records[k] # {} => k \in keys /\ k[1] \in registered

\* The identity of a record of an earlier process has no authority.
EarlierProcessesOver ==
  \A k \in Key : \A r \in records[k] : r.slot \in RestoredSlots => r.identity \notin live

\* What is saved, and what is being saved, is sound.
ImagesSound ==
  /\ file # NoFile => SoundImage(file, spent)
  /\ phase \in {"writing", "written"} =>
       "image" \in DOMAIN temporary /\ SoundImage(temporary.image, spent)

RecoveryInv ==
  /\ phase \in {"up", "writing", "written", "down"}
  /\ StoreInv
  /\ WithinLimits
  /\ EarlierProcessesOver
  /\ ImagesSound

--------------------------------------------------------------------------------
(* Counting.                                                               *)

LEMMA ImageCount ==
  ASSUME NEW S, IsFiniteSet(S), NEW f, NEW T, T \subseteq {f[x] : x \in S}
  PROVE  /\ IsFiniteSet(T) /\ Cardinality(T) \in Nat /\ Cardinality(S) \in Nat
         /\ Cardinality(T) <= Cardinality(S)
<1> DEFINE U == {f[x] : x \in S}
           g == [x \in S |-> f[x]]
<1>1. g \in Surjection(S, U)
  BY DEF Surjection
<1>2. IsFiniteSet(U) /\ Cardinality(U) <= Cardinality(S)
  BY <1>1, FS_Surjection
<1>3. IsFiniteSet(T) /\ Cardinality(T) <= Cardinality(U)
  BY <1>2, FS_Subset
<1>4. Cardinality(T) \in Nat /\ Cardinality(S) \in Nat /\ Cardinality(U) \in Nat
  BY <1>2, <1>3, FS_CardinalityType
<1> QED
  BY <1>2, <1>3, <1>4

LEMMA HeldMembers ==
  ASSUME NEW recs, NEW p
  PROVE  p \in Held(recs) <=> \E k \in Key : \E r \in recs[k] : p = <<k, r>>
BY DEF Held

LEMMA HeldShrinks ==
  ASSUME NEW recs, NEW left, \A k \in Key : left[k] \subseteq recs[k], IsFiniteSet(Held(recs))
  PROVE  /\ IsFiniteSet(Held(left)) /\ Cardinality(Held(left)) \in Nat
         /\ Cardinality(Held(recs)) \in Nat
         /\ Cardinality(Held(left)) <= Cardinality(Held(recs))
<1>1. Held(left) \subseteq Held(recs)
  BY DEF Held
<1> QED
  BY <1>1, FS_Subset, FS_CardinalityType

\* The records with one more at a key, beside which others may be superseded.
Joined(recs, k, new, slot) ==
  [recs EXCEPT ![k] = {Beside(r, slot) : r \in recs[k]} \cup {new}]

(* Storing adds one record at most.                                        *)
LEMMA HeldGrows ==
  ASSUME NEW recs, recs = [j \in Key |-> recs[j]], NEW k \in Key, NEW new, NEW slot,
         IsFiniteSet(Held(recs)), Cardinality(Held(recs)) < MaxHistory
  PROVE  /\ IsFiniteSet(Held(Joined(recs, k, new, slot)))
         /\ Cardinality(Held(Joined(recs, k, new, slot))) <= MaxHistory
<1> DEFINE stored == [recs EXCEPT ![k] = {Beside(r, slot) : r \in recs[k]} \cup {new}]
           f == [p \in Held(recs) |-> IF p[1] = k THEN <<k, Beside(p[2], slot)>> ELSE p]
           T == {f[p] : p \in Held(recs)}
<1>1. IsFiniteSet(T) /\ Cardinality(T) <= Cardinality(Held(recs)) /\ Cardinality(T) \in Nat
      /\ Cardinality(Held(recs)) \in Nat
  <2> HIDE DEF f
  <2> QED
    BY ImageCount
<1>2. Held(stored) \subseteq T \cup {<<k, new>>}
  <2> SUFFICES ASSUME NEW j \in Key, NEW q \in stored[j] PROVE <<j, q>> \in T \cup {<<k, new>>}
    <3> HIDE DEF T, stored
    <3> QED
      BY HeldMembers
  <2>1. CASE j # k
    <3>1. q \in recs[j]
      BY <2>1
    <3>2. <<j, q>> \in Held(recs)
      BY <3>1, HeldMembers
    <3>3. f[<<j, q>>] = <<j, q>>
      BY <2>1, <3>2
    <3> QED
      BY <3>2, <3>3
  <2>2. CASE j = k /\ q # new
    <3>1. PICK r \in recs[k] : q = Beside(r, slot)
      BY <2>2
    <3>2. <<k, r>> \in Held(recs)
      BY <3>1, HeldMembers
    <3>3. f[<<k, r>>] = <<k, q>>
      BY <3>1, <3>2
    <3> QED
      BY <2>2, <3>2, <3>3
  <2> QED
    BY <2>1, <2>2
<1> HIDE DEF T, stored
<1>3. /\ IsFiniteSet(T \cup {<<k, new>>})
      /\ Cardinality(T \cup {<<k, new>>}) <= Cardinality(T) + 1
      /\ Cardinality(T \cup {<<k, new>>}) \in Nat
  <2> DEFINE x == <<k, new>>
  <2> HIDE DEF x
  <2>1. /\ IsFiniteSet(T \cup {x})
        /\ Cardinality(T \cup {x}) = IF x \in T THEN Cardinality(T) ELSE Cardinality(T) + 1
    BY <1>1, FS_AddElement
  <2>2. Cardinality(T \cup {x}) \in {Cardinality(T), Cardinality(T) + 1}
    BY <2>1
  <2> QED
    BY <1>1, <2>1, <2>2 DEF x
<1>4. IsFiniteSet(Held(stored)) /\ Cardinality(Held(stored)) <= Cardinality(T \cup {<<k, new>>})
      /\ Cardinality(Held(stored)) \in Nat
  BY <1>2, <1>3, FS_Subset, FS_CardinalityType
<1>5. \A a, b, c, d, m \in Nat : a <= b /\ b <= c + 1 /\ c <= d /\ d < m => a <= m
  OBVIOUS
<1>6. MaxHistory \in Nat
  BY EvidenceConstants
<1> QED
  BY <1>1, <1>3, <1>4, <1>5, <1>6 DEF stored, Joined

--------------------------------------------------------------------------------
(* Steps of a running registry.                                            *)

LEMMA RoomCount ==
  ASSUME StoreInv, WithinLimits
  PROVE  /\ MadeRoom.records = [j \in Key |-> MadeRoom.records[j]]
         /\ \A j \in Key : MadeRoom.records[j] \subseteq records[j]
         /\ IsFiniteSet(Held(MadeRoom.records))
<1>1. Remains(records, MadeRoom.records)
  BY RoomRemains DEF StoreInv
<1>2. /\ MadeRoom.records = [j \in Key |-> MadeRoom.records[j]]
      /\ \A j \in Key : MadeRoom.records[j] \subseteq records[j]
  BY <1>1 DEF Remains
<1>3. IsFiniteSet(Held(records))
  BY DEF WithinLimits
<1> QED
  BY <1>2, <1>3, HeldShrinks

LEMMA StoreCount ==
  ASSUME StoreInv, WithinLimits, NEW k \in Key, NEW i \in Identity, NEW s \in Sources,
         NEW claim \in Claims \cup {NoClaim}, NEW withdrawn \in BOOLEAN,
         StoreEvidence(k, i, s, claim, withdrawn)
  PROVE  IsFiniteSet(Held(records')) /\ Cardinality(Held(records')) <= MaxHistory
<1> DEFINE new == Published(k, i, s, claim, withdrawn)
           slot == new.slot
           room == MadeRoom.records
           stored == Joined(room, k, new, slot)
           order == Append(MadeRoom.order, [key |-> k, serial |-> next_serial])
<1>1. records' = Evict(stored, order).records /\ EvidenceCount(room) < MaxHistory
  BY DEF StoreEvidence, Published, Beside, SlotOf, Joined
<1>2. /\ room = [j \in Key |-> room[j]] /\ IsFiniteSet(Held(room))
      /\ Cardinality(Held(room)) < MaxHistory
  BY <1>1, RoomCount DEF EvidenceCount, Held
<1>3. order \in Seq(Entry)
  <2>1. [key |-> k, serial |-> next_serial] \in Entry /\ MadeRoom.order \in Seq(Entry)
    BY RoomRemains DEF StoreInv, StoreTypeOK, Entry
  <2> QED
    BY <2>1
<1>4. stored = [j \in Key |-> stored[j]]
  BY <1>2 DEF Joined
<1> HIDE DEF new, slot, room, order
<1>5. IsFiniteSet(Held(stored)) /\ Cardinality(Held(stored)) <= MaxHistory
  BY <1>2, HeldGrows
<1> HIDE DEF stored
<1>6. \A j \in Key : records'[j] \subseteq stored[j]
  <2>1. Remains(stored, records')
    BY <1>1, <1>3, <1>4, EvictRemains
  <2> QED
    BY <2>1 DEF Remains
<1>7. /\ IsFiniteSet(Held(records')) /\ Cardinality(Held(records')) \in Nat
      /\ Cardinality(Held(stored)) \in Nat
      /\ Cardinality(Held(records')) <= Cardinality(Held(stored))
  BY <1>5, <1>6, HeldShrinks
<1>8. MaxHistory \in Nat
  BY EvidenceConstants
<1> QED
  BY <1>5, <1>7, <1>8

\* The records of other processes are those that were there before.
NothingRestored ==
  \A k \in Key : \A q \in records'[k] :
    q.slot \in RestoredSlots => \E r \in records[k] : r.slot = q.slot /\ r.identity = q.identity

LEMMA SlotsApart == PublishedSlots \cap RestoredSlots = {}
BY SlotLength

LEMMA StoreLimits ==
  ASSUME StoreInv, WithinLimits, NEW k \in Key, NEW i \in Identity, NEW s \in Sources,
         NEW claim \in Claims \cup {NoClaim}, NEW withdrawn \in BOOLEAN,
         StoreEvidence(k, i, s, claim, withdrawn)
  PROVE  WithinLimits' /\ NothingRestored /\ UNCHANGED <<deviceVars, live, spent>>
<1> DEFINE new == Published(k, i, s, claim, withdrawn)
<1>1. IsFiniteSet(Held(records')) /\ Cardinality(Held(records')) <= MaxHistory
  BY StoreCount
<1>2. Sheds(Key \ {k}) /\ Gains(k, new)
  BY StoreRecords
<1>3. new.slot \in PublishedSlots
  <2>1. Stamp(new, k, i, s, claim, withdrawn)
    BY PublishedFields
  <2> HIDE DEF new
  <2> QED
    BY <2>1, SlotType DEF Stamp
<1> HIDE DEF new
<1>4. UNCHANGED <<deviceVars, live, spent>> /\ keys' = keys \cup {k} /\ k[1] \in registered
  BY DEF StoreEvidence, Received, Opens
<1>5. registered' = registered
  BY <1>4 DEF deviceVars
<1>6. ASSUME NEW j \in Key, records'[j] # {} PROVE j \in keys' /\ j[1] \in registered'
  <2>1. CASE j = k
    BY <1>4, <1>5, <2>1
  <2>2. CASE j # k
    <3>1. records[j] # {}
      BY <1>2, <1>6, <2>2 DEF Sheds
    <3> QED
      BY <1>4, <1>5, <3>1 DEF WithinLimits
  <2> QED
    BY <2>1, <2>2
<1>7. WithinLimits'
  BY <1>1, <1>5, <1>6 DEF WithinLimits, Held
<1>8. NothingRestored
  <2> SUFFICES ASSUME NEW j \in Key, NEW q \in records'[j], q.slot \in RestoredSlots
               PROVE  \E r \in records[j] : r.slot = q.slot /\ r.identity = q.identity
    BY DEF NothingRestored
  <2>1. CASE j # k
    BY <1>2, <2>1 DEF Sheds
  <2>2. CASE j = k
    <3>1. q # new
      BY <1>3, SlotsApart
    <3>2. PICK r \in records[k] : q = Beside(r, new.slot)
      BY <1>2, <2>2, <3>1 DEF Gains
    <3>3. Again(q, r)
      BY <3>2, BesideAgain DEF StoreInv, StoreTypeOK
    <3> QED
      BY <2>2, <3>2, <3>3 DEF Again
  <2> QED
    BY <2>1, <2>2
<1> QED
  BY <1>4, <1>7, <1>8

LEMMA ShedLimits ==
  ASSUME WithinLimits, Sheds(Key), keys \subseteq keys', registered' = registered
  PROVE  WithinLimits' /\ NothingRestored
<1>1. \A j \in Key : records'[j] \subseteq records[j]
  BY DEF Sheds
<1>2. /\ IsFiniteSet(Held(records')) /\ Cardinality(Held(records')) \in Nat
      /\ Cardinality(Held(records)) \in Nat
      /\ Cardinality(Held(records')) <= Cardinality(Held(records))
  BY <1>1, HeldShrinks DEF WithinLimits
<1>3. MaxHistory \in Nat /\ Cardinality(Held(records)) <= MaxHistory
  BY EvidenceConstants DEF WithinLimits
<1>4. Cardinality(Held(records')) <= MaxHistory
  BY <1>2, <1>3
<1> QED
  BY <1>1, <1>2, <1>4 DEF WithinLimits, NothingRestored, Held

LEMMA RefuseLimits ==
  ASSUME StoreInv, WithinLimits, NEW k \in Key, NEW i, NEW s, NEW claim, NEW withdrawn,
         RefuseEvidence(k, i, s, claim, withdrawn)
  PROVE  WithinLimits' /\ NothingRestored /\ UNCHANGED <<deviceVars, live, spent>>
<1>1. Sheds(Key)
  BY RefuseRecords
<1>2. UNCHANGED <<deviceVars, live, spent>> /\ keys \subseteq keys'
  BY DEF RefuseEvidence, Opens
<1> QED
  BY <1>1, <1>2, ShedLimits DEF deviceVars

LEMMA SkipLimits ==
  ASSUME StoreInv, WithinLimits, NEW k \in Key, NEW i, RefuseSkippedGeneration(k, i)
  PROVE  WithinLimits' /\ NothingRestored /\ UNCHANGED <<deviceVars, live, spent>>
<1>1. UNCHANGED <<deviceVars, live, spent>> /\ keys \subseteq keys' /\ records' = records
  BY DEF RefuseSkippedGeneration, Opens
<1> QED
  BY <1>1, SameRecords, ShedLimits DEF deviceVars

LEMMA DeviceLimits ==
  ASSUME StoreInv, WithinLimits, DeviceStep
  PROVE  WithinLimits' /\ NothingRestored /\ UNCHANGED <<live, spent>>
<1>1. PICK d \in Devices, report \in Reports : ReportDevice(d, report)
  BY DEF DeviceStep
<1>2. UNCHANGED <<live, spent>> /\ records' = records /\ keys' = keys
  BY DEF DeviceStep, evidenceVars
<1>3. registered \subseteq registered'
  BY <1>1, ReportOnlyAdds
<1>4. IsFiniteSet(registered') /\ Cardinality(registered') <= MaxDevices
  <2>1. CASE RegisterDevice(d, report)
    <3>1. registered' = registered \cup {d} /\ Cardinality(registered) < MaxDevices
          /\ IsFiniteSet(registered) /\ d \notin registered
      BY <2>1 DEF RegisterDevice, WithinLimits
    <3>2. /\ IsFiniteSet(registered') /\ Cardinality(registered') = Cardinality(registered) + 1
          /\ Cardinality(registered) \in Nat
      BY <3>1, FS_AddElement, FS_CardinalityType
    <3> QED
      BY <3>1, <3>2, DeviceConstants
  <2>2. CASE RefreshDevice(d, report)
    BY <2>2 DEF RefreshDevice, WithinLimits
  <2> QED
    BY <1>1, <2>1, <2>2 DEF ReportDevice
<1> QED
  BY <1>2, <1>3, <1>4 DEF WithinLimits, NothingRestored, Held

(* What a running registry keeps of what earlier processes left, and of    *)
(* its limits.                                                             *)
LEMMA RegistryLimits ==
  ASSUME StoreInv, WithinLimits, EarlierProcessesOver, Next
  PROVE  WithinLimits' /\ EarlierProcessesOver' /\ spent \subseteq spent'
<1>1. ASSUME NothingRestored, UNCHANGED <<live, spent>> PROVE EarlierProcessesOver'
  BY <1>1 DEF NothingRestored, EarlierProcessesOver
<1>2. CASE DeviceStep
  BY <1>1, <1>2, DeviceLimits
<1>3. CASE AuthorityStep
  <2>1. /\ live' \subseteq live \cup (Identity \ spent) /\ spent \subseteq spent'
        /\ UNCHANGED <<deviceVars, evidenceVars>>
    BY <1>3, AuthorityMoves
  <2>2. records' = records /\ keys' = keys /\ registered' = registered
    BY <2>1 DEF deviceVars, evidenceVars
  <2>3. WithinLimits'
    BY <2>2 DEF WithinLimits, Held
  <2>4. EarlierProcessesOver'
    BY <2>1, <2>2 DEF EarlierProcessesOver, StoreInv, StampedOnce
  <2> QED
    BY <2>1, <2>3, <2>4
<1>4. CASE PublishStep
  <2>1. PICK k \in Key, i \in Identity, s \in Sources, claim \in Claims :
          StoreEvidence(k, i, s, claim, FALSE) \/ RefuseEvidence(k, i, s, claim, FALSE)
    BY <1>4 DEF PublishStep
  <2> QED
    BY <1>1, <2>1, StoreLimits, RefuseLimits
<1>5. CASE WithdrawStep
  <2>1. PICK k \in Key, i \in Identity, s \in Sources :
          StoreEvidence(k, i, s, NoClaim, TRUE) \/ RefuseEvidence(k, i, s, NoClaim, TRUE)
    BY <1>5 DEF WithdrawStep
  <2> QED
    BY <1>1, <2>1, StoreLimits, RefuseLimits
<1>6. CASE SkipStep
  BY <1>1, <1>6, SkipLimits DEF SkipStep
<1> QED
  BY <1>2, <1>3, <1>4, <1>5, <1>6 DEF Next

--------------------------------------------------------------------------------
(* Export.                                                                 *)

LEMMA ExportedRecords ==
  ASSUME StoreInv, WithinLimits
  PROVE  /\ \A e \in AllRecords : /\ e \in HistoryRecord /\ e.key \in keys
                                  /\ e.record \in records[e.key]
         /\ Cardinality(AllRecords) \in Nat /\ Cardinality(AllRecords) <= MaxHistory
<1>1. keys \subseteq Key /\ \A k \in Key : records[k] \subseteq Stored
  BY DEF StoreInv, StoreTypeOK
<1>2. ASSUME NEW e \in AllRecords
      PROVE  \E k \in keys : \E r \in records[k] : e = [key |-> k, record |-> r]
  BY DEF AllRecords
<1>3. \A e \in AllRecords : /\ e \in HistoryRecord /\ e.key \in keys
                            /\ e.record \in records[e.key]
  BY <1>1, <1>2 DEF HistoryRecord
<1> DEFINE f == [p \in Held(records) |-> [key |-> p[1], record |-> p[2]]]
<1>4. AllRecords \subseteq {f[p] : p \in Held(records)}
  <2> SUFFICES ASSUME NEW e \in AllRecords PROVE \E p \in Held(records) : e = f[p]
    OBVIOUS
  <2> PICK k \in keys : \E r \in records[k] : e = [key |-> k, record |-> r]
    BY <1>2
  <2>1. PICK r \in records[k] : e = [key |-> k, record |-> r]
    OBVIOUS
  <2>2. <<k, r>> \in Held(records)
    BY <1>1, <2>1, HeldMembers
  <2>3. f[<<k, r>>] = [key |-> k, record |-> r]
    BY <2>2
  <2> QED
    BY <2>1, <2>2, <2>3
<1> HIDE DEF f
<1>5. /\ Cardinality(AllRecords) \in Nat /\ Cardinality(Held(records)) \in Nat
      /\ Cardinality(AllRecords) <= Cardinality(Held(records))
  BY <1>4, ImageCount DEF WithinLimits
<1> QED
  BY <1>3, <1>5, EvidenceConstants DEF WithinLimits

(* Whatever order the sort leaves the history in, the image is sound.      *)
LEMMA ExportSound ==
  ASSUME StoreInv, WithinLimits, NEW h \in Histories
  PROVE  SoundImage(Export(h), spent)
<1> DEFINE image == Export(h)
<1>1. /\ image.registered = registered /\ image.incarnation = incarnation
      /\ image.family = family /\ image.platform = platform
      /\ image.generation = generation /\ image.device_boot = device_boot
      /\ image.platform_generation = platform_generation /\ image.software = software
      /\ image.axis_generation = axis_generation /\ image.platforms = platforms
      /\ image.history = h
  BY DEF Export
<1> HIDE DEF image
<1>2. DevicesTyped(image)
  BY <1>1 DEF DevicesTyped, StoreInv, StoreTypeOK, SubjectInv, DeviceTypeOK,
              BootFollowsGeneration, UnregisteredBlank
<1>3. /\ h \in Seq(HistoryRecord) /\ Len(h) = Cardinality(AllRecords) /\ DOMAIN h = 1 .. Len(h)
      /\ \A n \in 1 .. Len(h) : h[n] \in AllRecords
  BY ExportedRecords DEF Histories
<1>4. \A m, n \in 1 .. Len(h) : m < n => Ordered(h[m], h[n])
  BY <1>3 DEF Histories
<1>5. \A n \in 1 .. Len(h) : /\ h[n] \in HistoryRecord /\ h[n].key \in Key
                             /\ h[n].record \in records[h[n].key] /\ h[n].record \in Stored
                             /\ h[n].record.gen \in Nat
  BY <1>3, ExportedRecords DEF HistoryRecord, Stored
<1>6. ASSUME NEW n \in 1 .. Len(h) PROVE EntrySound(image, h[n], spent)
  BY <1>1, <1>5 DEF EntrySound, StoreInv, StampedOnce, WithinLimits
<1>7. ASSUME NEW m \in 1 .. Len(h), NEW n \in 1 .. Len(h), m < n
      PROVE  Consecutive(h[m], h[n])
  <2>1. h[m].key = h[n].key => h[m].record.gen <= h[n].record.gen
    BY <1>4, <1>5, <1>7 DEF Ordered
  <2>2. h[m].key = h[n].key /\ h[m].record.gen = h[n].record.gen =>
          /\ h[m].record.claim = h[n].record.claim
          /\ h[m].record.device_generation = h[n].record.device_generation
    BY <1>5 DEF StoreInv, GenerationNamesOneClaim
  <2> QED
    BY <2>1, <2>2 DEF Consecutive
<1>8. HistorySound(image, spent)
  BY <1>1, <1>3, <1>6, <1>7 DEF HistorySound
<1>9. Bounded(image)
  BY <1>1, <1>3, ExportedRecords DEF Bounded, WithinLimits
<1> QED
  BY <1>2, <1>8, <1>9 DEF SoundImage, image

LEMMA EmptySound == ASSUME NEW granted PROVE SoundImage(Empty, granted)
<1> DEFINE image == Empty
<1>1. /\ image.registered = {} /\ image.incarnation = [d \in Devices |-> None]
      /\ image.family = [d \in Devices |-> None] /\ image.platform = [d \in Devices |-> None]
      /\ image.generation = [d \in Devices |-> 0] /\ image.device_boot = [d \in Devices |-> 0]
      /\ image.platform_generation = [d \in Devices |-> 0]
      /\ image.software = [d \in Devices |-> [a \in Axes |-> None]]
      /\ image.axis_generation = [d \in Devices |-> [a \in Axes |-> 0]]
      /\ image.platforms = {} /\ image.history = <<>>
  BY DEF Empty
<1> HIDE DEF image
<1>2. DevicesTyped(image)
  BY <1>1, DeviceConstants DEF DevicesTyped, FamilyIds, PlatformIds, Generations, Software
<1>3. HistorySound(image, granted)
  BY <1>1 DEF HistorySound
<1>4. Bounded(image)
  BY <1>1, FS_EmptySet, DeviceConstants, EvidenceConstants DEF Bounded
<1> QED
  BY <1>2, <1>3, <1>4 DEF SoundImage, image

LEMMA SoundLater ==
  ASSUME NEW image, NEW granted, NEW later, granted \subseteq later, SoundImage(image, granted)
  PROVE  SoundImage(image, later)
BY DEF SoundImage, HistorySound, EntrySound

--------------------------------------------------------------------------------
(* Import.                                                                 *)

\* A record as it was, but for its serial, its slot and its mark.
Resembles(q, r) ==
  /\ q.gen = r.gen /\ q.identity = r.identity /\ q.source = r.source /\ q.claim = r.claim
  /\ q.withdrawn = r.withdrawn /\ q.device_generation = r.device_generation
  /\ q.device_boot = r.device_boot /\ q.platform_generation = r.platform_generation
  /\ q.axes = r.axes /\ q.runtime = r.runtime

Reslot(r, serial, slot, mark) ==
  [r EXCEPT !.serial = serial, !.slot = slot, !.superseded = mark]

LEMMA Reslotted ==
  ASSUME NEW r \in Stored, NEW serial \in Nat, NEW slot \in RestoredSlots, NEW mark \in BOOLEAN
  PROVE  LET q == Reslot(r, serial, slot, mark)
         IN q \in Stored /\ q.serial = serial /\ q.slot = slot /\ Resembles(q, r)
<1> DEFINE q == Reslot(r, serial, slot, mark)
<1> USE DEF Reslot
<1>1. q \in Stored
  BY DEF Stored
<1>2. q.serial = serial /\ q.slot = slot
  BY DEF Stored
<1>3. Resembles(q, r)
  BY DEF Stored, Resembles
<1> QED
  BY <1>1, <1>2, <1>3

LEMMA ImportSlotType ==
  ASSUME NEW r \in Stored
  PROVE  ImportSlot(r) \in RestoredSlots
<1>1. /\ r.identity \in Identity /\ r.source \in Sources /\ r.source.class \in SourceClasses
      /\ r.source.precision \in DOMAIN PrecisionRank
  BY EvidenceConstants DEF Stored
<1>2. r.identity.pub \in Publishers /\ r.identity.boot \in 1 .. MaxBoot
  BY <1>1 DEF Identity
<1> QED
  BY <1>1, <1>2 DEF ImportSlot, RestoredSlots

\* What import makes of the record at position n.
Reads(q, h, n) ==
  q \in Stored /\ q.serial = n + 1 /\ q.slot \in RestoredSlots /\ Resembles(q, h[n].record)

LEMMA RestoredFields ==
  ASSUME NEW h \in Seq(HistoryRecord), NEW n \in 1 .. Len(h)
  PROVE  Reads(Restored(h, n), h, n)
<1> DEFINE r == h[n].record
           slot == ImportSlot(r)
           mark == \E m \in n + 1 .. Len(h) :
                     h[m].key = h[n].key /\ ImportSlot(h[m].record) = slot
<1>1. r \in Stored
  <2>1. h[n] \in HistoryRecord
    OBVIOUS
  <2> QED
    BY <2>1 DEF HistoryRecord
<1>2. slot \in RestoredSlots
  BY <1>1, ImportSlotType
<1>3. mark \in BOOLEAN /\ n + 1 \in Nat
  OBVIOUS
<1>4. Restored(h, n) = [r EXCEPT !.serial = n + 1, !.slot = slot, !.superseded = mark]
  BY DEF Restored
<1> DEFINE q == Restored(h, n)
<1> HIDE DEF r, slot, mark, q
<1>5. PICK b \in BOOLEAN : b = mark
  BY <1>3
<1>6. q = Reslot(r, n + 1, slot, b)
  BY <1>4, <1>5 DEF q, Reslot
<1>7. q \in Stored /\ q.serial = n + 1 /\ q.slot = slot /\ Resembles(q, r)
  BY <1>1, <1>2, <1>3, <1>6, Reslotted
<1> QED
  BY <1>2, <1>7 DEF Reads, r, q

(* The last of a key's records is found, and has the highest generation.   *)
LEMMA LastGeneration ==
  ASSUME NEW image, NEW granted, HistorySound(image, granted), NEW k \in Key
  PROVE  LET h == image.history
         IN /\ ImportedGeneration(h, k) \in Nat
            /\ \A n \in 1 .. Len(h) : h[n].key = k => h[n].record.gen <= ImportedGeneration(h, k)
<1> DEFINE h == image.history
           at == Positions(h, k)
           last == CHOOSE n \in at : \A m \in at : m <= n
<1>1. /\ h \in Seq(HistoryRecord) /\ Len(h) \in Nat /\ DOMAIN h = 1 .. Len(h)
      /\ \A n \in 1 .. Len(h) : h[n].record.gen \in Nat
      /\ \A m, n \in 1 .. Len(h) : m < n => Consecutive(h[m], h[n])
  <2>1. /\ h \in Seq(HistoryRecord)
        /\ \A m, n \in 1 .. Len(h) : m < n => Consecutive(h[m], h[n])
    BY DEF HistorySound
  <2> HIDE DEF h
  <2>2. \A n \in 1 .. Len(h) : h[n] \in HistoryRecord
    BY <2>1
  <2>3. \A e \in HistoryRecord : e.record.gen \in Nat
    BY DEF HistoryRecord, Stored
  <2> QED
    BY <2>1, <2>2, <2>3
<1>2. \A n : n \in at <=> n \in 1 .. Len(h) /\ h[n].key = k
  BY <1>1 DEF Positions
<1> HIDE DEF h, at
<1>3. CASE at = {}
  <2>1. ImportedGeneration(h, k) = 0
    BY <1>3 DEF ImportedGeneration, at
  <2> QED
    BY <1>2, <1>3, <2>1 DEF h
<1>4. CASE at # {}
  <2> DEFINE T == {Len(h) - n : n \in at}
  <2>1. T \subseteq Nat /\ T # {}
    BY <1>1, <1>2, <1>4
  <2>2. PICK t \in T : \A y \in T : t <= y
    BY <2>1, LeastElement
  <2>3. PICK x \in at : t = Len(h) - x
    BY <2>2
  <2>4. \A m \in at : m <= x
    <3> SUFFICES ASSUME NEW m \in at PROVE m <= x
      OBVIOUS
    <3>1. Len(h) - x <= Len(h) - m
      BY <2>2, <2>3
    <3> QED
      BY <1>1, <1>2, <3>1
  <2>5. last \in at /\ \A m \in at : m <= last
    BY <2>3, <2>4
  <2>6. ImportedGeneration(h, k) = h[last].record.gen
    BY <1>4 DEF ImportedGeneration, at
  <2> HIDE DEF last
  <2>7. ASSUME NEW n \in 1 .. Len(h), h[n].key = k PROVE h[n].record.gen <= h[last].record.gen
    <3>1. n \in at /\ last \in 1 .. Len(h) /\ h[last].key = k /\ n <= last
      BY <1>2, <2>5, <2>7
    <3>2. CASE n = last
      BY <1>1, <3>2
    <3>3. CASE n < last
      BY <1>1, <2>7, <3>1, <3>3 DEF Consecutive
    <3> QED
      BY <3>1, <3>2, <3>3
  <2>8. h[last].record.gen \in Nat
    BY <1>1, <1>2, <2>5
  <2> QED
    BY <2>6, <2>7, <2>8 DEF h
<1> QED
  BY <1>3, <1>4 DEF h

LEMMA CommitDevices ==
  ASSUME NEW image, DevicesTyped(image), Commit(image)
  PROVE  SubjectInv' /\ UnregisteredBlank'
<1>1. /\ registered' = image.registered /\ incarnation' = image.incarnation
      /\ family' = image.family /\ platform' = image.platform
      /\ generation' = image.generation /\ device_boot' = image.device_boot
      /\ platform_generation' = image.platform_generation /\ software' = image.software
      /\ axis_generation' = image.axis_generation /\ families' = StagedFamilies(image)
      /\ platforms' = image.platforms
  BY DEF Commit
<1>2. StagedFamilies(image) \subseteq Families
  BY DEF StagedFamilies, DevicesTyped, FamilyIds
<1> QED
  BY <1>1, <1>2 DEF DevicesTyped, SubjectInv, DeviceTypeOK, BootFollowsGeneration,
                    UnregisteredBlank

\* The registry holds what was read: a record for each of the history, and no other.
HoldsHistory(h) ==
  \A k \in Key : \A q \in records'[k] :
    \E n \in 1 .. Len(h) : h[n].key = k /\ q = Restored(h, n) /\ Reads(q, h, n)

LEMMA CommitRecords ==
  ASSUME NEW image, NEW granted, HistorySound(image, granted), Commit(image)
  PROVE  /\ HoldsHistory(image.history)
         /\ records' \in [Key -> SUBSET Stored]
<1> DEFINE h == image.history
<1>1. h \in Seq(HistoryRecord) /\ DOMAIN h = 1 .. Len(h)
  BY DEF HistorySound
<1>2. records' = [k \in Key |-> {Restored(h, n) : n \in Positions(h, k)}]
  BY DEF Commit
<1> HIDE DEF h
<1>3. \A k \in Key : \A n \in Positions(h, k) : n \in 1 .. Len(h) /\ h[n].key = k
  BY <1>1 DEF Positions
<1>4. \A n \in 1 .. Len(h) : Reads(Restored(h, n), h, n)
  BY <1>1, RestoredFields
<1>5. HoldsHistory(h)
  BY <1>2, <1>3, <1>4 DEF HoldsHistory
<1>6. records' \in [Key -> SUBSET Stored]
  <2>1. \A k \in Key : {Restored(h, n) : n \in Positions(h, k)} \subseteq Stored
    BY <1>3, <1>4 DEF Reads
  <2> QED
    BY <1>2, <2>1
<1> QED
  BY <1>5, <1>6 DEF h

(* A registry that import has filled is in the state a running one is in.  *)
LEMMA CommitInv ==
  ASSUME NEW image, SoundImage(image, spent), spent \subseteq Identity, Commit(image)
  PROVE  StoreInv' /\ WithinLimits' /\ EarlierProcessesOver' /\ spent' = spent
<1> DEFINE h == image.history
<1>1. DevicesTyped(image) /\ HistorySound(image, spent) /\ Bounded(image)
  BY DEF SoundImage
<1>2. /\ h \in Seq(HistoryRecord) /\ Len(h) \in Nat /\ DOMAIN h = 1 .. Len(h)
      /\ \A n \in 1 .. Len(h) : EntrySound(image, h[n], spent)
      /\ \A m, n \in 1 .. Len(h) : m < n => Consecutive(h[m], h[n])
  BY <1>1 DEF HistorySound
<1>3. /\ registered' = image.registered /\ generation' = image.generation
      /\ platform_generation' = image.platform_generation
      /\ axis_generation' = image.axis_generation
      /\ live' = {} /\ spent' = spent
      /\ keys' = {h[n].key : n \in DOMAIN h}
      /\ key_generation' = [k \in Key |-> ImportedGeneration(h, k)]
      /\ global_order' = [n \in DOMAIN h |-> [key |-> h[n].key, serial |-> n + 1]]
      /\ next_serial' = Len(h) + 1
  BY DEF Commit
<1>4. HoldsHistory(h) /\ records' \in [Key -> SUBSET Stored]
  BY <1>1, CommitRecords
<1>5. \A k \in Key : /\ ImportedGeneration(h, k) \in Nat
                     /\ \A n \in 1 .. Len(h) :
                          h[n].key = k => h[n].record.gen <= ImportedGeneration(h, k)
  BY <1>1, LastGeneration
<1>6. SubjectInv' /\ UnregisteredBlank'
  BY <1>1, CommitDevices
<1> HIDE DEF h
<1>7. \A n \in 1 .. Len(h) : h[n] \in HistoryRecord /\ h[n].key \in Key /\ h[n].record.gen \in Nat
  <2>1. \A n \in 1 .. Len(h) : h[n] \in HistoryRecord
    BY <1>2
  <2>2. \A e \in HistoryRecord : e.key \in Key /\ e.record.gen \in Nat
    BY DEF HistoryRecord, Stored
  <2> QED
    BY <2>1, <2>2
<1>8. StoreTypeOK'
  <2>1. keys' \subseteq Key
    BY <1>2, <1>3, <1>7
  <2>2. key_generation' \in [Key -> Nat]
    BY <1>3, <1>5
  <2>3. global_order' \in Seq(Entry)
    <3>1. \A n \in 1 .. Len(h) : [key |-> h[n].key, serial |-> n + 1] \in Entry
      BY <1>7 DEF Entry
    <3> QED
      BY <1>2, <1>3, <3>1
  <2>4. next_serial' \in Nat
    BY <1>2, <1>3
  <2> QED
    BY <1>3, <1>4, <1>6, <2>1, <2>2, <2>3, <2>4 DEF StoreTypeOK
<1>9. ASSUME NEW k \in Key, NEW q \in records'[k]
      PROVE  \E n \in 1 .. Len(h) : h[n].key = k /\ q = Restored(h, n) /\ Reads(q, h, n)
  BY <1>4 DEF HoldsHistory
<1>10. SerialsApart'
  <2>1. ASSUME NEW k \in Key, NEW q \in records'[k], NEW r \in records'[k], q.serial = r.serial
        PROVE  q = r
    <3>1. PICK m \in 1 .. Len(h) : q = Restored(h, m) /\ Reads(q, h, m)
      BY <1>9
    <3>2. PICK n \in 1 .. Len(h) : r = Restored(h, n) /\ Reads(r, h, n)
      BY <1>9
    <3>3. m = n
      BY <2>1, <3>1, <3>2 DEF Reads
    <3> QED
      BY <3>1, <3>2, <3>3
  <2>2. ASSUME NEW k \in Key, NEW r \in records'[k] PROVE r.slot \notin PublishedSlots
    BY <1>9, SlotsApart DEF Reads
  <2> QED
    BY <2>1, <2>2 DEF SerialsApart, Apart
<1>11. GenerationsReached'
  <2> SUFFICES ASSUME NEW k \in Key, NEW r \in records'[k] PROVE r.gen <= key_generation'[k]
    BY DEF GenerationsReached
  <2>1. PICK n \in 1 .. Len(h) : h[n].key = k /\ Reads(r, h, n)
    BY <1>9
  <2> QED
    BY <1>3, <1>5, <2>1 DEF Reads, Resembles
<1>12. StampedOnce'
  <2> SUFFICES ASSUME NEW k \in Key, NEW r \in records'[k]
               PROVE  /\ r.identity \in spent'
                      /\ r.device_boot = r.device_generation
                      /\ r.device_generation <= generation'[k[1]]
                      /\ r.platform_generation <= platform_generation'[k[1]]
                      /\ \A a \in Axes : r.axes[a] <= axis_generation'[k[1]][a]
    BY DEF StampedOnce
  <2>1. PICK n \in 1 .. Len(h) : h[n].key = k /\ Reads(r, h, n)
    BY <1>9
  <2>2. EntrySound(image, h[n], spent) /\ Resembles(r, h[n].record)
    BY <1>2, <2>1 DEF Reads
  <2> QED
    BY <1>3, <2>1, <2>2 DEF EntrySound, Resembles
<1>13. GenerationNamesOneClaim'
  <2> SUFFICES ASSUME NEW k \in Key, NEW q \in records'[k], NEW r \in records'[k], q.gen = r.gen
               PROVE  q.claim = r.claim /\ q.device_generation = r.device_generation
    BY DEF GenerationNamesOneClaim
  <2>1. PICK m \in 1 .. Len(h) : h[m].key = k /\ q = Restored(h, m) /\ Reads(q, h, m)
    BY <1>9
  <2>2. PICK n \in 1 .. Len(h) : h[n].key = k /\ r = Restored(h, n) /\ Reads(r, h, n)
    BY <1>9
  <2>3. Resembles(q, h[m].record) /\ Resembles(r, h[n].record)
    BY <2>1, <2>2 DEF Reads
  <2>4. m < n => Consecutive(h[m], h[n])
    BY <1>2
  <2>5. n < m => Consecutive(h[n], h[m])
    BY <1>2
  <2>6. m < n \/ n < m \/ m = n
    OBVIOUS
  <2>7. CASE m = n
    BY <2>1, <2>2, <2>7
  <2>8. CASE m < n
    BY <2>1, <2>2, <2>3, <2>4, <2>8 DEF Consecutive, Resembles
  <2>9. CASE n < m
    BY <2>1, <2>2, <2>3, <2>5, <2>9 DEF Consecutive, Resembles
  <2> QED
    BY <2>6, <2>7, <2>8, <2>9
<1>14. StoreInv'
  <2>1. OneIdentityEach'
    BY <1>3 DEF OneIdentityEach
  <2> QED
    BY <1>8, <1>10, <1>11, <1>12, <1>13, <2>1 DEF StoreInv
<1>15. WithinLimits'
  <2> DEFINE f == [n \in 1 .. Len(h) |-> <<h[n].key, Restored(h, n)>>]
  <2>1. Held(records') \subseteq {f[n] : n \in 1 .. Len(h)}
    <3> SUFFICES ASSUME NEW k \in Key, NEW q \in records'[k]
                 PROVE  \E n \in 1 .. Len(h) : <<k, q>> = f[n]
      BY HeldMembers
    <3>1. PICK n \in 1 .. Len(h) : h[n].key = k /\ q = Restored(h, n)
      BY <1>9
    <3> QED
      BY <3>1
  <2> HIDE DEF f
  <2>2. IsFiniteSet(1 .. Len(h)) /\ Cardinality(1 .. Len(h)) <= Len(h)
    <3> DEFINE l == Len(h)
    <3>1. 1 \in Int /\ l \in Int /\ l \in Nat
      BY <1>2
    <3> HIDE DEF l
    <3>2. IsFiniteSet(1 .. l) /\ Cardinality(1 .. l) = IF 1 > l THEN 0 ELSE l - 1 + 1
      BY <3>1, FS_Interval
    <3>3. Cardinality(1 .. l) <= l
      BY <3>1, <3>2
    <3> QED
      BY <3>2, <3>3 DEF l
  <2>3. /\ IsFiniteSet(Held(records')) /\ Cardinality(Held(records')) \in Nat
        /\ Cardinality(1 .. Len(h)) \in Nat
        /\ Cardinality(Held(records')) <= Cardinality(1 .. Len(h))
    BY <2>1, <2>2, ImageCount
  <2>4. Len(h) <= MaxHistory /\ MaxHistory \in Nat
    BY <1>1, EvidenceConstants DEF Bounded, h
  <2>5. Cardinality(Held(records')) <= MaxHistory
    BY <1>2, <2>2, <2>3, <2>4
  <2>6. IsFiniteSet(registered') /\ Cardinality(registered') <= MaxDevices
    BY <1>1, <1>3 DEF Bounded
  <2>7. ASSUME NEW k \in Key, records'[k] # {} PROVE k \in keys' /\ k[1] \in registered'
    <3>1. PICK n \in 1 .. Len(h) : h[n].key = k
      BY <1>9, <2>7
    <3> QED
      BY <1>2, <1>3, <3>1 DEF EntrySound
  <2> QED
    BY <2>3, <2>5, <2>6, <2>7 DEF WithinLimits, Held
<1>16. EarlierProcessesOver'
  BY <1>3 DEF EarlierProcessesOver
<1> QED
  BY <1>3, <1>14, <1>15, <1>16

--------------------------------------------------------------------------------
(* The process and its file.                                               *)

LEMMA HaltInv ==
  ASSUME StoreInv, Halt
  PROVE  StoreInv' /\ WithinLimits' /\ EarlierProcessesOver' /\ spent' = spent /\ phase' = "down"
<1>1. Commit(Empty) /\ phase' = "down"
  BY DEF Halt
<1>2. spent \subseteq Identity
  BY DEF StoreInv, StoreTypeOK
<1> QED
  BY <1>1, <1>2, CommitInv, EmptySound

LEMMA RecoveryInvInit == RecoveryInit => RecoveryInv
<1> SUFFICES ASSUME RecoveryInit PROVE RecoveryInv
  OBVIOUS
<1>1. StoreInv /\ phase = "up" /\ file = NoFile
  BY StoreInvInit DEF RecoveryInit
<1>2. records = [k \in Key |-> {}] /\ registered = {}
  BY DEF RecoveryInit, Init, DeviceInit
<1>3. Held(records) = {}
  BY <1>2 DEF Held
<1>4. WithinLimits
  <2>1. MaxDevices \in Nat /\ MaxHistory \in Nat
    BY DeviceConstants, EvidenceConstants
  <2>2. IsFiniteSet({}) /\ Cardinality({}) = 0
    BY FS_EmptySet
  <2>3. \A k \in Key : records[k] = {}
    BY <1>2
  <2>4. /\ IsFiniteSet(registered) /\ Cardinality(registered) <= MaxDevices
        /\ IsFiniteSet(Held(records)) /\ Cardinality(Held(records)) <= MaxHistory
    BY <1>2, <1>3, <2>1, <2>2
  <2> QED
    BY <2>3, <2>4 DEF WithinLimits
<1>5. EarlierProcessesOver
  BY <1>2 DEF EarlierProcessesOver
<1> QED
  BY <1>1, <1>4, <1>5 DEF RecoveryInv, ImagesSound

LEMMA RecoveryInvNext ==
  ASSUME RecoveryInv, [RecoveryNext]_allVars
  PROVE  RecoveryInv'
<1>1. StoreInv /\ WithinLimits /\ EarlierProcessesOver /\ ImagesSound
      /\ phase \in {"up", "writing", "written", "down"}
  BY DEF RecoveryInv
<1>2. spent \subseteq Identity
  BY <1>1 DEF StoreInv, StoreTypeOK
<1>3. CASE RegistryStep
  <2>1. UNCHANGED recoveryVars /\ Next
    BY <1>3 DEF RegistryStep
  <2>2. StoreInv' /\ WithinLimits' /\ EarlierProcessesOver' /\ spent \subseteq spent'
    BY <1>1, <2>1, StoreInvNext, RegistryLimits
  <2>3. phase' = phase /\ file' = file /\ temporary' = temporary
    BY <2>1 DEF recoveryVars
  <2>4. ImagesSound'
    BY <1>1, <2>2, <2>3, SoundLater DEF ImagesSound
  <2> QED
    BY <1>1, <2>2, <2>3, <2>4 DEF RecoveryInv
<1>4. CASE Shutdown
  <2>1. PICK h \in Histories : temporary' = [whole |-> FALSE, image |-> Export(h)]
    BY <1>4 DEF Shutdown
  <2>2. /\ phase' = "writing" /\ live' = {} /\ file' = file
        /\ UNCHANGED <<deviceVars, spent, evidenceVars>>
    BY <1>4 DEF Shutdown
  <2>3. temporary'.image = Export(h) /\ "image" \in DOMAIN temporary'
    BY <2>1
  <2>4. SoundImage(Export(h), spent)
    BY <1>1, ExportSound
  <2>5. ImagesSound'
    BY <1>1, <2>2, <2>3, <2>4 DEF ImagesSound
  <2>6. SubjectInv' /\ UnregisteredBlank'
    BY <1>1, <2>2 DEF StoreInv, StoreTypeOK, SubjectInv, UnregisteredBlank, DeviceTypeOK,
                      BootFollowsGeneration, deviceVars
  <2>7. StoreInv'
    BY <1>1, <2>2, <2>6 DEF StoreInv, StoreTypeOK, OneIdentityEach, SerialsApart,
         GenerationsReached, StampedOnce, GenerationNamesOneClaim, evidenceVars, deviceVars
  <2>8. WithinLimits' /\ EarlierProcessesOver'
    BY <1>1, <2>2 DEF WithinLimits, Held, EarlierProcessesOver, evidenceVars, deviceVars
  <2> QED
    BY <2>2, <2>5, <2>7, <2>8 DEF RecoveryInv
<1>5. CASE Write \/ UNCHANGED allVars
  <2>1. UNCHANGED vars /\ file' = file /\ phase' \in {phase, "written"}
        /\ (phase' = "written" => phase \in {"writing", "written"})
        /\ phase' \in {"up", "writing", "written", "down"}
    BY <1>1, <1>5 DEF Write, allVars, recoveryVars
  <2>2. phase' \in {"writing", "written"} =>
          temporary'.image = temporary.image /\ "image" \in DOMAIN temporary'
    BY <1>1, <1>5 DEF Write, allVars, recoveryVars, ImagesSound
  <2>3. StoreInv'
    BY <1>1, <2>1, StoreInvStutter
  <2>4. WithinLimits' /\ EarlierProcessesOver'
    BY <1>1, <2>1 DEF WithinLimits, Held, EarlierProcessesOver, vars, evidenceVars, deviceVars
  <2>5. ImagesSound'
    BY <1>1, <2>1, <2>2 DEF ImagesSound, vars
  <2> QED
    BY <2>1, <2>3, <2>4, <2>5 DEF RecoveryInv
<1>6. CASE Replace
  <2>1. file' = temporary.image /\ phase = "written" /\ Halt
    BY <1>6 DEF Replace
  <2>2. StoreInv' /\ WithinLimits' /\ EarlierProcessesOver' /\ spent' = spent /\ phase' = "down"
    BY <1>1, <2>1, HaltInv
  <2>3. ImagesSound'
    BY <1>1, <2>1, <2>2 DEF ImagesSound
  <2> QED
    BY <2>2, <2>3 DEF RecoveryInv
<1>7. CASE SaveFails \/ Crash
  <2>1. file' = file /\ Halt
    BY <1>7 DEF SaveFails, Crash
  <2>2. StoreInv' /\ WithinLimits' /\ EarlierProcessesOver' /\ spent' = spent /\ phase' = "down"
    BY <1>1, <2>1, HaltInv
  <2>3. ImagesSound'
    BY <1>1, <2>1, <2>2 DEF ImagesSound
  <2> QED
    BY <2>2, <2>3 DEF RecoveryInv
<1>8. CASE Start
  <2> DEFINE image == IF file = NoFile THEN Empty ELSE file
  <2>1. Commit(image) /\ file' = file /\ phase' = "up"
    BY <1>8 DEF Start
  <2>2. SoundImage(image, spent)
    BY <1>1, EmptySound DEF ImagesSound
  <2> HIDE DEF image
  <2>3. StoreInv' /\ WithinLimits' /\ EarlierProcessesOver' /\ spent' = spent
    BY <1>2, <2>1, <2>2, CommitInv
  <2>4. ImagesSound'
    BY <1>1, <2>1, <2>3 DEF ImagesSound
  <2> QED
    BY <2>1, <2>3, <2>4 DEF RecoveryInv
<1> QED
  BY <1>3, <1>4, <1>5, <1>6, <1>7, <1>8 DEF RecoveryNext

--------------------------------------------------------------------------------
(* Theorems.                                                               *)

(* The file is the image of the last save that succeeded, wherever the     *)
(* process dies in a later one: only the rename touches it.                *)
THEOREM FileHoldsLastSave == RecoverySpec => []FileIsLastSave
<1>1. RecoveryInit => FileIsLastSave
  BY DEF RecoveryInit, FileIsLastSave
<1>2. FileIsLastSave /\ [RecoveryNext]_allVars => FileIsLastSave'
  <2> SUFFICES ASSUME FileIsLastSave, [RecoveryNext]_allVars PROVE FileIsLastSave'
    OBVIOUS
  <2>1. CASE RegistryStep
    BY <2>1 DEF RegistryStep, recoveryVars, FileIsLastSave
  <2>2. CASE Shutdown \/ Write \/ Replace \/ SaveFails \/ Crash \/ Start
    BY <2>2 DEF Shutdown, Write, Replace, SaveFails, Crash, Start, FileIsLastSave
  <2>3. CASE UNCHANGED allVars
    BY <2>3 DEF allVars, recoveryVars, FileIsLastSave
  <2> QED
    BY <2>1, <2>2, <2>3 DEF RecoveryNext
<1> QED
  BY <1>1, <1>2, PTL DEF RecoverySpec

LEMMA RecoveryInvariant == RecoverySpec => []RecoveryInv
<1>1. RecoveryInv /\ [RecoveryNext]_allVars => RecoveryInv'
  BY RecoveryInvNext
<1> QED
  BY <1>1, RecoveryInvInit, PTL DEF RecoverySpec

(* A capability generation names one claim in every later process too,     *)
(* although import sets a key's counter from the last record it reads.     *)
THEOREM GenerationsOutliveRestarts == RecoverySpec => []GenerationNamesOneClaim
<1>1. RecoveryInv => GenerationNamesOneClaim
  BY DEF RecoveryInv, StoreInv
<1> QED
  BY <1>1, RecoveryInvariant, PTL

(* Evidence of a live process is over with the process: no restart and no  *)
(* later registration makes it current again.                              *)
THEOREM LivenessIsNotRestored == RecoverySpec => []LiveEvidenceEndsWithProcess
<1>1. RecoveryInv => LiveEvidenceEndsWithProcess
  <2> SUFFICES ASSUME RecoveryInv, NEW k \in Key, NEW r \in records[k], Restarted(r), LiveBound(r)
               PROVE  r \notin Candidates(k)
    BY DEF LiveEvidenceEndsWithProcess
  <2>1. r.slot \in RestoredSlots
    <3>1. r \in Stored
      BY DEF RecoveryInv, StoreInv, StoreTypeOK
    <3>2. r.slot \in PublishedSlots \cup RestoredSlots
      BY <3>1 DEF Stored
    <3>3. Len(r.slot) = 5
      BY DEF Restarted
    <3> QED
      BY <3>2, <3>3, SlotLength
  <2>2. r.identity \notin live
    BY <2>1 DEF RecoveryInv, EarlierProcessesOver
  <2>3. Raised("PublisherFenced", k[1], r, generation[k[1]])
    BY <2>2 DEF Raised, Moved
  <2>4. "PublisherFenced" \in StalenessFlags
    BY DEF StalenessFlags
  <2>5. Stale(k[1], r)
    BY <2>3, <2>4 DEF Stale, StaleFor
  <2> QED
    BY <2>5 DEF Candidates
<1> QED
  BY <1>1, RecoveryInvariant, PTL

\* There is room for all families there are.
FamiliesFit == IsFiniteSet(Families) /\ Cardinality(Families) <= MaxFamilies

(* Every image that the registry saved passes every check of import: the   *)
(* order that the sort leaves, the limits, the sources, the generations.   *)
(* Families are counted by first registrations only, so that there must be *)
(* room for all of them.                                                   *)
THEOREM WrittenImagesLoad == ASSUME FamiliesFit PROVE RecoverySpec => []ImagesLoad
<1>1. RecoveryInv => ImagesLoad
  <2> SUFFICES ASSUME RecoveryInv, file # NoFile PROVE Acceptable(file)
    BY DEF ImagesLoad
  <2> DEFINE h == file.history
  <2>1. DevicesTyped(file) /\ HistorySound(file, spent) /\ Bounded(file)
    BY DEF RecoveryInv, ImagesSound, SoundImage
  <2>2. /\ h \in Seq(HistoryRecord) /\ Len(h) \in Nat /\ DOMAIN h = 1 .. Len(h)
        /\ \A n \in 1 .. Len(h) : EntrySound(file, h[n], spent)
        /\ \A m, n \in 1 .. Len(h) : m < n => Consecutive(h[m], h[n])
    BY <2>1 DEF HistorySound
  <2>3. Cardinality(StagedFamilies(file)) <= MaxFamilies
    <3>1. StagedFamilies(file) \subseteq Families
      BY <2>1 DEF StagedFamilies, DevicesTyped, FamilyIds
    <3>2. /\ IsFiniteSet(StagedFamilies(file))
          /\ Cardinality(StagedFamilies(file)) <= Cardinality(Families)
      BY <3>1, FS_Subset DEF FamiliesFit
    <3>3. Cardinality(StagedFamilies(file)) \in Nat /\ Cardinality(Families) \in Nat
      BY <3>2, FS_CardinalityType DEF FamiliesFit
    <3> QED
      BY <3>2, <3>3, DeviceConstants DEF FamiliesFit
  <2>4. Cardinality(file.registered) <= MaxDevices /\ Len(h) <= MaxHistory
    BY <2>1 DEF Bounded
  <2> HIDE DEF h
  <2>5. ASSUME NEW n \in 1 .. Len(h)
        PROVE  /\ SourceValid(h[n].record.source)
               /\ h[n].key[1] \in file.registered
               /\ h[n].record.device_generation <= file.generation[h[n].key[1]]
    <3>1. h[n] \in HistoryRecord
      BY <2>2
    <3>2. h[n].record.source \in Sources
      BY <3>1 DEF HistoryRecord, Stored
    <3>3. SourceValid(h[n].record.source)
      BY <3>2, EvidenceConstants
    <3> QED
      BY <2>2, <3>3 DEF EntrySound
  <2>6. ASSUME NEW n \in 1 .. Len(h), NEW m \in 1 .. n - 1, h[m].key = h[n].key
        PROVE  h[m].record.gen <= h[n].record.gen
    <3>1. m \in 1 .. Len(h) /\ m < n
      BY <2>2
    <3>2. Consecutive(h[m], h[n])
      BY <2>2, <3>1
    <3> QED
      BY <2>6, <3>2 DEF Consecutive
  <2> QED
    BY <2>2, <2>3, <2>4, <2>5, <2>6 DEF Acceptable, h
<1> QED
  BY <1>1, RecoveryInvariant, PTL

(* What was withdrawn, or was stale because its device or the software it  *)
(* depends on had moved on, is not current after a restart.                *)
THEOREM StalenessSurvivesRestart == RecoverySpec => RestartKeepsDeviceStaleness
<1> DEFINE Outdated(old, image, d) ==
      \/ old.withdrawn
      \/ old.device_generation # image.generation[d]
      \/ \E a \in old.claim.gates \ {"runtime"} :
           old.axes[a] \notin {0, image.axis_generation[d][a]}
<1>1. ASSUME RecoveryInv, Start, NEW image, image = file, image # NoFile,
             NEW n \in DOMAIN image.history, NEW k, NEW d, NEW old,
             k = image.history[n].key, d = k[1], old = image.history[n].record,
             Outdated(old, image, d), NEW r \in records'[k], ~Stale(d, r)', r.serial = n + 1
      PROVE  FALSE
  <2> DEFINE h == image.history
  <2>1. SoundImage(image, spent) /\ Commit(image)
    BY <1>1 DEF RecoveryInv, ImagesSound, Start
  <2>2. HistorySound(image, spent) /\ HoldsHistory(h)
    BY <2>1, CommitRecords DEF SoundImage
  <2>3. h \in Seq(HistoryRecord) /\ n \in 1 .. Len(h) /\ h[n] \in HistoryRecord
    <3>1. h \in Seq(HistoryRecord) /\ n \in DOMAIN h
      BY <1>1, <2>2 DEF HistorySound
    <3> HIDE DEF h
    <3> QED
      BY <3>1
  <2>4. k \in Key /\ old \in Stored
    BY <1>1, <2>3 DEF HistoryRecord
  <2>5. PICK m \in 1 .. Len(h) : h[m].key = k /\ Reads(r, h, m)
    BY <1>1, <2>2, <2>4 DEF HoldsHistory
  <2>6. m = n
    <3>1. m + 1 = n + 1
      BY <1>1, <2>5 DEF Reads
    <3>2. m \in Int /\ n \in Int
      BY <2>3
    <3> QED
      BY <3>1, <3>2
  <2>7. Resembles(r, old)
    BY <1>1, <2>5, <2>6 DEF Reads
  <2>8. generation' = image.generation /\ axis_generation' = image.axis_generation
    BY <2>1 DEF Commit
  <2>9. old.claim.gates \subseteq Axes
    BY <2>4, EvidenceConstants DEF Stored, NoClaim
  <2> HIDE DEF h, Outdated
  <2>10. \A f \in StalenessFlags : ~Raised(f, d, r, generation[d])'
    BY <1>1 DEF Stale, StaleFor
  <2>11. ~r.withdrawn
    <3>1. ~Raised("Withdrawn", d, r, generation[d])'
      BY <2>10 DEF StalenessFlags
    <3> QED
      BY <3>1 DEF Raised
  <2>12. r.device_generation = generation'[d]
    <3>1. ~Raised("DeviceGenerationSuperseded", d, r, generation[d])'
      BY <2>10 DEF StalenessFlags
    <3> QED
      BY <3>1 DEF Raised
  <2>13. ~AxisMoved(d, r, "driver")' /\ ~AxisMoved(d, r, "firmware")'
    <3>1. /\ ~Raised("DriverGenerationChanged", d, r, generation[d])'
          /\ ~Raised("FirmwareGenerationChanged", d, r, generation[d])'
      BY <2>10 DEF StalenessFlags
    <3> QED
      BY <3>1 DEF Raised, Moved
  <2>14. PICK a \in old.claim.gates \ {"runtime"} : old.axes[a] \notin {0, image.axis_generation[d][a]}
    BY <1>1, <2>7, <2>8, <2>11, <2>12 DEF Outdated, Resembles
  <2>15. a \in {"driver", "firmware"} /\ a # "runtime" /\ a \in r.claim.gates
    BY <2>7, <2>9, <2>14 DEF Axes, Resembles
  <2>16. r.axes[a] # 0 /\ r.axes[a] # axis_generation'[d][a]
    BY <2>7, <2>8, <2>14 DEF Resembles
  <2>17. AxisMoved(d, r, a)'
    BY <2>15, <2>16 DEF AxisMoved
  <2> QED
    BY <2>13, <2>15, <2>17
<1>2. RecoveryInv /\ [RecoveryNext]_allVars =>
        [phase = "down" /\ phase' = "up" /\ file # NoFile =>
           \A n \in DOMAIN file.history :
             LET old == file.history[n].record
                 d == file.history[n].key[1]
                 moved == \/ old.withdrawn
                          \/ old.device_generation # file.generation[d]
                          \/ \E a \in old.claim.gates \ {"runtime"} :
                               old.axes[a] \notin {0, file.axis_generation[d][a]}
             IN moved => \A r \in Candidates(file.history[n].key)' : r.serial # n + 1]_allVars
  <2> SUFFICES ASSUME RecoveryInv, RecoveryNext, phase = "down", phase' = "up", file # NoFile,
                      NEW n \in DOMAIN file.history,
                      Outdated(file.history[n].record, file, file.history[n].key[1]),
                      NEW r \in Candidates(file.history[n].key)'
               PROVE  r.serial # n + 1
    OBVIOUS
  <2>1. Start
    BY DEF RecoveryNext, RegistryStep, recoveryVars, Shutdown, Write, Replace, SaveFails, Crash, Halt
  <2>2. PICK image : image = file /\ image = file'
    BY <2>1 DEF Start
  <2>3. PICK k, d, old : /\ k = image.history[n].key /\ d = k[1]
                         /\ old = image.history[n].record
    OBVIOUS
  <2>4. Outdated(old, image, d)
    BY <2>2, <2>3
  <2>5. r \in records'[k] /\ ~Stale(d, r)'
    BY <2>2, <2>3 DEF Candidates
  <2> HIDE DEF Outdated
  <2> QED
    BY <1>1, <2>1, <2>2, <2>3, <2>4, <2>5
<1> QED
  BY <1>2, RecoveryInvariant, PTL DEF RecoverySpec, RestartKeepsDeviceStaleness

===================================================================================
