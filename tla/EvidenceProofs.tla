------------------------------ MODULE EvidenceProofs ------------------------------
(***************************************************************************)
(* Theorems about the evidence store, for every set of devices, publishers,*)
(* sources and claims and every limit.                                     *)
(*                                                                         *)
(* The argument has four parts.  (1) Eviction, a loop over the order of    *)
(* arrival, only removes records, and only records that have a newer one   *)
(* in their slot.  (2) The winner of a join exists and is one of the       *)
(* candidates.  (3) So a step leaves every record as it was, except that   *)
(* it may be marked superseded, or removes it, or adds the one that was    *)
(* published.  (4) Every conjunct of the invariants below is kept by such  *)
(* a step, by a device report and by a change of authority.                *)
(***************************************************************************)
EXTENDS EvidenceAnswers, DeviceRegistryProofs

--------------------------------------------------------------------------------
(* Eviction.                                                               *)

(* The loop's recursive function is what its definition says.              *)
LEMMA TurnsExist ==
  ASSUME NEW recs, NEW order, Len(order) \in Nat
  PROVE  /\ Turns(recs, order)[0] = [records |-> recs, order |-> <<>>]
         /\ \A n \in Nat : n + 1 <= Len(order) =>
              Turns(recs, order)[n + 1] = Take(Turns(recs, order)[n], order[n + 1])
<1> DEFINE base == [records |-> recs, order |-> <<>>]
           Upto(n, g) == g = [m \in 0 .. n |-> IF m = 0 THEN base ELSE Take(g[m - 1], order[m])]
           S == {n \in Nat : \E g : Upto(n, g)}
<1>1. 0 \in S
  <2> DEFINE g == [m \in 0 .. 0 |-> base]
  <2>1. Upto(0, g)
    OBVIOUS
  <2> QED
    BY <2>1
<1>2. ASSUME NEW n \in Nat, n \in S PROVE n + 1 \in S
  <2>1. PICK g : Upto(n, g)
    BY <1>2
  <2> DEFINE h == [m \in 0 .. n + 1 |-> IF m = n + 1 THEN Take(g[n], order[n + 1]) ELSE g[m]]
  <2>2. ASSUME NEW m \in 0 .. n + 1
        PROVE  h[m] = IF m = 0 THEN base ELSE Take(h[m - 1], order[m])
    <3> HIDE DEF base
    <3>1. CASE m = n + 1
      <4>1. h[m] = Take(g[n], order[n + 1]) /\ h[n] = g[n] /\ m # 0 /\ m - 1 = n
        BY <3>1
      <4> QED
        BY <4>1, <3>1
    <3>2. CASE m # n + 1
      <4>1. h[m] = g[m] /\ m \in 0 .. n
        BY <3>2
      <4>2. m # 0 => h[m - 1] = g[m - 1]
        BY <3>2
      <4>3. g[m] = IF m = 0 THEN base ELSE Take(g[m - 1], order[m])
        BY <2>1, <4>1
      <4> QED
        BY <4>1, <4>2, <4>3
    <3> QED
      BY <3>1, <3>2
  <2>3. Upto(n + 1, h)
    <3> HIDE DEF base
    <3>1. h = [m \in 0 .. n + 1 |-> h[m]]
      OBVIOUS
    <3> HIDE DEF h
    <3> QED
      BY <2>2, <3>1
  <2>4. n + 1 \in Nat
    OBVIOUS
  <2>5. \E f : Upto(n + 1, f)
    <3> HIDE DEF Upto
    <3> QED
      BY <2>3
  <2> QED
    BY <2>4, <2>5, Zenon
<1>3. Len(order) \in S
  <2> HIDE DEF S
  <2> QED
    BY <1>1, <1>2, SetInduction
<1>4. Upto(Len(order), Turns(recs, order))
  BY <1>3 DEF Turns
<1> DEFINE T == Turns(recs, order)
<1> HIDE DEF base, T
<1>5. T[0] = base
  BY <1>4 DEF T
<1>6. ASSUME NEW n \in Nat, n + 1 <= Len(order) PROVE T[n + 1] = Take(T[n], order[n + 1])
  <2>1. n + 1 \in 0 .. Len(order) /\ n + 1 # 0 /\ (n + 1) - 1 = n
    BY <1>6
  <2> QED
    BY <1>4, <2>1 DEF T
<1> QED
  BY <1>5, <1>6 DEF T, base

Entry == [key : Key, serial : Nat]

\* Eviction has left this of recs: nothing else, and all that is newest in its slot.
Remains(recs, left) ==
  /\ left = [k \in Key |-> left[k]]
  /\ \A k \in Key : left[k] \subseteq recs[k]
  /\ \A k \in Key : \A r \in recs[k] : ~SupersededIn(recs[k], r) => r \in left[k]

LEMMA ConsumedRemains ==
  ASSUME NEW recs, NEW part, part \subseteq recs, NEW serial,
         \A r \in recs : ~SupersededIn(recs, r) => r \in part
  PROVE  /\ Consumed(part, serial) \subseteq recs
         /\ \A r \in recs : ~SupersededIn(recs, r) => r \in Consumed(part, serial)
<1>1. Consumed(part, serial) \subseteq part
  BY DEF Consumed
<1>2. ASSUME NEW r \in part, r \notin Consumed(part, serial) PROVE SupersededIn(recs, r)
  <2>1. SupersededIn(part, r)
    BY <1>2 DEF Consumed
  <2> QED
    BY <2>1 DEF SupersededIn
<1> QED
  BY <1>1, <1>2

LEMMA TakeRemains ==
  ASSUME NEW recs, NEW acc, NEW e \in Entry, Remains(recs, acc.records), acc.order \in Seq(Entry)
  PROVE  Remains(recs, Take(acc, e).records) /\ Take(acc, e).order \in Seq(Entry)
<1>1. CASE EvidenceCount(acc.records) < MaxHistory
  BY <1>1 DEF Take
<1>2. CASE ~(EvidenceCount(acc.records) < MaxHistory)
  <2> DEFINE left == [acc.records EXCEPT ![e.key] = Consumed(@, e.serial)]
  <2>1. Take(acc, e).records = left /\ Take(acc, e).order = acc.order
    BY <1>2 DEF Take
  <2>2. e.key \in Key
    BY DEF Entry
  <2>3. left = [k \in Key |-> left[k]]
    BY DEF Remains
  <2>4. \A k \in Key : left[k] = IF k = e.key THEN Consumed(acc.records[k], e.serial)
                                ELSE acc.records[k]
    BY DEF Remains
  <2> HIDE DEF left
  <2>5. ASSUME NEW k \in Key
        PROVE  /\ left[k] \subseteq recs[k]
               /\ \A r \in recs[k] : ~SupersededIn(recs[k], r) => r \in left[k]
    BY <2>4, ConsumedRemains DEF Remains
  <2> QED
    BY <2>1, <2>3, <2>5 DEF Remains
<1> QED
  BY <1>1, <1>2

LEMMA TurnsRemain ==
  ASSUME NEW recs, recs = [k \in Key |-> recs[k]], NEW order \in Seq(Entry)
  PROVE  LET taken == Turns(recs, order)[Len(order)]
         IN Remains(recs, taken.records) /\ taken.order \in Seq(Entry)
<1> DEFINE T == Turns(recs, order)
           Good(acc) == Remains(recs, acc.records) /\ acc.order \in Seq(Entry)
           S == {n \in Nat : n <= Len(order) => Good(T[n])}
<1>1. Len(order) \in Nat /\ \A n \in 1 .. Len(order) : order[n] \in Entry
  OBVIOUS
<1>2. /\ T[0] = [records |-> recs, order |-> <<>>]
      /\ \A n \in Nat : n + 1 <= Len(order) => T[n + 1] = Take(T[n], order[n + 1])
  BY <1>1, TurnsExist
<1> HIDE DEF T
<1>3. 0 \in S
  <2>1. Good([records |-> recs, order |-> <<>>])
    BY DEF Remains
  <2> QED
    BY <1>2, <2>1
<1>4. ASSUME NEW n \in Nat, n \in S PROVE n + 1 \in S
  <2> SUFFICES ASSUME n + 1 <= Len(order) PROVE Good(T[n + 1])
    OBVIOUS
  <2>1. Good(T[n]) /\ order[n + 1] \in Entry
    BY <1>1, <1>4
  <2> QED
    BY <1>2, <2>1, TakeRemains
<1>5. Len(order) \in S
  <2> HIDE DEF S
  <2> QED
    BY <1>1, <1>3, <1>4, SetInduction
<1> QED
  BY <1>1, <1>5 DEF T

(* evict_if_needed_locked: no record that is the newest of its slot is lost *)
(* and none is made up.                                                    *)
LEMMA EvictRemains ==
  ASSUME NEW recs, recs = [k \in Key |-> recs[k]], NEW order \in Seq(Entry)
  PROVE  /\ Remains(recs, Evict(recs, order).records)
         /\ Evict(recs, order).order \in Seq(Entry)
<1> DEFINE trimmed == [k \in Key |-> Trimmed(recs[k])]
           taken == Turns(trimmed, order)[Len(order)]
           excess == Len(taken.order) - 4 * MaxHistory
<1>1. Remains(recs, trimmed)
  BY DEF Remains, Trimmed
<1>2. Remains(trimmed, taken.records) /\ taken.order \in Seq(Entry)
  <2> HIDE DEF trimmed
  <2>1. trimmed = [k \in Key |-> trimmed[k]]
    BY <1>1 DEF Remains
  <2> QED
    BY <2>1, TurnsRemain
<1>3. Remains(recs, taken.records)
  <2> HIDE DEF trimmed, taken
  <2>1. ASSUME NEW k \in Key, NEW r \in recs[k], ~SupersededIn(recs[k], r)
        PROVE  r \in taken.records[k]
    <3>1. r \in trimmed[k] /\ trimmed[k] \subseteq recs[k]
      BY <1>1, <2>1 DEF Remains
    <3>2. ~SupersededIn(trimmed[k], r)
      BY <2>1, <3>1 DEF SupersededIn
    <3> QED
      BY <1>2, <3>1, <3>2 DEF Remains
  <2> QED
    BY <1>1, <1>2, <2>1 DEF Remains
<1>4. /\ Evict(recs, order).records = taken.records
      /\ Evict(recs, order).order = IF excess > 0 THEN SubSeq(taken.order, excess + 1, Len(taken.order))
                                   ELSE taken.order
  BY DEF Evict
<1>5. excess > 0 => SubSeq(taken.order, excess + 1, Len(taken.order)) \in Seq(Entry)
  <2> HIDE DEF taken
  <2>1. Len(taken.order) \in Nat /\ MaxHistory \in Nat /\ excess \in Int
    BY <1>2, EvidenceConstants
  <2> HIDE DEF excess
  <2> QED
    BY <1>2, <2>1
<1> QED
  BY <1>2, <1>3, <1>4, <1>5

--------------------------------------------------------------------------------
(* Records.                                                                *)

\* The slots of records that were published and of those that import restored.
PublishedSlots == Publishers \X (1 .. MaxBoot) \X SourceClasses
RestoredSlots ==
  Publishers \X (1 .. MaxBoot) \X SourceClasses \X {s.reference : s \in Sources}
    \X DOMAIN PrecisionRank

Stored == [serial : Nat, slot : PublishedSlots \cup RestoredSlots, gen : Nat,
           identity : Identity, source : Sources, claim : Claims \cup {NoClaim},
           withdrawn : BOOLEAN, superseded : BOOLEAN, device_generation : Nat,
           device_boot : Nat, platform_generation : Nat, axes : [Axes -> Nat],
           runtime : {s.id : s \in SoftwareIds} \cup {None}]

LEMMA SlotLength ==
  /\ \A t \in PublishedSlots : Len(t) = 3
  /\ \A t \in RestoredSlots : Len(t) = 5
BY DEF PublishedSlots, RestoredSlots

LEMMA RankRange == ASSUME NEW r \in Stored PROVE Rank(r) \in Int /\ Rank(r) + 17 \in Nat
<1>1. r.source.class \in SourceClasses
  BY EvidenceConstants DEF Stored
<1>2. \A class \in SourceClasses : SourceAuthority[class] \in 1 .. 17
  BY DEF SourceClasses, SourceAuthority
<1>3. \A n \in 1 .. 17 : -n \in Int /\ (-n) + 17 \in Nat
  OBVIOUS
<1> QED
  BY <1>1, <1>2, <1>3 DEF Rank

LEMMA PairsJoined ==
  ASSUME NEW w \in Int, NEW x \in Int, NEW y \in Int, NEW z \in Int
  PROVE  LET t == <<w, x>> \o <<y, z>>
         IN DOMAIN t = 1 .. 4 /\ t[1] = w /\ t[2] = x /\ t[3] = y /\ t[4] = z
<1> DEFINE t == <<w, x>> \o <<y, z>>
<1>1. t \in Seq(Int) /\ Len(t) = 4 /\ t[1] = w /\ t[2] = x /\ t[3] = y /\ t[4] = z
  OBVIOUS
<1> HIDE DEF t
<1>2. DOMAIN t = 1 .. 4
  BY <1>1
<1> QED
  BY <1>1, <1>2 DEF t

\* No two of the records stand in the same place of their vector.
Apart(recs) ==
  \A q, r \in recs : Len(q.slot) = Len(r.slot) /\ q.serial = r.serial => q = r

(* current_winner_record finds a record whenever there is one.  The         *)
(* preference is lexicographic: the least of each part in turn.            *)
LEMMA JoinWinner ==
  ASSUME NEW recs, recs \subseteq Stored, recs # {}, Apart(recs)
  PROVE  FirstBy(JoinRank, recs) \in recs
<1> DEFINE A(r) == Rank(r)
           B(r) == r.identity.pub
           C(r) == -Len(r.slot)
           D(r) == r.serial
<1>1. \A r \in recs : A(r) \in Int /\ A(r) + 17 \in Nat
  BY RankRange
<1>2. \A r \in recs : B(r) \in Nat /\ D(r) \in Nat
  BY EvidenceConstants DEF Stored, Identity
<1>3. \A r \in recs : C(r) \in Int /\ C(r) + 5 \in Nat
  <2>1. \A r \in recs : Len(r.slot) \in {3, 5}
    BY SlotLength DEF Stored
  <2>2. \A n \in {3, 5} : -n \in Int /\ (-n) + 5 \in Nat
    OBVIOUS
  <2> QED
    BY <2>1, <2>2
<1>4. ASSUME NEW r \in recs
      PROVE  /\ DOMAIN JoinRank(r) = 1 .. 4
             /\ JoinRank(r)[1] = A(r) /\ JoinRank(r)[2] = B(r)
             /\ JoinRank(r)[3] = C(r) /\ JoinRank(r)[4] = D(r)
  <2>1. A(r) \in Int /\ B(r) \in Int /\ C(r) \in Int /\ D(r) \in Int
    BY <1>1, <1>2, <1>3
  <2> HIDE DEF A, B, C, D
  <2>2. JoinRank(r) = <<A(r), B(r)>> \o <<C(r), D(r)>>
    BY DEF JoinRank, Position, A, B, C, D
  <2> QED
    BY <2>1, <2>2, PairsJoined
<1>5. \A q, r \in recs : C(q) = C(r) /\ D(q) = D(r) => q = r
  <2>1. \A r \in recs : Len(r.slot) \in {3, 5}
    BY SlotLength DEF Stored
  <2>2. \A m, n \in {3, 5} : -m = -n => m = n
    OBVIOUS
  <2> QED
    BY <2>1, <2>2 DEF Apart
<1> HIDE DEF A, B, C, D
<1>6. PICK a \in recs : \A q \in recs : A(a) <= A(q)
  <2>1. PICK x \in {A(r) + 17 : r \in recs} : \A y \in {A(r) + 17 : r \in recs} : x <= y
    BY <1>1, LeastElement
  <2> QED
    BY <1>1, <2>1
<1>7. PICK b \in {r \in recs : A(r) = A(a)} : \A q \in {r \in recs : A(r) = A(a)} : B(b) <= B(q)
  <2> DEFINE T == {B(r) : r \in {r \in recs : A(r) = A(a)}}
  <2>1. PICK x \in T : \A y \in T : x <= y
    BY <1>2, LeastElement
  <2> QED
    BY <1>2, <2>1
<1> DEFINE ab == {r \in recs : A(r) = A(a) /\ B(r) = B(b)}
<1>8. PICK c \in ab : \A q \in ab : C(c) <= C(q)
  <2> DEFINE T == {C(r) + 5 : r \in ab}
  <2>1. PICK x \in T : \A y \in T : x <= y
    BY <1>3, <1>7, LeastElement
  <2>2. PICK c \in ab : x = C(c) + 5
    BY <2>1
  <2>3. ASSUME NEW q \in ab PROVE C(c) <= C(q)
    <3>1. C(c) + 5 <= C(q) + 5 /\ C(c) \in Int /\ C(q) \in Int
      BY <1>3, <2>1, <2>2
    <3> QED
      BY <3>1
  <2> QED
    BY <2>3
<1> DEFINE abc == {r \in recs : A(r) = A(a) /\ B(r) = B(b) /\ C(r) = C(c)}
<1>9. PICK d \in abc : \A q \in abc : D(d) <= D(q)
  <2> DEFINE T == {D(r) : r \in abc}
  <2>1. PICK x \in T : \A y \in T : x <= y
    BY <1>2, <1>8, LeastElement
  <2> QED
    BY <1>2, <2>1
<1>10. ASSUME NEW q \in recs \ {d} PROVE Precedes(JoinRank(d), JoinRank(q))
  <2>1. \/ A(d) < A(q)
        \/ A(d) = A(q) /\ B(d) < B(q)
        \/ A(d) = A(q) /\ B(d) = B(q) /\ C(d) < C(q)
        \/ A(d) = A(q) /\ B(d) = B(q) /\ C(d) = C(q) /\ D(d) < D(q)
    BY <1>1, <1>2, <1>3, <1>5, <1>6, <1>7, <1>8, <1>9
  <2> DEFINE s == JoinRank(d)
             t == JoinRank(q)
  <2>2. /\ s[1] = A(d) /\ s[2] = B(d) /\ s[3] = C(d) /\ s[4] = D(d)
        /\ t[1] = A(q) /\ t[2] = B(q) /\ t[3] = C(q) /\ t[4] = D(q)
        /\ DOMAIN s = 1 .. 4
    BY <1>4
  <2> HIDE DEF s, t
  <2>3. \E n \in 1 .. 4 : s[n] < t[n] /\ \A m \in 1 .. n - 1 : s[m] = t[m]
    BY <2>1, <2>2
  <2>4. Precedes(s, t)
    BY <2>2, <2>3 DEF Precedes
  <2> QED
    BY <2>4 DEF s, t
<1> QED
  BY <1>10 DEF FirstBy

--------------------------------------------------------------------------------
(* The invariants.                                                         *)

\* Every variable has its type.
StoreTypeOK ==
  /\ SubjectInv /\ UnregisteredBlank
  /\ live \subseteq spent /\ spent \subseteq Identity
  /\ keys \subseteq Key /\ key_generation \in [Key -> Nat]
  /\ records \in [Key -> SUBSET Stored]
  /\ global_order \in Seq(Entry) /\ next_serial \in Nat

\* A publisher holds one identity at a time.
OneIdentityEach == \A i, j \in live : i.pub = j.pub => i = j

\* Serials are not given twice to records of a kind.
SerialsApart ==
  \A k \in Key :
    /\ Apart(records[k])
    /\ \A r \in records[k] : r.slot \in PublishedSlots => r.serial < next_serial

\* A key's counter has reached the generation of each of its records.
GenerationsReached == \A k \in Key : \A r \in records[k] : r.gen <= key_generation[k]

\* A record was stamped by a granted identity, under generations of its device that were
\* current once.
StampedOnce ==
  \A k \in Key : \A r \in records[k] :
    /\ r.identity \in spent
    /\ r.device_boot = r.device_generation
    /\ r.device_generation <= generation[k[1]]
    /\ r.platform_generation <= platform_generation[k[1]]
    /\ \A a \in Axes : r.axes[a] <= axis_generation[k[1]][a]

\* What holds across restarts as well.
StoreInv ==
  /\ StoreTypeOK
  /\ OneIdentityEach
  /\ SerialsApart
  /\ GenerationsReached
  /\ StampedOnce
  /\ GenerationNamesOneClaim

\* In one process every record is in the slot it was published to.
SlotsNamed == \A k \in Key : \A r \in records[k] : r.slot = Slot(r.identity, r.source)

\* The heads are the newest records of their slots, each retained and not superseded;
\* every record has its head, and is superseded unless it is that one.
HeadsType == heads \subseteq [key : Key, slot : PublishedSlots, serial : Nat]
HeadsUnique == \A g, h \in heads : g.key = h.key /\ g.slot = h.slot => g = h
HeadsKept ==
  \A h \in heads : \E r \in records[h.key] : r.slot = h.slot /\ r.serial = h.serial
RecordsHeaded ==
  \A k \in Key : \A r \in records[k] :
    \E h \in heads : /\ h.key = k /\ h.slot = r.slot /\ r.serial <= h.serial
                     /\ r.superseded <=> r.serial # h.serial

\* When a publisher has published under another identity since, the identity of its
\* earlier record has lost its authority.
EarlierBootsOver ==
  \A k \in Key : \A q, r \in records[k] :
    q.identity.pub = r.identity.pub /\ q.identity # r.identity /\ r.serial < q.serial =>
      r.identity \notin live

SlotInv ==
  /\ SlotsNamed
  /\ HeadsType
  /\ HeadsUnique
  /\ HeadsKept
  /\ RecordsHeaded
  /\ EarlierBootsOver

ProcessInv == StoreInv /\ SlotInv

--------------------------------------------------------------------------------
(* What a publication does to the records.                                 *)

\* The record a publication stores.
Published(k, i, s, claim, withdrawn) ==
  [Stamped(k[1], i, s, claim, withdrawn) EXCEPT !.gen = AssignedGeneration(k, claim)]

\* The record it was, but possibly superseded since.
Again(q, r) ==
  /\ q.serial = r.serial /\ q.slot = r.slot /\ q.gen = r.gen /\ q.identity = r.identity
  /\ q.source = r.source /\ q.claim = r.claim /\ q.withdrawn = r.withdrawn
  /\ q.device_generation = r.device_generation /\ q.device_boot = r.device_boot
  /\ q.platform_generation = r.platform_generation /\ q.axes = r.axes
  /\ q.runtime = r.runtime
  /\ r.superseded => q.superseded

LEMMA CandidatesStored ==
  ASSUME StoreTypeOK, NEW k \in Key
  PROVE  Candidates(k) \subseteq records[k] /\ records[k] \subseteq Stored
BY DEF StoreTypeOK, Candidates

(* A claim joins the winner's generation, which is that of a retained     *)
(* record about the present generation of the device, or opens a new one.  *)
LEMMA Assigned ==
  ASSUME StoreInv, NEW k \in Key, NEW claim
  PROVE  /\ AssignedGeneration(k, claim) \in Nat
         /\ \/ \E r \in records[k] : /\ r.gen = AssignedGeneration(k, claim)
                                     /\ r.claim = claim
                                     /\ r.device_generation = generation[k[1]]
            \/ AssignedGeneration(k, claim) = key_generation[k] + 1
<1> DEFINE winner == FirstBy(JoinRank, Candidates(k))
<1>1. CASE Candidates(k) # {} /\ winner.claim = claim
  <2>1. Apart(Candidates(k)) /\ Candidates(k) \subseteq Stored
    BY CandidatesStored DEF StoreInv, SerialsApart, Apart
  <2>2. winner \in Candidates(k)
    BY <1>1, <2>1, JoinWinner
  <2>3. ~Raised("DeviceGenerationSuperseded", k[1], winner, generation[k[1]])
    BY <2>2 DEF Candidates, Stale, StaleFor, StalenessFlags
  <2>4. winner.device_generation = generation[k[1]]
    BY <2>3 DEF Raised
  <2>5. AssignedGeneration(k, claim) = winner.gen
    BY <1>1 DEF AssignedGeneration
  <2>6. winner \in records[k] /\ winner.gen \in Nat
    BY <2>2, CandidatesStored DEF StoreInv, Stored
  <2> QED
    BY <1>1, <2>4, <2>5, <2>6
<1>2. CASE ~(Candidates(k) # {} /\ winner.claim = claim)
  <2>1. AssignedGeneration(k, claim) = key_generation[k] + 1
    BY <1>2 DEF AssignedGeneration
  <2>2. key_generation[k] \in Nat
    BY DEF StoreInv, StoreTypeOK
  <2> QED
    BY <2>1, <2>2
<1> QED
  BY <1>1, <1>2

LEMMA SlotType ==
  ASSUME NEW i \in Identity, NEW s \in Sources
  PROVE  Slot(i, s) \in PublishedSlots
BY EvidenceConstants DEF Slot, PublishedSlots, Identity

\* What a publication stores.
Stamp(new, k, i, s, claim, withdrawn) ==
  /\ new \in Stored
  /\ new.serial = next_serial /\ new.slot = Slot(i, s) /\ new.identity = i
  /\ new.source = s /\ new.claim = claim /\ new.withdrawn = withdrawn
  /\ new.superseded = FALSE /\ new.gen = AssignedGeneration(k, claim)
  /\ new.device_generation = generation[k[1]]
  /\ new.device_boot = new.device_generation
  /\ new.platform_generation = platform_generation[k[1]]
  /\ new.axes = axis_generation[k[1]]

LEMMA PublishedFields ==
  ASSUME StoreInv, NEW k \in Key, NEW i \in Identity, NEW s \in Sources,
         NEW claim \in Claims \cup {NoClaim}, NEW withdrawn \in BOOLEAN
  PROVE  Stamp(Published(k, i, s, claim, withdrawn), k, i, s, claim, withdrawn)
<1> DEFINE gen == AssignedGeneration(k, claim)
           d == k[1]
           old == Stamped(d, i, s, claim, withdrawn)
           new == [old EXCEPT !.gen = gen]
<1>2. d \in Devices
  BY DEF Key
<1>3. /\ next_serial \in Nat /\ gen \in Nat /\ Slot(i, s) \in PublishedSlots
      /\ generation[d] \in Nat /\ device_boot[d] \in Nat /\ platform_generation[d] \in Nat
      /\ axis_generation[d] \in [Axes -> Nat]
      /\ device_boot[d] = generation[d]
  BY <1>2, Assigned, SlotType, DeviceConstants
  DEF StoreInv, StoreTypeOK, SubjectInv, DeviceTypeOK, BootFollowsGeneration, Generations
<1>4. RuntimeId(d) \in {t.id : t \in SoftwareIds} \cup {None}
  <2>1. software[d]["runtime"] \in SoftwareIds \cup {None}
    BY <1>2 DEF StoreInv, StoreTypeOK, SubjectInv, DeviceTypeOK, Axes, Software
  <2> QED
    BY <2>1 DEF RuntimeId
<1>5. old \in Stored
  <2> HIDE DEF gen, d
  <2> QED
    BY <1>3, <1>4 DEF Stored, Stamped
<1>6. /\ new \in Stored /\ new.gen = gen
      /\ new.serial = old.serial /\ new.slot = old.slot /\ new.identity = old.identity
      /\ new.source = old.source /\ new.claim = old.claim
      /\ new.withdrawn = old.withdrawn /\ new.superseded = old.superseded
      /\ new.device_generation = old.device_generation /\ new.device_boot = old.device_boot
      /\ new.platform_generation = old.platform_generation /\ new.axes = old.axes
  <2> HIDE DEF gen, old
  <2> QED
    BY <1>3, <1>5 DEF Stored
<1>7. /\ old.serial = next_serial /\ old.slot = Slot(i, s) /\ old.identity = i
      /\ old.source = s /\ old.claim = claim
      /\ old.withdrawn = withdrawn /\ old.superseded = FALSE
      /\ old.device_generation = generation[d] /\ old.device_boot = device_boot[d]
      /\ old.platform_generation = platform_generation[d] /\ old.axes = axis_generation[d]
  BY DEF Stamped
<1> HIDE DEF old, new, gen
<1>8. Published(k, i, s, claim, withdrawn) = new
  BY DEF Published, new, old, gen
<1> QED
  BY <1>3, <1>6, <1>7, <1>8 DEF gen, Stamp

(* Making room only evicts.                                                *)
LEMMA RoomRemains ==
  ASSUME StoreTypeOK
  PROVE  Remains(records, MadeRoom.records) /\ MadeRoom.order \in Seq(Entry)
<1>1. records = [k \in Key |-> records[k]] /\ global_order \in Seq(Entry)
  BY DEF StoreTypeOK
<1>2. Remains(records, records)
  BY <1>1 DEF Remains
<1> QED
  BY <1>1, <1>2, EvictRemains DEF MadeRoom

\* A record beside a new one of the slot.
Beside(r, slot) == [r EXCEPT !.superseded = @ \/ SlotOf(r) = slot]

LEMMA BesideAgain ==
  ASSUME NEW r \in Stored, NEW slot
  PROVE  /\ Beside(r, slot) \in Stored
         /\ Again(Beside(r, slot), r)
         /\ Beside(r, slot).superseded = (r.superseded \/ r.slot = slot)
<1> DEFINE b == r.superseded \/ SlotOf(r) = slot
<1>1. b \in BOOLEAN
  OBVIOUS
<1>2. Beside(r, slot) = [r EXCEPT !.superseded = b]
  BY DEF Beside
<1>3. r.superseded \in BOOLEAN /\ (r.superseded => b)
  BY DEF Stored
<1> HIDE DEF b
<1> DEFINE q == [r EXCEPT !.superseded = b]
<1>4. q \in Stored /\ q.superseded = b
  BY <1>1 DEF Stored
<1>5. /\ q.serial = r.serial /\ q.slot = r.slot /\ q.gen = r.gen /\ q.identity = r.identity
      /\ q.source = r.source /\ q.claim = r.claim /\ q.withdrawn = r.withdrawn
      /\ q.device_generation = r.device_generation /\ q.device_boot = r.device_boot
      /\ q.platform_generation = r.platform_generation /\ q.axes = r.axes
      /\ q.runtime = r.runtime
  BY DEF Stored
<1> HIDE DEF q
<1>6. Again(q, r)
  BY <1>3, <1>4, <1>5 DEF Again
<1> QED
  BY <1>2, <1>4, <1>6 DEF b, q, SlotOf

\* The records of the other keys lose some that are not the newest of their slot.
Sheds(others) ==
  \A j \in others :
    /\ records'[j] \subseteq records[j]
    /\ \A r \in records[j] : ~SupersededIn(records[j], r) => r \in records'[j]

\* Those of the key gain a record, beside which the others of its slot are superseded.
Gains(k, new) ==
  /\ new \in records'[k]
  /\ \A q \in records'[k] : q = new \/ \E r \in records[k] : q = Beside(r, new.slot)
  /\ \A r \in records[k] :
       ~SupersededIn(records[k], r) /\ r.slot # new.slot => Beside(r, new.slot) \in records'[k]

(* apply_capability_locked stores the new record, marks those of its slot, *)
(* and keeps every record that is the newest of its slot.                  *)
LEMMA StoreRecords ==
  ASSUME StoreInv, NEW k \in Key, NEW i \in Identity, NEW s \in Sources,
         NEW claim \in Claims \cup {NoClaim}, NEW withdrawn \in BOOLEAN,
         StoreEvidence(k, i, s, claim, withdrawn)
  PROVE  /\ records' \in [Key -> SUBSET Stored] /\ global_order' \in Seq(Entry)
         /\ Sheds(Key \ {k})
         /\ Gains(k, Published(k, i, s, claim, withdrawn))
<1> DEFINE new == Published(k, i, s, claim, withdrawn)
           room == MadeRoom.records
           marked == {Beside(r, new.slot) : r \in room[k]}
           full == [room EXCEPT ![k] = marked \cup {new}]
           order == Append(MadeRoom.order, [key |-> k, serial |-> next_serial])
           after == Evict(full, order)
<1>1. /\ new \in Stored /\ new.serial = next_serial /\ new.slot \in PublishedSlots
      /\ next_serial \in Nat
  <2>1. Stamp(new, k, i, s, claim, withdrawn)
    BY PublishedFields
  <2> HIDE DEF new
  <2> QED
    BY <2>1, SlotType DEF Stamp, StoreInv, StoreTypeOK
<1>2. records' = after.records /\ global_order' = after.order
  BY DEF StoreEvidence, Published, Beside, SlotOf
<1>3. Remains(records, room) /\ MadeRoom.order \in Seq(Entry)
  BY RoomRemains DEF StoreInv
<1>4. order \in Seq(Entry)
  <2>1. [key |-> k, serial |-> next_serial] \in Entry
    BY <1>1 DEF Entry
  <2> QED
    BY <1>3, <2>1
<1>5. /\ full = [j \in Key |-> full[j]] /\ full[k] = marked \cup {new}
      /\ \A j \in Key \ {k} : full[j] = room[j]
  BY <1>3 DEF Remains
<1> HIDE DEF new, room, full, order
<1>6. Remains(full, records') /\ global_order' \in Seq(Entry)
  BY <1>2, <1>4, <1>5, EvictRemains
<1> HIDE DEF after, marked
<1>7. /\ \A j \in Key : room[j] \subseteq records[j] /\ records[j] \subseteq Stored
      /\ \A j \in Key : \A r \in records[j] : ~SupersededIn(records[j], r) => r \in room[j]
  BY <1>3 DEF Remains, StoreInv, StoreTypeOK
<1>8. ASSUME NEW q \in marked
      PROVE  \E r \in room[k] : /\ q \in Stored /\ Again(q, r)
                                /\ q.superseded = (r.superseded \/ r.slot = new.slot)
  <2>1. PICK r \in room[k] : q = Beside(r, new.slot)
    BY <1>8 DEF marked
  <2>2. r \in Stored
    BY <1>7
  <2> QED
    BY <2>1, <2>2, BesideAgain
<1>9. records' \in [Key -> SUBSET Stored]
  <2>1. \A j \in Key : full[j] \subseteq Stored
    BY <1>1, <1>5, <1>7, <1>8
  <2>2. records' = [j \in Key |-> records'[j]] /\ \A j \in Key : records'[j] \subseteq full[j]
    BY <1>6 DEF Remains
  <2> QED
    BY <2>1, <2>2
<1>10. \A j \in Key \ {k} : records'[j] \subseteq records[j]
  BY <1>5, <1>6, <1>7 DEF Remains
<1>11. ASSUME NEW j \in Key \ {k}, NEW r \in records[j], ~SupersededIn(records[j], r)
       PROVE  r \in records'[j]
  <2>1. r \in full[j] /\ full[j] \subseteq records[j]
    BY <1>5, <1>7, <1>11
  <2>2. ~SupersededIn(full[j], r)
    BY <1>11, <2>1 DEF SupersededIn
  <2> QED
    BY <1>6, <2>1, <2>2 DEF Remains
<1>12. ASSUME NEW q \in records'[k]
       PROVE  q = new \/ \E r \in records[k] : q = Beside(r, new.slot)
  <2>1. q \in marked \cup {new}
    BY <1>5, <1>6 DEF Remains
  <2> QED
    BY <1>7, <2>1 DEF marked
<1>13. new \in records'[k]
  <2>1. ASSUME NEW q \in full[k], q.slot = new.slot PROVE ~(q.serial > new.serial)
    <3>1. CASE q = new
      BY <1>1, <3>1
    <3>2. CASE q \in marked
      <4>1. PICK r \in records[k] : q.serial = r.serial /\ r.slot \in PublishedSlots
        BY <1>1, <1>7, <1>8, <2>1, <3>2 DEF Again
      <4>2. r.serial < next_serial /\ r.serial \in Nat
        BY <1>7, <4>1 DEF StoreInv, SerialsApart, Stored
      <4> QED
        BY <1>1, <4>1, <4>2
    <3> QED
      BY <1>5, <3>1, <3>2
  <2>2. ~SupersededIn(full[k], new)
    BY <2>1 DEF SupersededIn, SlotOf
  <2> QED
    BY <1>5, <1>6, <2>2 DEF Remains
<1>14. ASSUME NEW r \in records[k], ~SupersededIn(records[k], r), r.slot # new.slot
       PROVE  Beside(r, new.slot) \in records'[k]
  <2> DEFINE q == Beside(r, new.slot)
  <2>1. r \in room[k] /\ r \in Stored
    BY <1>7, <1>14
  <2>2. q \in full[k]
    BY <1>5, <2>1 DEF marked
  <2>3. Again(q, r) /\ q.superseded = (r.superseded \/ r.slot = new.slot)
    BY <2>1, BesideAgain
  <2> HIDE DEF q
  <2>4. ASSUME NEW p \in full[k], p.slot = q.slot, p.serial > q.serial PROVE FALSE
    <3>1. p \in marked
      BY <1>5, <1>14, <2>3, <2>4 DEF Again
    <3>2. PICK o \in records[k] : Again(p, o)
      BY <1>7, <1>8, <3>1
    <3> QED
      BY <1>14, <2>3, <2>4, <3>2 DEF SupersededIn, SlotOf, Again
  <2>5. ~SupersededIn(full[k], q)
    BY <2>4 DEF SupersededIn, SlotOf
  <2>6. q \in records'[k]
    BY <1>6, <2>2, <2>5 DEF Remains
  <2> QED
    BY <2>6 DEF q
<1>15. Sheds(Key \ {k})
  BY <1>10, <1>11 DEF Sheds
<1>16. Gains(k, new)
  BY <1>12, <1>13, <1>14 DEF Gains
<1> QED
  BY <1>6, <1>9, <1>15, <1>16 DEF new

(* A publication that is refused for want of room only evicts.             *)
LEMMA RefuseRecords ==
  ASSUME StoreInv, NEW k \in Key, NEW i, NEW s, NEW claim, NEW withdrawn,
         RefuseEvidence(k, i, s, claim, withdrawn)
  PROVE  /\ records' \in [Key -> SUBSET Stored] /\ global_order' \in Seq(Entry)
         /\ Sheds(Key)
<1>1. Remains(records, MadeRoom.records) /\ MadeRoom.order \in Seq(Entry)
  BY RoomRemains DEF StoreInv
<1>2. records' = MadeRoom.records /\ global_order' = MadeRoom.order
  BY DEF RefuseEvidence
<1>3. Remains(records, records')
  BY <1>1, <1>2
<1>4. records \in [Key -> SUBSET Stored]
  BY DEF StoreInv, StoreTypeOK
<1> QED
  BY <1>1, <1>2, <1>3, <1>4 DEF Remains, Sheds

--------------------------------------------------------------------------------
(* Every step keeps the invariants: publications.                          *)

LEMMA StoreEvidenceInv ==
  ASSUME StoreInv, NEW k \in Key, NEW i \in Identity, NEW s \in Sources,
         NEW claim \in Claims \cup {NoClaim}, NEW withdrawn \in BOOLEAN,
         StoreEvidence(k, i, s, claim, withdrawn)
  PROVE  StoreInv'
<1> DEFINE new == Published(k, i, s, claim, withdrawn)
           gen == AssignedGeneration(k, claim)
<1>1. Stamp(new, k, i, s, claim, withdrawn)
  BY PublishedFields
<1>2. /\ records' \in [Key -> SUBSET Stored] /\ global_order' \in Seq(Entry)
      /\ Sheds(Key \ {k}) /\ Gains(k, new)
  BY StoreRecords
<1>3. /\ gen \in Nat
      /\ \/ \E r \in records[k] : /\ r.gen = gen /\ r.claim = claim
                                  /\ r.device_generation = generation[k[1]]
         \/ gen = key_generation[k] + 1
  BY Assigned
<1>4. /\ keys' = keys \cup {k} /\ next_serial' = next_serial + 1 /\ i \in live
      /\ key_generation' = [key_generation EXCEPT ![k] = IF new.gen > @ THEN new.gen ELSE @]
      /\ UNCHANGED <<deviceVars, live, spent>>
  BY DEF StoreEvidence, Opens, Received, Published
<1> HIDE DEF new, gen
<1>5. new.gen = gen /\ new \in Stored /\ new.serial = next_serial /\ new.slot \in PublishedSlots
  BY <1>1, SlotType DEF Stamp, gen
<1>6. key_generation' \in [Key -> Nat]
      /\ \A j \in Key : key_generation[j] \in Nat /\ key_generation[j] <= key_generation'[j]
  BY <1>3, <1>4, <1>5 DEF StoreInv, StoreTypeOK
<1>7. new.gen <= key_generation'[k]
  BY <1>3, <1>4, <1>5, <1>6 DEF StoreInv, StoreTypeOK
<1>8. ASSUME NEW r \in records[k]
      PROVE  r \in Stored /\ Again(Beside(r, new.slot), r)
  BY BesideAgain DEF StoreInv, StoreTypeOK
<1>9. SubjectInv' /\ UnregisteredBlank'
  BY <1>4 DEF StoreInv, StoreTypeOK, SubjectInv, UnregisteredBlank, DeviceTypeOK,
              BootFollowsGeneration, deviceVars
<1>10. StoreTypeOK'
  BY <1>2, <1>4, <1>6, <1>9 DEF StoreInv, StoreTypeOK
<1>11. OneIdentityEach'
  BY <1>4 DEF StoreInv, OneIdentityEach
<1>12. SerialsApart'
  <2>1. ASSUME NEW j \in Key \ {k}
        PROVE  /\ Apart(records'[j])
               /\ \A r \in records'[j] : r.slot \in PublishedSlots => r.serial < next_serial'
    <3>1. records'[j] \subseteq records[j] /\ records[j] \subseteq Stored
      BY <1>2 DEF Sheds, StoreInv, StoreTypeOK
    <3>2. \A r \in Stored : r.serial \in Nat
      BY DEF Stored
    <3>3. next_serial \in Nat
      BY DEF StoreInv, StoreTypeOK
    <3> QED
      BY <1>4, <3>1, <3>2, <3>3 DEF StoreInv, SerialsApart, Apart
  <2>2. ASSUME NEW q \in records'[k]
        PROVE  \/ q = new
               \/ \E r \in records[k] : /\ q = Beside(r, new.slot) /\ Again(q, r)
                                        /\ r.slot \in PublishedSlots => r.serial < next_serial
    BY <1>2, <1>8 DEF Gains, StoreInv, SerialsApart
  <2>3. \A r \in Stored : Len(r.slot) = 3 <=> r.slot \in PublishedSlots
    BY SlotLength DEF Stored
  <2>4. \A r \in Stored : r.serial \in Nat
    BY DEF Stored
  <2>5. Len(new.slot) = 3 /\ next_serial \in Nat
    BY <1>5, <2>3, <2>4
  <2>6. ASSUME NEW q \in records'[k], q # new, Len(q.slot) = 3
        PROVE  q.serial < next_serial
    <3>1. PICK r \in records[k] : Again(q, r) /\ (r.slot \in PublishedSlots => r.serial < next_serial)
      BY <2>2, <2>6
    <3> QED
      BY <1>8, <2>3, <2>6, <3>1 DEF Again
  <2>7. ASSUME NEW p \in records'[k], NEW q \in records'[k],
               Len(p.slot) = Len(q.slot), p.serial = q.serial
        PROVE  p = q
    <3>1. CASE p = new \/ q = new
      BY <1>5, <2>5, <2>6, <2>7, <3>1
    <3>2. CASE p # new /\ q # new
      <4>1. PICK r \in records[k] : p = Beside(r, new.slot) /\ Again(p, r)
        BY <2>2, <3>2
      <4>2. PICK o \in records[k] : q = Beside(o, new.slot) /\ Again(q, o)
        BY <2>2, <3>2
      <4>3. r = o
        BY <2>7, <4>1, <4>2 DEF Again, Apart, StoreInv, SerialsApart
      <4> QED
        BY <4>1, <4>2, <4>3
    <3> QED
      BY <3>1, <3>2
  <2>8. ASSUME NEW q \in records'[k], q.slot \in PublishedSlots PROVE q.serial < next_serial'
    <3>1. q \in Stored /\ Len(q.slot) = 3
      BY <1>2, <2>3, <2>8
    <3> QED
      BY <1>4, <1>5, <2>4, <2>5, <2>6, <3>1
  <2> QED
    BY <2>1, <2>7, <2>8 DEF SerialsApart, Apart
<1>13. GenerationsReached'
  <2>1. ASSUME NEW j \in Key, NEW r \in records[j]
        PROVE  r.gen <= key_generation'[j]
    <3>1. r.gen \in Nat /\ r.gen <= key_generation[j]
      BY DEF StoreInv, StoreTypeOK, GenerationsReached, Stored
    <3> QED
      BY <1>6, <3>1
  <2> QED
    BY <1>2, <1>7, <1>8, <2>1 DEF GenerationsReached, Sheds, Gains, Again
<1>14. StampedOnce'
  <2>1. \A d \in Devices : /\ generation[d] \in Nat /\ platform_generation[d] \in Nat
                            /\ \A a \in Axes : axis_generation[d][a] \in Nat
    BY DEF StoreInv, StoreTypeOK, SubjectInv, DeviceTypeOK, Generations
  <2> DEFINE Fine(j, r) ==
               /\ r.identity \in spent
               /\ r.device_boot = r.device_generation
               /\ r.device_generation <= generation[j[1]]
               /\ r.platform_generation <= platform_generation[j[1]]
               /\ \A a \in Axes : r.axes[a] <= axis_generation[j[1]][a]
  <2>2. Fine(k, new)
    <3>1. k[1] \in Devices /\ i \in spent
      BY <1>4 DEF Key, StoreInv, StoreTypeOK
    <3>2. /\ new.identity = i /\ new.device_boot = new.device_generation
          /\ new.device_generation = generation[k[1]]
          /\ new.platform_generation = platform_generation[k[1]]
          /\ new.axes = axis_generation[k[1]]
      BY <1>1 DEF Stamp
    <3>3. \A n \in Nat : n <= n
      OBVIOUS
    <3> QED
      BY <2>1, <3>1, <3>2, <3>3
  <2>3. \A j \in Key : \A r \in records[j] : Fine(j, r)
    BY DEF StoreInv, StampedOnce
  <2>4. \A q : \A r \in records[k] : Again(q, r) => Fine(k, q)
    BY <2>3 DEF Again
  <2> HIDE DEF Fine
  <2>5. \A j \in Key : \A q \in records'[j] : Fine(j, q)
    BY <1>2, <1>8, <2>2, <2>3, <2>4 DEF Sheds, Gains
  <2> QED
    BY <1>4, <2>5 DEF StampedOnce, Fine, deviceVars
<1>15. GenerationNamesOneClaim'
  <2> DEFINE Same(q, r) == q.gen = r.gen => /\ q.claim = r.claim
                                           /\ q.device_generation = r.device_generation
  <2>1. \A j \in Key : \A q, r \in records[j] : Same(q, r)
    BY DEF StoreInv, GenerationNamesOneClaim
  <2>2. new.claim = claim /\ new.device_generation = generation[k[1]]
    BY <1>1 DEF Stamp
  <2>3. ASSUME NEW r \in records[k] PROVE Same(r, new)
    <3>1. CASE gen = key_generation[k] + 1
      <4>1. r.gen \in Nat /\ r.gen <= key_generation[k]
        BY <1>8 DEF StoreInv, GenerationsReached, Stored
      <4> QED
        BY <1>5, <1>6, <3>1, <4>1
    <3>2. CASE \E o \in records[k] : /\ o.gen = gen /\ o.claim = claim
                                     /\ o.device_generation = generation[k[1]]
      BY <1>5, <2>1, <2>2, <3>2
    <3> QED
      BY <1>3, <3>1, <3>2
  <2>4. \A q \in records'[k] : q = new \/ \E r \in records[k] : Again(q, r)
    BY <1>2, <1>8 DEF Gains
  <2>5. ASSUME NEW p \in records'[k], NEW q \in records'[k] PROVE Same(p, q)
    BY <2>1, <2>3, <2>4 DEF Again
  <2> QED
    BY <1>2, <2>1, <2>5 DEF GenerationNamesOneClaim, Sheds
<1> QED
  BY <1>10, <1>11, <1>12, <1>13, <1>14, <1>15 DEF StoreInv

\* The records lose some, and the counters of the keys do not fall.
LEMMA ShedInv ==
  ASSUME StoreInv, records' \in [Key -> SUBSET Stored], global_order' \in Seq(Entry), Sheds(Key),
         keys' \subseteq Key, key_generation' \in [Key -> Nat],
         \A j \in Key : key_generation[j] <= key_generation'[j],
         UNCHANGED <<deviceVars, live, spent, next_serial>>
  PROVE  StoreInv'
<1>1. \A j \in Key : records'[j] \subseteq records[j] /\ records[j] \subseteq Stored
  BY DEF Sheds, StoreInv, StoreTypeOK
<1>2. SubjectInv' /\ UnregisteredBlank'
  BY DEF StoreInv, StoreTypeOK, SubjectInv, UnregisteredBlank, DeviceTypeOK,
         BootFollowsGeneration, deviceVars
<1>3. StoreTypeOK'
  BY <1>2 DEF StoreInv, StoreTypeOK
<1>4. OneIdentityEach' /\ SerialsApart'
  BY <1>1 DEF StoreInv, OneIdentityEach, SerialsApart, Apart
<1>5. GenerationsReached'
  <2>1. ASSUME NEW j \in Key, NEW r \in records[j]
        PROVE  r.gen <= key_generation'[j]
    <3>1. /\ r.gen \in Nat /\ key_generation[j] \in Nat /\ key_generation'[j] \in Nat
          /\ r.gen <= key_generation[j] /\ key_generation[j] <= key_generation'[j]
      BY <1>1 DEF StoreInv, StoreTypeOK, GenerationsReached, Stored
    <3> QED
      BY <3>1
  <2> QED
    BY <1>1, <2>1 DEF GenerationsReached
<1>6. StampedOnce'
  BY <1>1 DEF StoreInv, StampedOnce, deviceVars
<1>7. GenerationNamesOneClaim'
  BY <1>1 DEF StoreInv, GenerationNamesOneClaim
<1> QED
  BY <1>3, <1>4, <1>5, <1>6, <1>7 DEF StoreInv

LEMMA OpensGrows ==
  ASSUME StoreInv, NEW k \in Key, NEW gen \in Nat, Opens(k, gen)
  PROVE  /\ keys' \subseteq Key /\ key_generation' \in [Key -> Nat]
         /\ \A j \in Key : key_generation[j] <= key_generation'[j]
BY DEF Opens, StoreInv, StoreTypeOK

LEMMA RefuseEvidenceInv ==
  ASSUME StoreInv, NEW k \in Key, NEW i, NEW s, NEW claim, NEW withdrawn,
         RefuseEvidence(k, i, s, claim, withdrawn)
  PROVE  StoreInv'
<1>1. Opens(k, AssignedGeneration(k, claim)) /\ AssignedGeneration(k, claim) \in Nat
  BY Assigned DEF RefuseEvidence
<1>2. UNCHANGED <<deviceVars, live, spent, next_serial>>
  BY DEF RefuseEvidence
<1> QED
  BY <1>1, <1>2, OpensGrows, RefuseRecords, ShedInv

LEMMA SameRecords ==
  ASSUME records' = records
  PROVE  Sheds(Key)
BY DEF Sheds

LEMMA SkipInv ==
  ASSUME StoreInv, NEW k \in Key, NEW i, RefuseSkippedGeneration(k, i)
  PROVE  StoreInv'
<1>1. /\ Opens(k, 0)
      /\ records' = records /\ global_order' = global_order
      /\ UNCHANGED <<deviceVars, live, spent, next_serial>>
  BY DEF RefuseSkippedGeneration
<1>2. records' \in [Key -> SUBSET Stored] /\ global_order' \in Seq(Entry)
  BY <1>1 DEF StoreInv, StoreTypeOK
<1> QED
  BY <1>1, <1>2, OpensGrows, SameRecords, ShedInv

(* Device reports and changes of authority.                                *)

LEMMA DeviceStepInv ==
  ASSUME StoreInv, DeviceStep
  PROVE  StoreInv' /\ GenerationsGrow
<1>1. PICK d \in Devices, report \in Reports : ReportDevice(d, report)
  BY DEF DeviceStep
<1>2. UNCHANGED <<live, spent, evidenceVars>>
  BY DEF DeviceStep
<1>3. SubjectInv' /\ UnregisteredBlank' /\ GenerationsGrow
  BY <1>1, ReportDeviceType, ReportGrows DEF StoreInv, StoreTypeOK
<1>4. StoreTypeOK' /\ OneIdentityEach' /\ SerialsApart' /\ GenerationsReached'
      /\ GenerationNamesOneClaim'
  BY <1>2, <1>3 DEF StoreInv, StoreTypeOK, OneIdentityEach, SerialsApart, GenerationsReached,
                    GenerationNamesOneClaim, evidenceVars
<1>5. ASSUME NEW k \in Key, NEW r \in records[k]
      PROVE  /\ r.device_generation <= generation'[k[1]]
             /\ r.platform_generation <= platform_generation'[k[1]]
             /\ \A a \in Axes : r.axes[a] <= axis_generation'[k[1]][a]
  <2> DEFINE d1 == k[1]
  <2>1. d1 \in Devices /\ r \in Stored
    BY DEF Key, StoreInv, StoreTypeOK
  <2>2. /\ generation[d1] \in Nat /\ generation'[d1] \in Nat /\ platform_generation[d1] \in Nat
        /\ platform_generation'[d1] \in Nat
        /\ \A a \in Axes : axis_generation[d1][a] \in Nat /\ axis_generation'[d1][a] \in Nat
    BY <1>3, <2>1 DEF StoreInv, StoreTypeOK, SubjectInv, DeviceTypeOK, Generations
  <2>3. /\ r.device_generation \in Nat /\ r.platform_generation \in Nat
        /\ \A a \in Axes : r.axes[a] \in Nat
    BY <2>1 DEF Stored
  <2>4. /\ r.device_generation <= generation[d1]
        /\ r.platform_generation <= platform_generation[d1]
        /\ \A a \in Axes : r.axes[a] <= axis_generation[d1][a]
    BY DEF StoreInv, StampedOnce
  <2>5. /\ generation[d1] <= generation'[d1]
        /\ platform_generation[d1] <= platform_generation'[d1]
        /\ \A a \in Axes : axis_generation[d1][a] <= axis_generation'[d1][a]
    BY <1>3, <2>1 DEF GenerationsGrow
  <2> HIDE DEF d1
  <2>6. \A x, y, z \in Nat : x <= y /\ y <= z => x <= z
    OBVIOUS
  <2>7. /\ r.device_generation <= generation'[d1]
        /\ r.platform_generation <= platform_generation'[d1]
        /\ \A a \in Axes : r.axes[a] <= axis_generation'[d1][a]
    BY <2>2, <2>3, <2>4, <2>5, <2>6
  <2> QED
    BY <2>7 DEF d1
<1>6. StampedOnce'
  BY <1>2, <1>5 DEF StoreInv, StampedOnce, evidenceVars
<1> QED
  BY <1>3, <1>4, <1>6 DEF StoreInv

\* Who holds authority afterwards held it before or never did.
LEMMA AuthorityMoves ==
  ASSUME StoreInv, AuthorityStep
  PROVE  /\ live' \subseteq live \cup (Identity \ spent)
         /\ spent \subseteq spent' /\ spent' \subseteq Identity /\ live' \subseteq spent'
         /\ OneIdentityEach'
         /\ UNCHANGED <<deviceVars, evidenceVars>>
<1>1. UNCHANGED <<deviceVars, evidenceVars>>
  BY DEF AuthorityStep
<1>2. live \subseteq spent /\ spent \subseteq Identity /\ OneIdentityEach
  BY DEF StoreInv, StoreTypeOK
<1>3. CASE \E i \in Identity : Authority!Grant(i)
  BY <1>1, <1>2, <1>3 DEF Authority!Grant, OneIdentityEach
<1>4. CASE \E lost \in SUBSET live : Authority!Revoke(lost)
  BY <1>1, <1>2, <1>4 DEF Authority!Revoke, OneIdentityEach
<1> QED
  BY <1>3, <1>4 DEF AuthorityStep, Authority!Next

LEMMA AuthorityStepInv ==
  ASSUME StoreInv, AuthorityStep
  PROVE  StoreInv'
<1>1. /\ spent \subseteq spent' /\ spent' \subseteq Identity /\ live' \subseteq spent'
      /\ OneIdentityEach' /\ UNCHANGED <<deviceVars, evidenceVars>>
  BY AuthorityMoves
<1>2. SubjectInv' /\ UnregisteredBlank'
  BY <1>1 DEF StoreInv, StoreTypeOK, SubjectInv, UnregisteredBlank, DeviceTypeOK,
              BootFollowsGeneration, deviceVars
<1>3. StoreTypeOK' /\ SerialsApart' /\ GenerationsReached' /\ GenerationNamesOneClaim'
  BY <1>1, <1>2 DEF StoreInv, StoreTypeOK, SerialsApart, GenerationsReached,
                    GenerationNamesOneClaim, evidenceVars
<1>4. StampedOnce'
  BY <1>1 DEF StoreInv, StampedOnce, evidenceVars, deviceVars
<1> QED
  BY <1>1, <1>3, <1>4 DEF StoreInv

--------------------------------------------------------------------------------
(* The specification.                                                      *)

LEMMA StoreInvInit == Init => StoreInv
<1> SUFFICES ASSUME Init PROVE StoreInv
  OBVIOUS
<1>1. SubjectInv /\ UnregisteredBlank
  BY SubjectInit, BlankInit DEF Init
<1>2. /\ keys = {} /\ key_generation = [k \in Key |-> 0] /\ records = [k \in Key |-> {}]
      /\ global_order = <<>> /\ next_serial = 1 /\ live = {} /\ spent = {}
  BY DEF Init, Authority!Init
<1>3. StoreTypeOK
  BY <1>1, <1>2 DEF StoreTypeOK
<1> QED
  BY <1>2, <1>3 DEF StoreInv, OneIdentityEach, SerialsApart, Apart, GenerationsReached,
                    StampedOnce, GenerationNamesOneClaim

LEMMA StoreInvStutter ==
  ASSUME StoreInv, UNCHANGED vars
  PROVE  StoreInv'
<1>1. SubjectInv' /\ UnregisteredBlank'
  BY DEF StoreInv, StoreTypeOK, SubjectInv, UnregisteredBlank, DeviceTypeOK,
         BootFollowsGeneration, deviceVars, vars
<1> QED
  BY <1>1 DEF StoreInv, StoreTypeOK, OneIdentityEach, SerialsApart, GenerationsReached,
              StampedOnce, GenerationNamesOneClaim, evidenceVars, deviceVars, vars

LEMMA StoreInvNext ==
  ASSUME StoreInv, Next
  PROVE  StoreInv'
<1>1. CASE DeviceStep
  BY <1>1, DeviceStepInv
<1>2. CASE AuthorityStep
  BY <1>2, AuthorityStepInv
<1>3. CASE PublishStep
  <2>1. PICK k \in Key, i \in Identity, s \in Sources, claim \in Claims :
          StoreEvidence(k, i, s, claim, FALSE) \/ RefuseEvidence(k, i, s, claim, FALSE)
    BY <1>3 DEF PublishStep
  <2> QED
    BY <2>1, StoreEvidenceInv, RefuseEvidenceInv
<1>4. CASE WithdrawStep
  <2>1. PICK k \in Key, i \in Identity, s \in Sources :
          StoreEvidence(k, i, s, NoClaim, TRUE) \/ RefuseEvidence(k, i, s, NoClaim, TRUE)
    BY <1>4 DEF WithdrawStep
  <2> QED
    BY <2>1, StoreEvidenceInv, RefuseEvidenceInv
<1>5. CASE SkipStep
  BY <1>5, SkipInv DEF SkipStep
<1> QED
  BY <1>1, <1>2, <1>3, <1>4, <1>5 DEF Next

(* A capability generation names one claim about one device generation,    *)
(* for every number of publishers, sources and records: corroborating      *)
(* evidence joins the generation of the record it agrees with and anything *)
(* else opens a new one (apply_capability_locked).                         *)
THEOREM GenerationsNameClaims == Spec => []GenerationNamesOneClaim
<1>1. Init => StoreInv
  BY StoreInvInit
<1>2. StoreInv /\ [Next]_vars => StoreInv'
  BY StoreInvNext, StoreInvStutter
<1>3. StoreInv => GenerationNamesOneClaim
  BY DEF StoreInv
<1> QED
  BY <1>1, <1>2, <1>3, PTL DEF Spec

--------------------------------------------------------------------------------
(* Slots and their heads.                                                  *)

\* The head of a slot is not superseded by anything retained, so eviction leaves it.
LEMMA HeadIsNewest ==
  ASSUME ProcessInv, NEW h \in heads, NEW r \in records[h.key],
         r.slot = h.slot, r.serial = h.serial
  PROVE  h.key \in Key /\ ~SupersededIn(records[h.key], r)
<1>1. h.key \in Key /\ h.serial \in Nat
  BY DEF ProcessInv, SlotInv, HeadsType
<1>2. ASSUME NEW q \in records[h.key], q.slot = r.slot PROVE ~(q.serial > r.serial)
  <2>1. PICK g \in heads : g.key = h.key /\ g.slot = q.slot /\ q.serial <= g.serial
    BY <1>1 DEF ProcessInv, SlotInv, RecordsHeaded
  <2>2. g = h
    BY <1>2, <2>1 DEF ProcessInv, SlotInv, HeadsUnique
  <2>3. q.serial \in Nat
    BY <1>1 DEF ProcessInv, StoreInv, StoreTypeOK, Stored
  <2> QED
    BY <1>1, <2>1, <2>2, <2>3
<1> QED
  BY <1>1, <1>2 DEF SupersededIn, SlotOf

\* Every slot is that of a publication.
LEMMA AllPublished ==
  ASSUME ProcessInv, NEW k \in Key, NEW r \in records[k]
  PROVE  /\ r \in Stored /\ r.slot \in PublishedSlots /\ Len(r.slot) = 3
         /\ r.serial \in Nat /\ next_serial \in Nat /\ r.serial < next_serial
<1>1. r \in Stored /\ next_serial \in Nat
  BY DEF ProcessInv, StoreInv, StoreTypeOK
<1>2. r.identity \in Identity /\ r.source \in Sources /\ r.serial \in Nat
  BY <1>1 DEF Stored
<1>3. r.slot \in PublishedSlots
  BY <1>2, SlotType DEF ProcessInv, SlotInv, SlotsNamed
<1> QED
  BY <1>1, <1>2, <1>3, SlotLength DEF ProcessInv, StoreInv, SerialsApart

LEMMA StoreEvidenceSlots ==
  ASSUME ProcessInv, NEW k \in Key, NEW i \in Identity, NEW s \in Sources,
         NEW claim \in Claims \cup {NoClaim}, NEW withdrawn \in BOOLEAN,
         StoreEvidence(k, i, s, claim, withdrawn)
  PROVE  SlotInv'
<1> DEFINE new == Published(k, i, s, claim, withdrawn)
           head == [key |-> k, slot |-> new.slot, serial |-> next_serial]
           others == {h \in heads : <<h.key, h.slot>> # <<k, new.slot>>}
<1>1. StoreInv
  BY DEF ProcessInv
<1>2. Stamp(new, k, i, s, claim, withdrawn)
  BY <1>1, PublishedFields
<1>3. Sheds(Key \ {k}) /\ Gains(k, new)
  BY <1>1, StoreRecords
<1>4. heads' = others \cup {head} /\ live' = live /\ i \in live
  BY DEF StoreEvidence, Received, Published, SlotOf
<1> HIDE DEF new
<1>5. /\ new.slot = Slot(i, s) /\ new.serial = next_serial /\ new.identity = i
      /\ new.source = s /\ new.superseded = FALSE /\ new.slot \in PublishedSlots
      /\ next_serial \in Nat
  BY <1>1, <1>2, SlotType DEF Stamp, StoreInv, StoreTypeOK
<1>6. /\ head.key = k /\ head.slot = new.slot /\ head.serial = next_serial
      /\ \A h \in others : h \in heads /\ ~(h.key = k /\ h.slot = new.slot)
      /\ \A h \in heads : h.key # k \/ h.slot # new.slot => h \in others
      /\ head \in heads' /\ \A h \in others : h \in heads'
  BY <1>4
<1> HIDE DEF head, others
<1>7. ASSUME NEW r \in records[k]
      PROVE  /\ r \in Stored /\ Again(Beside(r, new.slot), r)
             /\ Beside(r, new.slot).superseded = (r.superseded \/ r.slot = new.slot)
             /\ r.superseded \in BOOLEAN
             /\ r.slot \in PublishedSlots /\ r.serial \in Nat /\ r.serial < next_serial
  <2>1. r \in Stored /\ r.slot \in PublishedSlots /\ r.serial \in Nat /\ r.serial < next_serial
    BY AllPublished
  <2>2. r.superseded \in BOOLEAN
    BY <2>1 DEF Stored
  <2> QED
    BY <2>1, <2>2, BesideAgain
<1>8. \A q \in records'[k] :
        q = new \/ \E r \in records[k] : q = Beside(r, new.slot) /\ Again(q, r)
  BY <1>3, <1>7 DEF Gains
<1>9. SlotsNamed'
  <2>1. \A j \in Key : \A r \in records[j] : r.slot = Slot(r.identity, r.source)
    BY DEF ProcessInv, SlotInv, SlotsNamed
  <2>2. \A q \in records'[k] : q.slot = Slot(q.identity, q.source)
    BY <1>5, <1>8, <2>1 DEF Again
  <2> QED
    BY <1>3, <2>1, <2>2 DEF SlotsNamed, Sheds
<1>10. HeadsType'
  BY <1>4, <1>5 DEF ProcessInv, SlotInv, HeadsType, head, others
<1>11. HeadsUnique'
  BY <1>4, <1>6 DEF ProcessInv, SlotInv, HeadsUnique
<1>12. HeadsKept'
  <2>1. ASSUME NEW h \in others
        PROVE  \E r \in records'[h.key] : r.slot = h.slot /\ r.serial = h.serial
    <3>1. h \in heads /\ ~(h.key = k /\ h.slot = new.slot)
      BY <1>6
    <3>2. PICK r \in records[h.key] : r.slot = h.slot /\ r.serial = h.serial
      BY <3>1 DEF ProcessInv, SlotInv, HeadsKept
    <3>3. h.key \in Key /\ ~SupersededIn(records[h.key], r)
      BY <3>1, <3>2, HeadIsNewest
    <3>4. CASE h.key = k
      <4>1. Beside(r, new.slot) \in records'[k] /\ Again(Beside(r, new.slot), r)
        BY <1>3, <1>7, <3>1, <3>2, <3>3, <3>4 DEF Gains
      <4> QED
        BY <3>2, <3>4, <4>1 DEF Again
    <3>5. CASE h.key # k
      BY <1>3, <3>2, <3>3, <3>5 DEF Sheds
    <3> QED
      BY <3>4, <3>5
  <2>2. new \in records'[k]
    BY <1>3 DEF Gains
  <2> QED
    BY <1>4, <1>5, <1>6, <2>1, <2>2 DEF HeadsKept
<1>13. RecordsHeaded'
  <2>1. ASSUME NEW j \in Key, NEW r \in records[j], j # k \/ r.slot # new.slot
        PROVE  \E h \in heads' : /\ h.key = j /\ h.slot = r.slot /\ r.serial <= h.serial
                                 /\ r.superseded <=> r.serial # h.serial
    <3>1. PICK h \in heads : /\ h.key = j /\ h.slot = r.slot /\ r.serial <= h.serial
                             /\ r.superseded <=> r.serial # h.serial
      BY DEF ProcessInv, SlotInv, RecordsHeaded
    <3>2. h \in heads'
      BY <1>6, <2>1, <3>1
    <3> QED
      BY <3>1, <3>2
  <2>2. ASSUME NEW q \in records'[k]
        PROVE  \E h \in heads' : /\ h.key = k /\ h.slot = q.slot /\ q.serial <= h.serial
                                 /\ q.superseded <=> q.serial # h.serial
    <3>1. CASE q = new
      BY <1>5, <1>6, <3>1
    <3>2. CASE q # new
      <4>1. PICK r \in records[k] : q = Beside(r, new.slot) /\ Again(q, r)
        BY <1>8, <3>2
      <4>2. q.superseded = (r.superseded \/ r.slot = new.slot) /\ r.superseded \in BOOLEAN
        BY <1>7, <4>1
      <4>3. q.slot = r.slot /\ q.serial = r.serial /\ r.serial \in Nat /\ r.serial < next_serial
        BY <1>7, <4>1 DEF Again
      <4>4. CASE r.slot = new.slot
        <5>1. q.superseded
          BY <4>2, <4>4
        <5>2. q.slot = head.slot /\ q.serial <= head.serial /\ q.serial # head.serial
          BY <1>5, <1>6, <4>3, <4>4
        <5> QED
          BY <1>6, <5>1, <5>2
      <4>5. CASE r.slot # new.slot
        <5>1. PICK h \in heads' : /\ h.key = k /\ h.slot = r.slot /\ r.serial <= h.serial
                                  /\ r.superseded <=> r.serial # h.serial
          BY <2>1, <4>5
        <5>2. q.superseded = r.superseded
          BY <4>2, <4>5
        <5> QED
          BY <4>3, <5>1, <5>2
      <4> QED
        BY <4>4, <4>5
    <3> QED
      BY <3>1, <3>2
  <2>3. ASSUME NEW j \in Key \ {k}, NEW q \in records'[j]
        PROVE  \E h \in heads' : /\ h.key = j /\ h.slot = q.slot /\ q.serial <= h.serial
                                 /\ q.superseded <=> q.serial # h.serial
    <3>1. q \in records[j]
      BY <1>3 DEF Sheds
    <3> QED
      BY <2>1, <3>1
  <2> QED
    BY <2>2, <2>3 DEF RecordsHeaded
<1>14. EarlierBootsOver'
  <2> DEFINE Over(q, r) == q.identity.pub = r.identity.pub /\ q.identity # r.identity
                            /\ r.serial < q.serial => r.identity \notin live
  <2>1. \A j \in Key : \A q, r \in records[j] : Over(q, r)
    BY DEF ProcessInv, SlotInv, EarlierBootsOver
  <2>2. ASSUME NEW r \in records[k] PROVE Over(new, r) /\ Over(r, new)
    <3>1. ~(new.serial < r.serial)
      BY <1>5, <1>7
    <3>2. \A j \in live : j.pub = i.pub => j = i
      BY <1>1, <1>4 DEF StoreInv, OneIdentityEach
    <3> QED
      BY <1>5, <3>1, <3>2
  <2>3. ASSUME NEW p \in records'[k], NEW q \in records'[k] PROVE Over(p, q)
    BY <1>8, <2>1, <2>2 DEF Again
  <2>4. ASSUME NEW j \in Key, NEW p \in records'[j], NEW q \in records'[j] PROVE Over(p, q)
    <3>1. CASE j = k
      BY <2>3, <3>1
    <3>2. CASE j # k
      BY <1>3, <2>1, <3>2 DEF Sheds
    <3> QED
      BY <3>1, <3>2
  <2> QED
    BY <1>4, <2>4 DEF EarlierBootsOver
<1> QED
  BY <1>9, <1>10, <1>11, <1>12, <1>13, <1>14 DEF SlotInv

LEMMA ShedSlots ==
  ASSUME ProcessInv, Sheds(Key), heads' = heads, live' \subseteq live \cup (Identity \ spent)
  PROVE  SlotInv'
<1>1. \A j \in Key : records'[j] \subseteq records[j]
  BY DEF Sheds
<1>2. SlotsNamed' /\ HeadsType' /\ HeadsUnique' /\ RecordsHeaded'
  BY <1>1 DEF ProcessInv, SlotInv, SlotsNamed, HeadsType, HeadsUnique, RecordsHeaded
<1>3. HeadsKept'
  <2>1. ASSUME NEW h \in heads
        PROVE  \E r \in records'[h.key] : r.slot = h.slot /\ r.serial = h.serial
    <3>1. PICK r \in records[h.key] : r.slot = h.slot /\ r.serial = h.serial
      BY DEF ProcessInv, SlotInv, HeadsKept
    <3>2. h.key \in Key /\ ~SupersededIn(records[h.key], r)
      BY <3>1, HeadIsNewest
    <3> QED
      BY <3>1, <3>2 DEF Sheds
  <2> QED
    BY <2>1 DEF HeadsKept
<1>4. EarlierBootsOver'
  <2>1. \A k \in Key : \A r \in records[k] : r.identity \in spent
    BY DEF ProcessInv, StoreInv, StampedOnce
  <2> QED
    BY <1>1, <2>1 DEF ProcessInv, SlotInv, EarlierBootsOver
<1> QED
  BY <1>2, <1>3, <1>4 DEF SlotInv

LEMMA ProcessInvInit == Init => ProcessInv
<1> SUFFICES ASSUME Init PROVE ProcessInv
  OBVIOUS
<1>1. records = [k \in Key |-> {}] /\ heads = {}
  BY DEF Init
<1>2. SlotInv
  BY <1>1 DEF SlotInv, SlotsNamed, HeadsType, HeadsUnique, HeadsKept, RecordsHeaded,
              EarlierBootsOver
<1> QED
  BY <1>2, StoreInvInit DEF ProcessInv

LEMMA ProcessInvNext ==
  ASSUME ProcessInv, [Next]_vars
  PROVE  ProcessInv'
<1> USE DEF ProcessInv
<1>1. StoreInv'
  BY StoreInvNext, StoreInvStutter
<1>2. CASE DeviceStep
  <2>1. records' = records /\ heads' = heads /\ live' = live
    BY <1>2 DEF DeviceStep, evidenceVars
  <2> QED
    BY <1>1, <2>1, SameRecords, ShedSlots
<1>3. CASE AuthorityStep
  <2>1. records' = records /\ heads' = heads /\ live' \subseteq live \cup (Identity \ spent)
    BY <1>3, AuthorityMoves DEF evidenceVars
  <2> QED
    BY <1>1, <2>1, SameRecords, ShedSlots
<1>4. ASSUME NEW k \in Key, NEW i \in Identity, NEW s \in Sources,
             NEW claim \in Claims \cup {NoClaim}, NEW withdrawn \in BOOLEAN,
             RefuseEvidence(k, i, s, claim, withdrawn)
      PROVE  ProcessInv'
  <2>1. Sheds(Key)
    BY <1>4, RefuseRecords
  <2>2. heads' = heads /\ live' = live
    BY <1>4 DEF RefuseEvidence
  <2> QED
    BY <1>1, <2>1, <2>2, ShedSlots
<1>5. CASE PublishStep
  <2>1. PICK k \in Key, i \in Identity, s \in Sources, claim \in Claims :
          StoreEvidence(k, i, s, claim, FALSE) \/ RefuseEvidence(k, i, s, claim, FALSE)
    BY <1>5 DEF PublishStep
  <2> QED
    BY <1>1, <1>4, <2>1, StoreEvidenceSlots
<1>6. CASE WithdrawStep
  <2>1. PICK k \in Key, i \in Identity, s \in Sources :
          StoreEvidence(k, i, s, NoClaim, TRUE) \/ RefuseEvidence(k, i, s, NoClaim, TRUE)
    BY <1>6 DEF WithdrawStep
  <2> QED
    BY <1>1, <1>4, <2>1, StoreEvidenceSlots
<1>7. CASE SkipStep
  <2>1. records' = records /\ heads' = heads /\ live' = live
    BY <1>7 DEF SkipStep, RefuseSkippedGeneration
  <2> QED
    BY <1>1, <2>1, SameRecords, ShedSlots
<1>8. CASE UNCHANGED vars
  <2>1. records' = records /\ heads' = heads /\ live' = live
    BY <1>8 DEF vars, evidenceVars
  <2> QED
    BY <1>1, <2>1, SameRecords, ShedSlots
<1> QED
  BY <1>2, <1>3, <1>5, <1>6, <1>7, <1>8 DEF Next

--------------------------------------------------------------------------------
(* What the slots show.                                                    *)

(* The newest record of every source slot is retained and is the slot's    *)
(* only record that is not superseded, whatever the limits evict           *)
(* (apply_capability_locked, evict_if_needed_locked).                      *)
THEOREM NewestRecordsAreKept == Spec => []NewestOfSlotKept
<1>1. ProcessInv => NewestOfSlotKept
  <2> SUFFICES ASSUME ProcessInv, NEW h \in heads
               PROVE  \E r \in records[h.key] :
                        /\ r.serial = h.serial
                        /\ \A q \in records[h.key] :
                             SlotOf(q) = h.slot => (q.superseded <=> q # r)
    BY DEF NewestOfSlotKept
  <2>1. h.key \in Key
    BY DEF ProcessInv, SlotInv, HeadsType
  <2>2. PICK r \in records[h.key] : r.slot = h.slot /\ r.serial = h.serial
    BY DEF ProcessInv, SlotInv, HeadsKept
  <2>3. ASSUME NEW q \in records[h.key], q.slot = h.slot PROVE q.superseded <=> q # r
    <3>1. PICK g \in heads : /\ g.key = h.key /\ g.slot = q.slot
                             /\ q.superseded <=> q.serial # g.serial
      BY <2>1 DEF ProcessInv, SlotInv, RecordsHeaded
    <3>2. g = h
      BY <2>3, <3>1 DEF ProcessInv, SlotInv, HeadsUnique
    <3>3. q.serial = r.serial => q = r
      BY <2>1, <2>2, <2>3 DEF ProcessInv, StoreInv, SerialsApart, Apart
    <3> QED
      BY <2>2, <3>1, <3>2, <3>3
  <2> QED
    BY <2>2, <2>3 DEF SlotOf
<1> QED
  BY <1>1, ProcessInvInit, ProcessInvNext, PTL DEF Spec

\* Of two records of a slot the older one is superseded.
LEMMA OlderSuperseded ==
  ASSUME ProcessInv, NEW k \in Key, NEW r \in records[k], NEW w \in records[k],
         r.slot = w.slot, r.serial < w.serial
  PROVE  r.superseded
<1>1. PICK h \in heads : /\ h.key = k /\ h.slot = r.slot
                         /\ r.superseded <=> r.serial # h.serial
  BY DEF ProcessInv, SlotInv, RecordsHeaded
<1>2. PICK g \in heads : g.key = k /\ g.slot = w.slot /\ w.serial <= g.serial
  BY DEF ProcessInv, SlotInv, RecordsHeaded
<1>3. g = h
  BY <1>1, <1>2 DEF ProcessInv, SlotInv, HeadsUnique
<1>4. r.serial \in Nat /\ w.serial \in Nat /\ h.serial \in Nat
  BY AllPublished DEF ProcessInv, SlotInv, HeadsType
<1> QED
  BY <1>1, <1>2, <1>3, <1>4

(* A withdrawal retracts the publisher's earlier claims through the same   *)
(* source class: those of the same boot are superseded, those of earlier   *)
(* boots that depend on a live publisher have lost it.                     *)
THEOREM WithdrawalsRetract == Spec => []WithdrawalRetracts
<1>1. ASSUME ProcessInv, NEW k \in Key, NEW w \in records[k], NEW r \in records[k],
             r.identity.pub = w.identity.pub, r.source.class = w.source.class,
             LiveBound(r) \/ r.identity.boot = w.identity.boot,
             w.withdrawn, r.serial <= w.serial
      PROVE  Stale(k[1], r)
  <2>1. r.serial \in Nat /\ w.serial \in Nat /\ Len(r.slot) = 3 /\ Len(w.slot) = 3
    BY <1>1, AllPublished
  <2>2. CASE r.serial = w.serial
    <3>1. r = w
      BY <1>1, <2>1, <2>2 DEF ProcessInv, StoreInv, SerialsApart, Apart
    <3>2. Raised("Withdrawn", k[1], r, generation[k[1]])
      BY <1>1, <3>1 DEF Raised
    <3> QED
      BY <3>2 DEF Stale, StaleFor, StalenessFlags
  <2>3. CASE r.serial < w.serial /\ r.identity.boot = w.identity.boot
    <3>1. r.slot = w.slot
      BY <1>1, <2>3 DEF ProcessInv, SlotInv, SlotsNamed, Slot
    <3>2. Raised("SupersededByNewerEvidence", k[1], r, generation[k[1]])
      BY <1>1, <2>3, <3>1, OlderSuperseded DEF Raised
    <3> QED
      BY <3>2 DEF Stale, StaleFor, StalenessFlags
  <2>4. CASE r.serial < w.serial /\ r.identity.boot # w.identity.boot
    <3>1. LiveBound(r) /\ r.identity # w.identity
      BY <1>1, <2>4
    <3>2. r.identity \notin live
      BY <1>1, <2>4, <3>1 DEF ProcessInv, SlotInv, EarlierBootsOver
    <3>3. Moved("PublisherFenced", k[1], r)
      BY <3>1, <3>2 DEF Moved
    <3>4. Raised("PublisherFenced", k[1], r, generation[k[1]])
      BY <3>3 DEF Raised
    <3> QED
      BY <3>4 DEF Stale, StaleFor, StalenessFlags
  <2> QED
    BY <1>1, <2>1, <2>2, <2>3, <2>4
<1>2. ProcessInv => WithdrawalRetracts
  BY <1>1 DEF WithdrawalRetracts, Candidates
<1> QED
  BY <1>2, ProcessInvInit, ProcessInvNext, PTL DEF Spec

--------------------------------------------------------------------------------
(* Staleness is final.                                                     *)

LEMMA AgainItself == \A r : Again(r, r)
BY DEF Again

\* What any step does to what staleness is computed from.
Ageing ==
  /\ GenerationsGrow
  /\ live' \subseteq live \cup (Identity \ spent)
  /\ \A k \in Key : \A q \in records'[k] :
       q.serial = next_serial \/ \E r \in records[k] : Again(q, r)

\* Steps that leave the devices alone.
LEMMA DevicesSame == ASSUME StoreInv, UNCHANGED deviceVars PROVE GenerationsGrow
<1>1. \A d \in Devices : /\ generation[d] \in Nat /\ platform_generation[d] \in Nat
                         /\ \A a \in Axes : axis_generation[d][a] \in Nat
  BY DEF StoreInv, StoreTypeOK, SubjectInv, DeviceTypeOK, Generations
<1>2. \A n \in Nat : n <= n
  OBVIOUS
<1>3. /\ generation' = generation /\ platform_generation' = platform_generation
      /\ axis_generation' = axis_generation
  BY DEF deviceVars
<1> QED
  BY <1>1, <1>2, <1>3 DEF GenerationsGrow

LEMMA StoreAges ==
  ASSUME StoreInv, NEW k \in Key, NEW i \in Identity, NEW s \in Sources,
         NEW claim \in Claims \cup {NoClaim}, NEW withdrawn \in BOOLEAN,
         StoreEvidence(k, i, s, claim, withdrawn)
  PROVE  Ageing
<1> DEFINE new == Published(k, i, s, claim, withdrawn)
<1>1. Sheds(Key \ {k}) /\ Gains(k, new)
  BY StoreRecords
<1>2. Stamp(new, k, i, s, claim, withdrawn)
  BY PublishedFields
<1>3. live' = live /\ UNCHANGED deviceVars
  BY DEF StoreEvidence
<1> HIDE DEF new
<1>4. new.serial = next_serial
  BY <1>2 DEF Stamp
<1>5. \A r \in records[k] : Again(Beside(r, new.slot), r)
  BY BesideAgain DEF StoreInv, StoreTypeOK
<1>6. \A j \in Key : \A q \in records'[j] :
        q.serial = next_serial \/ \E r \in records[j] : Again(q, r)
  BY <1>1, <1>4, <1>5, AgainItself DEF Sheds, Gains
<1>7. GenerationsGrow
  BY <1>3, DevicesSame
<1> QED
  BY <1>3, <1>6, <1>7 DEF Ageing

LEMMA RefuseAges ==
  ASSUME StoreInv, NEW k \in Key, NEW i \in Identity, NEW s \in Sources,
         NEW claim \in Claims \cup {NoClaim}, NEW withdrawn \in BOOLEAN,
         RefuseEvidence(k, i, s, claim, withdrawn)
  PROVE  Ageing
<1>1. Sheds(Key)
  BY RefuseRecords
<1>2. live' = live /\ UNCHANGED deviceVars
  BY DEF RefuseEvidence
<1>3. \A j \in Key : \A q \in records'[j] : \E r \in records[j] : Again(q, r)
  BY <1>1, AgainItself DEF Sheds
<1>4. GenerationsGrow
  BY <1>2, DevicesSame
<1> QED
  BY <1>2, <1>3, <1>4 DEF Ageing

LEMMA StepAges == ASSUME StoreInv, [Next]_vars PROVE Ageing
<1>1. CASE DeviceStep
  <2>1. GenerationsGrow
    BY <1>1, DeviceStepInv
  <2>2. records' = records /\ live' = live
    BY <1>1 DEF DeviceStep, evidenceVars
  <2> QED
    BY <2>1, <2>2, AgainItself DEF Ageing
<1>2. CASE AuthorityStep
  <2>1. /\ live' \subseteq live \cup (Identity \ spent)
        /\ UNCHANGED <<deviceVars, evidenceVars>>
    BY <1>2, AuthorityMoves
  <2>2. records' = records /\ GenerationsGrow
    BY <2>1, DevicesSame DEF evidenceVars
  <2> QED
    BY <2>1, <2>2, AgainItself DEF Ageing
<1>3. CASE PublishStep
  <2>1. PICK k \in Key, i \in Identity, s \in Sources, claim \in Claims :
          StoreEvidence(k, i, s, claim, FALSE) \/ RefuseEvidence(k, i, s, claim, FALSE)
    BY <1>3 DEF PublishStep
  <2> QED
    BY <2>1, StoreAges, RefuseAges
<1>4. CASE WithdrawStep
  <2>1. PICK k \in Key, i \in Identity, s \in Sources :
          StoreEvidence(k, i, s, NoClaim, TRUE) \/ RefuseEvidence(k, i, s, NoClaim, TRUE)
    BY <1>4 DEF WithdrawStep
  <2> QED
    BY <2>1, StoreAges, RefuseAges
<1>5. CASE SkipStep \/ UNCHANGED vars
  <2>1. records' = records /\ live' = live /\ UNCHANGED deviceVars
    BY <1>5 DEF SkipStep, RefuseSkippedGeneration, vars, evidenceVars
  <2>2. GenerationsGrow
    BY <2>1, DevicesSame
  <2> QED
    BY <2>1, <2>2, AgainItself DEF Ageing
<1> QED
  BY <1>1, <1>2, <1>3, <1>4, <1>5 DEF Next

\* A reason to be stale stays one, a passed runtime version while the device names
\* that runtime.
LEMMA ReasonStays ==
  ASSUME StoreInv, StoreInv', Ageing, NEW k \in Key, NEW r \in records[k],
         NEW q \in records'[k], Again(q, r),
         NEW f \in StalenessFlags, Raised(f, k[1], r, generation[k[1]]),
         f = "RuntimeGenerationChanged" => RuntimeId(k[1])' = RuntimeId(k[1])
  PROVE  Stale(k[1], q)'
<1> DEFINE d == k[1]
<1>1. d \in Devices /\ r \in Stored
  BY DEF Key, StoreInv, StoreTypeOK
<1>2. /\ generation[d] \in Nat /\ generation'[d] \in Nat /\ platform_generation[d] \in Nat
      /\ platform_generation'[d] \in Nat
      /\ device_boot[d] = generation[d] /\ device_boot'[d] = generation'[d]
      /\ \A a \in Axes : axis_generation[d][a] \in Nat /\ axis_generation'[d][a] \in Nat
  BY <1>1 DEF StoreInv, StoreTypeOK, SubjectInv, DeviceTypeOK, Generations,
              BootFollowsGeneration
<1>3. /\ generation[d] <= generation'[d] /\ platform_generation[d] <= platform_generation'[d]
      /\ \A a \in Axes : axis_generation[d][a] <= axis_generation'[d][a]
  BY <1>1 DEF Ageing, GenerationsGrow
<1>4. /\ r.device_generation \in Nat /\ r.platform_generation \in Nat
      /\ \A a \in Axes : r.axes[a] \in Nat
  BY <1>1 DEF Stored
<1>5. /\ r.device_boot = r.device_generation /\ r.device_generation <= generation[d]
      /\ r.platform_generation <= platform_generation[d]
      /\ \A a \in Axes : r.axes[a] <= axis_generation[d][a]
      /\ r.identity \in spent
  BY DEF StoreInv, StampedOnce
<1>6. /\ Raised(f, d, r, generation[d])
      /\ f = "RuntimeGenerationChanged" => RuntimeId(d)' = RuntimeId(d)
  OBVIOUS
<1> HIDE DEF d
<1>7. r.device_generation # generation[d] => r.device_generation # generation'[d]
  BY <1>2, <1>3, <1>4, <1>5
<1>8. r.platform_generation # platform_generation[d] =>
        r.platform_generation # platform_generation'[d]
  BY <1>2, <1>3, <1>4, <1>5
<1>9. \A a \in Axes : r.axes[a] # axis_generation[d][a] => r.axes[a] # axis_generation'[d][a]
  BY <1>2, <1>3, <1>4, <1>5
<1>10. LiveBound(q)' <=> LiveBound(r)
  BY DEF LiveBound, Again
<1>11. ASSUME NEW a \in Axes, AxisMoved(d, r, a), a = "runtime" => RuntimeId(d)' = RuntimeId(d)
       PROVE  AxisMoved(d, q, a)'
  <2>2. q.axes = r.axes /\ q.claim = r.claim /\ q.runtime = r.runtime
    BY DEF Again
  <2>3. r.axes[a] # axis_generation'[d][a]
    BY <1>9, <1>11 DEF AxisMoved
  <2> QED
    BY <1>10, <1>11, <2>2, <2>3 DEF AxisMoved
<1>12. ASSUME Moved(f, d, r), f \notin {"SupersededByNewerEvidence", "Withdrawn",
                                        "DeviceGenerationSuperseded"}
       PROVE  Moved(f, d, q)'
  <2>1. CASE f = "DeviceBootChanged"
    BY <1>2, <1>5, <1>7, <1>12, <2>1 DEF Moved, Again
  <2>2. CASE f = "DriverGenerationChanged"
    BY <1>11, <1>12, <2>2 DEF Moved, Axes
  <2>3. CASE f = "FirmwareGenerationChanged"
    BY <1>11, <1>12, <2>3 DEF Moved, Axes
  <2>4. CASE f = "RuntimeGenerationChanged"
    BY <1>6, <1>11, <1>12, <2>4 DEF Moved, Axes
  <2>5. CASE f = "PlatformGenerationChanged"
    BY <1>8, <1>10, <1>12, <2>5 DEF Moved, Again
  <2>6. CASE f = "PublisherFenced"
    BY <1>5, <1>10, <1>12, <2>6 DEF Moved, Again, Ageing
  <2> QED
    BY <1>12, <2>1, <2>2, <2>3, <2>4, <2>5, <2>6 DEF StalenessFlags
<1>13. Raised(f, d, q, generation[d])'
  <2>1. CASE f = "SupersededByNewerEvidence"
    BY <1>6, <2>1 DEF Raised, Again
  <2>2. CASE f = "Withdrawn"
    BY <1>6, <2>2 DEF Raised, Again
  <2>3. CASE f = "DeviceGenerationSuperseded"
    BY <1>6, <1>7, <2>3 DEF Raised, Again
  <2>4. CASE f \notin {"SupersededByNewerEvidence", "Withdrawn", "DeviceGenerationSuperseded"}
    <3>1. Moved(f, d, r)
      BY <1>6, <2>4 DEF Raised
    <3>2. Moved(f, d, q)'
      BY <1>12, <2>4, <3>1
    <3> QED
      BY <2>4, <3>2 DEF Raised
  <2> QED
    BY <2>1, <2>2, <2>3, <2>4
<1> QED
  BY <1>13 DEF Stale, StaleFor, d

\* Evidence that went stale stays so: generations only grow, an identity that lost
\* authority does not regain it, and marks are not taken back.  The one exception, for
\* any devices, runtimes and reports, is evidence whose runtime version alone has
\* passed and whose device is reported through another runtime (the runtime clause of
\* compute_staleness_locked, evaluated afresh by every query).
THEOREM StaleIsFinalButForRuntimes == Spec => StaleUnlessOtherRuntime
<1> DEFINE A == \A k \in Key : \A r \in records[k] :
                  Stale(k[1], r) =>
                    \A q \in records'[k] : q.serial = r.serial =>
                      \/ Stale(k[1], q)'
                      \/ /\ Reasons(k[1], r) = {"RuntimeGenerationChanged"}
                         /\ RuntimeId(k[1])' # RuntimeId(k[1])
<1>1. ProcessInv /\ [Next]_vars => A
  <2> SUFFICES ASSUME ProcessInv, [Next]_vars, NEW k \in Key,
                      NEW r \in records[k], Stale(k[1], r),
                      NEW q \in records'[k], q.serial = r.serial,
                      ~(/\ Reasons(k[1], r) = {"RuntimeGenerationChanged"}
                        /\ RuntimeId(k[1])' # RuntimeId(k[1]))
               PROVE  Stale(k[1], q)'
    OBVIOUS
  <2>1. StoreInv /\ StoreInv' /\ Ageing
    BY ProcessInvNext, StepAges DEF ProcessInv
  <2>2. r.serial \in Nat /\ r.serial < next_serial /\ next_serial \in Nat /\ Len(r.slot) = 3
    BY AllPublished
  <2>3. PICK o \in records[k] : Again(q, o)
    BY <2>1, <2>2 DEF Ageing
  <2>4. o = r
    <3>1. o.serial = r.serial /\ Len(o.slot) = 3
      BY <2>3, AllPublished DEF Again
    <3> QED
      BY <2>1, <2>2, <3>1 DEF StoreInv, SerialsApart, Apart
  <2>5. PICK f \in StalenessFlags :
          /\ Raised(f, k[1], r, generation[k[1]])
          /\ f = "RuntimeGenerationChanged" => RuntimeId(k[1])' = RuntimeId(k[1])
    <3>1. PICK g \in StalenessFlags : Raised(g, k[1], r, generation[k[1]])
      BY DEF Stale, StaleFor
    <3>2. CASE RuntimeId(k[1])' = RuntimeId(k[1])
      BY <3>1, <3>2
    <3>3. CASE Reasons(k[1], r) # {"RuntimeGenerationChanged"}
      BY <3>1, <3>3 DEF Reasons
    <3> QED
      BY <3>2, <3>3
  <2> QED
    BY <2>1, <2>3, <2>4, <2>5, ReasonStays
<1> HIDE DEF A
<1>2. Spec => []ProcessInv
  BY ProcessInvInit, ProcessInvNext, PTL DEF Spec
<1>3. Spec => [][A]_vars
  BY <1>1, <1>2, PTL DEF Spec
<1> QED
  BY <1>3 DEF StaleUnlessOtherRuntime, A

--------------------------------------------------------------------------------
(* Repeated evidence.                                                      *)

\* Devices stay on their platform.  The repetition test does not compare platform
\* generations, so without this a record of the former platform hides its repetition.
OnePlatform == \A p, q \in Reports : p.platform = q.platform

PlatformSettled ==
  /\ \A d \in registered : platform_generation[d] = 1 /\ \A p \in Reports : p.platform = platform[d]
  /\ \A k \in Key : \A r \in records[k] : r.platform_generation = 1

LEMMA PlatformStays ==
  ASSUME OnePlatform, StoreInv, PlatformSettled, [Next]_vars
  PROVE  PlatformSettled'
<1>1. platform \in [Devices -> PlatformIds] /\ platform_generation \in [Devices -> Generations]
      /\ registered \subseteq Devices
  BY DEF StoreInv, StoreTypeOK, SubjectInv, DeviceTypeOK
<1>2. CASE DeviceStep
  <2>1. PICK d \in Devices, r \in Reports : ReportDevice(d, r)
    BY <1>2 DEF DeviceStep
  <2>2. records' = records
    BY <1>2 DEF DeviceStep, evidenceVars
  <2>3. \A p \in Reports : p.platform = r.platform
    BY DEF OnePlatform
  <2>4. CASE RegisterDevice(d, r)
    BY <1>1, <2>2, <2>3, <2>4 DEF RegisterDevice, PlatformSettled
  <2>5. CASE RefreshDevice(d, r)
    BY <1>1, <2>2, <2>3, <2>5 DEF RefreshDevice, PlatformSettled
  <2> QED
    BY <2>1, <2>4, <2>5 DEF ReportDevice
<1>3. ASSUME UNCHANGED deviceVars, Sheds(Key) PROVE PlatformSettled'
  BY <1>3 DEF PlatformSettled, Sheds, deviceVars
<1>4. CASE AuthorityStep
  <2>1. records' = records /\ UNCHANGED deviceVars
    BY <1>4 DEF AuthorityStep, evidenceVars
  <2> QED
    BY <1>3, <2>1, SameRecords
<1>5. ASSUME NEW k \in Key, NEW i \in Identity, NEW s \in Sources,
             NEW claim \in Claims \cup {NoClaim}, NEW withdrawn \in BOOLEAN,
             StoreEvidence(k, i, s, claim, withdrawn)
      PROVE  PlatformSettled'
  <2> DEFINE new == Published(k, i, s, claim, withdrawn)
  <2>1. Sheds(Key \ {k}) /\ Gains(k, new)
    BY <1>5, StoreRecords
  <2>2. Stamp(new, k, i, s, claim, withdrawn)
    BY PublishedFields
  <2>3. k[1] \in registered /\ UNCHANGED deviceVars
    BY <1>5 DEF StoreEvidence, Received
  <2> HIDE DEF new
  <2>4. new.platform_generation = 1
    BY <2>2, <2>3 DEF Stamp, PlatformSettled
  <2>5. \A r \in records[k] : Again(Beside(r, new.slot), r)
    BY BesideAgain DEF StoreInv, StoreTypeOK
  <2>6. \A q \in records'[k] : q.platform_generation = 1
    BY <2>1, <2>4, <2>5 DEF Gains, Again, PlatformSettled
  <2>7. \A j \in Key : \A q \in records'[j] : q.platform_generation = 1
    BY <2>1, <2>6 DEF Sheds, PlatformSettled
  <2> QED
    BY <2>3, <2>7 DEF PlatformSettled, deviceVars
<1>6. ASSUME NEW k \in Key, NEW i \in Identity, NEW s \in Sources,
             NEW claim \in Claims \cup {NoClaim}, NEW withdrawn \in BOOLEAN,
             RefuseEvidence(k, i, s, claim, withdrawn)
      PROVE  PlatformSettled'
  <2>1. Sheds(Key)
    BY <1>6, RefuseRecords
  <2>2. UNCHANGED deviceVars
    BY <1>6 DEF RefuseEvidence
  <2> QED
    BY <1>3, <2>1, <2>2
<1>7. CASE PublishStep
  <2>1. PICK k \in Key, i \in Identity, s \in Sources, claim \in Claims :
          StoreEvidence(k, i, s, claim, FALSE) \/ RefuseEvidence(k, i, s, claim, FALSE)
    BY <1>7 DEF PublishStep
  <2> QED
    BY <1>5, <1>6, <2>1
<1>8. CASE WithdrawStep
  <2>1. PICK k \in Key, i \in Identity, s \in Sources :
          StoreEvidence(k, i, s, NoClaim, TRUE) \/ RefuseEvidence(k, i, s, NoClaim, TRUE)
    BY <1>8 DEF WithdrawStep
  <2> QED
    BY <1>5, <1>6, <2>1
<1>9. CASE SkipStep \/ UNCHANGED vars
  <2>1. records' = records /\ UNCHANGED deviceVars
    BY <1>9 DEF SkipStep, RefuseSkippedGeneration, vars, evidenceVars
  <2> QED
    BY <1>3, <2>1, SameRecords
<1> QED
  BY <1>2, <1>4, <1>7, <1>8, <1>9 DEF Next

\* The record of a slot that nothing retained supersedes is its head.
LEMMA NewestIsNotMarked ==
  ASSUME ProcessInv, NEW k \in Key, NEW r \in records[k], ~SupersededIn(records[k], r)
  PROVE  ~r.superseded
<1>1. PICK h \in heads : /\ h.key = k /\ h.slot = r.slot /\ r.serial <= h.serial
                         /\ r.superseded <=> r.serial # h.serial
  BY DEF ProcessInv, SlotInv, RecordsHeaded
<1>2. PICK q \in records[k] : q.slot = h.slot /\ q.serial = h.serial
  BY <1>1 DEF ProcessInv, SlotInv, HeadsKept
<1>3. ~(q.serial > r.serial)
  BY <1>1, <1>2 DEF SupersededIn, SlotOf
<1>4. r.serial \in Nat /\ q.serial \in Nat
  BY AllPublished
<1> QED
  BY <1>1, <1>2, <1>3, <1>4

(* A publication that is answered "identical evidence already recorded"    *)
(* finds that evidence current, so that dropping it loses nothing.         *)
THEOREM RepetitionsAreCurrent == ASSUME OnePlatform PROVE Spec => []RepeatedEvidenceIsCurrent
<1> DEFINE Said(k, i, s, claim) ==
      \E r \in records[k] :
        /\ r.slot = Slot(i, s) /\ ~SupersededIn(records[k], r) /\ ~r.withdrawn
        /\ r.claim = claim /\ r.device_generation = generation[k[1]]
        /\ r.axes = axis_generation[k[1]]
           Answered(k, i, s, claim) ==
      \E r \in Candidates(k) : SlotOf(r) = Slot(i, s) /\ r.claim = claim
<1>1. ASSUME ProcessInv, PlatformSettled, NEW k \in Key, NEW i \in live, NEW s \in Sources,
             NEW claim \in Claims, k[1] \in registered, Said(k, i, s, claim)
      PROVE  Answered(k, i, s, claim)
  <2> DEFINE d == k[1]
  <2>2. PICK r \in records[k] :
          /\ r.slot = Slot(i, s) /\ ~SupersededIn(records[k], r) /\ ~r.withdrawn
          /\ r.claim = claim /\ r.device_generation = generation[d]
          /\ r.axes = axis_generation[d]
    BY <1>1
  <2> HIDE DEF d, Said
  <2>3. r.identity = i
    <3>1. r \in Stored /\ i \in Identity
      BY <1>1 DEF ProcessInv, StoreInv, StoreTypeOK
    <3>2. r.identity \in Identity
      BY <3>1 DEF Stored
    <3>3. r.identity.pub = i.pub /\ r.identity.boot = i.boot
      BY <1>1, <2>2 DEF ProcessInv, SlotInv, SlotsNamed, Slot
    <3>4. r.identity.epoch = 1 /\ i.epoch = 1
      BY <3>1, <3>2 DEF Identity
    <3> QED
      BY <3>1, <3>2, <3>3, <3>4 DEF Identity
  <2>4. ~r.superseded
    BY <1>1, <2>2, NewestIsNotMarked
  <2>5. r.device_generation = generation[d] /\ r.device_boot = device_boot[d]
    <3>1. r.device_boot = r.device_generation
      BY <1>1 DEF ProcessInv, StoreInv, StampedOnce
    <3>2. device_boot = generation
      BY <1>1 DEF ProcessInv, StoreInv, StoreTypeOK, SubjectInv, BootFollowsGeneration
    <3> QED
      BY <2>2, <3>1, <3>2
  <2>6. \A a : ~AxisMoved(d, r, a)
    BY <2>2 DEF AxisMoved
  <2>7. r.platform_generation = platform_generation[d]
    BY <1>1 DEF PlatformSettled, d
  <2>8. ASSUME NEW f \in StalenessFlags PROVE ~Raised(f, d, r, generation[d])
    <3>1. f \in {"SupersededByNewerEvidence", "Withdrawn", "DeviceGenerationSuperseded"} =>
            ~Raised(f, d, r, generation[d])
      BY <2>2, <2>4, <2>5 DEF Raised
    <3>2. f \notin {"SupersededByNewerEvidence", "Withdrawn", "DeviceGenerationSuperseded"} =>
            ~Moved(f, d, r)
      BY <1>1, <2>3, <2>5, <2>6, <2>7, <2>8 DEF Moved, StalenessFlags
    <3> QED
      BY <3>1, <3>2 DEF Raised
  <2>9. r \in Candidates(k)
    BY <2>8 DEF Candidates, Stale, StaleFor, d
  <2> QED
    BY <2>2, <2>9 DEF SlotOf
<1>2. ASSUME NEW k \in Key, NEW i, NEW s, NEW claim,
             Repeats(k, Stamped(k[1], i, s, claim, FALSE))
      PROVE  Said(k, i, s, claim)
  BY <1>2 DEF Repeats, Stamped, SlotOf
<1>3. ASSUME ProcessInv, PlatformSettled PROVE RepeatedEvidenceIsCurrent
  <2> HIDE DEF Said, Answered
  <2>1. \A k \in Key, i \in live, s \in Sources, claim \in Claims :
          k[1] \in registered /\ Said(k, i, s, claim) => Answered(k, i, s, claim)
    BY <1>1, <1>3
  <2>2. \A k \in Key, i \in live, s \in Sources, claim \in Claims :
          k[1] \in registered /\ Repeats(k, Stamped(k[1], i, s, claim, FALSE)) =>
            Answered(k, i, s, claim)
    BY <1>2, <2>1, Zenon
  <2> QED
    BY <2>2, Zenon DEF RepeatedEvidenceIsCurrent, Answered
<1>4. Init => PlatformSettled
  BY DEF Init, DeviceInit, PlatformSettled
<1>5. ProcessInv /\ PlatformSettled /\ [Next]_vars => ProcessInv' /\ PlatformSettled'
  BY ProcessInvNext, PlatformStays DEF ProcessInv
<1> QED
  BY <1>4, <1>3, <1>5, ProcessInvInit, PTL DEF Spec

--------------------------------------------------------------------------------
(* The answers that queries give.  The first three theorems hold in every  *)
(* state, whatever evidence is retained: resolve_locked, the listings and  *)
(* compare_devices agree with each other for every device, capability,     *)
(* pinned generation and environment.  The others are about which record   *)
(* an answer stands on, and rest on the invariants of the store.           *)


(* An answer about a known key says that it is stale exactly when it does *)
(* not say that it is current.                                             *)
LEMMA AnswerIsCurrentOrStale ==
  ASSUME NEW k \in keys, NEW pinned, NEW cx
  PROVE  LET a == Resolve(k, pinned, cx)
         IN a.current \in BOOLEAN /\ a.stale = ~a.current
BY DEF Resolve, NoCurrentEvidence, CurrentEvidence

(* Every capability of a device is listed as current or as stale and never *)
(* as both, for the present generation and any earlier one                 *)
(* (query_capabilities with only_current, query_stale).                    *)
THEOREM ListedExactlyOnce == Spec => []CurrentOrStale
<1>1. CurrentOrStale
  <2> SUFFICES ASSUME NEW d \in registered, NEW pinned \in Generations, NEW cx \in Contexts
               PROVE  LET current == QueryCapabilities(d, pinned, cx,
                                       [NoFilter EXCEPT !.only_current = TRUE])
                          stale == QueryStale(d, pinned, cx)
                      IN current \cap stale = {} /\ current \cup stale = DeviceKeys(d)
    BY DEF CurrentOrStale
  <2>1. \A a : Passes([NoFilter EXCEPT !.only_current = TRUE], a) <=> (TRUE => a.current)
    BY DEF Passes, NoFilter
  <2> QED
    BY <2>1, AnswerIsCurrentOrStale DEF QueryCapabilities, QueryStale, DeviceKeys
<1> QED
  BY <1>1, PTL

(* For a generation that is not the device's own every record is stale.    *)
LEMMA PastIsStale ==
  ASSUME NEW d, NEW r, NEW target, target # generation[d]
  PROVE  StaleFor(d, r, target)
<1>1. Raised("DeviceGenerationSuperseded", d, r, target)
  BY DEF Raised
<1> QED
  BY <1>1 DEF StaleFor, StalenessFlags

(* A past generation of a device never yields a usable answer (the pinned  *)
(* queries).                                                               *)
THEOREM PastNeverUsable == Spec => []PastIsNotUsable
<1>1. PastIsNotUsable
  <2> SUFFICES ASSUME NEW k \in keys, NEW pinned \in Generations, NEW cx \in Contexts,
                      pinned \notin {0, generation[k[1]]}
               PROVE  Resolve(k, pinned, cx).effective
                        \notin {"Supported", "SupportedWithCaveat"}
    BY DEF PastIsNotUsable
  <2>1. {r \in records[k] : ~StaleFor(k[1], r, pinned)} = {}
    BY PastIsStale
  <2>2. Resolve(k, pinned, cx) = NoCurrentEvidence(k)
    BY <2>1 DEF Resolve
  <2>3. NoCurrentEvidence(k).effective = "RevalidationRequired"
    BY DEF NoCurrentEvidence
  <2> QED
    BY <2>2, <2>3
<1> QED
  BY <1>1, PTL

--------------------------------------------------------------------------------
(* Comparisons.                                                            *)

(* Neither the aspect in which two answers differ nor the software axis it *)
(* is put down to depends on which of them is looked at first, and neither *)
(* is a verdict on the presence of the capability.                         *)
LEMMA AspectSymmetric ==
  ASSUME NEW a, NEW b
  PROVE  Aspect(a, b) = Aspect(b, a)
BY DEF Aspect

LEMMA QualifiedSymmetric ==
  ASSUME NEW a, NEW b, NEW kind, kind \notin {"OnlyInLeft", "OnlyInRight"}
  PROVE  /\ Qualified(a, b, kind) = Qualified(b, a, kind)
         /\ Qualified(a, b, kind) \notin {"OnlyInLeft", "OnlyInRight"}
<1> DEFINE ab == a.gates \cup b.gates
           ba == b.gates \cup a.gates
<1>1. ab = ba
  OBVIOUS
<1> QED
  BY <1>1 DEF Qualified

LEMMA AspectIsNoPresence ==
  ASSUME NEW a, NEW b
  PROVE  Aspect(a, b) \notin {"OnlyInLeft", "OnlyInRight"}
BY DEF Aspect

(* A comparison reports the same difference whichever side is named first. *)
THEOREM ComparisonsMirror == Spec => []ComparisonMirrors
<1>1. ComparisonMirrors
  <2> SUFFICES ASSUME NEW d \in registered, NEW e \in registered, NEW c \in Capabilities,
                      NEW q \in Generations, NEW p \in 0 .. q
               PROVE  LET left == [device |-> d, pinned |-> p]
                          right == [device |-> e, pinned |-> q]
                      IN Compare(right, left, c, Plain) = Mirror(Compare(left, right, c, Plain))
    BY DEF ComparisonMirrors
  <2> DEFINE a == Resolve(<<d, c>>, p, Plain)
             b == Resolve(<<e, c>>, q, Plain)
             kind == Qualified(a, b, Aspect(a, b))
  <2>1. Qualified(b, a, Aspect(b, a)) = kind /\ Mirror(kind) = kind
    BY AspectSymmetric, AspectIsNoPresence, QualifiedSymmetric DEF Mirror
  <2> HIDE DEF a, b
  <2> QED
    BY <2>1 DEF Compare, Mirror, a, b
<1> QED
  BY <1>1, PTL

--------------------------------------------------------------------------------
(* The winner of an answer.                                                *)

\* How by_authority prefers one record to another, part by part.
Ahead(q, r) ==
  \/ Rank(q) < Rank(r)
  \/ Rank(q) = Rank(r) /\ AnswerRank(q)[2] < AnswerRank(r)[2]
  \/ /\ Rank(q) = Rank(r) /\ AnswerRank(q)[2] = AnswerRank(r)[2]
     /\ AnswerRank(q)[3] < AnswerRank(r)[3]
  \/ /\ Rank(q) = Rank(r) /\ AnswerRank(q)[2] = AnswerRank(r)[2]
     /\ AnswerRank(q)[3] = AnswerRank(r)[3] /\ q.identity.pub < r.identity.pub
  \/ /\ Rank(q) = Rank(r) /\ AnswerRank(q)[2] = AnswerRank(r)[2]
     /\ AnswerRank(q)[3] = AnswerRank(r)[3] /\ q.identity.pub = r.identity.pub
     /\ q.serial < r.serial

LEMMA PartsJoined ==
  ASSUME NEW u \in Int, NEW v \in Int, NEW w \in Int, NEW x \in Int, NEW y \in Int, NEW z \in Int
  PROVE  LET t == <<u, v, w, x>> \o <<y, z>>
         IN /\ DOMAIN t = 1 .. 6
            /\ t[1] = u /\ t[2] = v /\ t[3] = w /\ t[4] = x /\ t[5] = y /\ t[6] = z
<1> DEFINE t == <<u, v, w, x>> \o <<y, z>>
<1>1. /\ t \in Seq(Int) /\ Len(t) = 6
      /\ t[1] = u /\ t[2] = v /\ t[3] = w /\ t[4] = x /\ t[5] = y /\ t[6] = z
  OBVIOUS
<1> HIDE DEF t
<1>2. DOMAIN t = 1 .. 6
  BY <1>1
<1> QED
  BY <1>1, <1>2 DEF t

\* The parts of a published record's rank.
Ranked(r) ==
  /\ DOMAIN AnswerRank(r) = 1 .. 6
  /\ AnswerRank(r)[1] = Rank(r) /\ Rank(r) \in Int /\ Rank(r) + 17 \in Nat
  /\ AnswerRank(r)[2] \in Int /\ AnswerRank(r)[2] + 6 \in Nat
  /\ AnswerRank(r)[3] = -r.source.evidence_generation /\ r.source.evidence_generation \in Nat
  /\ AnswerRank(r)[4] = r.identity.pub /\ r.identity.pub \in Nat
  /\ AnswerRank(r)[5] = -3
  /\ AnswerRank(r)[6] = r.serial /\ r.serial \in Nat

LEMMA AnswerParts ==
  ASSUME NEW r \in Stored, Len(r.slot) = 3
  PROVE  Ranked(r)
<1> DEFINE u == Rank(r)
           v == -PrecisionRank[r.source.precision]
           w == -r.source.evidence_generation
           x == r.identity.pub
           z == r.serial
<1>1. u \in Int /\ u + 17 \in Nat
  BY RankRange
<1>2. v \in Int /\ v + 6 \in Nat
  <2>1. r.source.precision \in DOMAIN PrecisionRank
    BY EvidenceConstants DEF Stored
  <2>2. \A p \in DOMAIN PrecisionRank : PrecisionRank[p] \in 0 .. 6
    BY DEF PrecisionRank
  <2>3. \A n \in 0 .. 6 : -n \in Int /\ (-n) + 6 \in Nat
    OBVIOUS
  <2> QED
    BY <2>1, <2>2, <2>3
<1>3. r.source.evidence_generation \in Nat /\ w \in Int
  BY EvidenceConstants DEF Stored
<1>4. x \in Nat /\ z \in Nat
  BY EvidenceConstants DEF Stored, Identity
<1>5. AnswerRank(r) = <<u, v, w, x>> \o <<-3, z>>
  BY DEF AnswerRank, Position
<1> DEFINE t == <<u, v, w, x>> \o <<-3, z>>
<1> HIDE DEF u, v, w, x, z
<1>6. /\ DOMAIN t = 1 .. 6
      /\ t[1] = u /\ t[2] = v /\ t[3] = w /\ t[4] = x /\ t[5] = -3 /\ t[6] = z
  BY <1>1, <1>2, <1>3, <1>4, PartsJoined
<1> HIDE DEF t
<1> QED
  BY <1>1, <1>2, <1>3, <1>4, <1>5, <1>6 DEF Ranked, t, u, w, x, z

LEMMA AheadPrecedes ==
  ASSUME NEW q \in Stored, NEW r \in Stored, Len(q.slot) = 3, Len(r.slot) = 3
  PROVE  Precedes(AnswerRank(q), AnswerRank(r)) <=> Ahead(q, r)
<1> DEFINE s == AnswerRank(q)
           t == AnswerRank(r)
<1>1. Ranked(q) /\ Ranked(r)
  BY AnswerParts
<1>2. DOMAIN s = 1 .. 6 /\ s[5] = t[5] /\ s[5] \in Int
  BY <1>1 DEF Ranked
<1>3. Ahead(q, r) <=>
        \/ s[1] < t[1]
        \/ s[1] = t[1] /\ s[2] < t[2]
        \/ s[1] = t[1] /\ s[2] = t[2] /\ s[3] < t[3]
        \/ s[1] = t[1] /\ s[2] = t[2] /\ s[3] = t[3] /\ s[4] < t[4]
        \/ s[1] = t[1] /\ s[2] = t[2] /\ s[3] = t[3] /\ s[4] = t[4] /\ s[6] < t[6]
  BY <1>1 DEF Ranked, Ahead
<1> HIDE DEF s, t
<1>4. ~(s[5] < t[5])
  BY <1>2
<1>5. Precedes(s, t) <=> \E n \in 1 .. 6 : s[n] < t[n] /\ \A m \in 1 .. n - 1 : s[m] = t[m]
  BY <1>2 DEF Precedes
<1>6. Ahead(q, r) => Precedes(s, t)
  BY <1>2, <1>3, <1>5
<1>7. Precedes(s, t) => Ahead(q, r)
  <2> SUFFICES ASSUME NEW n \in 1 .. 6, s[n] < t[n], \A m \in 1 .. n - 1 : s[m] = t[m]
               PROVE  Ahead(q, r)
    BY <1>5
  <2> QED
    BY <1>3, <1>4
<1> QED
  BY <1>6, <1>7 DEF s, t

LEMMA LeastBy ==
  ASSUME NEW S, S # {}, NEW f \in [S -> Nat]
  PROVE  \E x \in S : \A y \in S : f[x] <= f[y]
<1>1. PICK n \in {f[x] : x \in S} : \A m \in {f[x] : x \in S} : n <= m
  BY LeastElement
<1> QED
  BY <1>1

\* Records that one process published for one key.
OneVector(recs) ==
  /\ recs \subseteq Stored
  /\ \A r \in recs : Len(r.slot) = 3
  /\ \A q, r \in recs : q.serial = r.serial => q = r
  /\ \E n \in Nat : \A r \in recs : r.serial < n

(* Each record adds one evidence generation, so a vector has a largest.    *)
LEMMA EvidenceBounded ==
  ASSUME NEW recs, OneVector(recs)
  PROVE  \E b \in Nat : \A r \in recs : r.source.evidence_generation <= b
<1> DEFINE Bound(n, b) == \A r \in recs : r.serial < n => r.source.evidence_generation <= b
           S == {n \in Nat : \E b \in Nat : Bound(n, b)}
<1>1. \A r \in recs : r.source.evidence_generation \in Nat /\ r.serial \in Nat
  BY EvidenceConstants DEF OneVector, Stored
<1>2. 0 \in S
  <2>1. Bound(0, 0)
    BY <1>1
  <2> QED
    BY <2>1
<1>3. ASSUME NEW n \in Nat, n \in S PROVE n + 1 \in S
  <2>1. PICK b \in Nat : Bound(n, b)
    BY <1>3
  <2>2. CASE \E r \in recs : r.serial = n
    <3>1. PICK r \in recs : r.serial = n
      BY <2>2
    <3>2. Bound(n + 1, b + r.source.evidence_generation)
      <4> SUFFICES ASSUME NEW q \in recs, q.serial < n + 1
                   PROVE  q.source.evidence_generation <= b + r.source.evidence_generation
        OBVIOUS
      <4>1. q = r \/ q.source.evidence_generation <= b
        BY <1>1, <2>1, <3>1 DEF OneVector
      <4> QED
        BY <1>1, <4>1
    <3>3. b + r.source.evidence_generation \in Nat
      BY <1>1
    <3> QED
      BY <3>2, <3>3
  <2>3. CASE ~\E r \in recs : r.serial = n
    <3>1. Bound(n + 1, b)
      BY <1>1, <2>1, <2>3
    <3> QED
      BY <3>1
  <2> QED
    BY <2>2, <2>3
<1> HIDE DEF S
<1>4. Nat \subseteq S
  BY <1>2, <1>3, SetInduction
<1>5. PICK n \in Nat : \A r \in recs : r.serial < n
  BY DEF OneVector
<1>6. PICK b \in Nat : Bound(n, b)
  BY <1>4 DEF S
<1> QED
  BY <1>5, <1>6

(* resolve_locked finds a record that is ahead of all others: the least of *)
(* each part of the preference in turn.                                    *)
LEMMA AheadOfAll ==
  ASSUME NEW recs, OneVector(recs), recs # {}
  PROVE  \E w \in recs : \A q \in recs \ {w} : Ahead(w, q)
<1> DEFINE B(r) == AnswerRank(r)[2]
           C(r) == AnswerRank(r)[3]
<1>1. \A r \in recs : /\ Rank(r) \in Int /\ Rank(r) + 17 \in Nat
                      /\ B(r) \in Int /\ B(r) + 6 \in Nat
                      /\ C(r) = -r.source.evidence_generation
                      /\ r.source.evidence_generation \in Nat
                      /\ r.identity.pub \in Nat /\ r.serial \in Nat
  BY AnswerParts DEF OneVector, Ranked
<1>2. PICK g \in Nat : \A r \in recs : r.source.evidence_generation <= g
  BY EvidenceBounded
<1>3. \A r \in recs : C(r) \in Int /\ C(r) + g \in Nat
  BY <1>1, <1>2
<1> HIDE DEF B, C
<1> DEFINE f1 == [r \in recs |-> Rank(r) + 17]
<1>4. PICK a \in recs : \A q \in recs : f1[a] <= f1[q]
  <2>1. f1 \in [recs -> Nat]
    BY <1>1
  <2> HIDE DEF f1
  <2> QED
    BY <2>1, LeastBy
<1> DEFINE S2 == {r \in recs : Rank(r) = Rank(a)}
           f2 == [r \in S2 |-> B(r) + 6]
<1>5. PICK b \in S2 : \A q \in S2 : f2[b] <= f2[q]
  <2>1. f2 \in [S2 -> Nat] /\ S2 # {}
    BY <1>1
  <2> HIDE DEF f2, S2
  <2> QED
    BY <2>1, LeastBy
<1> DEFINE S3 == {r \in S2 : B(r) = B(b)}
           f3 == [r \in S3 |-> C(r) + g]
<1>6. PICK c \in S3 : \A q \in S3 : f3[c] <= f3[q]
  <2>1. f3 \in [S3 -> Nat] /\ S3 # {}
    BY <1>3
  <2> HIDE DEF f3, S3
  <2> QED
    BY <2>1, LeastBy
<1> DEFINE S4 == {r \in S3 : C(r) = C(c)}
           f4 == [r \in S4 |-> r.identity.pub]
<1>7. PICK d \in S4 : \A q \in S4 : f4[d] <= f4[q]
  <2>1. f4 \in [S4 -> Nat] /\ S4 # {}
    BY <1>1
  <2> HIDE DEF f4, S4
  <2> QED
    BY <2>1, LeastBy
<1> DEFINE S5 == {r \in S4 : r.identity.pub = d.identity.pub}
           f5 == [r \in S5 |-> r.serial]
<1>8. PICK w \in S5 : \A q \in S5 : f5[w] <= f5[q]
  <2>1. f5 \in [S5 -> Nat] /\ S5 # {}
    BY <1>1
  <2> HIDE DEF f5, S5
  <2> QED
    BY <2>1, LeastBy
<1>9. ASSUME NEW q \in recs \ {w} PROVE Ahead(w, q)
  <2>0. w \in recs /\ Rank(w) = Rank(a) /\ B(w) = B(b) /\ C(w) = C(c)
        /\ w.identity.pub = d.identity.pub
    OBVIOUS
  <2>1. Rank(w) <= Rank(q)
    BY <1>1, <1>4, <2>0
  <2>2. Rank(w) = Rank(q) => q \in S2 /\ B(w) <= B(q)
    BY <1>1, <1>5, <2>0
  <2>3. q \in S2 /\ B(w) = B(q) => q \in S3 /\ C(w) <= C(q)
    BY <1>3, <1>6, <2>0
  <2>4. q \in S3 /\ C(w) = C(q) => q \in S4 /\ w.identity.pub <= q.identity.pub
    BY <1>1, <1>7, <2>0
  <2>5. q \in S4 /\ w.identity.pub = q.identity.pub => w.serial <= q.serial
    BY <1>1, <1>8, <2>0
  <2>6. w.serial # q.serial
    BY <2>0 DEF OneVector
  <2>7. Ahead(w, q) <=>
          \/ Rank(w) < Rank(q)
          \/ Rank(w) = Rank(q) /\ B(w) < B(q)
          \/ Rank(w) = Rank(q) /\ B(w) = B(q) /\ C(w) < C(q)
          \/ /\ Rank(w) = Rank(q) /\ B(w) = B(q) /\ C(w) = C(q)
             /\ w.identity.pub < q.identity.pub
          \/ /\ Rank(w) = Rank(q) /\ B(w) = B(q) /\ C(w) = C(q)
             /\ w.identity.pub = q.identity.pub /\ w.serial < q.serial
    BY DEF Ahead, B, C
  <2>8. /\ Rank(w) \in Int /\ B(w) \in Int /\ C(w) \in Int
        /\ Rank(q) \in Int /\ B(q) \in Int /\ C(q) \in Int
        /\ w.identity.pub \in Nat /\ w.serial \in Nat
        /\ q.identity.pub \in Nat /\ q.serial \in Nat
    BY <1>1, <1>3, <2>0
  <2> HIDE DEF S2, S3, S4, S5
  <2> QED
    BY <2>1, <2>2, <2>3, <2>4, <2>5, <2>6, <2>7, <2>8
<1> QED
  BY <1>8, <1>9

LEMMA AheadOneWay ==
  ASSUME NEW q \in Stored, NEW r \in Stored, Len(q.slot) = 3, Len(r.slot) = 3, Ahead(q, r)
  PROVE  ~Ahead(r, q)
<1>1. Ranked(q) /\ Ranked(r)
  BY AnswerParts
<1> QED
  BY <1>1 DEF Ranked, Ahead

(* The winner is the record that is ahead of all others.                   *)
LEMMA WinnerIsAhead ==
  ASSUME NEW recs, OneVector(recs), NEW w \in recs, \A q \in recs \ {w} : Ahead(w, q)
  PROVE  Winner(recs) = w
<1> DEFINE P(r) == \A q \in recs \ {r} : Precedes(AnswerRank(r), AnswerRank(q))
<1>1. \A q, r \in recs : Precedes(AnswerRank(q), AnswerRank(r)) <=> Ahead(q, r)
  BY AheadPrecedes DEF OneVector
<1>2. P(w)
  BY <1>1
<1>3. ASSUME NEW r \in recs, P(r) PROVE r = w
  <2> SUFFICES ASSUME r # w PROVE FALSE
    OBVIOUS
  <2>1. Ahead(r, w) /\ Ahead(w, r)
    BY <1>1, <1>3
  <2> QED
    BY <2>1, AheadOneWay DEF OneVector
<1>4. Winner(recs) = CHOOSE r \in recs : P(r)
  BY DEF Winner, FirstBy
<1> HIDE DEF P
<1> QED
  BY <1>2, <1>3, <1>4

LEMMA WinnerFound ==
  ASSUME NEW recs, OneVector(recs), recs # {}
  PROVE  Winner(recs) \in recs /\ \A q \in recs \ {Winner(recs)} : Ahead(Winner(recs), q)
BY AheadOfAll, WinnerIsAhead

--------------------------------------------------------------------------------
(* What an answer stands on.                                               *)

LEMMA CandidatesVector ==
  ASSUME ProcessInv, NEW k \in Key
  PROVE  OneVector(records[k]) /\ OneVector(Candidates(k))
<1>1. \A r \in records[k] : r \in Stored /\ Len(r.slot) = 3 /\ r.serial < next_serial
  BY AllPublished
<1>2. \A q, r \in records[k] : q.serial = r.serial => q = r
  BY <1>1 DEF ProcessInv, StoreInv, SerialsApart, Apart
<1>3. next_serial \in Nat
  BY DEF ProcessInv, StoreInv, StoreTypeOK
<1>4. Candidates(k) \subseteq records[k]
  BY DEF Candidates
<1> QED
  BY <1>1, <1>2, <1>3, <1>4 DEF OneVector

\* A candidate is not superseded and, unless it is durable, its publisher is live.
LEMMA CandidateStands ==
  ASSUME NEW k, NEW r \in Candidates(k)
  PROVE  ~r.superseded /\ (LiveBound(r) => r.identity \in live)
<1>1. ~Raised("SupersededByNewerEvidence", k[1], r, generation[k[1]])
  BY DEF Candidates, Stale, StaleFor, StalenessFlags
<1>2. ~Raised("PublisherFenced", k[1], r, generation[k[1]])
  BY DEF Candidates, Stale, StaleFor, StalenessFlags
<1>3. LiveBound(r) => r.identity \in live
  BY <1>2 DEF Raised, Moved
<1> QED
  BY <1>1, <1>3 DEF Raised

\* Two candidates of a publisher that both depend on its being live, through one class,
\* are one record.
LEMMA OneLiveCandidate ==
  ASSUME ProcessInv, NEW k \in Key, NEW q \in Candidates(k), NEW r \in Candidates(k),
         LiveBound(q), LiveBound(r), q.identity.pub = r.identity.pub,
         q.source.class = r.source.class
  PROVE  q = r
<1>1. q \in records[k] /\ r \in records[k]
  BY DEF Candidates
<1>2. q.identity = r.identity
  BY CandidateStands DEF ProcessInv, StoreInv, OneIdentityEach
<1>3. q.slot = r.slot
  BY <1>1, <1>2 DEF ProcessInv, SlotInv, SlotsNamed, Slot
<1>4. q.serial \in Nat /\ r.serial \in Nat
  BY <1>1, AllPublished
<1>5. ~(q.serial < r.serial) /\ ~(r.serial < q.serial)
  BY <1>1, <1>3, OlderSuperseded, CandidateStands
<1>6. q.serial = r.serial
  BY <1>4, <1>5
<1> QED
  BY <1>1, <1>6, CandidatesVector DEF OneVector

(* No two source classes have the same authority.                          *)
LEMMA RankNamesClass ==
  ASSUME NEW q \in Stored, NEW r \in Stored, Rank(q) = Rank(r)
  PROVE  q.source.class = r.source.class
<1>1. q.source.class \in SourceClasses /\ r.source.class \in SourceClasses
  BY EvidenceConstants DEF Stored
<1>2. \A c, d \in SourceClasses : SourceAuthority[c] = SourceAuthority[d] => c = d
  BY DEF SourceClasses, SourceAuthority
<1>3. \A c \in SourceClasses : SourceAuthority[c] \in Int
  BY DEF SourceClasses, SourceAuthority
<1>4. \A m, n \in Int : -m = -n => m = n
  OBVIOUS
<1> QED
  BY <1>1, <1>2, <1>3, <1>4 DEF Rank

\* What a class reports under a reference is not durable at one time and synthetic or of
\* unknown origin at another.  Without this a durable record of an earlier boot and a
\* synthetic one of the present boot both carry the winner mark.
ReferencesKeepKind ==
  \A s, t \in Sources :
    s.class = t.class /\ s.reference = t.reference /\ IsDurable(s.provenance) =>
      IsDurable(t.provenance) \/ IsReal(t.provenance)

LEMMA MarkedShareTruth ==
  ASSUME ReferencesKeepKind, ProcessInv, NEW k \in Key, NEW q \in Candidates(k),
         NEW r \in Candidates(k), Rank(q) = Rank(r), q.identity.pub = r.identity.pub,
         q.source.reference = r.source.reference
  PROVE  TruthOf(q.source.provenance) = TruthOf(r.source.provenance)
<1>1. /\ q \in Stored /\ r \in Stored
      /\ q.source \in Sources /\ r.source \in Sources
  BY CandidatesVector DEF OneVector, Stored
<1>2. q.source.class = r.source.class
  BY <1>1, RankNamesClass
<1>3. CASE LiveBound(q) /\ LiveBound(r)
  BY <1>2, <1>3, OneLiveCandidate
<1>4. \A p : IsDurable(p) \/ IsReal(p) => TruthOf(p) = "Real"
  BY DEF IsDurable, IsReal, TruthOf
<1>5. CASE ~LiveBound(q)
  BY <1>1, <1>2, <1>4, <1>5 DEF LiveBound, ReferencesKeepKind
<1>6. CASE ~LiveBound(r)
  BY <1>1, <1>2, <1>4, <1>6 DEF LiveBound, ReferencesKeepKind
<1> QED
  BY <1>3, <1>5, <1>6

(* The truth class of an answer is that of the record that won it, for any *)
(* publishers, boots and sources: although the winner mark compares        *)
(* neither boot nor source class, the views that carry it and are met      *)
(* first by classify_truth share the winner's.                             *)
THEOREM TruthIsTheWinners == ASSUME ReferencesKeepKind PROVE Spec => []TruthFromWinner
<1>1. ProcessInv => TruthFromWinner
  <2> SUFFICES ASSUME ProcessInv, NEW k \in keys,
                      Resolve(k, 0, Plain).current, Resolve(k, 0, Plain).effective = "Supported"
               PROVE  Resolve(k, 0, Plain).truths
                        = {TruthOf(Winner(Candidates(k)).source.provenance)}
    BY DEF TruthFromWinner
  <2> DEFINE C == Candidates(k)
             w == Winner(C)
             effective == EffectiveSupport(w.claim.support, Plain)
  <2>1. k \in Key
    BY DEF ProcessInv, StoreInv, StoreTypeOK
  <2>2. Resolve(k, 0, Plain) = IF C = {} THEN NoCurrentEvidence(k) ELSE CurrentEvidence(k, C, Plain)
    BY DEF Resolve, Candidates, Stale
  <2>3. C # {} /\ Resolve(k, 0, Plain) = CurrentEvidence(k, C, Plain)
    BY <2>2 DEF NoCurrentEvidence
  <2>4. /\ Resolve(k, 0, Plain).truths = ClassifyTruth(w.claim.support, effective, C, w)
        /\ effective = "Supported"
    BY <2>3 DEF CurrentEvidence
  <2>5. w.claim.support # "Unsupported"
    BY <2>4 DEF EffectiveSupport
  <2>6. Resolve(k, 0, Plain).truths = {TruthOf(r.source.provenance) : r \in FirstMarked(C, w)}
    BY <2>4, <2>5 DEF ClassifyTruth
  <2>7. w \in C /\ \A q \in C \ {w} : Ahead(w, q)
    BY <2>1, <2>3, CandidatesVector, WinnerFound
  <2>8. \A q \in C : q \in Stored /\ Rank(q) \in Int
    BY <2>1, CandidatesVector, RankRange DEF OneVector
  <2> HIDE DEF C, w
  <2>9. ASSUME NEW q \in C PROVE Rank(w) <= Rank(q)
    BY <2>7, <2>8 DEF Ahead
  <2>10. w \in FirstMarked(C, w)
    BY <2>7, <2>9 DEF FirstMarked, Marked
  <2>11. ASSUME NEW r \in FirstMarked(C, w)
         PROVE  TruthOf(r.source.provenance) = TruthOf(w.source.provenance)
    <3>1. /\ r \in C /\ r.identity.pub = w.identity.pub
          /\ r.source.reference = w.source.reference /\ Rank(r) <= Rank(w)
      BY <2>10 DEF FirstMarked, Marked
    <3>2. Rank(r) = Rank(w)
      BY <2>7, <2>8, <2>9, <3>1
    <3> QED
      BY <2>1, <2>7, <3>1, <3>2, MarkedShareTruth DEF C
  <2>12. Resolve(k, 0, Plain).truths = {TruthOf(w.source.provenance)}
    BY <2>6, <2>10, <2>11
  <2> QED
    BY <2>12 DEF C, w
<1> QED
  BY <1>1, ProcessInvInit, ProcessInvNext, PTL DEF Spec

--------------------------------------------------------------------------------
(* What a publication does to an answer.                                   *)

\* Staleness is computed from the devices and from who is live, and from nothing else.
LEMMA StalenessSame ==
  ASSUME UNCHANGED deviceVars, live' = live, NEW d, NEW r
  PROVE  Stale(d, r)' <=> Stale(d, r)
<1>1. /\ generation' = generation /\ device_boot' = device_boot
      /\ platform_generation' = platform_generation
      /\ axis_generation' = axis_generation /\ software' = software
  BY DEF deviceVars
<1>2. RuntimeId(d)' = RuntimeId(d)
  BY <1>1 DEF RuntimeId
<1>3. \A a : AxisMoved(d, r, a)' <=> AxisMoved(d, r, a)
  BY <1>1, <1>2 DEF AxisMoved
<1>4. \A f \in StalenessFlags :
        Raised(f, d, r, generation[d])' <=> Raised(f, d, r, generation[d])
  BY <1>1, <1>3 DEF Raised, Moved, StalenessFlags
<1> QED
  BY <1>4 DEF Stale, StaleFor

\* A record that keeps its mark is unchanged beside a new one.
LEMMA BesideSame ==
  ASSUME NEW r \in Stored, NEW slot, ~Beside(r, slot).superseded
  PROVE  Beside(r, slot) = r
<1>1. ~r.superseded /\ r.slot # slot /\ r.superseded = FALSE
  BY BesideAgain DEF Stored
<1>2. (r.superseded \/ SlotOf(r) = slot) = r.superseded
  BY <1>1 DEF SlotOf
<1>3. Beside(r, slot) = [r EXCEPT !.superseded = r.superseded]
  BY <1>2 DEF Beside
<1> QED
  BY <1>3 DEF Stored

\* A record with the next serial appears where evidence is stored.
LEMMA AddedByStore ==
  ASSUME ProcessInv, [Next]_vars, NEW k \in Key, NEW r \in records'[k], r.serial = next_serial
  PROVE  \E i \in Identity, s \in Sources, claim \in Claims \cup {NoClaim}, withdrawn \in BOOLEAN :
           StoreEvidence(k, i, s, claim, withdrawn)
<1>1. r \notin records[k]
  <2>1. r \in records[k] => r.serial < next_serial /\ next_serial \in Nat
    BY AllPublished
  <2> QED
    BY <2>1
<1>2. records' # records
  BY <1>1
<1>3. ASSUME NEW j \in Key, NEW i \in Identity, NEW s \in Sources,
             NEW claim \in Claims \cup {NoClaim}, NEW withdrawn \in BOOLEAN,
             RefuseEvidence(j, i, s, claim, withdrawn)
      PROVE  FALSE
  BY <1>1, <1>3, RefuseRecords DEF Sheds, ProcessInv
<1>4. ASSUME NEW j \in Key, NEW i \in Identity, NEW s \in Sources,
             NEW claim \in Claims \cup {NoClaim}, NEW withdrawn \in BOOLEAN,
             StoreEvidence(j, i, s, claim, withdrawn)
      PROVE  j = k
  BY <1>1, <1>4, StoreRecords DEF Sheds, ProcessInv
<1>5. CASE PublishStep
  <2>1. PICK j \in Key, i \in Identity, s \in Sources, claim \in Claims :
          StoreEvidence(j, i, s, claim, FALSE) \/ RefuseEvidence(j, i, s, claim, FALSE)
    BY <1>5 DEF PublishStep
  <2>2. StoreEvidence(j, i, s, claim, FALSE)
    BY <1>3, <2>1
  <2>3. StoreEvidence(k, i, s, claim, FALSE)
    BY <1>4, <2>2
  <2> QED
    BY <2>3
<1>6. CASE WithdrawStep
  <2>1. PICK j \in Key, i \in Identity, s \in Sources :
          StoreEvidence(j, i, s, NoClaim, TRUE) \/ RefuseEvidence(j, i, s, NoClaim, TRUE)
    BY <1>6 DEF WithdrawStep
  <2>2. StoreEvidence(j, i, s, NoClaim, TRUE)
    BY <1>3, <2>1
  <2>3. StoreEvidence(k, i, s, NoClaim, TRUE)
    BY <1>4, <2>2
  <2> QED
    BY <2>3
<1>7. CASE DeviceStep \/ AuthorityStep \/ SkipStep \/ UNCHANGED vars
  <2>1. CASE AuthorityStep
    BY <1>2, <2>1, AuthorityMoves DEF ProcessInv, evidenceVars
  <2>2. CASE DeviceStep
    BY <1>2, <2>2 DEF DeviceStep, evidenceVars
  <2>3. CASE SkipStep \/ UNCHANGED vars
    BY <1>2, <2>3 DEF SkipStep, RefuseSkippedGeneration, vars, evidenceVars
  <2> QED
    BY <1>7, <2>1, <2>2, <2>3
<1> QED
  BY <1>5, <1>6, <1>7 DEF Next

\* The winner stays a candidate beside a record of less authority, and ahead of the rest.
LEMMA WinnerStays ==
  ASSUME ProcessInv, NEW k \in Key, NEW i \in Identity, NEW s \in Sources,
         NEW claim \in Claims \cup {NoClaim}, NEW withdrawn \in BOOLEAN,
         StoreEvidence(k, i, s, claim, withdrawn), Candidates(k) # {},
         Rank(Published(k, i, s, claim, withdrawn)) > Rank(Winner(Candidates(k)))
  PROVE  /\ Winner(Candidates(k)) \in Candidates(k)'
         /\ \A q \in Candidates(k)' \ {Winner(Candidates(k))} : Ahead(Winner(Candidates(k)), q)
<1> DEFINE w == Winner(Candidates(k))
           new == Published(k, i, s, claim, withdrawn)
<1>1. w \in Candidates(k) /\ \A q \in Candidates(k) \ {w} : Ahead(w, q)
  BY CandidatesVector, WinnerFound
<1>2. Stamp(new, k, i, s, claim, withdrawn)
  BY PublishedFields DEF ProcessInv
<1>3. Gains(k, new)
  BY StoreRecords DEF ProcessInv
<1>4. \A r : Stale(k[1], r)' <=> Stale(k[1], r)
  BY StalenessSame DEF StoreEvidence
<1>5. Rank(new) > Rank(w)
  OBVIOUS
<1> HIDE DEF w, new
<1>6. w \in records[k] /\ ~Stale(k[1], w) /\ ~w.superseded /\ w \in Stored
  BY <1>1, CandidateStands, AllPublished DEF Candidates
<1>7. \A r \in records[k] : r \in Stored
  BY AllPublished
<1>8. ~SupersededIn(records[k], w)
  <2> SUFFICES ASSUME NEW q \in records[k], q.slot = w.slot, q.serial > w.serial PROVE FALSE
    BY DEF SupersededIn, SlotOf
  <2>1. w.serial < q.serial
    BY <1>6, AllPublished
  <2> QED
    BY <1>6, <2>1, OlderSuperseded
<1>9. w.slot # new.slot
  <2>1. w.source.class # s.class
    BY <1>2, <1>5, <1>6, RankRange DEF Rank, Stamp
  <2>2. w.slot = <<w.identity.pub, w.identity.boot, w.source.class>>
    BY <1>6 DEF ProcessInv, SlotInv, SlotsNamed, Slot
  <2>3. new.slot = <<i.pub, i.boot, s.class>>
    BY <1>2 DEF Stamp, Slot
  <2> QED
    BY <2>1, <2>2, <2>3
<1>10. w \in records'[k]
  <2>1. ~Beside(w, new.slot).superseded
    BY <1>6, <1>9, BesideAgain
  <2>2. Beside(w, new.slot) = w
    BY <1>6, <2>1, BesideSame
  <2> QED
    BY <1>3, <1>6, <1>8, <1>9, <2>2 DEF Gains
<1>11. w \in Candidates(k)'
  BY <1>4, <1>6, <1>10 DEF Candidates
<1>12. ASSUME NEW q \in Candidates(k)', q # w PROVE Ahead(w, q)
  <2>1. q \in records'[k] /\ ~Stale(k[1], q)
    BY <1>4, <1>12 DEF Candidates
  <2>2. CASE q = new
    BY <1>1, <1>2, <1>5, <1>6, <2>2, RankRange DEF Ahead, Stamp
  <2>3. CASE q # new
    <3>1. PICK r \in records[k] : q = Beside(r, new.slot)
      BY <1>3, <2>1, <2>3 DEF Gains
    <3>2. ~q.superseded
      <4>1. ~Raised("SupersededByNewerEvidence", k[1], q, generation[k[1]])
        BY <2>1 DEF Stale, StaleFor, StalenessFlags
      <4> QED
        BY <4>1 DEF Raised
    <3>3. q = r
      BY <1>7, <3>1, <3>2, BesideSame
    <3>4. q \in Candidates(k)
      BY <2>1, <3>3 DEF Candidates
    <3> QED
      BY <1>1, <1>12, <3>4
  <2> QED
    BY <2>2, <2>3
<1> QED
  BY <1>11, <1>12 DEF w

(* A publication of less authority than the record an answer stands on     *)
(* changes nothing of what is declared, whatever it claims, supersedes or  *)
(* makes the limits evict (by_authority in resolve_locked).                *)
THEOREM StrongerAnswersStand == Spec => WeakerNeverOverrides
<1> DEFINE Vectors == \A k \in Key : OneVector(Candidates(k))
<1>0. ProcessInv => Vectors
  BY CandidatesVector
<1>1. ASSUME ProcessInv, Vectors', [Next]_vars, NEW k \in keys,
             Candidates(k) # {},
             {r \in records'[k] : r.serial = next_serial} # {},
             \A r \in {r \in records'[k] : r.serial = next_serial} :
               Rank(r) > Rank(Winner(Candidates(k)))
      PROVE  Resolve(k, 0, Plain)'.declared = Winner(Candidates(k)).claim.support
  <2> DEFINE w == Winner(Candidates(k))
             C == Candidates(k)'
  <2>1. k \in Key
    BY <1>1 DEF ProcessInv, StoreInv, StoreTypeOK
  <2>2. PICK r \in records'[k] : r.serial = next_serial
    BY <1>1
  <2>3. PICK i \in Identity, s \in Sources, claim \in Claims \cup {NoClaim}, withdrawn \in BOOLEAN :
          StoreEvidence(k, i, s, claim, withdrawn)
    BY <1>1, <2>1, <2>2, AddedByStore
  <2> DEFINE new == Published(k, i, s, claim, withdrawn)
  <2>4. new \in records'[k] /\ new.serial = next_serial
    <3>1. Stamp(new, k, i, s, claim, withdrawn)
      BY <1>1, <2>1, PublishedFields DEF ProcessInv
    <3>2. Gains(k, new)
      BY <1>1, <2>1, <2>3, StoreRecords DEF ProcessInv
    <3> HIDE DEF new
    <3> QED
      BY <3>1, <3>2 DEF Stamp, Gains
  <2>5. Rank(new) > Rank(w)
    BY <1>1, <2>4
  <2>6. w \in C /\ \A q \in C \ {w} : Ahead(w, q)
    BY <1>1, <2>1, <2>3, <2>5, WinnerStays
  <2>7. OneVector(C)
    BY <1>1, <2>1
  <2>8. k \in keys'
    BY <1>1, <2>3 DEF StoreEvidence, Opens
  <2>9. Resolve(k, 0, Plain)'
          = (IF Candidates(k) = {} THEN NoCurrentEvidence(k)
             ELSE CurrentEvidence(k, Candidates(k), Plain))'
    BY <2>8 DEF Resolve, Candidates, Stale
  <2>10. Resolve(k, 0, Plain)' = CurrentEvidence(k, Candidates(k), Plain)'
    BY <2>6, <2>9
  <2>11. Resolve(k, 0, Plain)'.declared = Winner(C).claim.support
    BY <2>10 DEF CurrentEvidence
  <2> HIDE DEF w, C
  <2>12. Winner(C) = w
    BY <2>6, <2>7, WinnerIsAhead
  <2> QED
    BY <2>11, <2>12 DEF w
<1>2. ProcessInv /\ Vectors' /\ [Next]_vars =>
        [\A k \in keys :
           LET w == Winner(Candidates(k))
               added == {r \in records'[k] : r.serial = next_serial}
           IN /\ Candidates(k) # {} /\ added # {}
              /\ \A r \in added : Rank(r) > Rank(w)
              => Resolve(k, 0, Plain)'.declared = w.claim.support]_vars
  BY <1>1
<1> HIDE DEF Vectors
<1> QED
  BY <1>0, <1>2, ProcessInvInit, ProcessInvNext, PTL DEF Spec, WeakerNeverOverrides

================================================================================
