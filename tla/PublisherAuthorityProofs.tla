------------------------ MODULE PublisherAuthorityProofs ------------------------
(***************************************************************************)
(* Proofs about PublisherAuthority, for any number of publishers, boots,   *)
(* epochs and sequences.                                                   *)
(***************************************************************************)
EXTENDS PublisherAuthority, TLAPS

--------------------------------------------------------------------------------
(* The inductive invariant, part by part.                                  *)

\* A publisher has a boot exactly when it is in the map; only such a one is fenced.
BootAssigned ==
  \A p \in Publishers :
    /\ boot[p] = 0 <=> pstate[p] = "Unknown"
    /\ p \in publisher_fenced => Known(p)

\* Every path out of "Registered" fences the boot it leaves.
EndedIsFenced ==
  \A p \in Publishers : pstate[p] \in {"Dead", "Fenced"} => boot[p] \in fenced_boots[p]

\* Only boots that were assigned are fenced, in memory and in the image.
FencedWereAssigned ==
  \A p \in Publishers :
    /\ \A b \in fenced_boots[p] : b <= boot[p]
    /\ \A b \in image.fenced[p] : b <= image.boot[p]

\* The epoch that the next process starts above.
LastEpoch == IF Running THEN epoch ELSE image.epoch

\* The image is as new as the process once start() saves.
ImageCurrent == Running /\ PersistAtStart => image.epoch = epoch

\* No past identity belongs to an epoch still to come.
EpochsBehind ==
  /\ \A l \in ledger : l.epoch <= LastEpoch
  /\ \A i \in granted : i.epoch <= LastEpoch

\* What this process applied is below the watermark of a boot that is still the
\* registered one, or belongs to a fenced boot.
AppliedIsBehind ==
  Running =>
    \A l \in ledger :
      l.epoch = epoch =>
        \/ l.boot \in fenced_boots[l.pub]
        \/ l.boot = boot[l.pub] /\ l.seq <= max_sequence[l.pub][l.boot]

\* Whoever is registered was granted its identity, and later boots are unused.
GrantsRecorded ==
  Running =>
    /\ \A p \in Publishers : pstate[p] = "Registered" =>
         [pub |-> p, boot |-> boot[p], epoch |-> epoch] \in granted
    /\ \A i \in granted : i.epoch = epoch => i.boot <= boot[i.pub]

AuthorityInv == BootAssigned /\ EndedIsFenced /\ FencedWereAssigned

RestartInv ==
  TypeOK /\ AuthorityInv /\ ImageCurrent /\ EpochsBehind /\ AppliedIsBehind /\ GrantsRecorded

--------------------------------------------------------------------------------

(* Type correctness.                                                       *)

LEMMA TypeInit == Init => TypeOK
  BY ConstantsAssumption DEF TypeOK, Running, Boots, Epochs, Identity, Message, Init, NoImage

\* Type correctness is inductive as it stands.
LEMMA TypeStep == TypeOK /\ [Next]_vars => TypeOK'
<1> USE ConstantsAssumption DEF TypeOK, Running, Boots, Epochs, Identity, Message
<1> SUFFICES ASSUME TypeOK, [Next]_vars PROVE TypeOK'
  OBVIOUS
<1>1. ASSUME NEW p \in Publishers, RegisterFirst(p) PROVE TypeOK'
  <2>1. [pub |-> p, boot |-> 1, epoch |-> epoch] \in Identity
    BY <1>1 DEF RegisterFirst
  <2>2. granted' \subseteq Identity
    BY <1>1, <2>1 DEF RegisterFirst
  <2>3. pstate' \in [Publishers -> {"Unknown", "Registered", "Dead", "Fenced"}]
    BY <1>1 DEF RegisterFirst
  <2>4. boot' \in [Publishers -> 0 .. MaxBoot]
    BY <1>1 DEF RegisterFirst
  <2>5. UNCHANGED <<coordinator, epoch, fenced_boots, publisher_fenced, max_sequence,
                    max_evidence_generation, sequence_fingerprints, image, ledger, barred>>
    BY <1>1 DEF RegisterFirst
  <2> QED
    BY <2>2, <2>3, <2>4, <2>5
<1>2. ASSUME NEW p \in Publishers, RegisterFresh(p) PROVE TypeOK'
  <2>1. [pub |-> p, boot |-> boot[p] + 1, epoch |-> epoch] \in Identity
    BY <1>2 DEF RegisterFresh
  <2>2. granted' \subseteq Identity
    BY <1>2, <2>1 DEF RegisterFresh
  <2>3. fenced_boots' \in [Publishers -> SUBSET Boots]
    <3>1. {boot[p]} \ {0} \subseteq Boots
      OBVIOUS
    <3> QED
      BY <1>2, <3>1 DEF RegisterFresh
  <2>4. boot' \in [Publishers -> 0 .. MaxBoot]
    BY <1>2 DEF RegisterFresh
  <2> QED
    BY <1>2, <2>2, <2>3, <2>4 DEF RegisterFresh
<1>3. ASSUME NEW p \in Publishers, FencePublisher(p) PROVE TypeOK'
  <2>1. fenced_boots' \in [Publishers -> SUBSET Boots]
    BY <1>3 DEF FencePublisher
  <2> QED
    BY <1>3, <2>1 DEF FencePublisher
<1>4. ASSUME NEW p \in Publishers, NEW b \in Boots, Reaffirm(p, b) PROVE TypeOK'
  <2>1. [pub |-> p, boot |-> b, epoch |-> epoch] \in Identity
    BY <1>4 DEF Reaffirm
  <2>2. granted' \subseteq Identity
    BY <1>4, <2>1 DEF Reaffirm
  <2> QED
    BY <1>4, <2>2 DEF Reaffirm
<1>5. ASSUME NEW p \in Publishers, NEW b \in Boots, RetirePublisherBoot(p, b) PROVE TypeOK'
  BY <1>5 DEF RetirePublisherBoot
<1>6. ASSUME NEW m \in Message, Apply(m) PROVE TypeOK'
  BY <1>6 DEF Apply, Printed, AdmissionCode, Fingerprint
<1>7. CASE Start
  BY <1>7 DEF Start, Imported, Exported
<1>8. CASE Shutdown
  BY <1>8 DEF Shutdown, Constructed, Exported
<1>9. CASE Crash
  <2>1. /\ coordinator' = "down" /\ Constructed
        /\ UNCHANGED <<image, ledger, granted, barred>>
    BY <1>9 DEF Crash
  <2>2. epoch' \in Nat \ {0} /\ ~Running'
    BY <2>1 DEF Constructed
  <2>3. /\ max_sequence' \in [Publishers -> [Boots -> 0 .. MaxSeq]]
        /\ max_evidence_generation' \in [Publishers -> [Boots -> 0 .. MaxGen]]
        /\ sequence_fingerprints' \in [Publishers -> [1 .. MaxSeq -> Bodies \cup {NoPrint}]]
    BY <2>1 DEF Constructed
  <2>4. /\ pstate' \in [Publishers -> {"Unknown", "Registered", "Dead", "Fenced"}]
        /\ boot' \in [Publishers -> 0 .. MaxBoot]
        /\ fenced_boots' \in [Publishers -> SUBSET Boots]
        /\ publisher_fenced' \subseteq Publishers
    BY <2>1 DEF Constructed
  <2> QED
    BY <2>1, <2>2, <2>3, <2>4
<1>10. CASE UNCHANGED vars
  BY <1>10 DEF vars, process
<1> QED
  BY <1>1, <1>2, <1>3, <1>4, <1>5, <1>6, <1>7, <1>8, <1>9, <1>10 DEF Next

\* Every variable keeps its type, whatever the publishers, boots, epochs and
\* sequences (PublisherStateInternal and the durable image).
THEOREM TypeCorrect == Spec => []TypeOK
  BY TypeInit, TypeStep, PTL DEF Spec

--------------------------------------------------------------------------------
(* Authority.                                                              *)

LEMMA AuthorityInit == Init => AuthorityInv
  BY ConstantsAssumption
  DEF Init, NoImage, AuthorityInv, BootAssigned, EndedIsFenced, FencedWereAssigned

LEMMA AuthorityStep == TypeOK /\ AuthorityInv /\ [Next]_vars => AuthorityInv'
<1> USE ConstantsAssumption
        DEF AuthorityInv, BootAssigned, EndedIsFenced, FencedWereAssigned, Known
<1> SUFFICES ASSUME TypeOK, AuthorityInv, [Next]_vars PROVE AuthorityInv'
  OBVIOUS
<1>0. /\ pstate \in [Publishers -> {"Unknown", "Registered", "Dead", "Fenced"}]
      /\ boot \in [Publishers -> 0 .. MaxBoot]
      /\ fenced_boots \in [Publishers -> SUBSET Boots]
      /\ image.boot \in [Publishers -> 0 .. MaxBoot]
      /\ image.fenced \in [Publishers -> SUBSET Boots]
  BY DEF TypeOK
<1>1. ASSUME NEW p \in Publishers, RegisterFirst(p) PROVE AuthorityInv'
  BY <1>0, <1>1 DEF RegisterFirst, Boots, Known
<1>2. ASSUME NEW p \in Publishers, RegisterFresh(p) PROVE AuthorityInv'
  BY <1>0, <1>2 DEF RegisterFresh, Boots, Known
<1>3. ASSUME NEW p \in Publishers, FencePublisher(p) PROVE AuthorityInv'
  BY <1>0, <1>3 DEF FencePublisher, Boots, Known
<1>4. ASSUME NEW p \in Publishers, NEW b \in Boots, Reaffirm(p, b) PROVE AuthorityInv'
  BY <1>0, <1>4 DEF Reaffirm, Boots, Known
<1>5. ASSUME NEW p \in Publishers, NEW b \in Boots, RetirePublisherBoot(p, b) PROVE AuthorityInv'
  BY <1>0, <1>5 DEF RetirePublisherBoot, Boots, Known
<1>6. ASSUME NEW m \in Message, Apply(m) PROVE AuthorityInv'
  BY <1>6 DEF Apply
<1>7. CASE Start
  BY <1>0, <1>7 DEF Start, Imported, Exported, Boots
<1>8. CASE Shutdown
  BY <1>0, <1>8 DEF Shutdown, Constructed, Exported, Boots
<1>9. CASE Crash
  BY <1>0, <1>9 DEF Crash, Constructed
<1>10. CASE UNCHANGED vars
  BY <1>10 DEF vars, process
<1> QED
  BY <1>1, <1>2, <1>3, <1>4, <1>5, <1>6, <1>7, <1>8, <1>9, <1>10 DEF Next

\* An admitted publication comes from the identity that holds authority.
LEMMA AdmittedIsLive == TypeOK /\ AuthorityInv => AdmittedHoldsAuthority
<1> SUFFICES ASSUME TypeOK, AuthorityInv,
                    NEW m \in Message, AdmissionCode(m) = "Admitted"
             PROVE  \E i \in LiveIdentities :
                      i.pub = m.pub /\ i.boot = m.boot /\ i.epoch = m.epoch
  BY DEF AdmittedHoldsAuthority
<1> DEFINE i == [pub |-> m.pub, boot |-> m.boot, epoch |-> m.epoch]
<1>1. i \in Identity
  BY DEF Identity, Message
<1>2. /\ Running /\ Known(m.pub) /\ m.pub \notin publisher_fenced
      /\ m.boot \notin fenced_boots[m.pub] /\ boot[m.pub] = m.boot /\ m.epoch = epoch
  BY DEF AdmissionCode
<1>3. pstate[m.pub] = "Registered"
  BY <1>2 DEF TypeOK, AuthorityInv, EndedIsFenced, Known, Message
<1>4. i \in LiveIdentities
  BY <1>1, <1>2, <1>3 DEF LiveIdentities, Authoritative
<1> QED
  BY <1>4

\* Only an identity that holds authority gets evidence in, for any number of
\* publishers and restarts and with any durability settings (apply_locked).
THEOREM OnlyAuthorityAdmits == Spec => []AdmittedHoldsAuthority
<1>1. Init => TypeOK /\ AuthorityInv
  BY TypeInit, AuthorityInit
<1>2. TypeOK /\ AuthorityInv /\ [Next]_vars => (TypeOK /\ AuthorityInv)'
  BY TypeStep, AuthorityStep
<1> QED
  BY <1>1, <1>2, AdmittedIsLive, PTL DEF Spec

--------------------------------------------------------------------------------
(* Replay and restart.                                                     *)

\* The file is written before a publisher can register with the new epoch, or the
\* process never dies without writing it.
SavedBeforeUse == PersistAtStart \/ ~Crashes

LEMMA RestartInit == Init => RestartInv
<1> SUFFICES ASSUME Init PROVE RestartInv
  OBVIOUS
<1>1. TypeOK /\ AuthorityInv
  BY TypeInit, AuthorityInit
<1>2. ImageCurrent /\ AppliedIsBehind /\ GrantsRecorded
  BY DEF Init, Running, ImageCurrent, AppliedIsBehind, GrantsRecorded
<1>3. EpochsBehind
  BY DEF Init, EpochsBehind
<1> QED
  BY <1>1, <1>2, <1>3 DEF RestartInv

LEMMA ImageCurrentStep == ImageCurrent /\ [Next]_vars => ImageCurrent'
<1> SUFFICES ASSUME ImageCurrent, [Next]_vars, Running', PersistAtStart
             PROVE  image'.epoch = epoch'
  BY DEF ImageCurrent
<1>1. CASE Start
  BY <1>1 DEF Start, Exported
<1>2. CASE Shutdown \/ Crash
  BY <1>2 DEF Shutdown, Crash, Running
<1>3. CASE UNCHANGED <<coordinator, epoch, image>>
  BY <1>3 DEF ImageCurrent, Running
<1> QED
  BY <1>1, <1>2, <1>3
  DEF Next, vars, process, RegisterFirst, RegisterFresh, FencePublisher, Reaffirm,
      RetirePublisherBoot, Apply

\* Whatever happens, the epoch the next process starts above never falls, and a
\* new entry of the histories belongs to the epoch of this process.
LEMMA EpochsBehindStep ==
  ASSUME SavedBeforeUse, RestartInv, [Next]_vars
  PROVE  EpochsBehind'
<1> USE DEF LastEpoch, Running
<1>0. /\ epoch \in Nat /\ image.epoch \in Nat
      /\ ledger \subseteq Message /\ granted \subseteq Identity
      /\ ImageCurrent /\ EpochsBehind
  BY ConstantsAssumption DEF RestartInv, TypeOK
<1>1. ASSUME LastEpoch' \in Nat, LastEpoch <= LastEpoch',
             \A l \in ledger' \ ledger : l.epoch = LastEpoch',
             \A i \in granted' \ granted : i.epoch = LastEpoch'
      PROVE  EpochsBehind'
  <2>1. ASSUME NEW l \in ledger' PROVE l.epoch <= LastEpoch'
    <3>1. CASE l \in ledger
      BY <1>0, <1>1, <3>1 DEF EpochsBehind, Message, Epochs
    <3> QED
      BY <1>1, <3>1
  <2>2. ASSUME NEW i \in granted' PROVE i.epoch <= LastEpoch'
    <3>1. CASE i \in granted
      BY <1>0, <1>1, <3>1 DEF EpochsBehind, Identity, Epochs
    <3> QED
      BY <1>1, <3>1
  <2> QED
    BY <2>1, <2>2 DEF EpochsBehind
<1>2. CASE Start
  BY <1>0, <1>1, <1>2 DEF Start
<1>3. CASE Shutdown
  BY <1>0, <1>1, <1>3 DEF Shutdown, Exported
<1>4. CASE Crash
  <2>1. image.epoch = epoch
    BY <1>0, <1>4 DEF Crash, ImageCurrent, SavedBeforeUse
  <2> QED
    BY <1>0, <1>1, <1>4, <2>1 DEF Crash
<1>5. ASSUME NEW p \in Publishers, RegisterFirst(p) PROVE EpochsBehind'
  BY <1>0, <1>1, <1>5 DEF RegisterFirst
<1>6. ASSUME NEW p \in Publishers, RegisterFresh(p) PROVE EpochsBehind'
  BY <1>0, <1>1, <1>6 DEF RegisterFresh
<1>7. ASSUME NEW p \in Publishers, NEW b \in Boots, Reaffirm(p, b) PROVE EpochsBehind'
  BY <1>0, <1>1, <1>7 DEF Reaffirm
<1>8. ASSUME NEW m \in Message, Apply(m) PROVE EpochsBehind'
  BY <1>0, <1>1, <1>8 DEF Apply, AdmissionCode
<1>9. CASE UNCHANGED <<coordinator, epoch, image, ledger, granted>>
  BY <1>0, <1>9 DEF EpochsBehind
<1> QED
  BY <1>2, <1>3, <1>4, <1>5, <1>6, <1>7, <1>8, <1>9
  DEF Next, vars, process, FencePublisher, RetirePublisherBoot

\* A watermark never falls and a boot that stops being the registered one is fenced
\* in the same step; a new process starts with an epoch under which nothing was
\* applied.
LEMMA AppliedIsBehindStep ==
  RestartInv /\ [Next]_vars => AppliedIsBehind'
<1> SUFFICES ASSUME RestartInv, [Next]_vars PROVE AppliedIsBehind'
  OBVIOUS
<1> USE ConstantsAssumption DEF AppliedIsBehind, Running, Boots
<1>0. /\ epoch \in Nat /\ image.epoch \in Nat
      /\ boot \in [Publishers -> 0 .. MaxBoot]
      /\ fenced_boots \in [Publishers -> SUBSET Boots]
      /\ max_sequence \in [Publishers -> [Boots -> 0 .. MaxSeq]]
      /\ ledger \subseteq Message
      /\ BootAssigned /\ AppliedIsBehind /\ EpochsBehind
  BY DEF RestartInv, TypeOK, AuthorityInv
<1>1. ASSUME NEW p \in Publishers, RegisterFirst(p) PROVE AppliedIsBehind'
  BY <1>0, <1>1 DEF RegisterFirst, Known, BootAssigned, Message
<1>2. ASSUME NEW p \in Publishers, RegisterFresh(p) PROVE AppliedIsBehind'
  <2> SUFFICES ASSUME NEW l \in ledger, l.epoch = epoch, Running
               PROVE  \/ l.boot \in fenced_boots'[l.pub]
                      \/ l.boot = boot'[l.pub] /\ l.seq <= max_sequence[l.pub][l.boot]
    BY <1>2 DEF RegisterFresh
  <2>0. l \in Message
    BY <1>0
  <2>1. /\ l.pub \in Publishers /\ l.boot \in 1 .. MaxBoot
        /\ l.boot \in fenced_boots[l.pub] \/ l.boot = boot[l.pub]
    <3>1. l.pub \in Publishers /\ l.boot \in 1 .. MaxBoot
      BY <2>0 DEF Message
    <3>2. l.boot \in fenced_boots[l.pub] \/ l.boot = boot[l.pub]
      BY <1>0
    <3> QED
      BY <3>1, <3>2
  <2>2. CASE l.pub = p
    BY <1>0, <1>2, <2>1, <2>2 DEF RegisterFresh
  <2>3. CASE l.pub # p
    BY <1>0, <1>2, <2>0, <2>3 DEF RegisterFresh, Message
  <2> QED
    BY <2>2, <2>3
<1>3. ASSUME NEW p \in Publishers, FencePublisher(p) PROVE AppliedIsBehind'
  BY <1>0, <1>3 DEF FencePublisher, Message
<1>4. ASSUME NEW p \in Publishers, NEW b \in Boots, Reaffirm(p, b) PROVE AppliedIsBehind'
  BY <1>0, <1>4 DEF Reaffirm
<1>5. ASSUME NEW p \in Publishers, NEW b \in Boots, RetirePublisherBoot(p, b)
      PROVE  AppliedIsBehind'
  BY <1>0, <1>5 DEF RetirePublisherBoot, Message
<1>6. ASSUME NEW m \in Message, Apply(m) PROVE AppliedIsBehind'
  <2>1. /\ boot[m.pub] = m.boot /\ ~(m.seq < max_sequence[m.pub][m.boot]) /\ Running
        /\ m.seq # max_sequence[m.pub][m.boot]
    BY <1>6 DEF Apply, AdmissionCode
  <2>2. /\ max_sequence' = [max_sequence EXCEPT ![m.pub][m.boot] = m.seq]
        /\ ledger' = ledger \cup {m}
        /\ coordinator' = coordinator /\ epoch' = epoch /\ boot' = boot
        /\ fenced_boots' = fenced_boots
    BY <1>6 DEF Apply
  <2>3. m.pub \in Publishers /\ m.boot \in Boots /\ m.seq \in Nat
    BY <1>6, ConstantsAssumption DEF Message, Boots
  <2>4. /\ max_sequence'[m.pub][m.boot] = m.seq
        /\ \A p \in Publishers, b \in Boots :
             p # m.pub \/ b # m.boot => max_sequence'[p][b] = max_sequence[p][b]
    BY <1>0, <2>2, <2>3
  <2> SUFFICES ASSUME NEW l \in ledger \cup {m}, l.epoch = epoch
               PROVE  \/ l.boot \in fenced_boots[l.pub]
                      \/ l.boot = boot[l.pub] /\ l.seq <= max_sequence'[l.pub][l.boot]
    BY <2>2 DEF Running
  <2>5. CASE l = m
    BY <2>1, <2>3, <2>4, <2>5
  <2>6. CASE l \in ledger
    <3>0. l \in Message
      BY <1>0, <2>6
    <3>1. l.pub \in Publishers /\ l.boot \in Boots /\ l.seq \in Nat
      BY <3>0 DEF Message
    <3>2. \/ l.boot \in fenced_boots[l.pub]
          \/ l.boot = boot[l.pub] /\ l.seq <= max_sequence[l.pub][l.boot]
      BY <1>0, <2>1, <2>6
    <3>3. max_sequence[m.pub][m.boot] \in Nat
      BY <1>0, <2>3, ConstantsAssumption
    <3> QED
      BY <2>1, <2>3, <2>4, <3>1, <3>2, <3>3
  <2> QED
    BY <2>5, <2>6
<1>7. CASE Start
  BY <1>0, <1>7 DEF Start, EpochsBehind, LastEpoch, Message, Epochs
<1>8. CASE Shutdown \/ Crash
  BY <1>8 DEF Shutdown, Crash
<1>9. CASE UNCHANGED vars
  BY <1>0, <1>9 DEF vars, process
<1> QED
  BY <1>1, <1>2, <1>3, <1>4, <1>5, <1>6, <1>7, <1>8, <1>9 DEF Next

LEMMA GrantsRecordedStep ==
  RestartInv /\ [Next]_vars => GrantsRecorded'
<1> SUFFICES ASSUME RestartInv, [Next]_vars PROVE GrantsRecorded'
  OBVIOUS
<1> USE ConstantsAssumption DEF GrantsRecorded, Running, Boots
<1>0. /\ epoch \in Nat /\ image.epoch \in Nat
      /\ boot \in [Publishers -> 0 .. MaxBoot]
      /\ pstate \in [Publishers -> {"Unknown", "Registered", "Dead", "Fenced"}]
      /\ granted \subseteq Identity
      /\ BootAssigned /\ GrantsRecorded /\ EpochsBehind
  BY DEF RestartInv, TypeOK, AuthorityInv
<1>1. ASSUME NEW p \in Publishers, RegisterFirst(p) PROVE GrantsRecorded'
  BY <1>0, <1>1 DEF RegisterFirst, Known, BootAssigned, Identity
<1>2. ASSUME NEW p \in Publishers, RegisterFresh(p) PROVE GrantsRecorded'
  BY <1>0, <1>2 DEF RegisterFresh, Identity
<1>3. ASSUME NEW p \in Publishers, FencePublisher(p) PROVE GrantsRecorded'
  BY <1>0, <1>3 DEF FencePublisher
<1>4. ASSUME NEW p \in Publishers, NEW b \in Boots, Reaffirm(p, b) PROVE GrantsRecorded'
  BY <1>0, <1>4 DEF Reaffirm, Identity
<1>5. ASSUME NEW p \in Publishers, NEW b \in Boots, RetirePublisherBoot(p, b)
      PROVE  GrantsRecorded'
  BY <1>0, <1>5 DEF RetirePublisherBoot
<1>6. ASSUME NEW m \in Message, Apply(m) PROVE GrantsRecorded'
  BY <1>0, <1>6 DEF Apply
<1>7. CASE Start
  BY <1>0, <1>7 DEF Start, Imported, EpochsBehind, LastEpoch, Identity, Epochs
<1>8. CASE Shutdown \/ Crash
  BY <1>8 DEF Shutdown, Crash
<1>9. CASE UNCHANGED vars
  BY <1>0, <1>9 DEF vars, process
<1> QED
  BY <1>1, <1>2, <1>3, <1>4, <1>5, <1>6, <1>7, <1>8, <1>9 DEF Next

LEMMA RestartStep ==
  ASSUME SavedBeforeUse PROVE RestartInv /\ [Next]_vars => RestartInv'
<1> SUFFICES ASSUME RestartInv, [Next]_vars PROVE RestartInv'
  OBVIOUS
<1>1. TypeOK' /\ AuthorityInv'
  BY TypeStep, AuthorityStep DEF RestartInv
<1> QED
  BY <1>1, ImageCurrentStep, EpochsBehindStep, AppliedIsBehindStep, GrantsRecordedStep
  DEF RestartInv

LEMMA AppliedIsRefused == RestartInv => NoReplay
<1> SUFFICES ASSUME RestartInv, NEW l \in ledger, NEW m \in Message, SameEnvelope(m, l),
                    AdmissionCode(m) = "Admitted"
             PROVE  FALSE
  BY DEF NoReplay
<1>1. /\ Running /\ m.epoch = epoch /\ boot[m.pub] = m.boot
      /\ m.boot \notin fenced_boots[m.pub]
      /\ ~(m.seq < max_sequence[m.pub][m.boot]) /\ m.seq # max_sequence[m.pub][m.boot]
  BY DEF AdmissionCode
<1>2. l.seq <= max_sequence[l.pub][l.boot]
  BY <1>1 DEF RestartInv, AppliedIsBehind, SameEnvelope
<1>3. max_sequence[m.pub][m.boot] \in Nat /\ m.seq \in Nat
  BY ConstantsAssumption DEF RestartInv, TypeOK, Message
<1> QED
  BY <1>1, <1>2, <1>3 DEF SameEnvelope

\* What was applied once is never admitted again, by this process or a later one,
\* provided start() saves the epoch it begins or no process dies before its
\* shutdown has saved it (apply_locked's watermarks and the epoch of start).
THEOREM NeverReplayed == ASSUME SavedBeforeUse PROVE Spec => []NoReplay
  BY RestartInit, RestartStep, AppliedIsRefused, PTL DEF Spec

--------------------------------------------------------------------------------
(* The refinement of Authority.                                            *)

\* A registration with a boot that is new to its publisher is the abstract Grant.
LEMMA RegistrationGrants ==
  ASSUME TypeOK, NEW p \in Publishers, NEW b \in Boots,
         Running, p \notin publisher_fenced, b \notin fenced_boots'[p],
         \A i \in granted : i.pub = p /\ i.epoch = epoch => i.boot < b,
         pstate' = [pstate EXCEPT ![p] = "Registered"],
         boot' = [boot EXCEPT ![p] = b],
         \A q \in Publishers \ {p} : fenced_boots'[q] = fenced_boots[q],
         granted' = granted \cup {[pub |-> p, boot |-> b, epoch |-> epoch]},
         UNCHANGED <<coordinator, epoch, publisher_fenced>>
  PROVE  \E i \in Identity : Abstract!Grant(i)
<1> DEFINE new == [pub |-> p, boot |-> b, epoch |-> epoch]
<1>1. new \in Identity
  BY DEF TypeOK, Identity
<1>2. new \notin granted
  <2>1. new.pub = p /\ new.epoch = epoch /\ ~(new.boot < b)
    BY ConstantsAssumption DEF Boots
  <2> QED
    BY <2>1
<1>3. ASSUME NEW i \in Identity, i.pub = p
      PROVE  i \in LiveIdentities' <=> i = new
  <2>1. i \in LiveIdentities' <=> i.boot = b /\ i.epoch = epoch
    BY <1>3 DEF LiveIdentities, Authoritative, Running, TypeOK
  <2>2. i = new <=> i.boot = b /\ i.epoch = epoch
    BY <1>3 DEF Identity
  <2> QED
    BY <2>1, <2>2
<1>4. ASSUME NEW i \in Identity, i.pub # p
      PROVE  i \in LiveIdentities' <=> i \in LiveIdentities
  <2>1. /\ i.pub \in Publishers \ {p}
        /\ pstate'[i.pub] = pstate[i.pub] /\ boot'[i.pub] = boot[i.pub]
        /\ fenced_boots'[i.pub] = fenced_boots[i.pub]
    BY <1>4 DEF TypeOK, Identity
  <2> QED
    BY <2>1 DEF LiveIdentities, Authoritative, Running
<1>5. LiveIdentities' \subseteq Identity /\ LiveIdentities \subseteq Identity
  BY DEF LiveIdentities
<1>6. LiveIdentities' = {j \in LiveIdentities : j.pub # new.pub} \cup {new}
  BY <1>1, <1>3, <1>4, <1>5
<1> HIDE DEF new
<1>7. Abstract!Grant(new)
  BY <1>2, <1>6 DEF Abstract!Grant, new
<1> QED
  BY <1>1, <1>7

\* Losing identities, or none, is the abstract Revoke or a stuttering step.
LEMMA LossRevokes ==
  ASSUME LiveIdentities' \subseteq LiveIdentities, granted' = granted
  PROVE  [Abstract!Next]_(Abstract!vars)
<1> DEFINE lost == LiveIdentities \ LiveIdentities'
<1>1. CASE lost = {}
  BY <1>1 DEF Abstract!vars
<1>2. CASE lost # {}
  <2>1. Abstract!Revoke(lost)
    BY <1>2 DEF Abstract!Revoke
  <2>2. lost \in SUBSET LiveIdentities
    OBVIOUS
  <2> QED
    BY <2>1, <2>2 DEF Abstract!Next
<1> QED
  BY <1>1, <1>2

LEMMA StepRefines ==
  RestartInv /\ [Next]_vars => [Abstract!Next]_(Abstract!vars)
<1> SUFFICES ASSUME RestartInv, [Next]_vars PROVE [Abstract!Next]_(Abstract!vars)
  OBVIOUS
<1>0. /\ TypeOK /\ BootAssigned /\ EndedIsFenced /\ FencedWereAssigned /\ GrantsRecorded
      /\ boot \in [Publishers -> 0 .. MaxBoot]
      /\ fenced_boots \in [Publishers -> SUBSET Boots]
      /\ granted \subseteq Identity
  BY DEF RestartInv, TypeOK, AuthorityInv
<1>1. ASSUME NEW p \in Publishers, RegisterFirst(p)
      PROVE  [Abstract!Next]_(Abstract!vars)
  <2>1. 1 \in Boots /\ Running /\ p \notin publisher_fenced /\ boot[p] = 0
    BY <1>0, <1>1, ConstantsAssumption DEF RegisterFirst, BootAssigned, Known, Boots
  <2>2. 1 \notin fenced_boots'[p]
    BY <1>0, <1>1, <2>1 DEF RegisterFirst, FencedWereAssigned
  <2>3. \A i \in granted : i.pub = p /\ i.epoch = epoch => i.boot < 1
    BY <1>0, <2>1 DEF GrantsRecorded, Identity, Boots
  <2>4. \E i \in Identity : Abstract!Grant(i)
    BY <1>0, <1>1, <2>1, <2>2, <2>3, RegistrationGrants DEF RegisterFirst
  <2> QED
    BY <2>4 DEF Abstract!Next
<1>2. ASSUME NEW p \in Publishers, RegisterFresh(p)
      PROVE  [Abstract!Next]_(Abstract!vars)
  <2>1. boot[p] + 1 \in Boots /\ Running /\ p \notin publisher_fenced
    BY <1>0, <1>2, ConstantsAssumption DEF RegisterFresh, Boots
  <2>2. boot[p] + 1 \notin fenced_boots'[p]
    BY <1>0, <1>2 DEF RegisterFresh, FencedWereAssigned
  <2>3. \A i \in granted : i.pub = p /\ i.epoch = epoch => i.boot < boot[p] + 1
    BY <1>0, <2>1 DEF GrantsRecorded, Identity, Boots
  <2>4. boot' = [boot EXCEPT ![p] = boot[p] + 1]
    BY <1>2 DEF RegisterFresh
  <2>5. \A q \in Publishers \ {p} : fenced_boots'[q] = fenced_boots[q]
    BY <1>0, <1>2 DEF RegisterFresh
  <2>6. \E i \in Identity : Abstract!Grant(i)
    BY <1>0, <1>2, <2>1, <2>2, <2>3, <2>4, <2>5, RegistrationGrants DEF RegisterFresh
  <2> QED
    BY <2>6 DEF Abstract!Next
<1>3. ASSUME NEW p \in Publishers, FencePublisher(p)
      PROVE  [Abstract!Next]_(Abstract!vars)
  <2>1. LiveIdentities' \subseteq LiveIdentities
    BY <1>0, <1>3 DEF FencePublisher, LiveIdentities, Authoritative, Running, TypeOK, Identity
  <2> QED
    BY <1>3, <2>1, LossRevokes DEF FencePublisher
<1>4. ASSUME NEW p \in Publishers, NEW b \in Boots, Reaffirm(p, b)
      PROVE  [Abstract!Next]_(Abstract!vars)
  <2>1. pstate[p] = "Registered"
    BY <1>0, <1>4 DEF Reaffirm, Known, TypeOK, EndedIsFenced
  <2>2. pstate' = pstate
    BY <1>0, <1>4, <2>1 DEF Reaffirm, TypeOK
  <2>3. granted' = granted
    BY <1>0, <1>4, <2>1 DEF Reaffirm, GrantsRecorded
  <2>4. LiveIdentities' = LiveIdentities
    BY <1>4, <2>2 DEF Reaffirm, LiveIdentities, Authoritative, Running
  <2> QED
    BY <2>3, <2>4 DEF Abstract!vars
<1>5. ASSUME NEW p \in Publishers, NEW b \in Boots, RetirePublisherBoot(p, b)
      PROVE  [Abstract!Next]_(Abstract!vars)
  <2>1. LiveIdentities' \subseteq LiveIdentities
    BY <1>0, <1>5
    DEF RetirePublisherBoot, LiveIdentities, Authoritative, Running, TypeOK, Identity
  <2> QED
    BY <1>5, <2>1, LossRevokes DEF RetirePublisherBoot
<1>6. ASSUME NEW m \in Message, Apply(m)
      PROVE  [Abstract!Next]_(Abstract!vars)
  BY <1>6 DEF Apply, LiveIdentities, Authoritative, Running, Abstract!vars
<1>7. CASE Start
  <2>1. LiveIdentities' = {}
    BY <1>7 DEF Start, Imported, LiveIdentities, Authoritative, Identity
  <2> QED
    BY <1>7, <2>1, LossRevokes DEF Start
<1>8. CASE Shutdown \/ Crash
  <2>1. LiveIdentities' = {}
    BY <1>8 DEF Shutdown, Crash, LiveIdentities, Authoritative, Running
  <2> QED
    BY <1>8, <2>1, LossRevokes DEF Shutdown, Crash
<1>9. CASE UNCHANGED vars
  BY <1>9 DEF vars, process, LiveIdentities, Authoritative, Running, Abstract!vars
<1> QED
  BY <1>1, <1>2, <1>3, <1>4, <1>5, <1>6, <1>7, <1>8, <1>9 DEF Next

\* Registration, fencing, death, shutdown, crash and restart implement the abstract
\* authority under the same condition: an identity is granted once, and a publisher
\* holds at most one (register_publisher_locked, fence_publisher,
\* retire_publisher_boot, import_durable_state).
THEOREM AuthorityImplemented == ASSUME SavedBeforeUse PROVE Spec => ImplementsAuthority
<1>1. Init => Abstract!Init
  BY DEF Init, Abstract!Init, LiveIdentities, Authoritative, Running
<1> QED
  BY <1>1, RestartInit, RestartStep, StepRefines, PTL DEF Spec, ImplementsAuthority, Abstract!Spec


--------------------------------------------------------------------------------
(* Acknowledgements.                                                       *)

\* What this process remembers as the last publication of a boot, it applied.
WatermarkApplied ==
  Running =>
    \A p \in Publishers, b \in Boots :
      max_sequence[p][b] > 0 =>
        \E l \in ledger : /\ l.pub = p /\ l.boot = b /\ l.epoch = epoch
                          /\ l.seq = max_sequence[p][b]

\* Boots that are still to be assigned have published nothing.
FutureBootsUnused ==
  \A p \in Publishers, b \in Boots : b > boot[p] => max_sequence[p][b] = 0

\* A fingerprint that is held under the registered boot's last sequence is that of
\* what was applied there: no other boot has written it over since.
PrintIsOfWatermark ==
  Running =>
    \A p \in Publishers :
      /\ boot[p] # 0 /\ max_sequence[p][boot[p]] > 0
      /\ sequence_fingerprints[p][max_sequence[p][boot[p]]] # NoPrint
      => \E l \in ledger :
           /\ l.pub = p /\ l.boot = boot[p] /\ l.epoch = epoch
           /\ l.seq = max_sequence[p][boot[p]]
           /\ sequence_fingerprints[p][l.seq] = l.body

AcknowledgeInv == TypeOK /\ AuthorityInv /\ WatermarkApplied

LEMMA WatermarkStep == AcknowledgeInv /\ [Next]_vars => WatermarkApplied'
<1> SUFFICES ASSUME AcknowledgeInv, [Next]_vars PROVE WatermarkApplied'
  OBVIOUS
<1> USE DEF WatermarkApplied, Running
<1>0. /\ max_sequence \in [Publishers -> [Boots -> 0 .. MaxSeq]]
      /\ ledger \subseteq Message /\ WatermarkApplied
  BY DEF AcknowledgeInv, TypeOK
<1>1. ASSUME NEW m \in Message, Apply(m) PROVE WatermarkApplied'
  <2>1. /\ m.pub \in Publishers /\ m.boot \in Boots /\ m.seq \in 0 .. MaxSeq
        /\ m.epoch = epoch /\ Running /\ Running' /\ epoch' = epoch
        /\ max_sequence' = [max_sequence EXCEPT ![m.pub][m.boot] = m.seq]
        /\ ledger' = ledger \cup {m}
    BY <1>1 DEF Apply, AdmissionCode, Message
  <2> SUFFICES ASSUME NEW p \in Publishers, NEW b \in Boots, max_sequence'[p][b] > 0
               PROVE  \E l \in ledger' : /\ l.pub = p /\ l.boot = b /\ l.epoch = epoch
                                         /\ l.seq = max_sequence'[p][b]
    BY <2>1
  <2>2. CASE p = m.pub /\ b = m.boot
    <3>1. max_sequence'[p][b] = m.seq
      BY <1>0, <2>1, <2>2
    <3> QED
      BY <2>1, <2>2, <3>1
  <2>3. CASE ~(p = m.pub /\ b = m.boot)
    <3>1. max_sequence'[p][b] = max_sequence[p][b]
      BY <1>0, <2>1, <2>3
    <3> QED
      BY <1>0, <2>1, <3>1
  <2> QED
    BY <2>2, <2>3
<1>2. CASE Start
  BY <1>2 DEF Start, Imported
<1>3. CASE Shutdown \/ Crash
  BY <1>3 DEF Shutdown, Crash
<1>4. CASE UNCHANGED <<coordinator, epoch, max_sequence, ledger>>
  BY <1>0, <1>4
<1> QED
  BY <1>1, <1>2, <1>3, <1>4
  DEF Next, vars, process, RegisterFirst, RegisterFresh, FencePublisher, Reaffirm,
      RetirePublisherBoot

\* The answer "already accepted" is true, for any publishers, boots and processes and
\* with any durability settings: the envelope was applied by this very process
\* (apply_locked's watermark is written only after the handler accepted).
THEOREM AcknowledgementsAreTrue == Spec => []AcknowledgedWasApplied
<1>1. Init => AcknowledgeInv
  BY TypeInit, AuthorityInit DEF Init, AcknowledgeInv, WatermarkApplied, Running
<1>2. AcknowledgeInv /\ [Next]_vars => AcknowledgeInv'
  BY TypeStep, AuthorityStep, WatermarkStep DEF AcknowledgeInv
<1>3. AcknowledgeInv => AcknowledgedWasApplied
  <2> SUFFICES ASSUME AcknowledgeInv, NEW m \in Message, m.seq > 0,
                      AdmissionCode(m) = "AcceptedIdempotent"
               PROVE  \E l \in ledger : SameEnvelope(m, l)
    BY DEF AcknowledgedWasApplied
  <2>1. Running /\ m.epoch = epoch /\ m.seq = max_sequence[m.pub][m.boot]
    BY DEF AdmissionCode
  <2>2. m.pub \in Publishers /\ m.boot \in Boots
    BY DEF Message
  <2> QED
    BY <2>1, <2>2 DEF AcknowledgeInv, WatermarkApplied, SameEnvelope
<1> QED
  BY <1>1, <1>2, <1>3, PTL DEF Spec

--------------------------------------------------------------------------------
(* Duplicates.                                                             *)

\* Whatever is trimmed, the map has the new fingerprint under its sequence or none.
LEMMA PrintedNewOrNone ==
  ASSUME NEW prints \in [1 .. MaxSeq -> Bodies \cup {NoPrint}],
         NEW s \in 1 .. MaxSeq, NEW print \in Bodies
  PROVE  Printed(prints, s, print)[s] \in {print, NoPrint}
<1>1. /\ DOMAIN [prints EXCEPT ![s] = print] = 1 .. MaxSeq
      /\ [prints EXCEPT ![s] = print][s] = print
  OBVIOUS
<1> QED
  BY <1>1 DEF Printed

DuplicateInv == AcknowledgeInv /\ FutureBootsUnused /\ PrintIsOfWatermark

LEMMA FutureBootsStep ==
  TypeOK /\ AuthorityInv /\ FutureBootsUnused /\ [Next]_vars => FutureBootsUnused'
<1> SUFFICES ASSUME TypeOK, AuthorityInv, FutureBootsUnused, [Next]_vars PROVE FutureBootsUnused'
  OBVIOUS
<1> USE ConstantsAssumption DEF FutureBootsUnused, Boots
<1>0. /\ max_sequence \in [Publishers -> [Boots -> 0 .. MaxSeq]]
      /\ boot \in [Publishers -> 0 .. MaxBoot]
  BY DEF TypeOK
<1>1. ASSUME NEW m \in Message, Apply(m) PROVE FutureBootsUnused'
  <2>1. /\ m.pub \in Publishers /\ m.boot \in Boots /\ boot[m.pub] = m.boot /\ boot' = boot
        /\ max_sequence' = [max_sequence EXCEPT ![m.pub][m.boot] = m.seq]
    BY <1>1 DEF Apply, AdmissionCode, Message
  <2> SUFFICES ASSUME NEW p \in Publishers, NEW b \in Boots, b > boot[p]
               PROVE  max_sequence'[p][b] = 0
    BY <2>1
  <2>2. ~(p = m.pub /\ b = m.boot)
    BY <1>0, <2>1
  <2>3. max_sequence'[p][b] = max_sequence[p][b]
    BY <1>0, <2>1, <2>2
  <2> QED
    BY <2>3
<1>2. CASE Start
  BY <1>2 DEF Start, Imported
<1>3. CASE Shutdown \/ Crash
  BY <1>3 DEF Shutdown, Crash, Constructed
<1>4. ASSUME NEW p \in Publishers, RegisterFirst(p) \/ RegisterFresh(p)
      PROVE  FutureBootsUnused'
  <2>1. max_sequence' = max_sequence /\ boot' = [boot EXCEPT ![p] = boot[p] + 1]
    BY <1>0, <1>4 DEF RegisterFirst, RegisterFresh, AuthorityInv, BootAssigned, Known
  <2>2. \A q \in Publishers : boot[q] <= boot'[q]
    BY <1>0, <2>1
  <2>3. boot' \in [Publishers -> Nat]
    BY <1>0, <2>1
  <2> QED
    BY <1>0, <2>1, <2>2, <2>3
<1>5. CASE UNCHANGED <<boot, max_sequence>>
  BY <1>5
<1> QED
  BY <1>1, <1>2, <1>3, <1>4, <1>5
  DEF Next, vars, process, FencePublisher, Reaffirm, RetirePublisherBoot

LEMMA PrintStep ==
  ASSUME DuplicateInv, [Next]_vars
  PROVE  PrintIsOfWatermark'
<1> USE DEF PrintIsOfWatermark, Running
<1>0. /\ max_sequence \in [Publishers -> [Boots -> 0 .. MaxSeq]]
      /\ boot \in [Publishers -> 0 .. MaxBoot]
      /\ sequence_fingerprints \in [Publishers -> [1 .. MaxSeq -> Bodies \cup {NoPrint}]]
      /\ ledger \subseteq Message /\ PrintIsOfWatermark /\ FutureBootsUnused /\ AuthorityInv
  BY DEF DuplicateInv, AcknowledgeInv, TypeOK
<1>1. ASSUME NEW m \in Message, Apply(m) PROVE PrintIsOfWatermark'
  <2>1. /\ m.pub \in Publishers /\ m.boot \in Boots /\ m.seq \in 0 .. MaxSeq
        /\ m.body \in Bodies /\ m.epoch = epoch /\ boot[m.pub] = m.boot
        /\ Running /\ Running' /\ epoch' = epoch /\ boot' = boot
        /\ max_sequence' = [max_sequence EXCEPT ![m.pub][m.boot] = m.seq]
        /\ sequence_fingerprints' =
             [sequence_fingerprints EXCEPT ![m.pub] = Printed(@, m.seq, m.body)]
        /\ ledger' = ledger \cup {m}
    BY <1>1 DEF Apply, AdmissionCode, Message, Fingerprint
  <2> SUFFICES ASSUME NEW p \in Publishers, boot[p] # 0, max_sequence'[p][boot[p]] > 0,
                      sequence_fingerprints'[p][max_sequence'[p][boot[p]]] # NoPrint
               PROVE  \E l \in ledger' :
                        /\ l.pub = p /\ l.boot = boot[p] /\ l.epoch = epoch
                        /\ l.seq = max_sequence'[p][boot[p]]
                        /\ sequence_fingerprints'[p][l.seq] = l.body
    BY <2>1
  <2>2. CASE p = m.pub
    <3>1. max_sequence'[p][boot[p]] = m.seq
      BY <1>0, <2>1, <2>2
    <3>2. m.seq \in 1 .. MaxSeq
      BY <2>1, <3>1, ConstantsAssumption
    <3>3. sequence_fingerprints'[p] = Printed(sequence_fingerprints[p], m.seq, m.body)
      BY <1>0, <2>1, <2>2
    <3>4. sequence_fingerprints'[p][m.seq] = m.body
      BY <1>0, <2>1, <3>1, <3>2, <3>3, PrintedNewOrNone
    <3> QED
      BY <2>1, <2>2, <3>1, <3>4
  <2>3. CASE p # m.pub
    <3>1. /\ max_sequence'[p] = max_sequence[p]
          /\ sequence_fingerprints'[p] = sequence_fingerprints[p]
      BY <1>0, <2>1, <2>3
    <3>2. PICK l \in ledger : /\ l.pub = p /\ l.boot = boot[p] /\ l.epoch = epoch
                              /\ l.seq = max_sequence[p][boot[p]]
                              /\ sequence_fingerprints[p][l.seq] = l.body
      BY <1>0, <2>1, <3>1
    <3> QED
      BY <2>1, <3>1, <3>2
  <2> QED
    BY <2>2, <2>3
<1>2. CASE Start
  <2>1. /\ max_sequence' = [p \in Publishers |-> [b \in Boots |-> 0]]
        /\ boot' = image.boot /\ image.boot \in [Publishers -> 0 .. MaxBoot]
    BY <1>2 DEF Start, Imported, DuplicateInv, AcknowledgeInv, TypeOK
  <2>2. \A p \in Publishers : boot'[p] # 0 => boot'[p] \in Boots
    BY <2>1, ConstantsAssumption DEF Boots
  <2> QED
    BY <2>1, <2>2
<1>3. CASE Shutdown \/ Crash
  BY <1>3 DEF Shutdown, Crash
<1>4. ASSUME NEW p \in Publishers, RegisterFirst(p) \/ RegisterFresh(p)
      PROVE  PrintIsOfWatermark'
  <2>1. /\ boot' = [boot EXCEPT ![p] = boot[p] + 1] /\ boot[p] < MaxBoot
        /\ UNCHANGED <<coordinator, epoch, max_sequence, sequence_fingerprints, ledger>>
    BY <1>0, <1>4, ConstantsAssumption
    DEF RegisterFirst, RegisterFresh, AuthorityInv, BootAssigned, Known
  <2>2. boot'[p] = boot[p] + 1 /\ boot[p] + 1 \in Boots /\ boot[p] + 1 > boot[p]
    BY <1>0, <2>1, ConstantsAssumption DEF Boots
  <2>3. max_sequence[p][boot'[p]] = 0
    BY <1>0, <2>2 DEF FutureBootsUnused
  <2>4. \A q \in Publishers : q # p => boot'[q] = boot[q]
    BY <1>0, <2>1
  <2> SUFFICES ASSUME NEW q \in Publishers, Running, boot'[q] # 0,
                      max_sequence[q][boot'[q]] > 0,
                      sequence_fingerprints[q][max_sequence[q][boot'[q]]] # NoPrint
               PROVE  \E l \in ledger :
                        /\ l.pub = q /\ l.boot = boot'[q] /\ l.epoch = epoch
                        /\ l.seq = max_sequence[q][boot'[q]]
                        /\ sequence_fingerprints[q][l.seq] = l.body
    BY <2>1
  <2>5. boot'[q] = boot[q]
    BY <2>3, <2>4
  <2>6. PICK l \in ledger : /\ l.pub = q /\ l.boot = boot[q] /\ l.epoch = epoch
                            /\ l.seq = max_sequence[q][boot[q]]
                            /\ sequence_fingerprints[q][l.seq] = l.body
    BY <1>0, <2>5
  <2> QED
    BY <2>5, <2>6
<1>5. CASE UNCHANGED <<coordinator, epoch, boot, max_sequence, sequence_fingerprints, ledger>>
  BY <1>0, <1>5
<1> QED
  BY <1>1, <1>2, <1>3, <1>4, <1>5
  DEF Next, vars, process, FencePublisher, Reaffirm, RetirePublisherBoot

\* A duplicate is judged by what was applied under its own envelope, for any number of
\* publishers, boots, epochs and sequences, any content and any limit of the map:
\* successive boots share the map and trimming loses entries, and still none is
\* answered with another's fingerprint (apply_locked).
THEOREM DuplicatesJudgedByApplied == Spec => []DuplicatesComparedWithApplied
<1>1. Init => DuplicateInv
  BY TypeInit, AuthorityInit
  DEF Init, DuplicateInv, AcknowledgeInv, WatermarkApplied, FutureBootsUnused,
      PrintIsOfWatermark, Running
<1>2. DuplicateInv /\ [Next]_vars => DuplicateInv'
  BY TypeStep, AuthorityStep, WatermarkStep, FutureBootsStep, PrintStep
  DEF DuplicateInv, AcknowledgeInv
<1>3. DuplicateInv => DuplicatesComparedWithApplied
  <2> SUFFICES ASSUME DuplicateInv, NEW m \in Message, m.seq > 0
               PROVE  /\ AdmissionCode(m) = "RejectedDuplicateConflict" =>
                           \E l \in ledger : SameEnvelope(m, l) /\ Fingerprint(l) # Fingerprint(m)
                      /\ /\ AdmissionCode(m) = "AcceptedIdempotent"
                         /\ sequence_fingerprints[m.pub][m.seq] # NoPrint
                         => \E l \in ledger : SameEnvelope(m, l) /\ Fingerprint(l) = Fingerprint(m)
    BY DEF DuplicatesComparedWithApplied
  <2>0. /\ m.pub \in Publishers /\ m.boot \in Boots /\ m.boot # 0 /\ m.seq \in Nat
    BY ConstantsAssumption DEF Message, Boots
  <2>1. ASSUME Running, m.epoch = epoch, m.seq = max_sequence[m.pub][m.boot],
               boot[m.pub] = m.boot, sequence_fingerprints[m.pub][m.seq] # NoPrint
        PROVE  \E l \in ledger :
                 SameEnvelope(m, l) /\ Fingerprint(l) = sequence_fingerprints[m.pub][m.seq]
    <3>1. PICK l \in ledger :
            /\ l.pub = m.pub /\ l.boot = m.boot /\ l.epoch = epoch /\ l.seq = m.seq
            /\ sequence_fingerprints[m.pub][l.seq] = l.body
      BY <2>0, <2>1 DEF DuplicateInv, PrintIsOfWatermark
    <3> QED
      BY <2>1, <3>1 DEF SameEnvelope, Fingerprint
  <2>2. CASE AdmissionCode(m) = "RejectedDuplicateConflict"
    <3>1. /\ Running /\ m.epoch = epoch /\ m.seq = max_sequence[m.pub][m.boot]
          /\ boot[m.pub] = m.boot
          /\ sequence_fingerprints[m.pub][m.seq] \notin {NoPrint, Fingerprint(m)}
      BY <2>2 DEF AdmissionCode
    <3>2. PICK l \in ledger :
            SameEnvelope(m, l) /\ Fingerprint(l) = sequence_fingerprints[m.pub][m.seq]
      BY <2>1, <3>1
    <3> QED
      BY <2>2, <3>1, <3>2
  <2>3. CASE /\ AdmissionCode(m) = "AcceptedIdempotent"
             /\ sequence_fingerprints[m.pub][m.seq] # NoPrint
    <3>1. /\ Running /\ m.epoch = epoch /\ m.seq = max_sequence[m.pub][m.boot]
          /\ boot[m.pub] = m.boot
          /\ sequence_fingerprints[m.pub][m.seq] \in {NoPrint, Fingerprint(m)}
      BY <2>3 DEF AdmissionCode
    <3>2. PICK l \in ledger :
            SameEnvelope(m, l) /\ Fingerprint(l) = sequence_fingerprints[m.pub][m.seq]
      BY <2>1, <2>3, <3>1
    <3> QED
      BY <2>3, <3>1, <3>2
  <2> QED
    BY <2>2, <2>3
<1> QED
  BY <1>1, <1>2, <1>3, PTL DEF Spec

====================================================================================
