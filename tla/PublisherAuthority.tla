--------------------------- MODULE PublisherAuthority ---------------------------
(***************************************************************************)
(* Publisher identity, fencing and replay protection of the registry, and  *)
(* what of them survives the coordinator process.                          *)
(*                                                                         *)
(* One registry runs inside one coordinator process.  Publishers register  *)
(* and are given a boot; their publications carry (publisher, boot, epoch, *)
(* sequence, evidence generation) and pass the admission checks of         *)
(* apply_locked before a handler sees them.  Frames may be delayed,        *)
(* duplicated, reordered or replayed at any later time, by an old process  *)
(* or after a restart: an action takes any message at all.                 *)
(*                                                                         *)
(* Abstractions.  The handlers behind admission belong to other modules:   *)
(* a handler accepts or rejects, and a rejection changes nothing here.     *)
(* Counters, adapter names, reasons and timestamps are left out, and so    *)
(* are PublisherRecord's last_sequence and max_evidence_generation, which  *)
(* are exported and reported but read by no check: an imported watermark   *)
(* belongs to a boot that the import fences.                               *)
(***************************************************************************)
EXTENDS Integers, FiniteSets

CONSTANTS
  Publishers,      \* publisher ids
  MaxPublishers,   \* limits.max_publishers
  MaxBoot,         \* bound: boots assigned to one publisher
  MaxEpoch,        \* bound: coordinator epochs
  MaxSeq,          \* bound: sequence numbers of one boot
  MaxGen,          \* bound: evidence generations
  Bodies,          \* the fields of a publication that its fingerprint mixes
  Rests,           \* the fields it does not (source class, precision, effect ...)
  FingerprintCap,  \* fingerprints kept per publisher (4096 in the code)
  PersistAtStart,  \* config.persist_on_mutation: save once start() has run
  Crashes,         \* the process may die without running its shutdown
  NoPrint          \* model value: no fingerprint under this sequence

ASSUME ConstantsAssumption ==
  /\ MaxPublishers \in Nat /\ MaxBoot \in Nat /\ MaxEpoch \in Nat
  /\ MaxSeq \in Nat /\ MaxGen \in Nat /\ FingerprintCap \in Nat
  /\ PersistAtStart \in BOOLEAN /\ Crashes \in BOOLEAN
  /\ NoPrint \notin Bodies

VARIABLES
  coordinator,    \* "running" or "down"
  epoch,          \* Impl::epoch
  pstate,         \* record.state, "Unknown" for a publisher not in the map
  boot,           \* record.identity.boot, 0 for none
  fenced_boots,   \* boots that never regain authority
  publisher_fenced,       \* the publishers whose publisher_fenced flag is set
  max_sequence,   \* watermarks[boot].max_sequence, 0 for no watermark
  max_evidence_generation,
  sequence_fingerprints,  \* keyed by sequence, shared by all boots
  image,          \* the durable image: epoch 0 for no file
  ledger,         \* history: every publication a handler accepted
  granted,        \* history: every identity that held authority
  barred          \* history: every publisher an administrator fenced

process == <<epoch, pstate, boot, fenced_boots, publisher_fenced, max_sequence,
             max_evidence_generation, sequence_fingerprints>>

vars == <<coordinator, process, image, ledger, granted, barred>>

Running == coordinator = "running"

Boots == 1 .. MaxBoot
Epochs == 1 .. MaxEpoch
Identity == [pub : Publishers, boot : Boots, epoch : Epochs]
Message == [pub : Publishers, boot : Boots, epoch : Epochs, seq : 0 .. MaxSeq,
            gen : 0 .. MaxGen, body : Bodies, rest : Rests]

--------------------------------------------------------------------------------
(* The constructed registry, and the durable image.                        *)

\* CapabilityRegistry's constructor: no publisher, the first epoch.
Constructed ==
  /\ epoch' = 1
  /\ pstate' = [p \in Publishers |-> "Unknown"]
  /\ boot' = [p \in Publishers |-> 0]
  /\ fenced_boots' = [p \in Publishers |-> {}]
  /\ publisher_fenced' = {}
  /\ max_sequence' = [p \in Publishers |-> [b \in Boots |-> 0]]
  /\ max_evidence_generation' = [p \in Publishers |-> [b \in Boots |-> 0]]
  /\ sequence_fingerprints' = [p \in Publishers |-> [s \in 1 .. MaxSeq |-> NoPrint]]

NoImage == [epoch |-> 0,
            boot |-> [p \in Publishers |-> 0],
            fenced |-> [p \in Publishers |-> {}]]

\* export_durable_state: one watermark per publisher, for its registered boot, and
\* the fenced boots.  The registered boot is listed as fenced only for a fenced
\* publisher; publisher_fenced itself has no field in the image.
Exported(e, bt, fenced, banned) ==
  [epoch |-> e,
   boot |-> bt,
   fenced |-> [p \in Publishers |->
                 (fenced[p] \ {bt[p]})
                   \cup (IF p \in banned /\ bt[p] # 0 THEN {bt[p]} ELSE {})]]

--------------------------------------------------------------------------------
(* Admission.                                                              *)

Known(p) == pstate[p] # "Unknown"

\* fingerprint_publication: what the hash mixes.  Publications that differ only in
\* the fields it leaves out have one fingerprint.
Fingerprint(m) == m.body

\* publisher_is_authoritative, for evidence of the registered boot.
Authoritative(p) ==
  /\ Running
  /\ p \notin publisher_fenced
  /\ pstate[p] = "Registered"
  /\ boot[p] \notin fenced_boots[p]

LiveIdentities ==
  {i \in Identity : Authoritative(i.pub) /\ i.boot = boot[i.pub] /\ i.epoch = epoch}

\* The checks of apply_locked, in their order.  "Admitted" means that the handler
\* of the publication's kind runs.
AdmissionCode(m) ==
  IF ~Running THEN "NoCoordinator"
  ELSE IF ~Known(m.pub) THEN "RejectedUnknownPublisher"
  ELSE IF m.pub \in publisher_fenced THEN "RejectedFencedPublisher"
  ELSE IF m.boot \in fenced_boots[m.pub] THEN "RejectedFencedPublisher"
  ELSE IF boot[m.pub] # m.boot THEN "RejectedStaleBoot"
  ELSE IF m.epoch # epoch THEN "RejectedStaleEpoch"
  ELSE IF m.seq < max_sequence[m.pub][m.boot] THEN "RejectedStaleSequence"
  ELSE IF m.seq = max_sequence[m.pub][m.boot]
       THEN IF m.seq = 0 THEN "AcceptedIdempotent"  \* no fingerprint under 0 ever
            ELSE IF sequence_fingerprints[m.pub][m.seq] \in {NoPrint, Fingerprint(m)}
                 THEN "AcceptedIdempotent"
                 ELSE "RejectedDuplicateConflict"
  ELSE IF m.gen < max_evidence_generation[m.pub][m.boot]
       THEN "RejectedGenerationRegression"
  ELSE "Admitted"

\* Mutant of Printed: insert instead of assignment, an entry that is there stays.
PrintedOnce(prints, s, print) ==
  LET grown == IF prints[s] = NoPrint THEN [prints EXCEPT ![s] = print] ELSE prints
      held == {t \in DOMAIN grown : grown[t] # NoPrint}
      kept == {t \in held : Cardinality({u \in held : u >= t}) <= FingerprintCap}
  IN [t \in DOMAIN grown |-> IF t \in kept THEN grown[t] ELSE NoPrint]

\* The fingerprint map after an accepted publication: the new entry, then the
\* smallest sequences erased until no more than FingerprintCap are left.
Printed(prints, s, print) ==
  LET grown == [prints EXCEPT ![s] = print]
      held == {t \in DOMAIN grown : grown[t] # NoPrint}
      kept == {t \in held : Cardinality({u \in held : u >= t}) <= FingerprintCap}
  IN [t \in DOMAIN grown |-> IF t \in kept THEN grown[t] ELSE NoPrint]

--------------------------------------------------------------------------------
(* The operations of a running registry.                                   *)

\* register_publisher, first registration: the caller may ask for boot 0 or 1.
RegisterFirst(p) ==
  /\ Running
  /\ ~Known(p)
  /\ Cardinality({q \in Publishers : Known(q)}) < MaxPublishers
  /\ MaxBoot >= 1
  /\ pstate' = [pstate EXCEPT ![p] = "Registered"]
  /\ boot' = [boot EXCEPT ![p] = 1]
  /\ granted' = granted \cup {[pub |-> p, boot |-> 1, epoch |-> epoch]}
  /\ UNCHANGED <<coordinator, epoch, fenced_boots, publisher_fenced, max_sequence,
                 max_evidence_generation, sequence_fingerprints, image, ledger, barred>>

\* register_publisher with boot 0 for a known publisher: a fresh process.
RegisterFresh(p) ==
  /\ Running
  /\ Known(p)
  /\ p \notin publisher_fenced
  /\ boot[p] < MaxBoot
  /\ fenced_boots' = [fenced_boots EXCEPT ![p] = @ \cup ({boot[p]} \ {0})]
  /\ boot' = [boot EXCEPT ![p] = @ + 1]
  /\ pstate' = [pstate EXCEPT ![p] = "Registered"]
  /\ granted' = granted \cup {[pub |-> p, boot |-> boot[p] + 1, epoch |-> epoch]}
  /\ UNCHANGED <<coordinator, epoch, publisher_fenced, max_sequence,
                 max_evidence_generation, sequence_fingerprints, image, ledger, barred>>

\* register_publisher with a boot: only the registered, unfenced boot is re-affirmed.
Reaffirm(p, b) ==
  /\ Running
  /\ Known(p)
  /\ p \notin publisher_fenced
  /\ b \notin fenced_boots[p]
  /\ b = boot[p]
  /\ pstate' = [pstate EXCEPT ![p] = "Registered"]
  /\ granted' = granted \cup {[pub |-> p, boot |-> b, epoch |-> epoch]}
  /\ UNCHANGED <<coordinator, epoch, boot, fenced_boots, publisher_fenced, max_sequence,
                 max_evidence_generation, sequence_fingerprints, image, ledger, barred>>

\* fence_publisher: an administrator bars the publisher itself.
FencePublisher(p) ==
  /\ Running
  /\ Known(p)
  /\ p \notin publisher_fenced
  /\ publisher_fenced' = publisher_fenced \cup {p}
  /\ pstate' = [pstate EXCEPT ![p] = "Fenced"]
  /\ fenced_boots' = [fenced_boots EXCEPT ![p] = @ \cup ({boot[p]} \ {0})]
  /\ barred' = barred \cup {p}
  /\ UNCHANGED <<coordinator, epoch, boot, max_sequence, max_evidence_generation,
                 sequence_fingerprints, image, ledger, granted>>

\* Mutant of RetirePublisherBoot: the state changes, the boot is not fenced.
RetireWithoutFencing(p, b) ==
  /\ Running
  /\ Known(p)
  /\ b <= boot[p]
  /\ b \notin fenced_boots[p]
  /\ pstate' = [pstate EXCEPT ![p] = IF boot[p] = b THEN "Dead" ELSE @]
  /\ UNCHANGED <<coordinator, epoch, boot, fenced_boots, publisher_fenced, max_sequence,
                 max_evidence_generation, sequence_fingerprints, image, ledger, granted, barred>>

\* retire_publisher_boot: the session that registered boot b is gone.  A session
\* holds a boot assigned in this process, at most the registered one.
RetirePublisherBoot(p, b) ==
  /\ Running
  /\ Known(p)
  /\ b <= boot[p]
  /\ b \notin fenced_boots[p]
  /\ fenced_boots' = [fenced_boots EXCEPT ![p] = @ \cup {b}]
  /\ pstate' = [pstate EXCEPT ![p] = IF boot[p] = b THEN "Dead" ELSE @]
  /\ UNCHANGED <<coordinator, epoch, boot, publisher_fenced, max_sequence,
                 max_evidence_generation, sequence_fingerprints, image, ledger, granted, barred>>

\* Mutant of Apply: the watermark moves for a publication its handler rejects too.
ApplyBeforeHandler(m) ==
  /\ AdmissionCode(m) = "Admitted"
  /\ max_sequence' = [max_sequence EXCEPT ![m.pub][m.boot] = m.seq]
  /\ ledger' \in {ledger, ledger \cup {m}}
  /\ UNCHANGED <<coordinator, epoch, pstate, boot, fenced_boots, publisher_fenced,
                 max_evidence_generation, sequence_fingerprints, image, granted, barred>>

\* apply, for a publication that is admitted and that its handler accepts.
Apply(m) ==
  /\ AdmissionCode(m) = "Admitted"
  /\ max_sequence' = [max_sequence EXCEPT ![m.pub][m.boot] = m.seq]
  /\ max_evidence_generation' = [max_evidence_generation EXCEPT ![m.pub][m.boot] = m.gen]
  /\ sequence_fingerprints' =
       [sequence_fingerprints EXCEPT ![m.pub] = Printed(@, m.seq, Fingerprint(m))]
  /\ ledger' = ledger \cup {m}
  /\ UNCHANGED <<coordinator, epoch, pstate, boot, fenced_boots, publisher_fenced, image, granted, barred>>

--------------------------------------------------------------------------------
(* The coordinator process.                                                *)

\* The end of run(): every open session's boot is retired, ingestion is closed and
\* the state is saved.  Process memory is gone afterwards.
Shutdown ==
  /\ Running
  /\ coordinator' = "down"
  /\ image' = Exported(epoch, boot,
                       [p \in Publishers |->
                          IF pstate[p] = "Registered" THEN fenced_boots[p] \cup {boot[p]}
                          ELSE fenced_boots[p]],
                       publisher_fenced)
  /\ Constructed
  /\ UNCHANGED <<ledger, granted, barred>>

\* The process dies before that, or its final save fails: the old file stays.
Crash ==
  /\ Crashes
  /\ Running
  /\ coordinator' = "down"
  /\ Constructed
  /\ UNCHANGED <<image, ledger, granted, barred>>

\* Mutant of Imported: a boot is fenced without asking whether it is valid.
ImportedUnchecked(img) ==
  /\ boot' = img.boot
  /\ fenced_boots' = [p \in Publishers |-> img.fenced[p] \cup {img.boot[p]}]
  /\ pstate' = [p \in Publishers |-> IF img.boot[p] = 0 THEN "Unknown" ELSE "Dead"]
  /\ publisher_fenced' = {}
  /\ UNCHANGED <<max_sequence, max_evidence_generation, sequence_fingerprints>>

\* import_durable_state fences every imported boot and restores no liveness,
\* no fingerprint and no publisher_fenced.
Imported(img) ==
  /\ boot' = img.boot
  /\ fenced_boots' = [p \in Publishers |-> img.fenced[p] \cup ({img.boot[p]} \ {0})]
  /\ pstate' = [p \in Publishers |-> IF img.boot[p] = 0 THEN "Unknown" ELSE "Dead"]
  /\ publisher_fenced' = {}
  /\ max_sequence' = [p \in Publishers |-> [b \in Boots |-> 0]]
  /\ max_evidence_generation' = [p \in Publishers |-> [b \in Boots |-> 0]]
  /\ sequence_fingerprints' = [p \in Publishers |-> [s \in 1 .. MaxSeq |-> NoPrint]]

\* Mutant of Start: the epoch of the image is taken over without advancing it.
StartSameEpoch ==
  /\ ~Running
  /\ epoch' = IF image.epoch > 1 THEN image.epoch ELSE 1
  /\ coordinator' = "running"
  /\ Imported(image)
  /\ image' = IF PersistAtStart
              THEN Exported(epoch', boot', fenced_boots', publisher_fenced')
              ELSE image
  /\ UNCHANGED <<ledger, granted, barred>>

\* start(): load the image if there is one, advance the epoch, reset liveness (the
\* import left none), and save again only when the configuration says so.
Start ==
  /\ ~Running
  /\ LET loaded == IF image.epoch > 1 THEN image.epoch ELSE 1
     IN /\ loaded < MaxEpoch
        /\ epoch' = loaded + 1
  /\ coordinator' = "running"
  /\ Imported(image)
  /\ image' = IF PersistAtStart
              THEN Exported(epoch', boot', fenced_boots', publisher_fenced')
              ELSE image
  /\ UNCHANGED <<ledger, granted, barred>>

--------------------------------------------------------------------------------
Init ==
  /\ coordinator = "down"
  /\ epoch = 1
  /\ pstate = [p \in Publishers |-> "Unknown"]
  /\ boot = [p \in Publishers |-> 0]
  /\ fenced_boots = [p \in Publishers |-> {}]
  /\ publisher_fenced = {}
  /\ max_sequence = [p \in Publishers |-> [b \in Boots |-> 0]]
  /\ max_evidence_generation = [p \in Publishers |-> [b \in Boots |-> 0]]
  /\ sequence_fingerprints = [p \in Publishers |-> [s \in 1 .. MaxSeq |-> NoPrint]]
  /\ image = NoImage
  /\ ledger = {}
  /\ granted = {}
  /\ barred = {}

Next ==
  \/ \E p \in Publishers : RegisterFirst(p) \/ RegisterFresh(p) \/ FencePublisher(p)
  \/ \E p \in Publishers, b \in Boots : Reaffirm(p, b) \/ RetirePublisherBoot(p, b)
  \/ \E m \in Message : Apply(m)
  \/ Start
  \/ Shutdown
  \/ Crash

Spec == Init /\ [][Next]_vars

--------------------------------------------------------------------------------
(* Properties.                                                             *)

\* Every variable has its type (PublisherStateInternal, the image's fields).
TypeOK ==
  /\ coordinator \in {"running", "down"}
  /\ epoch \in Nat \ {0} /\ (Running => epoch \in Epochs)
  /\ pstate \in [Publishers -> {"Unknown", "Registered", "Dead", "Fenced"}]
  /\ boot \in [Publishers -> 0 .. MaxBoot]
  /\ fenced_boots \in [Publishers -> SUBSET Boots]
  /\ publisher_fenced \subseteq Publishers
  /\ max_sequence \in [Publishers -> [Boots -> 0 .. MaxSeq]]
  /\ max_evidence_generation \in [Publishers -> [Boots -> 0 .. MaxGen]]
  /\ sequence_fingerprints \in [Publishers -> [1 .. MaxSeq -> Bodies \cup {NoPrint}]]
  /\ image \in [epoch : 0 .. MaxEpoch, boot : [Publishers -> 0 .. MaxBoot],
                fenced : [Publishers -> SUBSET Boots]]
  /\ ledger \subseteq Message
  /\ granted \subseteq Identity
  /\ barred \subseteq Publishers

SameEnvelope(m, l) ==
  m.pub = l.pub /\ m.boot = l.boot /\ m.epoch = l.epoch /\ m.seq = l.seq

\* A publication is applied at most once: whatever was accepted under a publisher,
\* boot, epoch and sequence is never admitted to a handler again under them, with
\* the same content or another, by this process or by any later one (the watermark
\* and boot checks of apply_locked, the export, and the epoch advance of start).
NoReplay ==
  \A l \in ledger : \A m \in Message :
    SameEnvelope(m, l) => AdmissionCode(m) # "Admitted"

\* Only an identity that holds authority gets evidence in.  apply_locked never looks
\* at record.state: this rests on every path out of "Registered" fencing the boot.
AdmittedHoldsAuthority ==
  \A m \in Message :
    AdmissionCode(m) = "Admitted" =>
      \E i \in LiveIdentities : i.pub = m.pub /\ i.boot = m.boot /\ i.epoch = m.epoch

\* The answer "already accepted" is true: a publication (publishers number theirs
\* from 1) acknowledged as a duplicate is one whose envelope was applied before.
AcknowledgedWasApplied ==
  \A m \in Message :
    m.seq > 0 /\ AdmissionCode(m) = "AcceptedIdempotent" =>
      \E l \in ledger : SameEnvelope(m, l)

\* A duplicate is judged by what was applied under its own envelope.  The map is keyed
\* by the sequence alone, outlives the boots that filled it and is trimmed from its
\* small end: still a publication is refused as a conflict only when another
\* fingerprint was applied under its publisher, boot, epoch and sequence, and, while
\* a fingerprint is held, acknowledged only when its own was (apply_locked).
DuplicatesComparedWithApplied ==
  \A m \in Message :
    m.seq > 0 =>
      /\ AdmissionCode(m) = "RejectedDuplicateConflict" =>
           \E l \in ledger : SameEnvelope(m, l) /\ Fingerprint(l) # Fingerprint(m)
      /\ /\ AdmissionCode(m) = "AcceptedIdempotent"
         /\ sequence_fingerprints[m.pub][m.seq] # NoPrint
         => \E l \in ledger : SameEnvelope(m, l) /\ Fingerprint(l) = Fingerprint(m)

(* Claims of the repository that the code does not keep; README, section 3, *)
(* names the constants that show it.                                       *)

\* README, section 13: ingestion rejects "conflicting duplicate sequences".  What
\* apply_locked acknowledges as a duplicate has the content that was applied.
ConflictingDuplicateRefused ==
  \A m \in Message :
    m.seq > 0 /\ AdmissionCode(m) = "AcceptedIdempotent" =>
      \E l \in ledger : SameEnvelope(m, l) /\ m.body = l.body /\ m.rest = l.rest

\* apply_locked's answer: a publication of which it says that its sequence "was
\* already accepted" has a sequence that was accepted, the sequence 0 included.
AlreadyAccepted ==
  \A m \in Message :
    AdmissionCode(m) = "AcceptedIdempotent" => \E l \in ledger : SameEnvelope(m, l)

\* register_publisher's answer to a publisher that an administrator fenced is
\* "publisher is permanently fenced": it never holds authority again.
FencedForever ==
  \A p \in barred : ~Authoritative(p)

Abstract == INSTANCE Authority WITH
  Identities <- Identity, live <- LiveIdentities, spent <- granted

\* Registration, fencing, death, shutdown, crash and restart implement the abstract
\* authority: an identity that lost authority never holds it again, and a publisher
\* never holds two.
ImplementsAuthority == Abstract!Spec

================================================================================
