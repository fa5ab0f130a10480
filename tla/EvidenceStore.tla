------------------------------ MODULE EvidenceStore ------------------------------
(***************************************************************************)
(* Capability evidence in a running registry: how publications of several  *)
(* publishers about one capability of one device are recorded, superseded, *)
(* evicted and withdrawn (apply_capability_locked, evict_if_needed_locked) *)
(* while devices move through generations and publishers come and go, and  *)
(* which of it a query may answer from (the candidates of resolve_locked). *)
(*                                                                         *)
(* Composition.  Devices are those of DeviceRegistry; of publishers only   *)
(* what Authority promises is used, which PublisherAuthority implements:   *)
(* a publication is applied under an identity that is live at that moment. *)
(* Publications arrive in any order and at any time.                       *)
(*                                                                         *)
(* Abstractions.  A claim is a record of a support state, a value and the  *)
(* software axes its conditions mention; two claims are equal when         *)
(* capability_content_equal says so.  Schemas are bound one to one, so the *)
(* schema checks never fail here.  Conditions are not evaluated and quirks *)
(* not applied.  evidence_count is the number of records by definition:    *)
(* each push_back and each erase is paired with its ++ or --.  has_evidence*)
(* is set exactly where generation becomes valid.  observation_sequence is *)
(* left out: no publisher of this code sets it.                            *)
(***************************************************************************)
EXTENDS DeviceRegistry, Sequences, Provenance

CONSTANTS
  Capabilities,      \* capability ids
  Publishers,        \* publisher ids, as their rank in the id order
  MaxBoot,           \* bound: boots of one publisher
  Sources,           \* [class, provenance, reference, precision, evidence_generation]
  Claims,            \* [support, value, gates]
  MaxHistory,        \* limits.max_evidence_history
  KeyCap,            \* limits.max_evidence_per_capability * 8
  MaxCapabilities,   \* limits.max_capabilities_per_device
  MaxSerial,         \* bound: records ever stored
  MaxKeyGeneration   \* bound: capability generations of one key

VARIABLES
  live, spent,       \* of Authority
  keys,              \* the keys in Impl::keys
  key_generation,    \* KeyState::generation, 0 while invalid
  records,           \* KeyState::records, a set: Position gives the vector's order
  global_order,      \* [key, serial] in order of arrival, consumed by eviction
  next_serial,
  heads              \* history: [key, slot, serial] of the newest record per slot

evidenceVars == <<keys, key_generation, records, global_order, next_serial, heads>>
vars == <<deviceVars, live, spent, evidenceVars>>

Key == Devices \X Capabilities
Identity == [pub : Publishers, boot : 1 .. MaxBoot, epoch : {1}]
Authority == INSTANCE Authority WITH Identities <- Identity

\* What a withdrawal asserts: no support state, no value.
NoClaim == [support |-> "Unknown", value |-> "none", gates |-> {}]

\* The part of validate_capability_record that a source can fail.
SourceValid(s) ==
  s.class # "Unspecified" /\ ProvenanceAllowed(s.provenance, s.class)

ASSUME EvidenceConstants ==
  /\ Publishers \subseteq Nat
  /\ MaxHistory \in Nat \ {0} /\ KeyCap \in Nat \ {0} /\ MaxCapabilities \in Nat
  /\ MaxSerial \in Nat /\ MaxKeyGeneration \in Nat /\ MaxBoot \in Nat
  /\ \A s \in Sources :
       /\ s.class \in SourceClasses /\ s.provenance \in ProvenanceClasses /\ SourceValid(s)
       /\ s.precision \in DOMAIN PrecisionRank /\ s.evidence_generation \in Nat
  /\ \A c \in Claims : c.support \in SupportStates /\ c.gates \subseteq Axes

--------------------------------------------------------------------------------
(* Staleness.                                                              *)

RuntimeId(d) == IF software[d]["runtime"] = None THEN None ELSE software[d]["runtime"].id

LiveBound(r) == ~IsDurable(r.source.provenance)

\* The evidence depends on this axis, was observed under an identified generation of
\* it, and that generation has passed.  A runtime counts only while the device still
\* names the runtime component the evidence was observed through.
AxisMoved(d, r, a) ==
  /\ LiveBound(r) \/ a \in r.claim.gates
  /\ r.axes[a] # 0
  /\ r.axes[a] # axis_generation[d][a]
  /\ a = "runtime" => r.runtime # None /\ r.runtime = RuntimeId(d)

StalenessFlags ==
  {"SupersededByNewerEvidence", "Withdrawn", "DeviceGenerationSuperseded",
   "DeviceBootChanged", "DriverGenerationChanged", "FirmwareGenerationChanged",
   "RuntimeGenerationChanged", "PlatformGenerationChanged", "PublisherFenced"}

\* Mutant of Moved: the publisher's authority is not looked at.
MovedWithoutAuthority(f, d, r) ==
  CASE f = "DeviceBootChanged"         -> r.device_boot # device_boot[d]
    [] f = "DriverGenerationChanged"   -> AxisMoved(d, r, "driver")
    [] OTHER                           -> FALSE

\* What has changed about the device, or about the publisher, since the record was made.
\* The epoch of live-bound evidence is part of the identity that must be live.
Moved(f, d, r) ==
  CASE f = "DeviceBootChanged"         -> r.device_boot # device_boot[d]
    [] f = "DriverGenerationChanged"   -> AxisMoved(d, r, "driver")
    [] f = "FirmwareGenerationChanged" -> AxisMoved(d, r, "firmware")
    [] f = "RuntimeGenerationChanged"  -> AxisMoved(d, r, "runtime")
    [] f = "PlatformGenerationChanged" ->
         LiveBound(r) /\ r.platform_generation # platform_generation[d]
    [] f = "PublisherFenced"           -> LiveBound(r) /\ r.identity \notin live

\* Mutants of Raised: the flag of a superseded record is not looked at; a past
\* generation counts as the current one.
RaisedUnlessSuperseded(f, d, r, target) ==
  CASE f = "SupersededByNewerEvidence"  -> FALSE
    [] f = "Withdrawn"                  -> r.withdrawn
    [] f = "DeviceGenerationSuperseded" -> r.device_generation # target
    [] OTHER                            -> Moved(f, d, r)
RaisedInThePast(f, d, r, target) ==
  CASE f = "SupersededByNewerEvidence"  -> r.superseded
    [] f = "Withdrawn"                  -> r.withdrawn
    [] f = "DeviceGenerationSuperseded" -> r.device_generation # target
    [] OTHER                            -> target = generation[d] /\ Moved(f, d, r)

\* compute_staleness_locked: whether a record of device d carries a flag for the device
\* generation a query targets.
Raised(f, d, r, target) ==
  CASE f = "SupersededByNewerEvidence"  -> r.superseded
    [] f = "Withdrawn"                  -> r.withdrawn
    [] f = "DeviceGenerationSuperseded" -> r.device_generation # target \/ target # generation[d]
    [] OTHER                            -> target = generation[d] /\ Moved(f, d, r)

StaleFor(d, r, target) == \E f \in StalenessFlags : Raised(f, d, r, target)
Stale(d, r) == StaleFor(d, r, generation[d])

Candidates(k) == {r \in records[k] : ~Stale(k[1], r)}

--------------------------------------------------------------------------------
(* Slots and eviction.                                                     *)

\* One publisher boot observing through one source class.
Slot(i, s) == <<i.pub, i.boot, s.class>>
SlotOf(r) == r.slot

\* Mutant of SupersededIn: the comparison is the wrong way round.
SupersededByOlder(recs, r) == \E q \in recs : SlotOf(q) = SlotOf(r) /\ q.serial < r.serial

SupersededIn(recs, r) == \E q \in recs : SlotOf(q) = SlotOf(r) /\ q.serial > r.serial

EvidenceCount(recs) == Cardinality(UNION {{<<k, r>> : r \in recs[k]} : k \in Key})

\* Where a record stands in its vector: imported records, whose slot has more parts,
\* come first, and a serial may be given twice across an import.
Position(r) == <<-Len(r.slot), r.serial>>

\* Tuples are compared from the left; the smaller one is preferred.
Precedes(s, t) == \E n \in DOMAIN s : s[n] < t[n] /\ \A m \in 1 .. n - 1 : s[m] = t[m]

FirstBy(Order(_), recs) ==
  CHOOSE r \in recs : \A q \in recs \ {r} : Precedes(Order(r), Order(q))

\* The first loop of evict_if_needed_locked: a key above its cap loses its oldest
\* superseded records.
Trimmed(recs) ==
  LET old == {r \in recs : SupersededIn(recs, r)}
      excess == Cardinality(recs) - KeyCap
  IN recs \ {r \in old : Cardinality({q \in old : q.serial <= r.serial}) <= excess}

\* What is left of a key's records when an entry of the order is consumed: the first
\* record with its serial is evicted if it is superseded.
Consumed(recs, serial) ==
  LET hits == {r \in recs : r.serial = serial}
  IN recs \ {r \in hits : r = FirstBy(Position, hits) /\ SupersededIn(recs, r)}

\* One turn of the second loop: an entry is taken off the front of the order, whether it
\* evicts anything or not.  Once the history is below its bound the entries stay.
Take(acc, e) ==
  IF EvidenceCount(acc.records) < MaxHistory
  THEN [records |-> acc.records, order |-> Append(acc.order, e)]
  ELSE [records |-> [acc.records EXCEPT ![e.key] = Consumed(@, e.serial)], order |-> acc.order]

\* What is left after each of the entries.
Turns(recs, order) ==
  LET left[n \in 0 .. Len(order)] ==
        IF n = 0 THEN [records |-> recs, order |-> <<>>] ELSE Take(left[n - 1], order[n])
  IN left

\* evict_if_needed_locked.  Its last loop keeps the order itself bounded.
Evict(recs, order) ==
  LET taken == Turns([k \in Key |-> Trimmed(recs[k])], order)[Len(order)]
      excess == Len(taken.order) - 4 * MaxHistory
  IN [records |-> taken.records,
      order |-> IF excess > 0 THEN SubSeq(taken.order, excess + 1, Len(taken.order))
                ELSE taken.order]

--------------------------------------------------------------------------------
(* Winners.                                                                *)

Rank(r) == -SourceAuthority[r.source.class]

\* current_winner_record's preference, used to bind a publication to a generation.
JoinRank(r) == <<Rank(r), r.identity.pub>> \o Position(r)

--------------------------------------------------------------------------------
(* Publications.                                                           *)

\* The record as it is stamped with the state of its device.
Stamped(d, i, s, claim, withdrawn) ==
  [serial |-> next_serial, slot |-> Slot(i, s), gen |-> 0, identity |-> i, source |-> s,
   claim |-> claim,
   withdrawn |-> withdrawn, superseded |-> FALSE,
   device_generation |-> generation[d], device_boot |-> device_boot[d],
   platform_generation |-> platform_generation[d], axes |-> axis_generation[d],
   runtime |-> RuntimeId(d)]

\* Mutant of Repeats: the driver, firmware and runtime generations are not compared.
RepeatsAcrossAxes(k, new) ==
  \E r \in records[k] :
    /\ SlotOf(r) = SlotOf(new)
    /\ ~SupersededIn(records[k], r)
    /\ ~r.withdrawn /\ ~new.withdrawn
    /\ r.claim = new.claim
    /\ r.device_generation = new.device_generation

\* The newest record of the publication's slot says the same under the same device,
\* driver, firmware and runtime generation: answered AcceptedIdempotent, not stored.
Repeats(k, new) ==
  \E r \in records[k] :
    /\ SlotOf(r) = SlotOf(new)
    /\ ~SupersededIn(records[k], r)
    /\ ~r.withdrawn /\ ~new.withdrawn
    /\ r.claim = new.claim
    /\ r.device_generation = new.device_generation
    /\ r.axes = new.axes

\* Mutants of AssignedGeneration: corroboration takes the key's counter; a new claim
\* does not advance it.
JoinsKeyCounter(k, claim) ==
  LET winner == FirstBy(JoinRank, Candidates(k))
  IN IF Candidates(k) # {} /\ winner.claim = claim THEN key_generation[k]
     ELSE key_generation[k] + 1

\* Corroboration joins the winning record's generation; anything else opens one.
AssignedGeneration(k, claim) ==
  LET winner == FirstBy(JoinRank, Candidates(k))
  IN IF Candidates(k) # {} /\ winner.claim = claim
     THEN winner.gen
     ELSE key_generation[k] + 1

RoomForKey(k) ==
  \/ k \in keys
  \/ /\ Cardinality({c \in Capabilities : <<k[1], c>> \in keys}) < MaxCapabilities
     /\ Cardinality(keys) < MaxHistory

\* The history once an eviction has been tried, as it is before a record is stored.
MadeRoom ==
  IF EvidenceCount(records) >= MaxHistory THEN Evict(records, global_order)
  ELSE [records |-> records, order |-> global_order]

\* What every capability publication passes first: the sender's authority, a known
\* device, the device's current generation and boot (which the sender states), a key.
Received(k, i) ==
  /\ i \in live
  /\ k[1] \in registered
  /\ RoomForKey(k)

\* The key exists and its generation is at least gen.
Opens(k, gen) ==
  /\ gen <= MaxKeyGeneration
  /\ keys' = keys \cup {k}
  /\ key_generation' = [key_generation EXCEPT ![k] = IF gen > @ THEN gen ELSE @]

\* apply_capability_locked, for a claim or a withdrawal that is stored.
StoreEvidence(k, i, s, claim, withdrawn) ==
  LET new == [Stamped(k[1], i, s, claim, withdrawn) EXCEPT !.gen = AssignedGeneration(k, claim)]
      marked == {[r EXCEPT !.superseded = @ \/ SlotOf(r) = SlotOf(new)]
                   : r \in MadeRoom.records[k]}
      after == Evict([MadeRoom.records EXCEPT ![k] = marked \cup {new}],
                     Append(MadeRoom.order, [key |-> k, serial |-> next_serial]))
  IN /\ Received(k, i)
     /\ next_serial <= MaxSerial
     /\ ~Repeats(k, new)
     /\ EvidenceCount(MadeRoom.records) < MaxHistory
     /\ Opens(k, new.gen)
     /\ records' = after.records
     /\ global_order' = after.order
     /\ next_serial' = next_serial + 1
     /\ heads' = {h \in heads : <<h.key, h.slot>> # <<k, SlotOf(new)>>}
                   \cup {[key |-> k, slot |-> SlotOf(new), serial |-> next_serial]}
     /\ UNCHANGED <<deviceVars, live, spent>>

\* The same publication when eviction makes no room: RejectedBackpressure, by which
\* time the key, its generation and the eviction order have changed.
RefuseEvidence(k, i, s, claim, withdrawn) ==
  /\ Received(k, i)
  /\ ~Repeats(k, Stamped(k[1], i, s, claim, withdrawn))
  /\ EvidenceCount(MadeRoom.records) >= MaxHistory
  /\ Opens(k, AssignedGeneration(k, claim))
  /\ records' = MadeRoom.records
  /\ global_order' = MadeRoom.order
  /\ UNCHANGED <<deviceVars, live, spent, next_serial, heads>>

\* A publication that states a capability generation above 1 for a key that has none:
\* RejectedStaleCapabilityGeneration, after the key was created.
RefuseSkippedGeneration(k, i) ==
  /\ Received(k, i)
  /\ key_generation[k] = 0
  /\ Opens(k, 0)
  /\ UNCHANGED <<deviceVars, live, spent, records, global_order, next_serial, heads>>

--------------------------------------------------------------------------------
DeviceStep ==
  /\ \E d \in Devices, r \in Reports : ReportDevice(d, r)
  /\ UNCHANGED <<live, spent, evidenceVars>>

AuthorityStep ==
  /\ Authority!Next
  /\ UNCHANGED <<deviceVars, evidenceVars>>

PublishStep ==
  \E k \in Key, i \in Identity, s \in Sources, claim \in Claims :
    StoreEvidence(k, i, s, claim, FALSE) \/ RefuseEvidence(k, i, s, claim, FALSE)

WithdrawStep ==
  \E k \in Key, i \in Identity, s \in Sources :
    StoreEvidence(k, i, s, NoClaim, TRUE) \/ RefuseEvidence(k, i, s, NoClaim, TRUE)

SkipStep == \E k \in Key, i \in Identity : RefuseSkippedGeneration(k, i)

Init ==
  /\ DeviceInit
  /\ Authority!Init
  /\ keys = {}
  /\ key_generation = [k \in Key |-> 0]
  /\ records = [k \in Key |-> {}]
  /\ global_order = <<>>
  /\ next_serial = 1
  /\ heads = {}

Next == DeviceStep \/ AuthorityStep \/ PublishStep \/ WithdrawStep \/ SkipStep

Spec == Init /\ [][Next]_vars

--------------------------------------------------------------------------------
(* Properties.                                                             *)

\* A capability generation names one claim about one device generation: records that
\* share a generation corroborate each other (the join in apply_capability_locked,
\* whose comment says that two different claims must not share a number).
GenerationNamesOneClaim ==
  \A k \in Key : \A q, r \in records[k] :
    q.gen = r.gen => q.claim = r.claim /\ q.device_generation = r.device_generation

\* The newest record of every source slot is retained and is the slot's only record
\* that is not superseded, however the bounds force evictions.
NewestOfSlotKept ==
  \A h \in heads :
    \E r \in records[h.key] :
      /\ r.serial = h.serial
      /\ \A q \in records[h.key] : SlotOf(q) = h.slot => (q.superseded <=> q # r)

\* A publication that is answered "identical evidence already recorded" finds that
\* evidence current: what the publisher observes now is what a query answers from.
RepeatedEvidenceIsCurrent ==
  \A k \in Key, i \in live, s \in Sources, claim \in Claims :
    k[1] \in registered /\ Repeats(k, Stamped(k[1], i, s, claim, FALSE)) =>
      \E r \in Candidates(k) : SlotOf(r) = Slot(i, s) /\ r.claim = claim

\* Why a record is stale now.
Reasons(d, r) == {f \in StalenessFlags : Raised(f, d, r, generation[d])}

\* Evidence that went stale becomes current again in one case only: the version of its
\* runtime was all that had changed, and the device has now been reported through
\* another runtime (compute_staleness_locked is evaluated afresh by every query).
StaleUnlessOtherRuntime ==
  [][\A k \in Key : \A r \in records[k] :
       Stale(k[1], r) =>
         \A q \in records'[k] : q.serial = r.serial =>
           \/ Stale(k[1], q)'
           \/ /\ Reasons(k[1], r) = {"RuntimeGenerationChanged"}
              /\ RuntimeId(k[1])' # RuntimeId(k[1])]_vars

\* README, section 12: a runtime change invalidates evidence observed through that
\* same runtime, and evidence that is no longer current "is never presented as
\* current".
StaleForever ==
  [][\A k \in Key : \A r \in records[k] :
       Stale(k[1], r) => \A q \in records'[k] : q.serial = r.serial => Stale(k[1], q)']_vars

\* A withdrawal retracts the publisher's claim: once the newest record of a publisher
\* through a source class is a withdrawal, no query answers from its earlier claims.
\* A durable claim of an earlier boot is another slot and is not covered.
WithdrawalRetracts ==
  \A k \in Key : \A w \in records[k] :
    LET same == {r \in records[k] : /\ r.identity.pub = w.identity.pub
                                    /\ r.source.class = w.source.class}
        retracted == {r \in same : LiveBound(r) \/ r.identity.boot = w.identity.boot}
    IN w.withdrawn /\ (\A r \in same : r.serial <= w.serial) =>
         retracted \cap Candidates(k) = {}

\* Backpressure is the last resort: evidence is refused only when no retained record
\* is superseded in its slot.
RefusedOnlyWhenNothingEvictable ==
  EvidenceCount(MadeRoom.records) >= MaxHistory =>
    \A k \in Key : \A r \in MadeRoom.records[k] : ~SupersededIn(MadeRoom.records[k], r)

================================================================================
