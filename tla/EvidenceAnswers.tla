----------------------------- MODULE EvidenceAnswers -----------------------------
(***************************************************************************)
(* What queries answer from the retained evidence: the winning record, how *)
(* a contradiction is reported, the effective support after conditions and *)
(* quirks, the truth class, device summaries, listings and comparisons     *)
(* (resolve_locked, build_subject_locked, query_*, compare_devices).       *)
(*                                                                         *)
(* Queries change nothing, so they are operators over the state.  What the *)
(* environment contributes is a parameter cx: the outcome of evaluating    *)
(* conditions and the applications of quirks, both of Applicability.       *)
(* Explanations, titles and the order of listings are left out, and with   *)
(* them max_results, which only cuts a listing short.                      *)
(***************************************************************************)
EXTENDS EvidenceStore

Outcomes == {"Satisfied", "Unsatisfied", "Unknown", "NotApplicable"}
Severities == {"Informational", "Caveat", "Degraded", "Unusable", "Fatal"}

\* Mutant of AnswerRank: precision is looked at before the source's authority.
PrecisionFirst(r) ==
  <<-PrecisionRank[r.source.precision], Rank(r), -r.source.evidence_generation,
    r.identity.pub>> \o Position(r)

\* by_authority, with the vector's order for records it does not tell apart.
AnswerRank(r) ==
  <<Rank(r), -PrecisionRank[r.source.precision], -r.source.evidence_generation,
    r.identity.pub>> \o Position(r)

Winner(found) == FirstBy(AnswerRank, found)

\* The newest retained assertion, declared when nothing is current.
NewestRank(r) == <<-r.gen, -r.serial>> \o Position(r)

\* How disagreement among current records is reported.
Contradiction(found) ==
  LET w == Winner(found)
      top == {r \in found : Rank(r) = Rank(w)}
      dissent == {r \in found : r.claim # w.claim}
  IN CASE dissent = {} -> "Consistent"
       [] \E r \in top : r.claim # w.claim -> "Ambiguous"
       [] OTHER ->
            IF IsReal(w.source.provenance) /\ ~\E r \in dissent : IsReal(r.source.provenance)
            THEN "PreferredLiveEvidence" ELSE "PreferredHigherAuthoritySource"

\* quirk_blocks and quirk_caveats
Blocks(q) == q.result = "Applies" /\ q.severity \in {"Unusable", "Fatal"}
Caveats(q) == q.result = "Applies" /\ q.severity \in {"Caveat", "Degraded"}

\* compute_effective_support
EffectiveSupport(declared, cx) ==
  CASE declared \in {"Unknown", "RevalidationRequired", "Unsupported", "Disabled"} -> declared
    [] OTHER ->
         CASE cx.outcome = "Unsatisfied" -> "SupportedConditionalUnmet"
           [] cx.outcome = "Unknown" -> "SupportedConditionalUnknown"
           [] OTHER -> IF \E q \in cx.quirks : Blocks(q) THEN "BlockedByQuirk"
                       ELSE IF \E q \in cx.quirks : Caveats(q) THEN "SupportedWithCaveat"
                       ELSE "Supported"

\* The views of an answer that carry the winner mark: no boot or source class is
\* compared, so other records than the winner may carry it.
Marked(recs, w) ==
  {r \in recs : /\ r.identity.pub = w.identity.pub
                /\ r.gen = w.gen
                /\ r.source.reference = w.source.reference}

TruthOf(provenance) ==
  CASE provenance = "Synthetic" -> "Synthetic"
    [] provenance = "UnknownSource" -> "Unknown"
    [] OTHER -> "Real"

\* Mutant of FirstMarked: a marked view is taken as it comes.
AnyMarked(found, w) == Marked(found, w)

\* The marked view that classify_truth meets first.  Current views are listed before
\* stale ones and stronger authority first; equal ones in any order.
FirstMarked(found, w) == {r \in Marked(found, w) : \A q \in Marked(found, w) : Rank(r) <= Rank(q)}

\* classify_truth, as the set of its possible results.
ClassifyTruth(declared, effective, found, w) ==
  CASE "Unsupported" \in {declared, effective} -> {"Unsupported"}
    [] declared = "Unknown" /\ effective = "Unknown" -> {"Unknown"}
    [] OTHER -> {TruthOf(r.source.provenance) : r \in FirstMarked(found, w)}

\* The answer when nothing is current for the target generation.
NoCurrentEvidence(k) ==
  LET kept == {r \in records[k] : ~r.withdrawn}
      newest == FirstBy(NewestRank, kept)
      claim == IF kept = {} THEN NoClaim ELSE newest.claim
  IN [known |-> TRUE, current |-> FALSE, declared |-> claim.support, value |-> claim.value,
      gates |-> claim.gates, effective |-> "RevalidationRequired",
      precision |-> IF kept = {} THEN "Unknown" ELSE newest.source.precision,
      truths |-> {IF key_generation[k] > 0 THEN "Real" ELSE "Unknown"},
      contradiction |-> "RevalidationRequired", stale |-> TRUE, gen |-> key_generation[k]]

\* The answer from current evidence.
CurrentEvidence(k, found, cx) ==
  LET w == Winner(found)
      effective == EffectiveSupport(w.claim.support, cx)
  IN [known |-> TRUE, current |-> TRUE, declared |-> w.claim.support, value |-> w.claim.value,
      gates |-> w.claim.gates, effective |-> effective, precision |-> w.source.precision,
      truths |-> ClassifyTruth(w.claim.support, effective, found, w),
      contradiction |-> Contradiction(found), stale |-> FALSE, gen |-> key_generation[k]]

\* No knowledge is recorded for the key.
NoKnowledge ==
  [known |-> FALSE, current |-> FALSE, declared |-> "Unknown", value |-> "none", gates |-> {},
   effective |-> "Unknown", precision |-> "Unknown", truths |-> {"Unknown"},
   contradiction |-> "Consistent", stale |-> FALSE, gen |-> 0]

\* resolve_locked; pinned is 0 in a query for the device's current generation.
Resolve(k, pinned, cx) ==
  LET target == IF pinned = 0 THEN generation[k[1]] ELSE pinned
      found == {r \in records[k] : ~StaleFor(k[1], r, target)}
  IN IF k \notin keys THEN NoKnowledge
     ELSE IF found = {} THEN NoCurrentEvidence(k)
     ELSE CurrentEvidence(k, found, cx)

--------------------------------------------------------------------------------
(* Listings, summaries and comparisons.                                    *)

DeviceKeys(d) == {k \in keys : k[1] = d}

\* The filters of query_capabilities; a filter that is not set is "any" or FALSE.
Passes(f, a) ==
  /\ f.only_current => a.current
  /\ f.only_stale => a.stale
  /\ f.only_conditional => a.gates # {}
  /\ f.only_unknown => "Unknown" \in {a.effective, a.declared}
  /\ f.only_unsupported => "Unsupported" \in {a.effective, a.declared}
  /\ f.declared \in {"any", a.declared}
  /\ f.effective \in {"any", a.effective}
  /\ f.truth = "any" \/ f.truth \in a.truths

QueryCapabilities(d, pinned, cx, f) ==
  {k \in DeviceKeys(d) : Passes(f, Resolve(k, pinned, cx))}

\* Mutant of QueryStale: the pinned generation is not passed on.
QueryStaleNow(d, pinned, cx) ==
  {k \in DeviceKeys(d) : LET a == Resolve(k, 0, cx) IN ~a.current \/ a.stale}

QueryStale(d, pinned, cx) ==
  {k \in DeviceKeys(d) : LET a == Resolve(k, pinned, cx) IN ~a.current \/ a.stale}

\* build_subject_locked evaluates in an empty environment.
Subject(d, cx) ==
  LET Some(truth) == \E k \in DeviceKeys(d) : truth \in Resolve(k, 0, cx).truths
  IN [stale_keys |-> QueryStale(d, 0, cx),
      classification |-> CASE Some("Real") -> "Real"
                           [] ~Some("Real") /\ Some("Synthetic") -> "Synthetic"
                           [] ~Some("Real") /\ ~Some("Synthetic") /\ Some("Unsupported")
                                -> "Unsupported"
                           [] OTHER -> "Unknown"]

\* The first aspect in which two answers differ, in the order compare_devices looks.
Aspect(a, b) ==
  CASE a.effective # b.effective -> "EffectiveSupportDiffers"
    [] a.effective = b.effective /\ a.declared # b.declared -> "SupportStateDiffers"
    [] a.effective = b.effective /\ a.declared = b.declared ->
         CASE a.value # b.value -> "ValueDiffers"
           [] a.value = b.value /\ a.gates # b.gates -> "ConditionsDiffer"
           [] a.value = b.value /\ a.gates = b.gates ->
                IF a.truths # b.truths THEN "TruthClassDiffers"
                ELSE IF a.contradiction # b.contradiction THEN "ContradictionDiffers"
                ELSE IF a.precision # b.precision THEN "PrecisionDiffers"
                ELSE IF a.stale \/ b.stale THEN "StalenessDiffers"
                ELSE "Equivalent"

\* Mutant of Qualified: only the left answer's conditions are looked at.
QualifiedByLeft(a, b, kind) ==
  IF kind = "Equivalent" \/ a.declared = b.declared THEN kind
  ELSE IF "driver" \in a.gates THEN "DriverDependentDifference"
  ELSE kind

\* A difference in declared support is put down to the software axis that conditions
\* of either answer mention.
Qualified(a, b, kind) ==
  LET gates == a.gates \cup b.gates
  IN IF kind = "Equivalent" \/ a.declared = b.declared THEN kind
     ELSE CASE "driver" \in gates -> "DriverDependentDifference"
            [] "driver" \notin gates /\ "firmware" \in gates -> "FirmwareDependentDifference"
            [] gates \cap {"driver", "firmware"} = {} /\ "runtime" \in gates
                 -> "RuntimeDependentDifference"
            [] OTHER -> kind

\* compare_devices for one capability; left and right are [device, pinned].
Compare(left, right, c, cx) ==
  LET l == <<left.device, c>>
      r == <<right.device, c>>
      a == Resolve(l, left.pinned, cx)
      b == Resolve(r, right.pinned, cx)
  IN CASE l \in keys /\ r \notin keys -> "OnlyInLeft"
       [] l \notin keys /\ r \in keys -> "OnlyInRight"
       [] l \in keys /\ r \in keys -> Qualified(a, b, Aspect(a, b))
       [] OTHER -> "Absent"

--------------------------------------------------------------------------------
(* Properties.                                                             *)

\* What the environment may contribute to an answer: nothing, an unmet condition, or a
\* quirk that makes the capability unusable.
Plain == [outcome |-> "NotApplicable", quirks |-> {}]
Contexts ==
  {Plain, [Plain EXCEPT !.outcome = "Unsatisfied"],
   [Plain EXCEPT !.quirks = {[result |-> "Applies", severity |-> "Fatal"]}]}
NoFilter == [only_current |-> FALSE, only_stale |-> FALSE, only_conditional |-> FALSE,
             only_unknown |-> FALSE, only_unsupported |-> FALSE,
             declared |-> "any", effective |-> "any", truth |-> "any"]

\* The truth class of an answer is that of the record that won it: the winner mark,
\* which classify_truth goes by, never lends an answer another record's provenance.
TruthFromWinner ==
  \A k \in keys :
    LET w == Winner(Candidates(k))
        a == Resolve(k, 0, Plain)
    IN a.current /\ a.effective = "Supported" => a.truths = {TruthOf(w.source.provenance)}

\* Every capability of a device is listed as current or as stale and never as both,
\* for the present generation and for any earlier one (query_capabilities with
\* only_current, query_stale).
CurrentOrStale ==
  \A d \in registered, pinned \in Generations, cx \in Contexts :
    LET current == QueryCapabilities(d, pinned, cx, [NoFilter EXCEPT !.only_current = TRUE])
        stale == QueryStale(d, pinned, cx)
    IN current \cap stale = {} /\ current \cup stale = DeviceKeys(d)

\* A past generation of a device never yields a usable answer (the pinned queries).
PastIsNotUsable ==
  \A k \in keys, pinned \in Generations, cx \in Contexts :
    pinned \notin {0, generation[k[1]]} =>
      Resolve(k, pinned, cx).effective \notin {"Supported", "SupportedWithCaveat"}

Mirror(kind) == CASE kind = "OnlyInLeft" -> "OnlyInRight"
                  [] kind = "OnlyInRight" -> "OnlyInLeft"
                  [] OTHER -> kind

\* A comparison reports the same difference whichever side is named first.  (The
\* equation is its own mirror image, so p <= q covers every pair.)
ComparisonMirrors ==
  \A d, e \in registered, c \in Capabilities, q \in Generations : \A p \in 0 .. q :
    LET left == [device |-> d, pinned |-> p]
        right == [device |-> e, pinned |-> q]
    IN Compare(right, left, c, Plain) = Mirror(Compare(left, right, c, Plain))

\* Evidence of a weaker source never changes an answer that stands on a stronger one:
\* no publication through a source class of lower authority than the winner's alters
\* what is declared (by_authority; "the synthetic backend never outranks any real
\* source").
WeakerNeverOverrides ==
  [][\A k \in keys :
       LET w == Winner(Candidates(k))
           added == {r \in records'[k] : r.serial = next_serial}
       IN /\ Candidates(k) # {} /\ added # {}
          /\ \A r \in added : Rank(r) > Rank(w)
          => Resolve(k, 0, Plain)'.declared = w.claim.support]_vars

\* A device of which only synthetic evidence is known is not classified REAL.
SyntheticIsNotReal ==
  \A d \in registered :
    (\A k \in DeviceKeys(d) : \A r \in records[k] : r.source.provenance = "Synthetic") =>
      Subject(d, Plain).classification # "Real"

================================================================================
