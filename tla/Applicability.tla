------------------------------ MODULE Applicability ------------------------------
(***************************************************************************)
(* Which quirks apply to a device: the selectors of each quirk, evaluated  *)
(* against what reports have said of the device so far and against the     *)
(* facts the caller of a query supplies.                                   *)
(*                                                                         *)
(* Composition.  DeviceHistory brings the device table with its software   *)
(* axes; this module adds the rest of the hardware identity, which every   *)
(* report replaces, and the facts.  Storing quirks is Knowledge's concern: *)
(* here Quirks are the published ones and those that validate_quirk_record *)
(* accepts are in the registry.  A quirk's texts, category and mitigation  *)
(* are left out; its capability is the one that is asked about.            *)
(***************************************************************************)
EXTENDS DeviceHistory, Conditions, Provenance

CONSTANTS
  Version,        \* Version[s]: the version text of software s, << >> when empty
  Identities,     \* [model, architecture, revision] that reports carry
  Quirks,         \* sequence in the order of ids: [applicability, severity,
                  \* impacted (how many capabilities), source, provenance, withdrawn]
  FactKeys, FactValues,
  MaxSelectors, MaxRanges,   \* the 1024 ids and 64 ranges of a selector
  MaxImpacted,               \* the 64 capabilities a quirk may impact
  MaxResults,                \* limits.max_query_results
  NumberLists                \* lists of numbers that versions are printed from

VARIABLES
  hardware,       \* identity.hardware of each device, but for its family
  facts           \* EnvironmentContext::facts_ of the caller

ASSUME ApplicabilityConstants ==
  /\ \A i \in DOMAIN Quirks : /\ IsTree(Quirks[i].applicability.platform_conditions)
                              /\ Quirks[i].severity \in Nat
  /\ IsSequence(Quirks)
  /\ MaxResults \in Nat \ {0}
  /\ \A l \in NumberLists : /\ l \in Seq(Nat) /\ l # << >>
                            /\ Len(Printed(l)) <= MaxVersionText
  /\ \A s \in SoftwareIds : \E l \in NumberLists : Version[s] = Printed(l)

apVars == <<vars, hardware, facts>>

NoIdentity == [model |-> None, architecture |-> None, revision |-> << >>]
NoCondition == << >>

--------------------------------------------------------------------------------
(* validate_quirk_applicability.                                           *)

IdSelectors == {"families", "models", "devices", "revisions", "architectures"}
VersionSelectors == {"driver", "firmware", "runtime"}

RevisionRangeValid(r) ==
  r.minimum # << >> /\ r.maximum # << >> /\ CompareRevisions(r.minimum, r.maximum) <= 0

ValidApplicability(a) ==
  /\ \A s \in IdSelectors : Cardinality(a[s]) <= MaxSelectors /\ None \notin a[s]
  /\ Cardinality(a.revision_ranges) <= MaxRanges
  /\ \A r \in a.revision_ranges : RevisionRangeValid(r)
  /\ \A s \in VersionSelectors :
       /\ Cardinality(a[s]) <= MaxRanges
       /\ \A r \in a[s] : RangeValid(r) /\ (r.minimum # << >> \/ r.maximum # << >>)
  /\ a.platform_conditions # NoCondition => ValidateCondition(a.platform_conditions)

\* validate_quirk_record.
ValidQuirk(q) ==
  /\ q.impacted \in 1 .. MaxImpacted
  /\ q.source # "Unspecified" /\ ProvenanceAllowed(q.provenance, q.source)
  /\ ValidApplicability(q.applicability)

Accepted == {i \in DOMAIN Quirks : ValidQuirk(Quirks[i])}

--------------------------------------------------------------------------------
(* evaluate_quirk.  A selector matches, fails, or cannot be decided.       *)

\* What evaluate_quirk is told of a device: identity and parsed software versions.
Device(d) ==
  [id |-> d, family |-> family[d], hardware |-> hardware[d],
   versions |-> [a \in Axes |->
     IF software[d][a] = None THEN << >> ELSE Parse(Version[software[d][a]])]]

Selected(selector, known, matches) ==
  IF selector = {} THEN "matches"
  ELSE IF ~known THEN "undecided"
  ELSE IF matches THEN "matches" ELSE "fails"

\* Devices, families and models that are not known are not selected.  (Vendors, which
\* every identity has, are selected in the same way.)
NamedSelectors(a, device) ==
  {Selected(a.devices, TRUE, device.id \in a.devices),
   Selected(a.families, TRUE, device.family \in a.families),
   Selected(a.models, TRUE, device.hardware.model \in a.models)}

Between(revision, ranges) ==
  \E r \in ranges : /\ CompareRevisions(revision, r.minimum) >= 0
                    /\ CompareRevisions(revision, r.maximum) <= 0

\* Mutant of RevisionSelectors: what is not known is not selected.
RevisionSelectorsStrict(a, h) ==
  {Selected(a.architectures, TRUE, h.architecture \in a.architectures),
   Selected(a.revisions, TRUE, h.revision \in a.revisions),
   Selected(a.revision_ranges, TRUE, Between(h.revision, a.revision_ranges))}

RevisionSelectors(a, h) ==
  {Selected(a.architectures, h.architecture # None, h.architecture \in a.architectures),
   Selected(a.revisions, h.revision # << >>, h.revision \in a.revisions),
   Selected(a.revision_ranges, h.revision # << >>, Between(h.revision, a.revision_ranges))}

SoftwareSelectors(a, versions) ==
  {Selected(a[s], versions[s] # << >>, \E r \in a[s] : InRange(r, versions[s])) :
     s \in VersionSelectors}

ConditionSelector(a, env) ==
  IF a.platform_conditions = NoCondition THEN "matches"
  ELSE LET outcome == Evaluate(a.platform_conditions, env)
       IN CASE outcome = "unsatisfied" -> "fails"
            [] outcome = "unknown" -> "undecided"
            [] OTHER -> "matches"

EvaluateQuirk(q, device, env) ==
  LET a == q.applicability
      selectors == NamedSelectors(a, device) \cup RevisionSelectors(a, device.hardware)
                     \cup SoftwareSelectors(a, device.versions) \cup {ConditionSelector(a, env)}
  IN IF "fails" \in selectors THEN "does_not_apply"
     ELSE IF "undecided" \in selectors THEN "unknown" ELSE "applies"

--------------------------------------------------------------------------------
(* gather_quirks_locked: the quirks that apply, then the undecided ones,   *)
(* each list by severity and id.  The walk over the table, in the order of *)
(* ids, ends when the answer is full.                                      *)

\* Which accepted quirks the walk collects: Results[i] is the outcome of quirk i.
Results(device, env) == [i \in Accepted |-> EvaluateQuirk(Quirks[i], device, env)]

Gathered(results) ==
  LET found == {i \in Accepted : ~Quirks[i].withdrawn /\ results[i] # "does_not_apply"}
  IN {i \in found : Cardinality({j \in found : j < i}) < MaxResults}

\* Mutant of Precedes: the order of the table.
PrecedesById(i, j) == i < j

\* quirk_precedes.
Precedes(i, j) ==
  \/ Quirks[i].severity > Quirks[j].severity
  \/ Quirks[i].severity = Quirks[j].severity /\ i < j

\* std::sort: each quirk at the place of the number of those that precede it.
Sorted(S) ==
  [n \in 1 .. Cardinality(S) |->
     CHOOSE i \in S : Cardinality({j \in S : Precedes(j, i)}) = n - 1]

GatherQuirks(results) ==
  LET applying == {i \in Gathered(results) : results[i] = "applies"}
  IN Sorted(applying) \o Sorted(Gathered(results) \ applying)

--------------------------------------------------------------------------------
(* Behaviour: reports arrive, and callers come to know more or other facts.*)

ApInit ==
  /\ Init
  /\ hardware = [d \in Devices |-> NoIdentity]
  /\ facts = [k \in {} |-> << >>]

\* apply_device_locked, with the identity it replaces.
ReportIdentified(d, r, identity) ==
  /\ ReportDevice(d, r)
  /\ Recorded(d, r)
  /\ r.family = None => identity.model # None      \* validate_hardware_identity
  /\ hardware' = [hardware EXCEPT ![d] = identity]
  /\ UNCHANGED facts

SetFact(key, value) ==
  /\ facts' = Set(facts, key, value)
  /\ UNCHANGED <<vars, hardware>>

ApNext ==
  \/ \E d \in Devices, r \in Reports, identity \in Identities : ReportIdentified(d, r, identity)
  \/ \E key \in FactKeys : \E value \in FactValues[key[1]] : SetFact(key, value)

ApSpec == ApInit /\ [][ApNext]_apVars

--------------------------------------------------------------------------------
\* new says no less of the device than old: its family and model are the same, and no
\* architecture, revision or version was replaced or forgotten.
NoLessKnown(old, new) ==
  /\ new.family = old.family /\ new.hardware.model = old.hardware.model
  /\ old.hardware.architecture \in {None, new.hardware.architecture}
  /\ old.hardware.revision \in {<< >>, new.hardware.revision}
  /\ \A a \in Axes : old.versions[a] \in {<< >>, new.versions[a]}

\* env has the facts of old and others; no gate among them, because a gate that is not
\* named counts as closed.
MoreFacts(old, env) ==
  /\ \A k \in DOMAIN old : k \in DOMAIN env /\ env[k] = old[k]
  /\ \A k \in DOMAIN env \ DOMAIN old : k[1] # "feature.gate."

\* Learning settles questions and never reopens them: a quirk that was found to apply,
\* or not to apply, is still found so after a step that only adds knowledge, whatever
\* combination of selectors and conditions it has (evaluate_quirk, evaluate_condition).
LearningSettles ==
  [][\A d \in registered : \A old \in {Device(d)}, new \in {Device(d)'}, env \in {facts'} :
       NoLessKnown(old, new) /\ MoreFacts(facts, env) =>
         \A i \in Accepted : EvaluateQuirk(Quirks[i], old, facts)
                              \in {"unknown", EvaluateQuirk(Quirks[i], new, env)}]_apVars

\* What is made of the versions printed from lists of numbers.
ParsedLists == [l \in NumberLists |-> Parse(Printed(l))]
NumbersOf == [s \in SoftwareIds |-> CHOOSE l \in NumberLists : Printed(l) = Version[s]]

\* The order of lists of numbers: a missing one counts as zero, one beyond the type's
\* largest as the largest, those beyond the limit not at all.
Number(l, i) ==
  IF i \notin DOMAIN l THEN 0 ELSE IF l[i] > MaxComponent THEN MaxComponent ELSE l[i]
Below(l, m) ==
  \E i \in 1 .. MaxComponents :
    Number(l, i) < Number(m, i) /\ \A j \in 1 .. i - 1 : Number(l, j) = Number(m, j)

\* The version a device has reported is ordered against any other as the numbers are
\* that the two were printed from, however many digits those have (SoftwareVersion::parse
\* and compare).
VersionsOrderAsNumbers ==
  \A d \in registered : \A s \in {software[d][a] : a \in Axes} \ {None} : \A m \in NumberLists :
    Compare(Parse(Version[s]), ParsedLists[m]) =
      IF Below(NumbersOf[s], m) THEN -1 ELSE IF Below(m, NumbersOf[s]) THEN 1 ELSE 0

\* The quirk that decides effective support is the one listed first: nothing that
\* applies is left out or comes after something less severe, unless the answer is full
\* (gather_quirks_locked).
MostSevereDecides ==
  \A d \in registered : \A results \in {Results(Device(d), facts)} :
    LET list == GatherQuirks(results)
    IN Len(list) < MaxResults =>
         \A i \in Accepted :
           ~Quirks[i].withdrawn /\ results[i] = "applies" =>
             /\ \E n \in DOMAIN list : list[n] = i
             /\ Quirks[list[1]].severity >= Quirks[i].severity
             /\ results[list[1]] = "applies"

(* Claims of the repository that the code does not keep; README, section 3, *)
(* names the constants that show it.                                       *)

\* README, section 8: selectors that cannot be evaluated "yield `unknown` applicability
\* rather than a guess".  A quirk that is found not to apply to a device of no known
\* family would not apply to it in any family.
UnknownIsNotGuessed ==
  \A d \in registered : family[d] = None =>
    \A i \in Accepted : EvaluateQuirk(Quirks[i], Device(d), facts) = "does_not_apply" =>
      \A f \in Families :
        EvaluateQuirk(Quirks[i], [Device(d) EXCEPT !.family = f], facts) = "does_not_apply"

\* README, section 8: "The most severe applicable quirk decides", however many apply.
MostSevereAlwaysDecides ==
  \A d \in registered : \A results \in {Results(Device(d), facts)} :
    \A i \in Accepted :
      ~Quirks[i].withdrawn /\ results[i] = "applies" =>
        /\ results[GatherQuirks(results)[1]] = "applies"
        /\ Quirks[GatherQuirks(results)[1]].severity >= Quirks[i].severity

================================================================================
