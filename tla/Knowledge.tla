-------------------------------- MODULE Knowledge --------------------------------
(***************************************************************************)
(* Knowledge that is not evidence about one device: capability schemas,    *)
(* quirks and compatibility facts, as publications change them             *)
(* (register_capability_schema_locked, apply_quirk_locked,                 *)
(* apply_compatibility_locked) and as an image carries them over a restart.*)
(*                                                                         *)
(* Composition.  Facts refer to the devices, platforms and families of     *)
(* DeviceRegistry, whose tables change under them.  The sender's authority *)
(* is PublisherAuthority's concern and its identity changes nothing here;  *)
(* schemas are registered before it is looked at.                          *)
(*                                                                         *)
(* Abstractions.  A quirk or fact has the fields that are compared when a  *)
(* generation is published again ("face") and the fields that are not      *)
(* ("rest": the applicability of a quirk, the kind, conditions and version *)
(* window of a fact).  Publications that validate_publication refuses are  *)
(* not sent.  Of a reference only its kind and token are kept.  Hardware   *)
(* models and architectures are left out as references: their tables are   *)
(* filled, and rebuilt at import, from the device reports as the families  *)
(* are, without a limit.                                                   *)
(***************************************************************************)
EXTENDS DeviceRegistry

CONSTANTS
  CapabilityIds, SchemaIds,
  Contents,             \* what a schema says besides its id and capability
  Catalog,              \* builtin_capability_schemas
  MaxSchemas,           \* limits.max_families * 16
  QuirkIds, MaxQuirks,  \* limits.max_quirks
  FactIds, MaxFacts,    \* limits.max_compatibility_facts
  Faces, Rests,         \* compared and uncompared content of quirks and facts
  References,           \* [kind, token]
  MaxVersion            \* bound: generations of a quirk or fact

VARIABLES
  schemas,              \* Impl::schemas, with capability_schemas
  quirks,               \* Impl::quirks
  compatibility         \* Impl::compatibility

knowledgeVars == <<schemas, quirks, compatibility>>
knVars == <<deviceVars, knowledgeVars>>

Schema == [id : SchemaIds, capability : CapabilityIds, content : Contents]
QuirkRecord == [gen : 1 .. MaxVersion, face : Faces, rest : Rests,
                impacted : (SUBSET CapabilityIds) \ {{}}, withdrawn : BOOLEAN]
CompatibilityFact == [gen : 1 .. MaxVersion, face : Faces, rest : Rests,
                      lhs : References, rhs : References, withdrawn : BOOLEAN]

ASSUME KnowledgeConstants ==
  /\ Catalog \subseteq Schema
  /\ \A s, t \in Catalog : (s.id = t.id \/ s.capability = t.capability) => s = t
  /\ MaxSchemas \in Nat /\ MaxQuirks \in Nat /\ MaxFacts \in Nat /\ MaxVersion \in Nat \ {0}
  /\ None \notin QuirkRecord /\ None \notin CompatibilityFact
  /\ \A r \in References : r.kind \in {"Device", "Platform", "HardwareFamily", "Driver"}

Bound == {s.capability : s \in schemas}
Occupied(table) == {id \in DOMAIN table : table[id] # None}

--------------------------------------------------------------------------------
(* Publications.                                                           *)

\* register_capability_schema_locked: an id and a capability are bound once and for all,
\* and a repetition is refused like a conflict.
RegisterSchema(s) ==
  /\ s.id \notin {t.id : t \in schemas}
  /\ s.capability \notin Bound
  /\ Cardinality(schemas) < MaxSchemas
  /\ schemas' = schemas \cup {s}
  /\ UNCHANGED <<deviceVars, quirks, compatibility>>

\* Mutant of Verdict: a repetition of a withdrawn record is taken for a new one.
VerdictReviving(old, new, same, room) ==
  IF old = None THEN IF room THEN "Accepted" ELSE "RejectedLimit"
  ELSE IF new.gen > old.gen \/ old.withdrawn THEN "Accepted" ELSE "AcceptedIdempotent"

\* What a publication of a record is answered, given what is stored under its id.  Only
\* "Accepted" changes anything: a generation published again is answered as idempotent
\* when its face is the same as the stored one's, whether or not it has been withdrawn in
\* between.
Verdict(old, new, same, room) ==
  CASE old = None ->
         IF ~room THEN "RejectedLimit"
         ELSE IF new.gen > 1 THEN "RejectedStaleCapabilityGeneration"
         ELSE "Accepted"
    [] OTHER ->
         IF new.gen < old.gen THEN "RejectedGenerationRegression"
         ELSE IF new.gen > old.gen THEN "Accepted"
         ELSE IF same THEN "AcceptedIdempotent"
         ELSE "RejectedDuplicateConflict"

\* The face of a quirk is its title, severity and category with what it impacts.
QuirkFace(q) == <<q.face, q.impacted>>

\* apply_quirk_locked
PublishQuirk(id, q) ==
  LET old == quirks[id]
      verdict == Verdict(old, q, QuirkFace(old) = QuirkFace(q),
                         Cardinality(Occupied(quirks)) < MaxQuirks)
  IN /\ q.impacted \subseteq Bound
     /\ quirks' = IF verdict = "Accepted" THEN [quirks EXCEPT ![id] = q] ELSE quirks
     /\ UNCHANGED <<deviceVars, schemas, compatibility>>

\* The withdrawal of a quirk, by whichever publisher.
WithdrawQuirk(id) ==
  /\ quirks[id] # None /\ ~quirks[id].withdrawn
  /\ quirks' = [quirks EXCEPT ![id].withdrawn = TRUE]
  /\ UNCHANGED <<deviceVars, schemas, compatibility>>

\* Mutant of ReferenceResolves: platforms are not looked up.
ReferenceResolvesLoosely(r) ==
  CASE r.kind = "Device"         -> r.token \in registered
    [] r.kind = "HardwareFamily" -> r.token \in families
    [] OTHER                     -> TRUE

\* reference_resolves_locked
ReferenceResolves(r) ==
  CASE r.kind = "Device"         -> r.token \in registered
    [] r.kind = "Platform"       -> r.token \in platforms
    [] r.kind = "HardwareFamily" -> r.token \in families
    [] OTHER                     -> TRUE

FactFace(f) == <<f.face, f.lhs, f.rhs>>

\* Mutant of PublishFact: only the left reference is looked up.
PublishFactUnresolved(id, f) ==
  LET old == compatibility[id]
      verdict == Verdict(old, f, FactFace(old) = FactFace(f), TRUE)
  IN /\ f.lhs # f.rhs /\ ReferenceResolves(f.lhs)
     /\ compatibility' = IF verdict = "Accepted" THEN [compatibility EXCEPT ![id] = f]
                         ELSE compatibility
     /\ UNCHANGED <<deviceVars, schemas, quirks>>

\* apply_compatibility_locked; validate_compatibility_fact refuses a fact about one
\* subject only.
PublishFact(id, f) ==
  LET old == compatibility[id]
      verdict == Verdict(old, f, FactFace(old) = FactFace(f),
                         Cardinality(Occupied(compatibility)) < MaxFacts)
  IN /\ f.lhs # f.rhs
     /\ ReferenceResolves(f.lhs) /\ ReferenceResolves(f.rhs)
     /\ compatibility' = IF verdict = "Accepted" THEN [compatibility EXCEPT ![id] = f]
                         ELSE compatibility
     /\ UNCHANGED <<deviceVars, schemas, quirks>>

\* The withdrawal of a fact.
WithdrawFact(id) ==
  /\ compatibility[id] # None /\ ~compatibility[id].withdrawn
  /\ compatibility' = [compatibility EXCEPT ![id].withdrawn = TRUE]
  /\ UNCHANGED <<deviceVars, schemas, quirks>>

--------------------------------------------------------------------------------
(* Restart.                                                                *)

\* Families are not in the image: import collects them from the devices.
ReportedFamilies == {family[d] : d \in registered} \ {None}

\* Import merges the image's schemas into the catalog of the starting build.
StagedSchemas == Catalog \cup schemas

StagedResolves(r) ==
  CASE r.kind = "Device"         -> r.token \in registered
    [] r.kind = "Platform"       -> r.token \in platforms
    [] r.kind = "HardwareFamily" -> r.token \in ReportedFamilies
    [] OTHER                     -> TRUE

\* The checks of import_durable_state on schemas, quirks and facts, withdrawn or not.
KnowledgeLoads ==
  /\ Cardinality(ReportedFamilies) <= MaxFamilies
  /\ \A s, t \in StagedSchemas : (s.id = t.id \/ s.capability = t.capability) => s = t
  /\ Cardinality(Occupied(quirks)) <= MaxQuirks
  /\ Cardinality(Occupied(compatibility)) <= MaxFacts
  /\ \A id \in Occupied(quirks) :
       quirks[id].impacted \subseteq {s.capability : s \in StagedSchemas}
  /\ \A id \in Occupied(compatibility) :
       StagedResolves(compatibility[id].lhs) /\ StagedResolves(compatibility[id].rhs)

\* A shutdown and a start from its image.
Restart ==
  /\ KnowledgeLoads
  /\ schemas' = StagedSchemas
  /\ families' = ReportedFamilies
  /\ UNCHANGED <<quirks, compatibility, registered, incarnation, family, platform, generation,
                 device_boot, platform_generation, software, axis_generation, platforms>>

--------------------------------------------------------------------------------
(* Queries.                                                                *)

\* query_quirks without a device, list by capability.
QuirksOn(c) == {id \in Occupied(quirks) : ~quirks[id].withdrawn /\ c \in quirks[id].impacted}

\* query_compatibility by a reference, without withdrawn facts.
FactsAbout(r) ==
  {id \in Occupied(compatibility) :
     ~compatibility[id].withdrawn /\ r \in {compatibility[id].lhs, compatibility[id].rhs}}

--------------------------------------------------------------------------------
KnInit ==
  /\ DeviceInit
  /\ schemas = Catalog
  /\ quirks = [id \in QuirkIds |-> None]
  /\ compatibility = [id \in FactIds |-> None]

ReportStep ==
  /\ \E d \in Devices, r \in Reports : ReportDevice(d, r)
  /\ UNCHANGED knowledgeVars

SchemaStep == \E s \in Schema : RegisterSchema(s)

QuirkStep ==
  \E id \in QuirkIds :
    \/ \E q \in QuirkRecord : ~q.withdrawn /\ PublishQuirk(id, q)
    \/ WithdrawQuirk(id)

FactStep ==
  \E id \in FactIds :
    \/ \E f \in CompatibilityFact : ~f.withdrawn /\ PublishFact(id, f)
    \/ WithdrawFact(id)

KnNext == ReportStep \/ SchemaStep \/ QuirkStep \/ FactStep \/ Restart

KnSpec == KnInit /\ [][KnNext]_knVars

--------------------------------------------------------------------------------
(* Properties.                                                             *)

\* The registry can be started from what it would save now, with the checks that import
\* makes on the whole image: no order of reports, publications and withdrawals leaves a
\* quirk or a fact that refers to something the image does not have.
KnowledgeSurvivesRestart == KnowledgeLoads

\* Whatever a query lists about a subject refers to subjects that exist, after any
\* number of restarts (a dangling compatibility reference is rejected).
ListedFactsResolve ==
  \A r \in References : \A id \in FactsAbout(r) :
    ReferenceResolves(compatibility[id].lhs) /\ ReferenceResolves(compatibility[id].rhs)

\* Generations of a quirk or fact only grow, a generation keeps what it said, and a
\* withdrawal lasts until a newer generation is published, whoever publishes, repeats
\* or restarts in between.
Kept(before, after) ==
  \A id \in Occupied(before) :
    /\ after[id] # None /\ after[id].gen >= before[id].gen
    /\ after[id].gen = before[id].gen =>
         /\ [after[id] EXCEPT !.withdrawn = FALSE] = [before[id] EXCEPT !.withdrawn = FALSE]
         /\ before[id].withdrawn => after[id].withdrawn

GenerationsKeepTheirContent ==
  [][Kept(quirks, quirks') /\ Kept(compatibility, compatibility')]_knVars

================================================================================
