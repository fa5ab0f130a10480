------------------------------ MODULE KnowledgeProofs ------------------------------
(***************************************************************************)
(* Proofs about schemas, quirks and compatibility facts, for any number of *)
(* them, any devices and reports, and any number of restarts.              *)
(***************************************************************************)
EXTENDS Knowledge, DeviceRegistryProofs, FiniteSetTheorems

--------------------------------------------------------------------------------
(* Type correctness.                                                       *)

KnowledgeTypeOK ==
  /\ SubjectInv
  /\ schemas \subseteq Schema
  /\ quirks \in [QuirkIds -> QuirkRecord \cup {None}]
  /\ compatibility \in [FactIds -> CompatibilityFact \cup {None}]

LEMMA KnowledgeTypeInit == KnInit => KnowledgeTypeOK
  BY SubjectInit, KnowledgeConstants DEF KnInit, KnowledgeTypeOK

\* Of the device subjects, a restart changes only the families, and to ones that the
\* devices name.
LEMMA RestartSubjects ==
  ASSUME SubjectInv, Restart
  PROVE  SubjectInv'
<1>1. families' \subseteq Families
  BY DEF Restart, ReportedFamilies, SubjectInv, DeviceTypeOK, FamilyIds
<1> QED
  BY <1>1 DEF Restart, SubjectInv, DeviceTypeOK, BootFollowsGeneration

LEMMA KnowledgeTypeStep == KnowledgeTypeOK /\ [KnNext]_knVars => KnowledgeTypeOK'
<1> SUFFICES ASSUME KnowledgeTypeOK, [KnNext]_knVars PROVE KnowledgeTypeOK'
  OBVIOUS
<1> USE KnowledgeConstants DEF KnowledgeTypeOK
<1>0. UNCHANGED deviceVars => SubjectInv'
  BY DEF deviceVars, SubjectInv, DeviceTypeOK, BootFollowsGeneration
<1>1. CASE ReportStep
  BY <1>1, ReportDeviceType DEF ReportStep, knowledgeVars
<1>2. CASE SchemaStep
  BY <1>0, <1>2 DEF SchemaStep, RegisterSchema
<1>3. CASE QuirkStep
  <2> PICK id \in QuirkIds :
        \/ \E q \in QuirkRecord : ~q.withdrawn /\ PublishQuirk(id, q)
        \/ WithdrawQuirk(id)
    BY <1>3 DEF QuirkStep
  <2>1. ASSUME NEW q \in QuirkRecord, PublishQuirk(id, q) PROVE KnowledgeTypeOK'
    BY <1>0, <2>1 DEF PublishQuirk
  <2>2. CASE WithdrawQuirk(id)
    <3>1. quirks[id] \in QuirkRecord
      BY <2>2 DEF WithdrawQuirk
    <3>2. [quirks[id] EXCEPT !.withdrawn = TRUE] \in QuirkRecord
      BY <3>1 DEF QuirkRecord
    <3>3. quirks' \in [QuirkIds -> QuirkRecord \cup {None}]
      BY <2>2, <3>2 DEF WithdrawQuirk
    <3> QED
      BY <1>0, <2>2, <3>3 DEF WithdrawQuirk
  <2> QED
    BY <2>1, <2>2
<1>4. CASE FactStep
  <2> PICK id \in FactIds :
        \/ \E f \in CompatibilityFact : ~f.withdrawn /\ PublishFact(id, f)
        \/ WithdrawFact(id)
    BY <1>4 DEF FactStep
  <2>1. ASSUME NEW f \in CompatibilityFact, PublishFact(id, f) PROVE KnowledgeTypeOK'
    BY <1>0, <2>1 DEF PublishFact
  <2>2. CASE WithdrawFact(id)
    <3>1. compatibility[id] \in CompatibilityFact
      BY <2>2 DEF WithdrawFact
    <3>2. [compatibility[id] EXCEPT !.withdrawn = TRUE] \in CompatibilityFact
      BY <3>1 DEF CompatibilityFact
    <3>3. compatibility' \in [FactIds -> CompatibilityFact \cup {None}]
      BY <2>2, <3>2 DEF WithdrawFact
    <3> QED
      BY <1>0, <2>2, <3>3 DEF WithdrawFact
  <2> QED
    BY <2>1, <2>2
<1>5. CASE Restart
  BY <1>5, RestartSubjects DEF Restart, StagedSchemas
<1>6. CASE UNCHANGED knVars
  BY <1>0, <1>6 DEF knVars, knowledgeVars
<1> QED
  BY <1>1, <1>2, <1>3, <1>4, <1>5, <1>6 DEF KnNext

\* Schemas, quirks, facts and the device tables they refer to keep their types, over
\* any number of publications and restarts (the tables of registry.cpp's Impl).
THEOREM KnowledgeTypeCorrect == KnSpec => []KnowledgeTypeOK
  BY KnowledgeTypeInit, KnowledgeTypeStep, PTL DEF KnSpec

--------------------------------------------------------------------------------
(* Generations.                                                            *)

\* A record that is stored is replaced only by one of a later generation.
LEMMA AcceptedIsNewer ==
  ASSUME NEW old, NEW new, NEW same \in BOOLEAN, NEW room \in BOOLEAN, old # None,
         Verdict(old, new, same, room) = "Accepted", old.gen \in Nat, new.gen \in Nat
  PROVE  new.gen > old.gen
  BY DEF Verdict

\* Storing a record that was accepted, or withdrawing one, keeps the others and what
\* the generations said.
LEMMA StoringKeeps ==
  ASSUME NEW Ids, NEW Records, NEW table \in [Ids -> Records \cup {None}], None \notin Records,
         \A r \in Records : r.gen \in Nat,
         NEW id \in Ids, NEW new \in Records, table[id] # None => new.gen > table[id].gen
  PROVE  Kept(table, [table EXCEPT ![id] = new])
<1> DEFINE after == [table EXCEPT ![id] = new]
<1> SUFFICES ASSUME NEW i \in Occupied(table)
             PROVE  /\ after[i] # None /\ after[i].gen >= table[i].gen
                    /\ after[i].gen = table[i].gen =>
                         /\ [after[i] EXCEPT !.withdrawn = FALSE]
                              = [table[i] EXCEPT !.withdrawn = FALSE]
                         /\ table[i].withdrawn => after[i].withdrawn
  BY DEF Kept
<1>1. i \in Ids /\ table[i] \in Records /\ table[i].gen \in Nat
  BY DEF Occupied
<1>2. CASE i = id
  <2>1. after[i] = new /\ new.gen > table[i].gen /\ new.gen \in Nat /\ new # None
    BY <1>1, <1>2 DEF Occupied
  <2>2. after[i].gen >= table[i].gen /\ after[i].gen # table[i].gen
    BY <1>1, <2>1
  <2> QED
    BY <2>1, <2>2
<1>3. CASE i # id
  <2>1. after[i] = table[i] /\ table[i] # None
    BY <1>1, <1>3 DEF Occupied
  <2>2. table[i].gen >= table[i].gen
    BY <1>1
  <2> HIDE DEF after
  <2> QED
    BY <2>1, <2>2
<1> QED
  BY <1>2, <1>3

LEMMA SameKeeps ==
  ASSUME NEW Ids, NEW Records, NEW table \in [Ids -> Records \cup {None}],
         \A r \in Records : r.gen \in Nat
  PROVE  Kept(table, table)
<1>1. \A i \in Occupied(table) : table[i] \in Records /\ table[i] # None
  BY DEF Occupied
<1>2. \A i \in Occupied(table) : table[i].gen >= table[i].gen
  BY <1>1
<1> QED
  BY <1>1, <1>2 DEF Kept

\* A record with the withdrawn flag set, and with the flag left out of the comparison.
Withdrawn(r) == [r EXCEPT !.withdrawn = TRUE]
Unflagged(r) == [r EXCEPT !.withdrawn = FALSE]

LEMMA WithdrawingKeeps ==
  ASSUME NEW Ids, NEW Records, NEW table \in [Ids -> Records \cup {None}], None \notin Records,
         \A r \in Records : /\ r.gen \in Nat /\ Withdrawn(r) \in Records
                            /\ Withdrawn(r).gen = r.gen /\ Withdrawn(r).withdrawn
                            /\ Unflagged(Withdrawn(r)) = Unflagged(r),
         NEW id \in Ids, table[id] # None
  PROVE  Kept(table, [table EXCEPT ![id] = Withdrawn(table[id])])
<1> DEFINE after == [table EXCEPT ![id] = Withdrawn(table[id])]
<1> SUFFICES ASSUME NEW i \in Occupied(table)
             PROVE  /\ after[i] # None /\ after[i].gen >= table[i].gen
                    /\ after[i].gen = table[i].gen =>
                         /\ Unflagged(after[i]) = Unflagged(table[i])
                         /\ table[i].withdrawn => after[i].withdrawn
  BY DEF Kept, Unflagged
<1>1. i \in Ids /\ table[i] \in Records /\ table[i] # None /\ table[i].gen >= table[i].gen
  BY DEF Occupied
<1>2. CASE i = id
  <2>1. after[i] = Withdrawn(table[i])
    BY <1>1, <1>2
  <2> HIDE DEF after
  <2> QED
    BY <1>1, <2>1
<1>3. CASE i # id
  <2>1. after[i] = table[i]
    BY <1>1, <1>3
  <2> HIDE DEF after
  <2> QED
    BY <1>1, <2>1
<1> QED
  BY <1>2, <1>3

LEMMA GenerationStep ==
  KnowledgeTypeOK /\ [KnNext]_knVars =>
    [Kept(quirks, quirks') /\ Kept(compatibility, compatibility')]_knVars
<1> SUFFICES ASSUME KnowledgeTypeOK, KnNext
             PROVE  Kept(quirks, quirks') /\ Kept(compatibility, compatibility')
  OBVIOUS
<1>0. /\ quirks \in [QuirkIds -> QuirkRecord \cup {None}]
      /\ compatibility \in [FactIds -> CompatibilityFact \cup {None}]
  BY DEF KnowledgeTypeOK
<1>1. /\ None \notin QuirkRecord /\ None \notin CompatibilityFact
      /\ \A q \in QuirkRecord : q.gen \in Nat
      /\ \A f \in CompatibilityFact : f.gen \in Nat
  BY KnowledgeConstants DEF QuirkRecord, CompatibilityFact
<1>2. \A q \in QuirkRecord : /\ q.gen \in Nat /\ Withdrawn(q) \in QuirkRecord
                             /\ Withdrawn(q).gen = q.gen /\ Withdrawn(q).withdrawn
                             /\ Unflagged(Withdrawn(q)) = Unflagged(q)
  <2>1. ASSUME NEW q \in QuirkRecord
        PROVE  /\ Withdrawn(q) \in QuirkRecord
               /\ Withdrawn(q).gen = q.gen /\ Withdrawn(q).withdrawn
    <3>1. Withdrawn(q) \in QuirkRecord
      BY DEF QuirkRecord, Withdrawn
    <3>2. Withdrawn(q).gen = q.gen
      BY DEF QuirkRecord, Withdrawn
    <3>3. Withdrawn(q).withdrawn
      BY DEF QuirkRecord, Withdrawn
    <3> QED
      BY <3>1, <3>2, <3>3
  <2>2. \A q : Unflagged(Withdrawn(q)) = Unflagged(q)
    BY DEF Withdrawn, Unflagged
  <2> QED
    BY <1>1, <2>1, <2>2
<1>3. \A f \in CompatibilityFact :
        /\ f.gen \in Nat /\ Withdrawn(f) \in CompatibilityFact
        /\ Withdrawn(f).gen = f.gen /\ Withdrawn(f).withdrawn
        /\ Unflagged(Withdrawn(f)) = Unflagged(f)
  <2>1. ASSUME NEW f \in CompatibilityFact
        PROVE  /\ Withdrawn(f) \in CompatibilityFact
               /\ Withdrawn(f).gen = f.gen /\ Withdrawn(f).withdrawn
    <3>1. Withdrawn(f) \in CompatibilityFact
      BY DEF CompatibilityFact, Withdrawn
    <3>2. Withdrawn(f).gen = f.gen
      BY DEF CompatibilityFact, Withdrawn
    <3>3. Withdrawn(f).withdrawn
      BY DEF CompatibilityFact, Withdrawn
    <3> QED
      BY <3>1, <3>2, <3>3
  <2>2. \A f : Unflagged(Withdrawn(f)) = Unflagged(f)
    BY DEF Withdrawn, Unflagged
  <2> QED
    BY <1>1, <2>1, <2>2
<1>4. Kept(quirks, quirks) /\ Kept(compatibility, compatibility)
  BY <1>0, <1>1, SameKeeps
<1>5. ASSUME NEW id \in QuirkIds, NEW q \in QuirkRecord, PublishQuirk(id, q)
      PROVE  Kept(quirks, quirks')
  <2> DEFINE same == QuirkFace(quirks[id]) = QuirkFace(q)
             room == Cardinality(Occupied(quirks)) < MaxQuirks
  <2>1. quirks' = IF Verdict(quirks[id], q, same, room) = "Accepted"
                  THEN [quirks EXCEPT ![id] = q] ELSE quirks
    BY <1>5 DEF PublishQuirk
  <2>2. same \in BOOLEAN /\ room \in BOOLEAN
    OBVIOUS
  <2> HIDE DEF same, room
  <2>3. CASE Verdict(quirks[id], q, same, room) = "Accepted"
    <3>1. quirks[id] # None => q.gen > quirks[id].gen
      BY <1>0, <1>1, <2>2, <2>3, AcceptedIsNewer
    <3> QED
      BY <1>0, <1>1, <2>1, <2>3, <3>1, StoringKeeps
  <2>4. CASE Verdict(quirks[id], q, same, room) # "Accepted"
    BY <1>4, <2>1, <2>4
  <2> QED
    BY <2>3, <2>4
<1>6. ASSUME NEW id \in FactIds, NEW f \in CompatibilityFact, PublishFact(id, f)
      PROVE  Kept(compatibility, compatibility')
  <2> DEFINE same == FactFace(compatibility[id]) = FactFace(f)
             room == Cardinality(Occupied(compatibility)) < MaxFacts
  <2>1. compatibility' = IF Verdict(compatibility[id], f, same, room) = "Accepted"
                         THEN [compatibility EXCEPT ![id] = f] ELSE compatibility
    BY <1>6 DEF PublishFact
  <2>2. same \in BOOLEAN /\ room \in BOOLEAN
    OBVIOUS
  <2> HIDE DEF same, room
  <2>3. CASE Verdict(compatibility[id], f, same, room) = "Accepted"
    <3>1. compatibility[id] # None => f.gen > compatibility[id].gen
      BY <1>0, <1>1, <2>2, <2>3, AcceptedIsNewer
    <3> QED
      BY <1>0, <1>1, <2>1, <2>3, <3>1, StoringKeeps
  <2>4. CASE Verdict(compatibility[id], f, same, room) # "Accepted"
    BY <1>4, <2>1, <2>4
  <2> QED
    BY <2>3, <2>4
<1>7. ASSUME NEW id \in QuirkIds, WithdrawQuirk(id) PROVE Kept(quirks, quirks')
  <2>1. quirks' = [quirks EXCEPT ![id] = Withdrawn(quirks[id])] /\ quirks[id] # None
    BY <1>7 DEF WithdrawQuirk, Withdrawn
  <2> QED
    BY <1>0, <1>1, <1>2, <2>1, WithdrawingKeeps
<1>8. ASSUME NEW id \in FactIds, WithdrawFact(id) PROVE Kept(compatibility, compatibility')
  <2>1. /\ compatibility' = [compatibility EXCEPT ![id] = Withdrawn(compatibility[id])]
        /\ compatibility[id] # None
    BY <1>8 DEF WithdrawFact, Withdrawn
  <2> QED
    BY <1>0, <1>1, <1>3, <2>1, WithdrawingKeeps
<1>9. CASE QuirkStep
  <2>1. compatibility' = compatibility
    BY <1>9 DEF QuirkStep, PublishQuirk, WithdrawQuirk
  <2> QED
    BY <1>4, <1>5, <1>7, <1>9, <2>1 DEF QuirkStep
<1>10. CASE FactStep
  <2>1. quirks' = quirks
    BY <1>10 DEF FactStep, PublishFact, WithdrawFact
  <2> QED
    BY <1>4, <1>6, <1>8, <1>10, <2>1 DEF FactStep
<1>11. CASE ReportStep \/ SchemaStep \/ Restart
  <2>1. quirks' = quirks /\ compatibility' = compatibility
    BY <1>11 DEF ReportStep, SchemaStep, RegisterSchema, Restart, knowledgeVars
  <2> QED
    BY <1>4, <2>1
<1> QED
  BY <1>9, <1>10, <1>11 DEF KnNext

\* A generation of a quirk or a fact keeps what it said and a withdrawal lasts until a
\* newer generation is published, whatever is published, repeated or restarted in
\* between (apply_quirk_locked, apply_compatibility_locked, import_durable_state).
THEOREM GenerationsAreKept == KnSpec => GenerationsKeepTheirContent
  BY KnowledgeTypeInit, KnowledgeTypeStep, GenerationStep, PTL
  DEF KnSpec, GenerationsKeepTheirContent

--------------------------------------------------------------------------------
(* References.                                                             *)

\* Every stored fact, withdrawn or not, refers to what the tables have.
FactsResolve ==
  \A id \in Occupied(compatibility) :
    ReferenceResolves(compatibility[id].lhs) /\ ReferenceResolves(compatibility[id].rhs)

\* What resolves goes on resolving while the tables only grow.
LEMMA ResolvesStill ==
  ASSUME registered \subseteq registered', platforms \subseteq platforms',
         families \subseteq families'
  PROVE  \A r : ReferenceResolves(r) => ReferenceResolves(r)'
  BY DEF ReferenceResolves

\* A publication stores a fact that resolves, and a withdrawal moves no reference.
LEMMA FactStepReferences ==
  ASSUME KnowledgeTypeOK, FactStep, NEW id \in Occupied(compatibility')
  PROVE  \/ /\ ReferenceResolves(compatibility'[id].lhs)
            /\ ReferenceResolves(compatibility'[id].rhs)
         \/ /\ id \in Occupied(compatibility)
            /\ compatibility'[id].lhs = compatibility[id].lhs
            /\ compatibility'[id].rhs = compatibility[id].rhs
<1>0. /\ compatibility \in [FactIds -> CompatibilityFact \cup {None}]
      /\ None \notin CompatibilityFact
  BY KnowledgeConstants DEF KnowledgeTypeOK
<1>1. PICK k \in FactIds : \/ \E f \in CompatibilityFact : PublishFact(k, f)
                           \/ WithdrawFact(k)
  BY DEF FactStep
<1>2. ASSUME NEW f \in CompatibilityFact, PublishFact(k, f)
      PROVE  \/ compatibility' = compatibility
             \/ /\ compatibility' = [compatibility EXCEPT ![k] = f]
                /\ ReferenceResolves(f.lhs) /\ ReferenceResolves(f.rhs)
  BY <1>2 DEF PublishFact
<1>3. CASE WithdrawFact(k)
  <2>1. /\ compatibility' = [compatibility EXCEPT ![k] = Withdrawn(compatibility[k])]
        /\ compatibility[k] \in CompatibilityFact /\ k \in Occupied(compatibility)
    BY <1>0, <1>3 DEF WithdrawFact, Withdrawn, Occupied
  <2>2. \A f \in CompatibilityFact : Withdrawn(f).lhs = f.lhs /\ Withdrawn(f).rhs = f.rhs
    BY DEF CompatibilityFact, Withdrawn
  <2> QED
    BY <1>0, <2>1, <2>2 DEF Occupied
<1>4. ASSUME NEW f \in CompatibilityFact, PublishFact(k, f)
      PROVE  \/ /\ ReferenceResolves(compatibility'[id].lhs)
                /\ ReferenceResolves(compatibility'[id].rhs)
             \/ /\ id \in Occupied(compatibility)
                /\ compatibility'[id].lhs = compatibility[id].lhs
                /\ compatibility'[id].rhs = compatibility[id].rhs
  <2>1. CASE compatibility' = compatibility
    BY <2>1
  <2>2. CASE /\ compatibility' = [compatibility EXCEPT ![k] = f]
             /\ ReferenceResolves(f.lhs) /\ ReferenceResolves(f.rhs)
    BY <1>0, <2>2 DEF Occupied
  <2> QED
    BY <1>2, <1>4, <2>1, <2>2
<1> QED
  BY <1>1, <1>3, <1>4

LEMMA FactsResolveStep == KnowledgeTypeOK /\ FactsResolve /\ [KnNext]_knVars => FactsResolve'
<1> SUFFICES ASSUME KnowledgeTypeOK, FactsResolve, [KnNext]_knVars PROVE FactsResolve'
  OBVIOUS
<1>1. ASSUME compatibility' = compatibility, registered \subseteq registered',
             platforms \subseteq platforms', families \subseteq families'
      PROVE  FactsResolve'
  BY <1>1, ResolvesStill DEF FactsResolve
<1>2. CASE ReportStep
  <2>1. compatibility' = compatibility
    BY <1>2 DEF ReportStep, knowledgeVars
  <2> QED
    BY <1>1, <1>2, <2>1, ReportOnlyAdds DEF ReportStep
<1>3. CASE SchemaStep \/ QuirkStep \/ UNCHANGED knVars
  <2>1. compatibility' = compatibility /\ UNCHANGED deviceVars
    BY <1>3 DEF SchemaStep, RegisterSchema, QuirkStep, PublishQuirk, WithdrawQuirk, knVars,
                knowledgeVars
  <2> QED
    BY <1>1, <2>1 DEF deviceVars
<1>4. CASE FactStep
  <2>1. UNCHANGED deviceVars
    BY <1>4 DEF FactStep, PublishFact, WithdrawFact
  <2>2. \A r : ReferenceResolves(r) => ReferenceResolves(r)'
    BY <2>1, ResolvesStill DEF deviceVars
  <2>3. ASSUME NEW id \in Occupied(compatibility')
        PROVE  /\ ReferenceResolves(compatibility'[id].lhs)
               /\ ReferenceResolves(compatibility'[id].rhs)
    BY <1>4, <2>3, FactStepReferences DEF FactsResolve
  <2> QED
    BY <2>2, <2>3 DEF FactsResolve, Occupied
<1>5. CASE Restart
  <2>1. /\ registered' = registered /\ platforms' = platforms
        /\ families' = ReportedFamilies /\ compatibility' = compatibility
        /\ \A id \in Occupied(compatibility) :
             StagedResolves(compatibility[id].lhs) /\ StagedResolves(compatibility[id].rhs)
    BY <1>5 DEF Restart, KnowledgeLoads
  <2>2. \A r : StagedResolves(r) => ReferenceResolves(r)'
    BY <2>1 DEF StagedResolves, ReferenceResolves
  <2> QED
    BY <2>1, <2>2 DEF FactsResolve
<1> QED
  BY <1>2, <1>3, <1>4, <1>5 DEF KnNext

\* A query never lists a fact about a device, platform or family that the registry
\* does not have, after any publications, reports, withdrawals and restarts
\* (apply_compatibility_locked, reference_resolves_locked, import_durable_state).
THEOREM NoDanglingFacts == KnSpec => []ListedFactsResolve
<1>1. KnInit => FactsResolve
  BY DEF KnInit, FactsResolve, Occupied
<1>2. FactsResolve => ListedFactsResolve
  BY DEF FactsResolve, ListedFactsResolve, FactsAbout
<1> QED
  BY <1>1, <1>2, KnowledgeTypeInit, KnowledgeTypeStep, FactsResolveStep, PTL DEF KnSpec

--------------------------------------------------------------------------------
(* The image loads.                                                        *)

\* The families that were learnt from first registrations are those that the devices
\* still name, and within the limit.
FamiliesReported ==
  /\ families = ReportedFamilies
  /\ IsFiniteSet(families) /\ Cardinality(families) <= MaxFamilies

\* The catalog stays, and no id or capability is bound twice.
SchemasOneToOne ==
  /\ Catalog \subseteq schemas
  /\ \A s, t \in schemas : (s.id = t.id \/ s.capability = t.capability) => s = t

WithinLimit(table, limit) ==
  IsFiniteSet(Occupied(table)) /\ Cardinality(Occupied(table)) <= limit

\* Every quirk impacts capabilities that have a schema.
QuirksBound == \A id \in Occupied(quirks) : quirks[id].impacted \subseteq Bound

ImageInv ==
  /\ KnowledgeTypeOK /\ FactsResolve /\ FamiliesReported /\ SchemasOneToOne /\ QuirksBound
  /\ WithinLimit(quirks, MaxQuirks) /\ WithinLimit(compatibility, MaxFacts)

\* No report moves a registered device to another family.
FamilyKept == \A d \in registered : family'[d] = family[d]
DevicesKeepFamily == [][FamilyKept]_knVars

LEMMA ImageInit == KnInit => ImageInv
<1> SUFFICES ASSUME KnInit PROVE ImageInv
  OBVIOUS
<1>1. FactsResolve /\ QuirksBound
  BY DEF KnInit, FactsResolve, QuirksBound, Occupied
<1>2. FamiliesReported
  BY FS_EmptySet, DeviceConstants DEF KnInit, DeviceInit, FamiliesReported, ReportedFamilies
<1>3. SchemasOneToOne
  BY KnowledgeConstants DEF KnInit, SchemasOneToOne
<1>4. Occupied(quirks) = {} /\ Occupied(compatibility) = {}
  BY DEF KnInit, Occupied
<1>5. WithinLimit(quirks, MaxQuirks) /\ WithinLimit(compatibility, MaxFacts)
  BY <1>4, FS_EmptySet, KnowledgeConstants DEF WithinLimit
<1> QED
  BY <1>1, <1>2, <1>3, <1>5, KnowledgeTypeInit DEF ImageInv

LEMMA ReportFamilies ==
  ASSUME KnowledgeTypeOK, FamiliesReported, FamilyKept,
         NEW d \in Devices, NEW r \in Reports, ReportDevice(d, r)
  PROVE  FamiliesReported'
<1>1. /\ registered \subseteq Devices /\ family \in [Devices -> FamilyIds]
      /\ families = {family[e] : e \in registered} \ {None}
      /\ IsFiniteSet(families) /\ Cardinality(families) <= MaxFamilies
  BY DEF KnowledgeTypeOK, SubjectInv, DeviceTypeOK, FamiliesReported, ReportedFamilies
<1>2. CASE RegisterDevice(d, r)
  <2>1. /\ registered' = registered \cup {d} /\ d \notin registered
        /\ family' = [family EXCEPT ![d] = r.family]
        /\ families' = families \cup ({r.family} \ {None})
        /\ r.family \in families \cup {None} \/ Cardinality(families) < MaxFamilies
    BY <1>2 DEF RegisterDevice
  <2>2. \A e \in registered' : family'[e] = IF e = d THEN r.family ELSE family[e]
    BY <1>1, <2>1
  <2>3. families' = {family'[e] : e \in registered'} \ {None}
    <3>1. \A x : x \in families' => x # None /\ \E e \in registered' : x = family'[e]
      BY <1>1, <2>1, <2>2
    <3>2. \A e \in registered' : family'[e] # None => family'[e] \in families'
      BY <1>1, <2>1, <2>2
    <3> QED
      BY <3>1, <3>2
  <2>4. IsFiniteSet(families') /\ Cardinality(families') <= MaxFamilies
    <3>1. CASE r.family \in families \cup {None}
      <4>1. families' = families
        BY <2>1, <3>1
      <4> QED
        BY <1>1, <4>1
    <3>2. CASE r.family \notin families \cup {None}
      <4>1. families' = families \cup {r.family}
        BY <2>1, <3>2
      <4>2. IsFiniteSet(families') /\ Cardinality(families') = Cardinality(families) + 1
        BY <1>1, <3>2, <4>1, FS_AddElement
      <4>3. Cardinality(families) < MaxFamilies /\ Cardinality(families) \in Nat
        BY <1>1, <2>1, <3>2, FS_CardinalityType
      <4> QED
        BY <4>2, <4>3, DeviceConstants
    <3> QED
      BY <3>1, <3>2
  <2> QED
    BY <2>3, <2>4 DEF FamiliesReported, ReportedFamilies
<1>3. CASE RefreshDevice(d, r)
  <2>1. registered' = registered /\ families' = families
    BY <1>3 DEF RefreshDevice
  <2>2. {family'[e] : e \in registered'} = {family[e] : e \in registered}
    BY <2>1 DEF FamilyKept
  <2> QED
    BY <1>1, <2>1, <2>2 DEF FamiliesReported, ReportedFamilies
<1> QED
  BY <1>2, <1>3 DEF ReportDevice

\* A table that had room for a new record is within its limit with it.
LEMMA StoredWithinLimit ==
  ASSUME NEW Ids, NEW Records, NEW table \in [Ids -> Records \cup {None}], None \notin Records,
         NEW limit \in Nat, WithinLimit(table, limit), NEW id \in Ids, NEW new \in Records,
         table[id] # None \/ Cardinality(Occupied(table)) < limit
  PROVE  WithinLimit([table EXCEPT ![id] = new], limit)
<1> DEFINE held == Occupied(table)
           after == [table EXCEPT ![id] = new]
<1>1. Occupied(after) = held \cup {id}
  BY DEF Occupied
<1>2. IsFiniteSet(held) /\ Cardinality(held) <= limit /\ Cardinality(held) \in Nat
  BY FS_CardinalityType DEF WithinLimit
<1>3. id \in held \/ Cardinality(held) < limit
  BY DEF Occupied
<1> HIDE DEF held, after
<1>4. /\ IsFiniteSet(held \cup {id})
      /\ Cardinality(held \cup {id}) =
           IF id \in held THEN Cardinality(held) ELSE Cardinality(held) + 1
  BY <1>2, FS_AddElement
<1>5. Cardinality(held \cup {id}) <= limit
  BY <1>2, <1>3, <1>4
<1> QED
  BY <1>1, <1>4, <1>5 DEF WithinLimit, after

\* A record takes a place of its own only when there is room.
LEMMA AcceptedHasRoom ==
  ASSUME NEW new, NEW same \in BOOLEAN, NEW room \in BOOLEAN,
         Verdict(None, new, same, room) = "Accepted"
  PROVE  room
  BY DEF Verdict

LEMMA QuirkImage ==
  ASSUME ImageInv, QuirkStep
  PROVE  QuirksBound' /\ WithinLimit(quirks', MaxQuirks)
<1>0. /\ quirks \in [QuirkIds -> QuirkRecord \cup {None}] /\ None \notin QuirkRecord
      /\ QuirksBound /\ WithinLimit(quirks, MaxQuirks) /\ MaxQuirks \in Nat
  BY KnowledgeConstants DEF ImageInv, KnowledgeTypeOK
<1>1. PICK id \in QuirkIds : \/ \E q \in QuirkRecord : PublishQuirk(id, q)
                             \/ WithdrawQuirk(id)
  BY DEF QuirkStep
<1>2. schemas' = schemas
  BY <1>1 DEF PublishQuirk, WithdrawQuirk
<1>3. ASSUME NEW q \in QuirkRecord, q.impacted \subseteq Bound,
             quirks[id] # None \/ Cardinality(Occupied(quirks)) < MaxQuirks,
             quirks' = [quirks EXCEPT ![id] = q]
      PROVE  QuirksBound' /\ WithinLimit(quirks', MaxQuirks)
  <2>1. WithinLimit(quirks', MaxQuirks)
    BY <1>0, <1>3, StoredWithinLimit
  <2>2. QuirksBound'
    BY <1>0, <1>2, <1>3 DEF QuirksBound, Occupied, Bound
  <2> QED
    BY <2>1, <2>2
<1>4. ASSUME NEW q \in QuirkRecord, PublishQuirk(id, q)
      PROVE  QuirksBound' /\ WithinLimit(quirks', MaxQuirks)
  <2> DEFINE same == QuirkFace(quirks[id]) = QuirkFace(q)
             room == Cardinality(Occupied(quirks)) < MaxQuirks
  <2>1. /\ quirks' = IF Verdict(quirks[id], q, same, room) = "Accepted"
                     THEN [quirks EXCEPT ![id] = q] ELSE quirks
        /\ q.impacted \subseteq Bound
    BY <1>4 DEF PublishQuirk
  <2>2. CASE Verdict(quirks[id], q, same, room) = "Accepted"
    <3>1. same \in BOOLEAN /\ room \in BOOLEAN
      OBVIOUS
    <3> HIDE DEF same, room
    <3>2. quirks[id] # None \/ room
      BY <2>2, <3>1, AcceptedHasRoom
    <3> QED
      BY <1>3, <2>1, <2>2, <3>2 DEF room
  <2>3. CASE Verdict(quirks[id], q, same, room) # "Accepted"
    <3>1. quirks' = quirks
      BY <2>1, <2>3
    <3> QED
      BY <1>0, <1>2, <3>1 DEF QuirksBound, Bound
  <2> QED
    BY <2>2, <2>3
<1>5. CASE WithdrawQuirk(id)
  <2>1. /\ quirks' = [quirks EXCEPT ![id] = Withdrawn(quirks[id])]
        /\ quirks[id] \in QuirkRecord /\ id \in Occupied(quirks)
    BY <1>0, <1>5 DEF WithdrawQuirk, Withdrawn, Occupied
  <2>2. \A q \in QuirkRecord : Withdrawn(q) \in QuirkRecord
    BY DEF QuirkRecord, Withdrawn
  <2>3. \A q \in QuirkRecord : Withdrawn(q).impacted = q.impacted
    BY DEF QuirkRecord, Withdrawn
  <2>4. Withdrawn(quirks[id]) \in QuirkRecord /\ Withdrawn(quirks[id]).impacted \subseteq Bound
    BY <1>0, <2>1, <2>2, <2>3 DEF QuirksBound
  <2> QED
    BY <1>3, <2>1, <2>4 DEF Occupied
<1> QED
  BY <1>1, <1>4, <1>5

LEMMA FactImage ==
  ASSUME ImageInv, FactStep
  PROVE  WithinLimit(compatibility', MaxFacts)
<1>0. /\ compatibility \in [FactIds -> CompatibilityFact \cup {None}]
      /\ None \notin CompatibilityFact
      /\ WithinLimit(compatibility, MaxFacts) /\ MaxFacts \in Nat
  BY KnowledgeConstants DEF ImageInv, KnowledgeTypeOK
<1>1. PICK id \in FactIds : \/ \E f \in CompatibilityFact : PublishFact(id, f)
                            \/ WithdrawFact(id)
  BY DEF FactStep
<1>2. ASSUME NEW f \in CompatibilityFact, PublishFact(id, f)
      PROVE  WithinLimit(compatibility', MaxFacts)
  <2> DEFINE same == FactFace(compatibility[id]) = FactFace(f)
             room == Cardinality(Occupied(compatibility)) < MaxFacts
  <2>1. compatibility' = IF Verdict(compatibility[id], f, same, room) = "Accepted"
                         THEN [compatibility EXCEPT ![id] = f] ELSE compatibility
    BY <1>2 DEF PublishFact
  <2>2. CASE Verdict(compatibility[id], f, same, room) = "Accepted"
    <3>1. same \in BOOLEAN /\ room \in BOOLEAN
      OBVIOUS
    <3> HIDE DEF same, room
    <3>2. compatibility[id] # None \/ room
      BY <2>2, <3>1, AcceptedHasRoom
    <3> QED
      BY <1>0, <2>1, <2>2, <3>2, StoredWithinLimit DEF room
  <2>3. CASE Verdict(compatibility[id], f, same, room) # "Accepted"
    BY <1>0, <2>1, <2>3
  <2> QED
    BY <2>2, <2>3
<1>3. CASE WithdrawFact(id)
  <2>1. /\ compatibility' = [compatibility EXCEPT ![id] = Withdrawn(compatibility[id])]
        /\ compatibility[id] \in CompatibilityFact /\ compatibility[id] # None
    BY <1>0, <1>3 DEF WithdrawFact, Withdrawn
  <2>2. \A f \in CompatibilityFact : Withdrawn(f) \in CompatibilityFact
    BY DEF CompatibilityFact, Withdrawn
  <2>3. Withdrawn(compatibility[id]) \in CompatibilityFact
    BY <2>1, <2>2
  <2> QED
    BY <1>0, <2>1, <2>3, StoredWithinLimit
<1> QED
  BY <1>1, <1>2, <1>3

LEMMA ImageStep == ImageInv /\ [KnNext]_knVars /\ [FamilyKept]_knVars => ImageInv'
<1> SUFFICES ASSUME ImageInv, [KnNext]_knVars, [FamilyKept]_knVars PROVE ImageInv'
  OBVIOUS
<1>0. KnowledgeTypeOK' /\ FactsResolve'
  BY KnowledgeTypeStep, FactsResolveStep DEF ImageInv
<1>1. /\ FamiliesReported /\ SchemasOneToOne /\ QuirksBound
      /\ WithinLimit(quirks, MaxQuirks) /\ WithinLimit(compatibility, MaxFacts)
  BY DEF ImageInv
<1>2. UNCHANGED deviceVars => FamiliesReported'
  BY <1>1 DEF deviceVars, FamiliesReported, ReportedFamilies
<1>3. schemas' = schemas => SchemasOneToOne'
  BY <1>1 DEF SchemasOneToOne
<1>4. quirks' = quirks /\ schemas \subseteq schemas' => QuirksBound'
  BY <1>1 DEF QuirksBound, Bound
<1>5. CASE ReportStep
  <2>1. schemas' = schemas /\ quirks' = quirks /\ compatibility' = compatibility
    BY <1>5 DEF ReportStep, knowledgeVars
  <2>2. FamilyKept \/ UNCHANGED deviceVars
    BY DEF knVars
  <2>3. FamiliesReported'
    BY <1>1, <1>2, <1>5, <2>2, ReportFamilies DEF ReportStep, ImageInv
  <2> QED
    BY <1>0, <1>1, <1>3, <1>4, <2>1, <2>3 DEF ImageInv
<1>6. CASE SchemaStep
  <2> PICK s \in Schema : RegisterSchema(s)
    BY <1>6 DEF SchemaStep
  <2>1. /\ UNCHANGED deviceVars /\ quirks' = quirks /\ compatibility' = compatibility
        /\ schemas' = schemas \cup {s}
        /\ \A t \in schemas : t.id # s.id /\ t.capability # s.capability
    BY DEF RegisterSchema, Bound
  <2>2. SchemasOneToOne'
    BY <1>1, <2>1 DEF SchemasOneToOne
  <2> QED
    BY <1>0, <1>1, <1>2, <1>4, <2>1, <2>2 DEF ImageInv
<1>7. CASE QuirkStep
  <2>1. UNCHANGED deviceVars /\ schemas' = schemas /\ compatibility' = compatibility
    BY <1>7 DEF QuirkStep, PublishQuirk, WithdrawQuirk
  <2> QED
    BY <1>0, <1>1, <1>2, <1>3, <1>7, <2>1, QuirkImage DEF ImageInv
<1>8. CASE FactStep
  <2>1. UNCHANGED deviceVars /\ schemas' = schemas /\ quirks' = quirks
    BY <1>8 DEF FactStep, PublishFact, WithdrawFact
  <2> QED
    BY <1>0, <1>1, <1>2, <1>3, <1>4, <1>8, <2>1, FactImage DEF ImageInv
<1>9. CASE Restart
  <2>1. /\ quirks' = quirks /\ compatibility' = compatibility /\ registered' = registered
        /\ family' = family /\ families' = ReportedFamilies /\ schemas' = Catalog \cup schemas
    BY <1>9 DEF Restart, StagedSchemas
  <2>2. schemas' = schemas
    BY <1>1, <2>1 DEF SchemasOneToOne
  <2>3. families' = families /\ FamiliesReported'
    BY <1>1, <2>1 DEF FamiliesReported, ReportedFamilies
  <2> QED
    BY <1>0, <1>1, <1>3, <1>4, <2>1, <2>2, <2>3 DEF ImageInv
<1>10. CASE UNCHANGED knVars
  <2>1. /\ UNCHANGED deviceVars /\ schemas' = schemas /\ quirks' = quirks
        /\ compatibility' = compatibility
    BY <1>10 DEF knVars, knowledgeVars
  <2> QED
    BY <1>0, <1>1, <1>2, <1>3, <1>4, <2>1 DEF ImageInv
<1> QED
  BY <1>5, <1>6, <1>7, <1>8, <1>9, <1>10 DEF KnNext

\* The registry can always be started from what it would save, provided no report moves
\* a registered device to another family: the families are not in the image, and import
\* knows only those that the devices name (import_durable_state).
THEOREM ImageLoadsIfFamiliesStay ==
  KnSpec /\ DevicesKeepFamily => []KnowledgeSurvivesRestart
<1>1. ImageInv => KnowledgeSurvivesRestart
  <2> SUFFICES ASSUME ImageInv PROVE KnowledgeLoads
    BY DEF KnowledgeSurvivesRestart
  <2>1. /\ FactsResolve /\ FamiliesReported /\ SchemasOneToOne /\ QuirksBound
        /\ WithinLimit(quirks, MaxQuirks) /\ WithinLimit(compatibility, MaxFacts)
    BY DEF ImageInv
  <2>2. StagedSchemas = schemas /\ ReportedFamilies = families
    BY <2>1 DEF StagedSchemas, SchemasOneToOne, FamiliesReported
  <2>3. \A r : ReferenceResolves(r) => StagedResolves(r)
    BY <2>2 DEF ReferenceResolves, StagedResolves
  <2>4. \A id \in Occupied(compatibility) :
          StagedResolves(compatibility[id].lhs) /\ StagedResolves(compatibility[id].rhs)
    BY <2>1, <2>3 DEF FactsResolve
  <2>5. \A id \in Occupied(quirks) :
          quirks[id].impacted \subseteq {s.capability : s \in StagedSchemas}
    BY <2>1, <2>2 DEF QuirksBound, Bound
  <2>6. \A s, t \in StagedSchemas : (s.id = t.id \/ s.capability = t.capability) => s = t
    BY <2>1, <2>2 DEF SchemasOneToOne
  <2> QED
    BY <2>1, <2>2, <2>4, <2>5, <2>6 DEF KnowledgeLoads, FamiliesReported, WithinLimit
<1> QED
  BY <1>1, ImageInit, ImageStep, PTL DEF KnSpec, DevicesKeepFamily

====================================================================================
