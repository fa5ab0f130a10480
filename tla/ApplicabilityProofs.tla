--------------------------- MODULE ApplicabilityProofs ---------------------------
(***************************************************************************)
(* Proofs about devices and what applies to them, for any devices, software *)
(* identities, reports, quirks and version texts, and any bound on the      *)
(* counters: the generations of devices and software, the order in which    *)
(* quirks are gathered and cut off, what an unknown environment may change  *)
(* in a condition, and the order of versions.                               *)
(***************************************************************************)
EXTENDS Applicability, DeviceRegistryProofs, FiniteSetTheorems, SequenceTheorems

--------------------------------------------------------------------------------
(* Type correctness.                                                       *)

DeviceInv == TypeOK /\ BootFollowsGeneration

LEMMA DeviceInvInit == Init => DeviceInv
  BY SubjectInit DEF Init, DeviceInv, TypeOK, SubjectInv

LEMMA DeviceInvStep == DeviceInv /\ [Next]_vars => DeviceInv'
<1> SUFFICES ASSUME DeviceInv, [Next]_vars PROVE DeviceInv'
  OBVIOUS
<1>1. CASE Next
  <2> PICK d \in Devices, r \in Reports :
        /\ ReportDevice(d, r)
        /\ named' = named \cup
             {[device |-> d, axis |-> a, gen |-> axis_generation'[d][a],
               software |-> software'[d][a]] : a \in {b \in Axes : software'[d][b] # None}}
        /\ lives' = lives \cup
             {[device |-> d, gen |-> generation'[d], incarnation |-> r.incarnation]}
    BY <1>1 DEF Next, Recorded
  <2>1. r \in Report
    BY ReportsAssumption
  <2>2. DeviceTypeOK' /\ BootFollowsGeneration'
    BY ReportDeviceType DEF SubjectInv, DeviceInv, TypeOK
  <2>3. \A a \in Axes : software'[d][a] # None =>
          [device |-> d, axis |-> a, gen |-> axis_generation'[d][a],
           software |-> software'[d][a]]
            \in [device : Devices, axis : Axes, gen : Generations, software : SoftwareIds]
    BY <2>2 DEF DeviceTypeOK, Software
  <2>4. [device |-> d, gen |-> generation'[d], incarnation |-> r.incarnation]
          \in [device : Devices, gen : Generations, incarnation : Incarnations]
    BY <2>1, <2>2 DEF DeviceTypeOK, Report
  <2>5. named' \subseteq [device : Devices, axis : Axes, gen : Generations, software : SoftwareIds]
    BY <2>3 DEF DeviceInv, TypeOK
  <2>6. lives' \subseteq [device : Devices, gen : Generations, incarnation : Incarnations]
    BY <2>4 DEF DeviceInv, TypeOK
  <2> QED
    BY <2>2, <2>5, <2>6 DEF DeviceInv, TypeOK
<1>2. CASE UNCHANGED vars
  BY <1>2 DEF vars, deviceVars, DeviceInv, TypeOK, DeviceTypeOK, BootFollowsGeneration
<1> QED
  BY <1>1, <1>2

\* Every variable keeps its type, whatever adapters report and in whatever order
\* (DeviceState and the tables that apply_device_locked fills).
THEOREM DeviceTypeCorrect == Spec => []TypeOK
<1>1. DeviceInv => TypeOK
  BY DEF DeviceInv
<1> QED
  BY <1>1, DeviceInvInit, DeviceInvStep, PTL DEF Spec

--------------------------------------------------------------------------------
(* Axis generations.                                                       *)

\* What a device's axis was called in the past is behind its current generation, or
\* is what the current generation names; only registered devices have a past.
NamedIsBehind ==
  \A n \in named :
    /\ n.device \in registered
    /\ n.gen <= axis_generation[n.device][n.axis]
    /\ n.gen = axis_generation[n.device][n.axis] => n.software = software[n.device][n.axis]

AxisInv == DeviceInv /\ NamedIsBehind /\ AxisGenerationNamesOneSoftware

\* A step of one axis: the generation does not fall, and if it stays the software does.
LEMMA AxisMoves ==
  ASSUME DeviceInv, NEW d \in Devices, NEW r \in Report, RefreshDevice(d, r),
         NEW e \in Devices, NEW a \in Axes
  PROVE  /\ axis_generation[e][a] <= axis_generation'[e][a]
         /\ axis_generation'[e][a] = axis_generation[e][a] =>
              software'[e][a] = software[e][a]
<1> DEFINE merged == [b \in Axes |-> Merged(software[d][b], r.software[b])]
<1>1. /\ software \in [Devices -> [Axes -> Software]]
      /\ axis_generation \in [Devices -> [Axes -> Nat]]
  BY DeviceConstants DEF DeviceInv, TypeOK, DeviceTypeOK, Generations
<1>2. /\ software' = [software EXCEPT ![d] = merged]
      /\ axis_generation' = [axis_generation EXCEPT ![d] =
           [b \in Axes |-> Advanced(software[d][b], merged[b], axis_generation[d][b])]]
  BY DEF RefreshDevice
<1>3. CASE e = d
  <2>1. /\ software'[e][a] = Merged(software[d][a], r.software[a])
        /\ axis_generation'[e][a] =
             Advanced(software[d][a], Merged(software[d][a], r.software[a]), axis_generation[d][a])
    BY <1>1, <1>2, <1>3
  <2> QED
    BY <1>1, <1>3, <2>1 DEF Advanced, Merged
<1>4. CASE e # d
  BY <1>1, <1>2, <1>4
<1> QED
  BY <1>3, <1>4

\* After a report, what was named before is behind the generations it leads to.
LEMMA PastStaysBehind ==
  ASSUME AxisInv, NEW d \in Devices, NEW r \in Report,
         RegisterDevice(d, r) \/ RefreshDevice(d, r), NEW n \in named
  PROVE  /\ n.device \in registered'
         /\ n.gen <= axis_generation'[n.device][n.axis]
         /\ n.gen = axis_generation'[n.device][n.axis] =>
              n.software = software'[n.device][n.axis]
<1>1. /\ n.device \in Devices /\ n.axis \in Axes /\ n.gen \in Nat
      /\ n.device \in registered
      /\ n.gen <= axis_generation[n.device][n.axis]
      /\ n.gen = axis_generation[n.device][n.axis] =>
           n.software = software[n.device][n.axis]
  BY DEF AxisInv, DeviceInv, TypeOK, NamedIsBehind, Generations
<1>2. axis_generation \in [Devices -> [Axes -> Nat]] /\ software \in [Devices -> [Axes -> Software]]
  BY DeviceConstants DEF AxisInv, DeviceInv, TypeOK, DeviceTypeOK, Generations
<1>3. CASE RegisterDevice(d, r)
  BY <1>1, <1>2, <1>3 DEF RegisterDevice
<1>4. CASE RefreshDevice(d, r)
  <2> DEFINE old == axis_generation[n.device][n.axis]
             new == axis_generation'[n.device][n.axis]
  <2>1. /\ old <= new
        /\ new = old => software'[n.device][n.axis] = software[n.device][n.axis]
    BY <1>1, <1>4, AxisMoves DEF AxisInv
  <2>2. old \in Nat /\ new \in Nat
    BY <1>1, <1>2, <1>4, AdvancedIsNat DEF RefreshDevice
  <2>3. registered' = registered
    BY <1>4 DEF RefreshDevice
  <2> HIDE DEF old, new
  <2>4. n.gen <= new /\ (n.gen = new => new = old)
    BY <1>1, <2>1, <2>2 DEF old
  <2> QED
    BY <1>1, <2>1, <2>3, <2>4 DEF old, new
<1> QED
  BY <1>3, <1>4

LEMMA AxisInvStep == AxisInv /\ [Next]_vars => AxisInv'
<1> SUFFICES ASSUME AxisInv, [Next]_vars PROVE AxisInv'
  OBVIOUS
<1>0. DeviceInv'
  BY DeviceInvStep DEF AxisInv
<1>1. CASE Next
  <2> PICK d \in Devices, r \in Reports :
        /\ ReportDevice(d, r)
        /\ named' = named \cup
             {[device |-> d, axis |-> a, gen |-> axis_generation'[d][a],
               software |-> software'[d][a]] : a \in {b \in Axes : software'[d][b] # None}}
    BY <1>1 DEF Next, Recorded
  <2>1. r \in Report
    BY ReportsAssumption
  <2>2. ASSUME NEW n \in named
        PROVE  /\ n.device \in registered'
               /\ n.gen <= axis_generation'[n.device][n.axis]
               /\ n.gen = axis_generation'[n.device][n.axis] =>
                    n.software = software'[n.device][n.axis]
    BY <2>1, PastStaysBehind DEF ReportDevice
  <2>3. ASSUME NEW n \in named' \ named
        PROVE  /\ n.device = d /\ n.axis \in Axes /\ n.device \in registered'
               /\ n.gen = axis_generation'[n.device][n.axis]
               /\ n.software = software'[n.device][n.axis]
    BY DEF ReportDevice, RegisterDevice, RefreshDevice
  <2>4. axis_generation' \in [Devices -> [Axes -> Nat]]
    BY <1>0, DeviceConstants DEF DeviceInv, TypeOK, DeviceTypeOK, Generations
  <2>5. ASSUME NEW n \in named'
        PROVE  /\ n.device \in registered'
               /\ n.gen <= axis_generation'[n.device][n.axis]
               /\ n.gen = axis_generation'[n.device][n.axis] =>
                    n.software = software'[n.device][n.axis]
    BY <2>2, <2>3, <2>4
  <2>6. NamedIsBehind'
    BY <2>5 DEF NamedIsBehind
  <2>7. ASSUME NEW m \in named', NEW n \in named',
               m.device = n.device, m.axis = n.axis, m.gen = n.gen
        PROVE  m.software = n.software
    <3>1. CASE m \in named /\ n \in named
      BY <2>7, <3>1 DEF AxisInv, AxisGenerationNamesOneSoftware
    <3>2. CASE m \notin named \/ n \notin named
      BY <2>3, <2>5, <2>7, <3>2
    <3> QED
      BY <3>1, <3>2
  <2> QED
    BY <1>0, <2>6, <2>7 DEF AxisInv, AxisGenerationNamesOneSoftware
<1>2. CASE UNCHANGED vars
  BY <1>0, <1>2 DEF AxisInv, NamedIsBehind, AxisGenerationNamesOneSoftware, vars, deviceVars
<1> QED
  BY <1>1, <1>2

\* A driver, firmware or runtime generation never names two software identities, for
\* any reports in any order (advance_*_generation in apply_device_locked).
THEOREM AxisGenerationsAreNames == Spec => []AxisGenerationNamesOneSoftware
<1>1. Init => AxisInv
  BY DeviceInvInit DEF Init, AxisInv, NamedIsBehind, AxisGenerationNamesOneSoftware
<1>2. AxisInv => AxisGenerationNamesOneSoftware
  BY DEF AxisInv
<1> QED
  BY <1>1, <1>2, AxisInvStep, PTL DEF Spec

--------------------------------------------------------------------------------
(* Conditions.  The outcome of a node follows from the outcomes of its     *)
(* children, whose places are behind it, so what holds of every node once  *)
(* it holds of the nodes behind it holds of the tree.                      *)

Verdicts == {"satisfied", "unsatisfied", "unknown"}

\* old is new, or was not decided.
Settles(old, new) == old \in {"unknown", new}

(* The recursive function of evaluate_condition is what its definition     *)
(* says.                                                                   *)
LEMMA JudgedLocal ==
  ASSUME NEW tree, IsTree(tree), NEW env, NEW i \in DOMAIN tree, NEW f, NEW g,
         NodeValid(tree[i]), \A j \in (i + 1) .. Len(tree) : f[j] = g[j]
  PROVE  Judged(tree[i], f, env) = Judged(tree[i], g, env)
<1>1. tree[i].children \in Seq((i + 1) .. Len(tree))
  BY DEF IsTree
<1>2. \A k \in DOMAIN tree[i].children :
        f[tree[i].children[k]] = g[tree[i].children[k]]
  <2> DEFINE children == tree[i].children
  <2>1. \A k \in DOMAIN children : children[k] \in (i + 1) .. Len(tree)
    <3> HIDE DEF children
    <3> QED
      BY <1>1 DEF children
  <2> QED
    BY <2>1
<1>3. {f[tree[i].children[k]] : k \in DOMAIN tree[i].children}
        = {g[tree[i].children[k]] : k \in DOMAIN tree[i].children}
  BY <1>2
<1>4. tree[i].kind = "not" => 1 \in DOMAIN tree[i].children
  BY <1>1 DEF NodeValid, LogicalKinds
<1> QED
  BY <1>2, <1>3, <1>4 DEF Judged

LEMMA OutcomesExist ==
  ASSUME NEW tree, IsTree(tree), NEW env, \A i \in DOMAIN tree : NodeValid(tree[i])
  PROVE  Outcomes(tree, env) = [i \in DOMAIN tree |-> Judged(tree[i], Outcomes(tree, env), env)]
<1> DEFINE N == Len(tree)
           Upto(n, g) == g = [i \in (N - n + 1) .. N |-> Judged(tree[i], g, env)]
           S == {n \in Nat : n <= N => \E g : Upto(n, g)}
<1>1. N \in Nat /\ DOMAIN tree = 1 .. N
  BY DEF IsTree, IsSequence
<1> HIDE DEF N
<1>2. 0 \in S
  <2> DEFINE g == [i \in (N - 0 + 1) .. N |-> 0]
  <2>1. Upto(0, g)
    BY <1>1
  <2> QED
    BY <2>1
<1>3. ASSUME NEW n \in Nat, n \in S PROVE n + 1 \in S
  <2> SUFFICES ASSUME n + 1 <= N PROVE \E g : Upto(n + 1, g)
    OBVIOUS
  <2>1. PICK g : Upto(n, g)
    BY <1>1, <1>3
  <2> DEFINE m == N - n
             h == [i \in m .. N |-> IF i = m THEN Judged(tree[m], g, env) ELSE g[i]]
  <2>2. m \in 1 .. N /\ N - (n + 1) + 1 = m /\ N - n + 1 = m + 1
    BY <1>1
  <2>3. \A i \in (m + 1) .. N : h[i] = g[i]
    BY <1>1, <2>2
  <2>4. \A i \in (m + 1) .. N : g[i] = Judged(tree[i], g, env)
    <3> HIDE DEF m
    <3> QED
      BY <2>1, <2>2
  <2>5. ASSUME NEW i \in m .. N PROVE h[i] = Judged(tree[i], h, env)
    <3>1. i \in DOMAIN tree
      BY <1>1, <2>2
    <3>2. \A j \in (i + 1) .. N : g[j] = h[j]
      BY <1>1, <2>2, <2>3
    <3>3. Judged(tree[i], g, env) = Judged(tree[i], h, env)
      <4> HIDE DEF h, m
      <4> QED
        BY <3>1, <3>2, JudgedLocal DEF N
    <3>4. h[i] = Judged(tree[i], g, env)
      <4>1. CASE i = m
        BY <4>1
      <4>2. CASE i # m
        <5>1. i \in (m + 1) .. N
          BY <1>1, <2>2, <4>2
        <5> QED
          BY <5>1, <2>3, <2>4
      <4> QED
        BY <4>1, <4>2
    <3> QED
      BY <3>3, <3>4
  <2>6. h = [i \in m .. N |-> h[i]]
    OBVIOUS
  <2>7. Upto(n + 1, h)
    <3> HIDE DEF h, m
    <3> QED
      BY <2>2, <2>5, <2>6
  <2> QED
    <3> HIDE DEF h, Upto
    <3> QED
      BY <2>7
<1>4. N \in S
  <2> HIDE DEF S
  <2> QED
    BY <1>1, <1>2, <1>3, SetInduction
<1>5. \E g : g = [i \in DOMAIN tree |-> Judged(tree[i], g, env)]
  <2>1. PICK g : Upto(N, g)
    BY <1>1, <1>4
  <2>2. N - N + 1 = 1
    BY <1>1
  <2> QED
    BY <1>1, <2>1, <2>2
<1> QED
  BY <1>5 DEF Outcomes

(* What a leaf finds with some facts, it finds with more of them.          *)
LEMMA LeafSettles ==
  ASSUME NEW n, n.kind \in Kinds, n.kind \notin {"all_of", "any_of", "not"},
         NEW old, NEW env, MoreFacts(old, env)
  PROVE  /\ Leaf(n, old) \in Verdicts /\ Leaf(n, env) \in Verdicts
         /\ Settles(Leaf(n, old), Leaf(n, env))
<1>1. \A key : Find(old, key) = NoFact \/ Find(old, key) = Find(env, key)
  BY DEF MoreFacts, Find
<1>2. ASSUME NEW name, NEW key, name = "feature.gate."
      PROVE  <<name, key>> \in DOMAIN old <=> <<name, key>> \in DOMAIN env
  BY <1>2 DEF MoreFacts
<1>3. \A a, b, v : a = NoFact \/ a = b =>
        /\ VersionMinimum(a, v) \in Verdicts /\ VersionMinimum(b, v) \in Verdicts
        /\ Settles(VersionMinimum(a, v), VersionMinimum(b, v))
        /\ GenerationMinimum(a, v) \in Verdicts /\ GenerationMinimum(b, v) \in Verdicts
        /\ Settles(GenerationMinimum(a, v), GenerationMinimum(b, v))
        /\ Equality(a, v) \in Verdicts /\ Equality(b, v) \in Verdicts
        /\ Settles(Equality(a, v), Equality(b, v))
  BY DEF VersionMinimum, GenerationMinimum, Equality, Definite, Verdicts, Settles
<1>4. Definite(<<"feature.gate.", n.key>> \in DOMAIN old) \in Verdicts
  BY DEF Definite, Verdicts
<1>5. Definite(<<"feature.gate.", n.key>> \in DOMAIN old)
        = Definite(<<"feature.gate.", n.key>> \in DOMAIN env)
  BY <1>2 DEF Definite
<1>6. CASE n.kind = "always"
  <2>1. Leaf(n, old) = "satisfied" /\ Leaf(n, env) = "satisfied"
    BY <1>6 DEF Leaf, VersionFact, GenerationFact, EqualityFact
  <2> QED
    BY <2>1 DEF Verdicts, Settles
<1>7. CASE n.kind \in DOMAIN VersionFact
  <2>1. \A e : Leaf(n, e) = VersionMinimum(Find(e, <<VersionFact[n.kind], << >> >>), n.value)
    BY <1>7 DEF Leaf, VersionFact, GenerationFact, EqualityFact
  <2> QED
    BY <2>1, <1>1, <1>3
<1>8. CASE n.kind \in DOMAIN GenerationFact
  <2>1. \A e : Leaf(n, e) = GenerationMinimum(Find(e, <<GenerationFact[n.kind], << >> >>), n.value)
    BY <1>8 DEF Leaf, VersionFact, GenerationFact, EqualityFact
  <2> QED
    BY <2>1, <1>1, <1>3
<1>9. CASE n.kind \in DOMAIN EqualityFact
  <2>1. \A e : Leaf(n, e) = Equality(Find(e, <<EqualityFact[n.kind], << >> >>), n.value)
    BY <1>9 DEF Leaf, VersionFact, GenerationFact, EqualityFact
  <2> QED
    BY <2>1, <1>1, <1>3
<1>10. CASE n.kind = "required_platform_setting"
  <2>1. \A e : Leaf(n, e) = Equality(Find(e, <<"platform.setting.", n.key>>), n.value)
    BY <1>10 DEF Leaf, VersionFact, GenerationFact, EqualityFact
  <2> QED
    BY <2>1, <1>1, <1>3
<1>11. CASE n.kind = "required_feature_gate"
  <2>1. \A e : Leaf(n, e) = Definite(<<"feature.gate.", n.key>> \in DOMAIN e)
    BY <1>11 DEF Leaf, VersionFact, GenerationFact, EqualityFact
  <2> QED
    BY <2>1, <1>4, <1>5 DEF Settles
<1>12. n.kind \in {"always", "required_platform_setting", "required_feature_gate"}
                  \cup DOMAIN VersionFact \cup DOMAIN GenerationFact \cup DOMAIN EqualityFact
  BY DEF Kinds, LogicalKinds, ComparisonKinds, EqualityKinds, VersionFact, GenerationFact,
         EqualityFact
<1> QED
  BY <1>6, <1>7, <1>8, <1>9, <1>10, <1>11, <1>12

(* And so does a node whose children do.                                   *)
LEMMA JudgedSettles ==
  ASSUME NEW tree, IsTree(tree), NEW i \in DOMAIN tree, NodeValid(tree[i]),
         NEW old, NEW env, MoreFacts(old, env), NEW f, NEW g,
         \A j \in (i + 1) .. Len(tree) :
           f[j] \in Verdicts /\ g[j] \in Verdicts /\ Settles(f[j], g[j])
  PROVE  /\ Judged(tree[i], f, old) \in Verdicts /\ Judged(tree[i], g, env) \in Verdicts
         /\ Settles(Judged(tree[i], f, old), Judged(tree[i], g, env))
<1> DEFINE children == tree[i].children
           before == {f[children[k]] : k \in DOMAIN children}
           after == {g[children[k]] : k \in DOMAIN children}
<1>1. children \in Seq((i + 1) .. Len(tree)) /\ tree[i].kind \in Kinds
  BY DEF IsTree
<1>2. tree[i].kind = "not" => 1 \in DOMAIN children
  BY <1>1 DEF NodeValid, LogicalKinds
<1>3. \A k \in DOMAIN children :
        /\ f[children[k]] \in Verdicts /\ g[children[k]] \in Verdicts
        /\ Settles(f[children[k]], g[children[k]])
  <2>1. \A k \in DOMAIN children : children[k] \in (i + 1) .. Len(tree)
    <3> HIDE DEF children
    <3> QED
      BY <1>1
  <2> QED
    BY <2>1
<1>4. CASE tree[i].kind = "all_of"
  <2>1. Judged(tree[i], f, old) = AllOf(before) /\ Judged(tree[i], g, env) = AllOf(after)
    BY <1>4 DEF Judged
  <2>2. AllOf(before) \in Verdicts /\ AllOf(after) \in Verdicts
    BY DEF AllOf, Verdicts
  <2>3. "unsatisfied" \in before => "unsatisfied" \in after
    BY <1>3 DEF Settles
  <2>4. "unsatisfied" \notin before /\ "unknown" \notin before =>
          "unsatisfied" \notin after /\ "unknown" \notin after
    BY <1>3 DEF Settles, Verdicts
  <2>5. Settles(AllOf(before), AllOf(after))
    <3> HIDE DEF before, after
    <3> QED
      BY <2>3, <2>4 DEF AllOf, Settles
  <2> QED
    BY <2>1, <2>2, <2>5
<1>5. CASE tree[i].kind = "any_of"
  <2>1. Judged(tree[i], f, old) = AnyOf(before) /\ Judged(tree[i], g, env) = AnyOf(after)
    BY <1>5 DEF Judged
  <2>2. AnyOf(before) \in Verdicts /\ AnyOf(after) \in Verdicts
    BY DEF AnyOf, Verdicts
  <2>3. "satisfied" \in before => "satisfied" \in after
    BY <1>3 DEF Settles
  <2>4. "satisfied" \notin before /\ "unknown" \notin before =>
          "satisfied" \notin after /\ "unknown" \notin after
    BY <1>3 DEF Settles, Verdicts
  <2>5. Settles(AnyOf(before), AnyOf(after))
    <3> HIDE DEF before, after
    <3> QED
      BY <2>3, <2>4 DEF AnyOf, Settles
  <2> QED
    BY <2>1, <2>2, <2>5
<1>6. CASE tree[i].kind = "not"
  <2>1. /\ Judged(tree[i], f, old) = Negated(f[children[1]])
        /\ Judged(tree[i], g, env) = Negated(g[children[1]])
    BY <1>6 DEF Judged
  <2>2. /\ f[children[1]] \in Verdicts /\ g[children[1]] \in Verdicts
        /\ Settles(f[children[1]], g[children[1]])
    BY <1>2, <1>3, <1>6
  <2> HIDE DEF children
  <2> QED
    BY <2>1, <2>2 DEF Negated, Verdicts, Settles
<1>7. CASE tree[i].kind \notin {"all_of", "any_of", "not"}
  <2>1. Judged(tree[i], f, old) = Leaf(tree[i], old) /\ Judged(tree[i], g, env) = Leaf(tree[i], env)
    BY <1>7 DEF Judged
  <2> QED
    BY <1>1, <1>7, <2>1, LeafSettles
<1> QED
  BY <1>4, <1>5, <1>6, <1>7

(* evaluate_condition: what a valid tree has decided it keeps deciding when *)
(* facts are added, however its conditions are nested.                     *)
LEMMA EvaluateSettles ==
  ASSUME NEW tree, IsTree(tree), tree # << >>, \A i \in DOMAIN tree : NodeValid(tree[i]),
         NEW old, NEW env, MoreFacts(old, env)
  PROVE  /\ Evaluate(tree, old) \in Verdicts /\ Evaluate(tree, env) \in Verdicts
         /\ Settles(Evaluate(tree, old), Evaluate(tree, env))
<1> DEFINE N == Len(tree)
           F == Outcomes(tree, old)
           G == Outcomes(tree, env)
           Good(i) == F[i] \in Verdicts /\ G[i] \in Verdicts /\ Settles(F[i], G[i])
           S == {n \in Nat : \A i \in 1 .. N : N - i < n => Good(i)}
<1>1. N \in Nat /\ DOMAIN tree = 1 .. N
  BY DEF IsTree, IsSequence
<1>2. \A i \in DOMAIN tree :
        F[i] = Judged(tree[i], F, old) /\ G[i] = Judged(tree[i], G, env)
  <2>1. F = [i \in DOMAIN tree |-> Judged(tree[i], F, old)]
    BY OutcomesExist
  <2>2. G = [i \in DOMAIN tree |-> Judged(tree[i], G, env)]
    BY OutcomesExist
  <2> HIDE DEF F, G
  <2> QED
    BY <2>1, <2>2
<1> HIDE DEF F, G
<1>3. 0 \in S
  BY <1>1
<1>4. ASSUME NEW n \in Nat, n \in S PROVE n + 1 \in S
  <2> SUFFICES ASSUME NEW i \in 1 .. N, N - i < n + 1 PROVE Good(i)
    BY <1>1
  <2>1. \A j \in (i + 1) .. N : Good(j)
    BY <1>1, <1>4
  <2>2. /\ Judged(tree[i], F, old) \in Verdicts /\ Judged(tree[i], G, env) \in Verdicts
        /\ Settles(Judged(tree[i], F, old), Judged(tree[i], G, env))
    BY <1>1, <2>1, JudgedSettles
  <2> QED
    BY <1>1, <1>2, <2>2
<1>5. N \in S
  <2> HIDE DEF S
  <2> QED
    BY <1>1, <1>3, <1>4, SetInduction
<1>6. 1 \in 1 .. N /\ N - 1 < N
  <2>1. N # 0
    BY <1>1 DEF IsTree
  <2> QED
    BY <1>1, <2>1
<1>7. Good(1)
  BY <1>5, <1>6
<1> QED
  BY <1>7 DEF Evaluate, F, G

--------------------------------------------------------------------------------
(* Quirks.  What the selectors of a quirk have settled stays settled.      *)

\* A selector that fails goes on failing, and where all match all go on matching.
SelectorsSettle(old, new) ==
  /\ "fails" \in old => "fails" \in new
  /\ "fails" \notin old /\ "undecided" \notin old => "fails" \notin new /\ "undecided" \notin new

LEMMA HardwareSettles ==
  ASSUME NEW a, NEW old, NEW new, NoLessKnown(old, new)
  PROVE  SelectorsSettle(RevisionSelectors(a, old.hardware), RevisionSelectors(a, new.hardware))
<1> DEFINE h == old.hardware
           g == new.hardware
<1>1. h.architecture \in {None, g.architecture} /\ h.revision \in {<< >>, g.revision}
  BY DEF NoLessKnown
<1> HIDE DEF h, g
<1>2. SelectorsSettle({Selected(a.architectures, h.architecture # None, h.architecture \in a.architectures)},
                      {Selected(a.architectures, g.architecture # None, g.architecture \in a.architectures)})
  BY <1>1 DEF Selected, SelectorsSettle
<1>3. SelectorsSettle({Selected(a.revisions, h.revision # << >>, h.revision \in a.revisions)},
                      {Selected(a.revisions, g.revision # << >>, g.revision \in a.revisions)})
  BY <1>1 DEF Selected, SelectorsSettle
<1>4. SelectorsSettle({Selected(a.revision_ranges, h.revision # << >>, Between(h.revision, a.revision_ranges))},
                      {Selected(a.revision_ranges, g.revision # << >>, Between(g.revision, a.revision_ranges))})
  BY <1>1 DEF Selected, SelectorsSettle
<1>5. SelectorsSettle(RevisionSelectors(a, h), RevisionSelectors(a, g))
  BY <1>2, <1>3, <1>4 DEF RevisionSelectors, SelectorsSettle
<1> QED
  BY <1>5 DEF h, g

LEMMA SoftwareSettles ==
  ASSUME NEW a, NEW old, NEW new, NoLessKnown(old, new)
  PROVE  SelectorsSettle(SoftwareSelectors(a, old.versions), SoftwareSelectors(a, new.versions))
<1> DEFINE Choice(s, v) == Selected(a[s], v[s] # << >>, \E r \in a[s] : InRange(r, v[s]))
           h == old.versions
           g == new.versions
<1>1. \A s \in VersionSelectors : h[s] \in {<< >>, g[s]}
  BY DEF NoLessKnown, VersionSelectors, Axes
<1> HIDE DEF h, g
<1>2. \A s \in VersionSelectors : SelectorsSettle({Choice(s, h)}, {Choice(s, g)})
  BY <1>1 DEF Selected, SelectorsSettle
<1>3. /\ SoftwareSelectors(a, h) = {Choice(s, h) : s \in VersionSelectors}
      /\ SoftwareSelectors(a, g) = {Choice(s, g) : s \in VersionSelectors}
  BY DEF SoftwareSelectors
<1> HIDE DEF Choice
<1>4. SelectorsSettle(SoftwareSelectors(a, h), SoftwareSelectors(a, g))
  BY <1>2, <1>3 DEF SelectorsSettle
<1> QED
  BY <1>4 DEF h, g

LEMMA ConditionSettles ==
  ASSUME NEW a, IsTree(a.platform_conditions),
         a.platform_conditions # NoCondition => ValidateCondition(a.platform_conditions),
         NEW old, NEW env, MoreFacts(old, env)
  PROVE  SelectorsSettle({ConditionSelector(a, old)}, {ConditionSelector(a, env)})
<1>1. CASE a.platform_conditions = NoCondition
  <2>1. ConditionSelector(a, old) = "matches" /\ ConditionSelector(a, env) = "matches"
    BY <1>1 DEF ConditionSelector
  <2> QED
    BY <2>1 DEF SelectorsSettle
<1>2. CASE a.platform_conditions # NoCondition
  <2> DEFINE before == Evaluate(a.platform_conditions, old)
             after == Evaluate(a.platform_conditions, env)
  <2>1. before \in Verdicts /\ after \in Verdicts /\ Settles(before, after)
    BY <1>2, EvaluateSettles DEF ValidateCondition, NoCondition
  <2>2. /\ ConditionSelector(a, old) = CASE before = "unsatisfied" -> "fails"
                                         [] before = "unknown" -> "undecided"
                                         [] OTHER -> "matches"
        /\ ConditionSelector(a, env) = CASE after = "unsatisfied" -> "fails"
                                         [] after = "unknown" -> "undecided"
                                         [] OTHER -> "matches"
    BY <1>2 DEF ConditionSelector
  <2> HIDE DEF before, after
  <2> QED
    BY <2>1, <2>2 DEF Verdicts, Settles, SelectorsSettle
<1> QED
  BY <1>1, <1>2

(* evaluate_quirk.                                                         *)
LEMMA QuirkSettles ==
  ASSUME NEW i \in Accepted, NEW old, NEW new, old.id = new.id, NoLessKnown(old, new),
         NEW before, NEW env, MoreFacts(before, env)
  PROVE  EvaluateQuirk(Quirks[i], old, before) \in {"unknown", EvaluateQuirk(Quirks[i], new, env)}
<1> DEFINE a == Quirks[i].applicability
           Selectors(device, e) ==
             NamedSelectors(a, device) \cup RevisionSelectors(a, device.hardware)
               \cup SoftwareSelectors(a, device.versions) \cup {ConditionSelector(a, e)}
<1>1. IsTree(a.platform_conditions)
  BY ApplicabilityConstants DEF Accepted
<1>2. a.platform_conditions # NoCondition => ValidateCondition(a.platform_conditions)
  BY DEF Accepted, ValidQuirk, ValidApplicability
<1>3. NamedSelectors(a, old) = NamedSelectors(a, new)
  BY DEF NamedSelectors, NoLessKnown
<1>4. SelectorsSettle(RevisionSelectors(a, old.hardware), RevisionSelectors(a, new.hardware))
  BY HardwareSettles
<1>5. SelectorsSettle(SoftwareSelectors(a, old.versions), SoftwareSelectors(a, new.versions))
  BY SoftwareSettles
<1>6. SelectorsSettle({ConditionSelector(a, before)}, {ConditionSelector(a, env)})
  BY <1>1, <1>2, ConditionSettles
<1>7. SelectorsSettle(Selectors(old, before), Selectors(new, env))
  <2> HIDE DEF a
  <2> QED
    BY <1>3, <1>4, <1>5, <1>6 DEF SelectorsSettle
<1>8. \A device, e : EvaluateQuirk(Quirks[i], device, e) =
        IF "fails" \in Selectors(device, e) THEN "does_not_apply"
        ELSE IF "undecided" \in Selectors(device, e) THEN "unknown" ELSE "applies"
  BY DEF EvaluateQuirk
<1> HIDE DEF Selectors
<1> QED
  BY <1>7, <1>8 DEF SelectorsSettle

(* Learning settles questions and never reopens them: a quirk that was     *)
(* found to apply, or not to apply, is found so after any step that only   *)
(* adds knowledge of the device or facts of the caller, whatever its       *)
(* selectors and however its conditions are nested (evaluate_quirk,        *)
(* evaluate_condition).                                                    *)
THEOREM QuirksStaySettled == ApSpec => LearningSettles
<1>1. ASSUME NEW d \in registered, NEW old \in {Device(d)}, NEW new \in {Device(d)'},
             NEW env \in {facts'}, NoLessKnown(old, new), MoreFacts(facts, env),
             NEW i \in Accepted
      PROVE  EvaluateQuirk(Quirks[i], old, facts) \in {"unknown", EvaluateQuirk(Quirks[i], new, env)}
  <2>1. old.id = d /\ new.id = d
    BY DEF Device
  <2> QED
    BY <1>1, <2>1, QuirkSettles
<1>2. \A d \in registered : \A old \in {Device(d)}, new \in {Device(d)'}, env \in {facts'} :
        NoLessKnown(old, new) /\ MoreFacts(facts, env) =>
          \A i \in Accepted : EvaluateQuirk(Quirks[i], old, facts)
                               \in {"unknown", EvaluateQuirk(Quirks[i], new, env)}
  BY <1>1
<1> QED
  BY <1>2, PTL DEF LearningSettles

--------------------------------------------------------------------------------
(* The order of the answer.                                                *)

LEMMA QuirksFinite ==
  ASSUME NEW S, S \subseteq Accepted
  PROVE  IsFiniteSet(S) /\ Cardinality(S) \in Nat /\ S \subseteq Nat
<1>1. Accepted \subseteq 1 .. Len(Quirks) /\ Len(Quirks) \in Nat
  BY ApplicabilityConstants DEF Accepted, IsSequence
<1>2. IsFiniteSet(1 .. Len(Quirks))
  BY <1>1, FS_Interval
<1>3. IsFiniteSet(S)
  <2>1. S \in SUBSET (1 .. Len(Quirks))
    BY <1>1
  <2> QED
    BY <1>2, <2>1, FS_Subset
<1>4. S \subseteq Nat
  BY <1>1
<1> QED
  BY <1>3, <1>4, FS_CardinalityType

(* quirk_precedes is a strict total order.                                 *)
LEMMA PrecedesOrders ==
  ASSUME NEW i \in Accepted, NEW j \in Accepted, NEW k \in Accepted
  PROVE  /\ ~Precedes(i, i)
         /\ i # j => Precedes(i, j) \/ Precedes(j, i)
         /\ Precedes(i, j) /\ Precedes(j, k) => Precedes(i, k)
<1>1. /\ i \in Nat /\ j \in Nat /\ k \in Nat
      /\ Quirks[i].severity \in Nat /\ Quirks[j].severity \in Nat /\ Quirks[k].severity \in Nat
  BY ApplicabilityConstants, QuirksFinite DEF Accepted
<1> QED
  BY <1>1 DEF Precedes

Rank(S, i) == Cardinality({j \in S : Precedes(j, i)})

LEMMA RankGrows ==
  ASSUME NEW S, S \subseteq Accepted, NEW i \in S, NEW j \in S
  PROVE  /\ Rank(S, i) \in 0 .. Cardinality(S) - 1
         /\ Precedes(i, j) <=> Rank(S, i) < Rank(S, j)
         /\ Rank(S, i) = Rank(S, j) => i = j
<1> DEFINE P(x) == {y \in S : Precedes(y, x)}
<1>1. ASSUME NEW x \in S, NEW y \in S, Precedes(x, y)
      PROVE  Cardinality(P(x)) < Cardinality(P(y))
  <2>1. P(x) \cup {x} \subseteq P(y) /\ x \notin P(x)
    BY <1>1, PrecedesOrders
  <2>2. IsFiniteSet(P(x)) /\ Cardinality(P(x)) \in Nat
    BY QuirksFinite
  <2>3. IsFiniteSet(P(y)) /\ Cardinality(P(y)) \in Nat
    BY QuirksFinite
  <2> HIDE DEF P
  <2>4. Cardinality(P(x) \cup {x}) = Cardinality(P(x)) + 1
    BY <2>1, <2>2, FS_AddElement
  <2>5. Cardinality(P(x) \cup {x}) <= Cardinality(P(y))
    BY <2>1, <2>3, FS_Subset
  <2> QED
    BY <2>2, <2>3, <2>4, <2>5
<1>2. ASSUME NEW x \in S
      PROVE  Cardinality(P(x)) \in Nat /\ Cardinality(P(x)) < Cardinality(S)
  <2>1. P(x) \subseteq S /\ x \notin P(x)
    BY PrecedesOrders
  <2>2. IsFiniteSet(P(x)) /\ Cardinality(P(x)) \in Nat /\ IsFiniteSet(S) /\ Cardinality(S) \in Nat
    BY QuirksFinite
  <2> HIDE DEF P
  <2>3. Cardinality(P(x)) <= Cardinality(S) /\ Cardinality(P(x)) # Cardinality(S)
    BY <2>1, <2>2, FS_Subset
  <2> QED
    BY <2>2, <2>3
<1>3. i = j \/ Precedes(i, j) \/ Precedes(j, i)
  BY PrecedesOrders
<1>4. ~Precedes(i, i)
  BY PrecedesOrders
<1>5. Cardinality(S) \in Nat
  BY QuirksFinite
<1> HIDE DEF P
<1>6. /\ Cardinality(P(i)) \in 0 .. Cardinality(S) - 1
      /\ Precedes(i, j) <=> Cardinality(P(i)) < Cardinality(P(j))
      /\ Cardinality(P(i)) = Cardinality(P(j)) => i = j
  BY <1>1, <1>2, <1>3, <1>4, <1>5
<1> QED
  BY <1>6 DEF P, Rank

(* Sorted lists each quirk of the set, once and in order: the places and   *)
(* the ranks are equally many, so none is left over.                       *)
LEMMA SortedInOrder ==
  ASSUME NEW S, S \subseteq Accepted
  PROVE  /\ Sorted(S) \in Seq(S) /\ Len(Sorted(S)) = Cardinality(S)
         /\ \A i \in S : \E n \in 1 .. Cardinality(S) : Sorted(S)[n] = i
         /\ \A m, n \in 1 .. Cardinality(S) : m < n => Precedes(Sorted(S)[m], Sorted(S)[n])
<1> DEFINE c == Cardinality(S)
           T == 0 .. c - 1
           f == [i \in S |-> Rank(S, i)]
<1>1. c \in Nat /\ IsFiniteSet(S)
  BY QuirksFinite
<1>2. f \in [S -> T] /\ \A i, j \in S : f[i] = f[j] => i = j
  BY RankGrows
<1>3. IsFiniteSet(T) /\ Cardinality(T) = c
  <2> HIDE DEF c
  <2> QED
    BY <1>1, FS_Interval
<1>4. \A t \in T : \E i \in S : Rank(S, i) = t
  <2>1. f \in Injection(S, T)
    <3> HIDE DEF f, T
    <3> QED
      BY <1>2 DEF Injection, IsInjective
  <2>2. f \in Surjection(S, T)
    <3> HIDE DEF f, T
    <3> QED
      BY <2>1, <1>1, <1>3, FS_Injection
  <2>3. \A t \in T : \E i \in S : f[i] = t
    <3> HIDE DEF f, T
    <3> QED
      BY <2>2 DEF Surjection
  <2> QED
    BY <2>3
<1>5. Sorted(S) = [n \in 1 .. c |-> CHOOSE i \in S : Rank(S, i) = n - 1]
  BY DEF Sorted, Rank
<1>6. \A n \in 1 .. c : Sorted(S)[n] \in S /\ Rank(S, Sorted(S)[n]) = n - 1
  <2> HIDE DEF c
  <2> TAKE n \in 1 .. c
  <2>1. n - 1 \in T
    BY <1>1
  <2>2. \E i \in S : Rank(S, i) = n - 1
    BY <1>4, <2>1
  <2> QED
    BY <1>5, <2>2
<1> HIDE DEF c
<1>7. Sorted(S) \in [1 .. c -> S]
  BY <1>5, <1>6
<1>8. Sorted(S) \in Seq(S) /\ Len(Sorted(S)) = c
  BY <1>1, <1>7
<1>9. ASSUME NEW i \in S PROVE \E n \in 1 .. c : Sorted(S)[n] = i
  <2>1. Rank(S, i) \in T
    BY RankGrows DEF c
  <2>2. Rank(S, i) + 1 \in 1 .. c /\ (Rank(S, i) + 1) - 1 = Rank(S, i)
    BY <1>1, <2>1
  <2>3. Sorted(S)[Rank(S, i) + 1] = i
    BY <1>6, <2>2, RankGrows
  <2> QED
    BY <2>2, <2>3
<1>10. ASSUME NEW m \in 1 .. c, NEW n \in 1 .. c, m < n
       PROVE  Precedes(Sorted(S)[m], Sorted(S)[n])
  <2>1. Rank(S, Sorted(S)[m]) < Rank(S, Sorted(S)[n])
    BY <1>6, <1>10
  <2> QED
    BY <1>6, <2>1, RankGrows
<1> QED
  BY <1>8, <1>9, <1>10 DEF c

Found(results) == {i \in Accepted : ~Quirks[i].withdrawn /\ results[i] # "does_not_apply"}

(* A walk that stops short has filled the answer.                          *)
LEMMA GatheredAll ==
  ASSUME NEW results, Cardinality(Gathered(results)) < MaxResults
  PROVE  Gathered(results) = Found(results)
<1> DEFINE found == Found(results)
           Before(i) == {j \in found : j < i}
<1>1. Gathered(results) = {i \in found : Cardinality(Before(i)) < MaxResults}
  BY DEF Gathered, Found
<1>2. found \subseteq Accepted /\ found \subseteq Nat
  BY QuirksFinite DEF Found
<1> HIDE DEF found
<1> SUFFICES ASSUME found \ Gathered(results) # {} PROVE FALSE
  BY <1>1 DEF found
<1>3. PICK i \in found \ Gathered(results) : \A j \in found \ Gathered(results) : i <= j
  BY <1>2, LeastElement
<1>4. Before(i) \subseteq Gathered(results) /\ Gathered(results) \subseteq Accepted
  <2>1. ASSUME NEW j \in Before(i) PROVE j \in Gathered(results)
    <3>1. j \in Nat /\ i \in Nat /\ j < i /\ j \in found
      BY <1>2
    <3> QED
      BY <1>3, <3>1
  <2> QED
    BY <1>1, <1>2, <2>1
<1>5. /\ IsFiniteSet(Gathered(results)) /\ Cardinality(Gathered(results)) \in Nat
      /\ Cardinality(Before(i)) \in Nat
  BY <1>2, <1>4, QuirksFinite
<1>6. ~(Cardinality(Before(i)) < MaxResults)
  BY <1>1, <1>3
<1> HIDE DEF Before
<1>7. Cardinality(Before(i)) <= Cardinality(Gathered(results))
  BY <1>4, <1>5, FS_Subset
<1> QED
  BY <1>5, <1>6, <1>7, ApplicabilityConstants

(* gather_quirks_locked, whatever the outcomes are.                        *)
LEMMA GatherListsMostSevere ==
  ASSUME NEW results, Len(GatherQuirks(results)) < MaxResults,
         NEW i \in Accepted, ~Quirks[i].withdrawn, results[i] = "applies"
  PROVE  LET list == GatherQuirks(results)
         IN  /\ \E n \in DOMAIN list : list[n] = i
             /\ Quirks[list[1]].severity >= Quirks[i].severity
             /\ results[list[1]] = "applies"
<1> DEFINE G == Gathered(results)
           A == {j \in G : results[j] = "applies"}
           B == G \ A
           list == GatherQuirks(results)
<1>1. G \subseteq Accepted /\ A \subseteq Accepted /\ B \subseteq Accepted /\ A \subseteq G
  BY DEF Gathered
<1>2. list = Sorted(A) \o Sorted(B)
  BY DEF GatherQuirks
<1> HIDE DEF G, A, B, list
<1>3. /\ Sorted(A) \in Seq(A) /\ Len(Sorted(A)) = Cardinality(A)
      /\ Sorted(B) \in Seq(B) /\ Len(Sorted(B)) = Cardinality(B)
  BY <1>1, SortedInOrder
<1>4. IsFiniteSet(G) /\ Cardinality(G) \in Nat /\ Cardinality(A) \in Nat /\ Cardinality(B) \in Nat
  BY <1>1, QuirksFinite
<1>5. Cardinality(B) = Cardinality(G) - Cardinality(A)
  <2>1. G \cap A = A
    BY <1>1
  <2>2. Cardinality(G \ A) = Cardinality(G) - Cardinality(G \cap A)
    BY <1>4, FS_Difference
  <2> QED
    BY <2>1, <2>2 DEF B
<1>6. Sorted(A) \in Seq(Accepted) /\ Sorted(B) \in Seq(Accepted)
  <2>1. \A S : S \subseteq Accepted => Seq(S) \subseteq Seq(Accepted)
    OBVIOUS
  <2> QED
    BY <1>1, <1>3, <2>1
<1>7. /\ list \in Seq(Accepted) /\ Len(list) = Cardinality(A) + Cardinality(B)
      /\ \A n \in 1 .. Cardinality(A) : list[n] = Sorted(A)[n]
  <2> DEFINE s == Sorted(A)
             t == Sorted(B)
  <2>1. s \in Seq(Accepted) /\ t \in Seq(Accepted) /\ Len(s) = Cardinality(A) /\ Len(t) = Cardinality(B)
    BY <1>3, <1>6
  <2> HIDE DEF s, t
  <2>2. /\ s \o t \in Seq(Accepted) /\ Len(s \o t) = Len(s) + Len(t)
        /\ \A m \in 1 .. Len(s) : (s \o t)[m] = s[m]
    BY <2>1
  <2> QED
    BY <1>2, <2>1, <2>2 DEF s, t
<1>8. G = Found(results)
  <2>1. Cardinality(G) = Len(list)
    BY <1>4, <1>5, <1>7
  <2> QED
    BY <2>1, GatheredAll DEF G, list
<1>9. i \in A
  BY <1>8 DEF A, Found
<1>10. PICK n \in 1 .. Cardinality(A) : Sorted(A)[n] = i
  BY <1>1, <1>9, SortedInOrder
<1>11. n \in DOMAIN list /\ list[n] = i
  BY <1>4, <1>7, <1>10
<1>12. 1 \in 1 .. Cardinality(A)
  BY <1>4, <1>10
<1>13. list[1] \in A
  BY <1>3, <1>4, <1>7, <1>12
<1>14. list[1] = i \/ Precedes(list[1], i)
  <2>1. n = 1 \/ 1 < n
    BY <1>4, <1>10
  <2>2. 1 < n => Precedes(Sorted(A)[1], Sorted(A)[n])
    BY <1>1, <1>10, <1>12, SortedInOrder
  <2> QED
    BY <2>1, <2>2, <1>7, <1>10, <1>12
<1>15. Quirks[list[1]].severity >= Quirks[i].severity
  <2>1. Quirks[list[1]].severity \in Nat /\ Quirks[i].severity \in Nat
    BY <1>1, <1>13, ApplicabilityConstants DEF Accepted
  <2> QED
    BY <1>14, <2>1 DEF Precedes
<1>16. results[list[1]] = "applies"
  BY <1>13 DEF A
<1> QED
  BY <1>11, <1>15, <1>16 DEF list

(* The quirk that decides effective support is the one listed first:       *)
(* nothing that applies is left out or comes after something less severe,  *)
(* unless the answer is full (gather_quirks_locked).                       *)
THEOREM MostSevereFirst == ApSpec => []MostSevereDecides
<1>1. MostSevereDecides
  BY GatherListsMostSevere DEF MostSevereDecides
<1> QED
  BY <1>1, PTL

--------------------------------------------------------------------------------
(* Versions.  Parsing what was printed gives the numbers back, each        *)
(* clipped to the type's largest and as many as are kept.                  *)

\* One step of Decimal, from the texts f of smaller numbers.
DecimalStep(f, n) == IF n < 10 THEN <<n>> ELSE Append(f[n \div 10], n % 10)

LEMMA TenTimes ==
  ASSUME NEW n \in Nat
  PROVE  /\ n \div 10 \in Nat /\ n % 10 \in Digits /\ n = 10 * (n \div 10) + (n % 10)
         /\ n >= 10 => n \div 10 < n
<1>1. n \div 10 \in Nat
  OBVIOUS
<1>2. n % 10 \in Digits
  BY DEF Digits
<1>3. n = 10 * (n \div 10) + (n % 10)
  OBVIOUS
<1>4. n >= 10 => n \div 10 < n
  OBVIOUS
<1> QED
  BY <1>1, <1>2, <1>3, <1>4

(* The recursive function Decimal is what its definition says.             *)
LEMMA DecimalDef ==
  ASSUME NEW n \in Nat
  PROVE  Decimal[n] = IF n < 10 THEN <<n>> ELSE Append(Decimal[n \div 10], n % 10)
<1> DEFINE Upto(k, g) == g = [m \in 0 .. k |-> DecimalStep(g, m)]
           S == {k \in Nat : \E g : Upto(k, g)}
<1>1. \A k \in Nat : \A g : Upto(k, g) => \A m \in 0 .. k : g[m] = DecimalStep(g, m)
  OBVIOUS
<1>2. 0 \in S
  <2> DEFINE g == [m \in 0 .. 0 |-> <<0>>]
  <2>1. \A m \in 0 .. 0 : m = 0 /\ m < 10
    OBVIOUS
  <2>2. Upto(0, g)
    BY <2>1 DEF DecimalStep
  <2> QED
    BY <2>2
<1>3. ASSUME NEW k \in Nat, k \in S PROVE k + 1 \in S
  <2>1. PICK g : Upto(k, g)
    BY <1>3
  <2> DEFINE h == [m \in 0 .. k + 1 |-> IF m = k + 1 THEN DecimalStep(g, m) ELSE g[m]]
  <2>2. ASSUME NEW m \in 0 .. k + 1 PROVE h[m] = DecimalStep(h, m)
    <3>1. h[m] = DecimalStep(g, m)
      <4>1. CASE m = k + 1
        BY <4>1
      <4>2. CASE m # k + 1
        <5>1. m \in 0 .. k
          BY <4>2
        <5> QED
          BY <4>2, <5>1, <2>1, <1>1
      <4> QED
        BY <4>1, <4>2
    <3>2. m >= 10 => m \div 10 \in 0 .. k
      BY TenTimes
    <3>3. m >= 10 => h[m \div 10] = g[m \div 10]
      BY <3>2
    <3> HIDE DEF h
    <3> QED
      BY <3>1, <3>3 DEF DecimalStep
  <2>3. h = [m \in 0 .. k + 1 |-> h[m]]
    OBVIOUS
  <2>4. Upto(k + 1, h)
    <3> HIDE DEF h
    <3> QED
      BY <2>2, <2>3
  <2>5. \E f : Upto(k + 1, f)
    <3> HIDE DEF h, Upto
    <3> QED
      BY <2>4
  <2> QED
    BY <2>5
<1>4. \A k \in Nat : \E g : Upto(k, g)
  <2>1. Nat \subseteq S
    <3> HIDE DEF S
    <3> QED
      BY <1>2, <1>3, SetInduction
  <2> QED
    BY <2>1
<1>5. ASSUME NEW k \in Nat, NEW l \in Nat, NEW g, NEW h, Upto(k, g), Upto(l, h),
             NEW m \in Nat, m <= k, m <= l
      PROVE  g[m] = h[m]
  <2> DEFINE T == {i \in Nat : i <= k /\ i <= l /\ g[i] # h[i]}
  <2> SUFFICES ASSUME T # {} PROVE FALSE
    BY <1>5
  <2>1. PICK i \in T : \A j \in T : i <= j
    BY LeastElement
  <2>2. g[i] = DecimalStep(g, i) /\ h[i] = DecimalStep(h, i)
    <3>1. i \in 0 .. k /\ i \in 0 .. l
      OBVIOUS
    <3> HIDE DEF Upto
    <3> QED
      BY <1>1, <1>5, <3>1
  <2>3. i >= 10 => g[i \div 10] = h[i \div 10]
    <3>1. i >= 10 => i \div 10 \in Nat /\ i \div 10 < i
      BY TenTimes
    <3> QED
      BY <2>1, <3>1
  <2> QED
    BY <2>2, <2>3 DEF DecimalStep
<1> DEFINE f == [k \in Nat |-> (CHOOSE g : Upto(k, g))[k]]
<1>6. ASSUME NEW k \in Nat PROVE f[k] = DecimalStep(f, k)
  <2> DEFINE g == CHOOSE g : Upto(k, g)
  <2>1. Upto(k, g)
    BY <1>4, Zenon
  <2>2. f[k] = g[k]
    OBVIOUS
  <2>3. g[k] = DecimalStep(g, k)
    <3> HIDE DEF g
    <3> QED
      BY <1>1, <2>1
  <2>4. k >= 10 => g[k \div 10] = f[k \div 10]
    <3> SUFFICES ASSUME k >= 10 PROVE g[k \div 10] = f[k \div 10]
      OBVIOUS
    <3> DEFINE q == k \div 10
               e == CHOOSE e : Upto(q, e)
    <3>1. q \in Nat /\ q <= k /\ q <= q
      BY TenTimes
    <3> HIDE DEF q
    <3>2. Upto(q, e)
      BY <1>4, <3>1, Zenon
    <3>3. f[q] = e[q]
      BY <3>1
    <3> HIDE DEF e, g, Upto, f
    <3>4. g[q] = e[q]
      BY <1>5, <2>1, <3>1, <3>2
    <3> QED
      BY <3>3, <3>4 DEF q
  <2> HIDE DEF f, g
  <2> QED
    BY <2>2, <2>3, <2>4 DEF DecimalStep
<1>7. f = [k \in Nat |-> DecimalStep(f, k)]
  <2>1. f = [k \in Nat |-> f[k]]
    OBVIOUS
  <2> HIDE DEF f
  <2> QED
    BY <1>6, <2>1
<1>8. \E e : e = [k \in Nat |-> IF k < 10 THEN <<k>> ELSE Append(e[k \div 10], k % 10)]
  <2> HIDE DEF f
  <2> QED
    BY <1>7 DEF DecimalStep
<1>9. Decimal = [k \in Nat |-> IF k < 10 THEN <<k>> ELSE Append(Decimal[k \div 10], k % 10)]
  BY <1>8 DEF Decimal
<1> QED
  BY <1>9

(* The loop of SoftwareVersion::parse.                                     *)
LEMMA ScanDef ==
  ASSUME NEW text, Len(text) \in Nat
  PROVE  /\ Scan(text)[0] = [components |-> << >>, open |-> FALSE]
         /\ \A n \in Nat : n + 1 <= Len(text) =>
              Scan(text)[n + 1] = Scanned(Scan(text)[n], text[n + 1])
<1> DEFINE base == [components |-> << >>, open |-> FALSE]
           Upto(n, g) == g = [m \in 0 .. n |-> IF m = 0 THEN base ELSE Scanned(g[m - 1], text[m])]
           S == {n \in Nat : \E g : Upto(n, g)}
<1>1. 0 \in S
  <2> DEFINE g == [m \in 0 .. 0 |-> base]
  <2>1. Upto(0, g)
    OBVIOUS
  <2> QED
    BY <2>1
<1>2. ASSUME NEW n \in Nat, n \in S PROVE n + 1 \in S
  <2>1. PICK g : Upto(n, g)
    BY <1>2
  <2> DEFINE h == [m \in 0 .. n + 1 |-> IF m = n + 1 THEN Scanned(g[n], text[n + 1]) ELSE g[m]]
  <2>2. ASSUME NEW m \in 0 .. n + 1
        PROVE  h[m] = IF m = 0 THEN base ELSE Scanned(h[m - 1], text[m])
    <3> HIDE DEF base
    <3>1. CASE m = n + 1
      <4>1. h[m] = Scanned(g[n], text[n + 1]) /\ h[n] = g[n] /\ m # 0 /\ m - 1 = n
        BY <3>1
      <4> QED
        BY <4>1, <3>1
    <3>2. CASE m # n + 1
      <4>1. h[m] = g[m] /\ m \in 0 .. n
        BY <3>2
      <4>2. m # 0 => h[m - 1] = g[m - 1]
        BY <3>2
      <4>3. g[m] = IF m = 0 THEN base ELSE Scanned(g[m - 1], text[m])
        BY <2>1, <4>1
      <4> QED
        BY <4>1, <4>2, <4>3
    <3> QED
      BY <3>1, <3>2
  <2>3. Upto(n + 1, h)
    <3> HIDE DEF base
    <3>1. h = [m \in 0 .. n + 1 |-> h[m]]
      OBVIOUS
    <3> HIDE DEF h
    <3> QED
      BY <2>2, <3>1
  <2>4. n + 1 \in Nat
    OBVIOUS
  <2>5. \E f : Upto(n + 1, f)
    <3> HIDE DEF Upto
    <3> QED
      BY <2>3
  <2> QED
    BY <2>4, <2>5, Zenon
<1>3. Len(text) \in S
  <2> HIDE DEF S
  <2> QED
    BY <1>1, <1>2, SetInduction
<1>4. Upto(Len(text), Scan(text))
  BY <1>3 DEF Scan
<1> DEFINE T == Scan(text)
<1> HIDE DEF base, T
<1>5. T[0] = base
  BY <1>4 DEF T
<1>6. ASSUME NEW n \in Nat, n + 1 <= Len(text) PROVE T[n + 1] = Scanned(T[n], text[n + 1])
  <2>1. n + 1 \in 0 .. Len(text) /\ n + 1 # 0 /\ (n + 1) - 1 = n
    BY <1>6
  <2> QED
    BY <1>4, <2>1 DEF T
<1> QED
  BY <1>5, <1>6 DEF T, base

(* The loop has only looked at the characters it has passed.               *)
LEMMA ScanLocal ==
  ASSUME NEW t, NEW u, Len(t) \in Nat, Len(u) \in Nat, NEW n \in Nat, n <= Len(t), n <= Len(u),
         \A i \in 1 .. n : t[i] = u[i]
  PROVE  Scan(t)[n] = Scan(u)[n]
<1> DEFINE S == {k \in Nat : k <= n => Scan(t)[k] = Scan(u)[k]}
<1>1. 0 \in S
  BY ScanDef
<1>2. ASSUME NEW k \in Nat, k \in S PROVE k + 1 \in S
  <2> SUFFICES ASSUME k + 1 <= n PROVE Scan(t)[k + 1] = Scan(u)[k + 1]
    OBVIOUS
  <2>1. Scan(t)[k] = Scan(u)[k] /\ t[k + 1] = u[k + 1]
    BY <1>2
  <2>2. k + 1 <= Len(t) /\ k + 1 <= Len(u)
    OBVIOUS
  <2> QED
    BY <2>1, <2>2, ScanDef
<1>3. n \in S
  <2> HIDE DEF S
  <2> QED
    BY <1>1, <1>2, SetInduction
<1> QED
  BY <1>3

Characters == Digits \cup {Separator}

\* Where the loop has come to at the end of a text.
Final(text) == Scan(text)[Len(text)]

LEMMA FinalEmpty == Final(<< >>) = [components |-> << >>, open |-> FALSE]
  BY ScanDef DEF Final

LEMMA FinalAppend ==
  ASSUME NEW t \in Seq(Characters), NEW c \in Characters
  PROVE  Final(Append(t, c)) = Scanned(Final(t), c)
<1> DEFINE u == Append(t, c)
           n == Len(t)
<1>1. n \in Nat /\ Len(u) = n + 1 /\ u[n + 1] = c /\ \A i \in 1 .. n : t[i] = u[i]
  OBVIOUS
<1> HIDE DEF u
<1>2. Scan(u)[n] = Scan(t)[n]
  <2>1. n <= Len(t) /\ n <= Len(u) /\ Len(u) \in Nat
    BY <1>1
  <2> HIDE DEF n
  <2> QED
    BY <1>1, <2>1, ScanLocal DEF n
<1>3. Scan(u)[n + 1] = Scanned(Scan(u)[n], u[n + 1])
  <2>1. Len(u) \in Nat /\ n + 1 <= Len(u)
    BY <1>1
  <2> HIDE DEF n
  <2> QED
    BY <1>1, <2>1, ScanDef
<1> QED
  BY <1>1, <1>2, <1>3 DEF Final, u

Clipped(n) == IF n > MaxComponent THEN MaxComponent ELSE n

LEMMA NextDigitClips ==
  ASSUME NEW q \in Nat, NEW d \in Digits
  PROVE  NextDigit(Clipped(q), d) = Clipped(10 * q + d)
<1>1. MaxComponent \in Nat /\ MaxComponent > 9 /\ d \in Nat /\ d <= 9
  BY ConditionConstants DEF Digits
<1> DEFINE r == (MaxComponent - d) \div 10
<1>2. r \in Int /\ 10 * r <= MaxComponent - d /\ MaxComponent - d < 10 * r + 10
  BY <1>1
<1> HIDE DEF r
<1>3. r < MaxComponent
  BY <1>1, <1>2
<1>4. CASE q > MaxComponent
  <2>1. Clipped(q) = MaxComponent /\ Clipped(10 * q + d) = MaxComponent
    BY <1>1, <1>4 DEF Clipped
  <2>2. NextDigit(MaxComponent, d) = MaxComponent
    BY <1>3 DEF NextDigit, r
  <2> QED
    BY <2>1, <2>2
<1>5. CASE q <= MaxComponent
  <2>1. Clipped(q) = q
    BY <1>1, <1>5 DEF Clipped
  <2>2. NextDigit(q, d) = IF q > r THEN MaxComponent ELSE q * 10 + d
    BY DEF NextDigit, r
  <2>3. q > r <=> 10 * q + d > MaxComponent
    BY <1>1, <1>2
  <2>4. q * 10 + d = 10 * q + d
    BY <1>1
  <2> QED
    BY <2>1, <2>2, <2>3, <2>4 DEF Clipped
<1> QED
  BY <1>1, <1>4, <1>5

LEMMA DecimalText ==
  ASSUME NEW n \in Nat
  PROVE  Decimal[n] \in Seq(Characters) /\ Decimal[n] # << >>
<1> DEFINE T == {m \in Nat : ~(Decimal[m] \in Seq(Characters) /\ Decimal[m] # << >>)}
<1> SUFFICES ASSUME T # {} PROVE FALSE
  OBVIOUS
<1>1. PICK m \in T : \A k \in T : m <= k
  BY LeastElement
<1>d. Decimal[m] = IF m < 10 THEN <<m>> ELSE Append(Decimal[m \div 10], m % 10)
  <2>1. m \in Nat
    OBVIOUS
  <2> HIDE DEF T
  <2> QED
    BY <2>1, DecimalDef, Zenon
<1>2. CASE m < 10
  <2>1. Decimal[m] = <<m>>
    BY <1>2, <1>d
  <2>2. m \in Characters
    BY <1>2 DEF Characters, Digits
  <2>3. <<m>> \in Seq(Characters) /\ <<m>> # << >>
    BY <2>2
  <2> QED
    BY <2>1, <2>3
<1>3. CASE m >= 10
  <2> DEFINE q == m \div 10
             d == m % 10
  <2>1. Decimal[m] = Append(Decimal[q], d)
    BY <1>3, <1>d
  <2>2. q \in Nat /\ q < m /\ d \in Characters
    BY <1>3, TenTimes DEF Characters
  <2> HIDE DEF q, d
  <2>3. Decimal[q] \in Seq(Characters)
    BY <1>1, <2>2
  <2>4. Append(Decimal[q], d) \in Seq(Characters) /\ Append(Decimal[q], d) # << >>
    BY <2>2, <2>3
  <2> QED
    BY <2>1, <2>4
<1> QED
  BY <1>2, <1>3

\* What the loop makes of one more number after a closed component.
WithNumber(components, n) ==
  IF Len(components) < MaxComponents
  THEN [components |-> Append(components, Clipped(n)), open |-> TRUE]
  ELSE [components |-> components, open |-> FALSE]

LEMMA ScanNumber ==
  ASSUME NEW t \in Seq(Characters), NEW cs \in Seq(Nat),
         Final(t) = [components |-> cs, open |-> FALSE], NEW n \in Nat
  PROVE  Final(t \o Decimal[n]) = WithNumber(cs, n)
<1> DEFINE T == {m \in Nat : Final(t \o Decimal[m]) # WithNumber(cs, m)}
<1> SUFFICES ASSUME T # {} PROVE FALSE
  OBVIOUS
<1>1. PICK m \in T : \A k \in T : m <= k
  BY LeastElement
<1>2. MaxComponent \in Nat /\ MaxComponent > 9 /\ MaxComponents \in Nat /\ Len(cs) \in Nat
  BY ConditionConstants
<1>d. Decimal[m] = IF m < 10 THEN <<m>> ELSE Append(Decimal[m \div 10], m % 10)
  <2>1. m \in Nat
    OBVIOUS
  <2> HIDE DEF T
  <2> QED
    BY <2>1, DecimalDef, Zenon
<1>3. CASE m < 10
  <2>0. Decimal[m] = <<m>>
    BY <1>3, <1>d
  <2>1. Decimal[m] = <<m>> /\ m \in Digits /\ m \in Characters /\ Clipped(m) = m
    BY <1>2, <1>3, <2>0 DEF Characters, Digits, Clipped
  <2>2. t \o <<m>> = Append(t, m)
    BY <2>1
  <2>3. Final(t \o Decimal[m]) = Scanned([components |-> cs, open |-> FALSE], m)
    BY <2>1, <2>2, FinalAppend
  <2>4. Scanned([components |-> cs, open |-> FALSE], m) = WithNumber(cs, m)
    BY <2>1 DEF Scanned, WithNumber
  <2> QED
    BY <2>3, <2>4
<1>4. CASE m >= 10
  <2> DEFINE q == m \div 10
             d == m % 10
             D == Decimal[q]
  <2>1. Decimal[m] = Append(D, d)
    BY <1>4, <1>d
  <2>2. q \in Nat /\ q < m /\ d \in Digits /\ d \in Characters /\ m = 10 * q + d
    BY <1>4, TenTimes DEF Characters
  <2> HIDE DEF q, d
  <2>3. D \in Seq(Characters)
    BY <2>2, DecimalText
  <2>4. Final(t \o D) = WithNumber(cs, q)
    BY <1>1, <2>2
  <2> HIDE DEF D
  <2>5. t \o Append(D, d) = Append(t \o D, d) /\ t \o D \in Seq(Characters)
    BY <2>2, <2>3
  <2>6. Final(t \o Decimal[m]) = Scanned(WithNumber(cs, q), d)
    BY <2>1, <2>2, <2>4, <2>5, FinalAppend
  <2>7. Scanned(WithNumber(cs, q), d) = WithNumber(cs, m)
    <3>1. CASE Len(cs) < MaxComponents
      <4> DEFINE a == Clipped(q)
                 b == Clipped(m)
      <4>1. NextDigit(a, d) = b
        BY <2>2, NextDigitClips
      <4>2. a \in Nat /\ b \in Nat
        BY <1>2, <2>2 DEF Clipped
      <4>3. WithNumber(cs, q) = [components |-> Append(cs, a), open |-> TRUE]
        BY <3>1 DEF WithNumber
      <4>4. WithNumber(cs, m) = [components |-> Append(cs, b), open |-> TRUE]
        BY <3>1 DEF WithNumber
      <4> HIDE DEF a, b
      <4>5. Len(Append(cs, a)) = Len(cs) + 1 /\ Append(cs, a)[Len(cs) + 1] = a
        BY <4>2
      <4>6. [Append(cs, a) EXCEPT ![Len(cs) + 1] = b] = Append(cs, b)
        <5> DEFINE u == Append(cs, a)
                   v == Append(cs, b)
                   w == [u EXCEPT ![Len(cs) + 1] = b]
        <5>1. /\ u \in Seq(Nat) /\ Len(u) = Len(cs) + 1 /\ \A i \in 1 .. Len(cs) : u[i] = cs[i]
              /\ v \in Seq(Nat) /\ Len(v) = Len(cs) + 1 /\ \A i \in 1 .. Len(cs) : v[i] = cs[i]
              /\ v[Len(cs) + 1] = b
          BY <4>2, AppendProperties
        <5> HIDE DEF u, v
        <5>2. Len(cs) + 1 \in 1 .. Len(u)
          BY <1>2, <5>1
        <5>3. /\ w \in Seq(Nat) /\ Len(w) = Len(u)
              /\ \A i \in 1 .. Len(u) : w[i] = IF i = Len(cs) + 1 THEN b ELSE u[i]
          BY <4>2, <5>1, <5>2, ExceptSeq
        <5> HIDE DEF w
        <5>5. ASSUME NEW i \in 1 .. Len(w) PROVE w[i] = v[i]
          <6>1. i \in 1 .. Len(u)
            BY <5>3
          <6>2. i = Len(cs) + 1 \/ (i # Len(cs) + 1 /\ i \in 1 .. Len(cs))
            BY <1>2, <5>1, <6>1
          <6>3. w[i] = IF i = Len(cs) + 1 THEN b ELSE u[i]
            BY <5>3, <6>1
          <6> QED
            BY <5>1, <6>2, <6>3
        <5>4. w = v
          BY <5>1, <5>3, <5>5, SeqEqual
        <5> QED
          BY <5>4 DEF u, v, w
      <4>7. Scanned([components |-> Append(cs, a), open |-> TRUE], d)
              = [components |-> [Append(cs, a) EXCEPT ![Len(cs) + 1] = NextDigit(a, d)], open |-> TRUE]
        BY <2>2, <4>5 DEF Scanned
      <4> QED
        BY <4>1, <4>3, <4>4, <4>6, <4>7
    <3>2. CASE ~(Len(cs) < MaxComponents)
      BY <2>2, <3>2 DEF WithNumber, Scanned
    <3> QED
      BY <3>1, <3>2
  <2> QED
    BY <2>6, <2>7
<1> QED
  BY <1>2, <1>3, <1>4

(* The text of a list of numbers.                                          *)
LEMMA TextsDef ==
  ASSUME NEW l, Len(l) \in Nat
  PROVE  /\ Texts(l)[0] = << >>
         /\ \A n \in Nat : n + 1 <= Len(l) => Texts(l)[n + 1] = Joined(Texts(l)[n], l[n + 1])
<1> DEFINE Upto(n, g) == g = [m \in 0 .. n |-> IF m = 0 THEN << >> ELSE Joined(g[m - 1], l[m])]
           S == {n \in Nat : \E g : Upto(n, g)}
<1>1. 0 \in S
  <2> DEFINE g == [m \in 0 .. 0 |-> << >>]
  <2>1. Upto(0, g)
    OBVIOUS
  <2> QED
    BY <2>1
<1>2. ASSUME NEW n \in Nat, n \in S PROVE n + 1 \in S
  <2>1. PICK g : Upto(n, g)
    BY <1>2
  <2> DEFINE h == [m \in 0 .. n + 1 |-> IF m = n + 1 THEN Joined(g[n], l[n + 1]) ELSE g[m]]
  <2>2. ASSUME NEW m \in 0 .. n + 1
        PROVE  h[m] = IF m = 0 THEN << >> ELSE Joined(h[m - 1], l[m])
    <3>1. CASE m = n + 1
      <4>1. h[m] = Joined(g[n], l[n + 1]) /\ h[n] = g[n] /\ m # 0 /\ m - 1 = n
        BY <3>1
      <4> QED
        BY <4>1, <3>1
    <3>2. CASE m # n + 1
      <4>1. h[m] = g[m] /\ m \in 0 .. n
        BY <3>2
      <4>2. m # 0 => h[m - 1] = g[m - 1]
        BY <3>2
      <4>3. g[m] = IF m = 0 THEN << >> ELSE Joined(g[m - 1], l[m])
        BY <2>1, <4>1
      <4> QED
        BY <4>1, <4>2, <4>3
    <3> QED
      BY <3>1, <3>2
  <2>3. Upto(n + 1, h)
    <3>1. h = [m \in 0 .. n + 1 |-> h[m]]
      OBVIOUS
    <3> HIDE DEF h
    <3> QED
      BY <2>2, <3>1
  <2>4. n + 1 \in Nat
    OBVIOUS
  <2>5. \E f : Upto(n + 1, f)
    <3> HIDE DEF Upto
    <3> QED
      BY <2>3
  <2> QED
    BY <2>4, <2>5, Zenon
<1>3. Len(l) \in S
  <2> HIDE DEF S
  <2> QED
    BY <1>1, <1>2, SetInduction
<1>4. Upto(Len(l), Texts(l))
  BY <1>3 DEF Texts
<1> DEFINE T == Texts(l)
<1> HIDE DEF T
<1>5. T[0] = << >>
  BY <1>4 DEF T
<1>6. ASSUME NEW n \in Nat, n + 1 <= Len(l) PROVE T[n + 1] = Joined(T[n], l[n + 1])
  <2>1. n + 1 \in 0 .. Len(l) /\ n + 1 # 0 /\ (n + 1) - 1 = n
    BY <1>6
  <2> QED
    BY <1>4, <2>1 DEF T
<1> QED
  BY <1>5, <1>6 DEF T

\* As many of the first n numbers as are kept.
Kept(n) == IF n < MaxComponents THEN n ELSE MaxComponents
Numbers(l, n) == [k \in 1 .. Kept(n) |-> Clipped(l[k])]

\* The loop has come to these components, the last of them open or closed.
Scans(cs) == {[components |-> cs, open |-> TRUE], [components |-> cs, open |-> FALSE]}

LEMMA ScansComponents ==
  ASSUME NEW cs, NEW scan \in Scans(cs)
  PROVE  scan.components = cs
<1>1. scan = [components |-> cs, open |-> TRUE] \/ scan = [components |-> cs, open |-> FALSE]
  BY Zenon DEF Scans
<1> QED
  BY <1>1

LEMMA NumbersGrow ==
  ASSUME NEW l \in Seq(Nat), NEW n \in Nat, n + 1 <= Len(l)
  PROVE  /\ Numbers(l, n) \in Seq(Nat) /\ Len(Numbers(l, n)) = Kept(n)
         /\ WithNumber(Numbers(l, n), l[n + 1]) \in Scans(Numbers(l, n + 1))
<1>1. MaxComponent \in Nat /\ MaxComponents \in Nat
  BY ConditionConstants
<1>2. \A k \in 1 .. n + 1 : l[k] \in Nat
  OBVIOUS
<1>3. \A k \in 1 .. n + 1 : Clipped(l[k]) \in Nat
  BY <1>1, <1>2 DEF Clipped
<1>4. Kept(n) \in Nat /\ Kept(n) <= n /\ Kept(n + 1) \in Nat /\ Kept(n + 1) <= n + 1
  BY <1>1 DEF Kept
<1>5. Numbers(l, n) \in [1 .. Kept(n) -> Nat] /\ Numbers(l, n + 1) \in [1 .. Kept(n + 1) -> Nat]
  <2>1. ASSUME NEW m \in Nat, m <= n + 1
        PROVE  [k \in 1 .. m |-> Clipped(l[k])] \in [1 .. m -> Nat]
    BY <1>3, <2>1
  <2>2. Kept(n) <= n + 1
    BY <1>4
  <2>3. [k \in 1 .. Kept(n) |-> Clipped(l[k])] \in [1 .. Kept(n) -> Nat]
    BY <1>4, <2>1, <2>2, Zenon
  <2>4. [k \in 1 .. Kept(n + 1) |-> Clipped(l[k])] \in [1 .. Kept(n + 1) -> Nat]
    BY <1>4, <2>1, Zenon
  <2> QED
    BY <2>3, <2>4 DEF Numbers
<1>6. /\ Numbers(l, n) \in Seq(Nat) /\ Len(Numbers(l, n)) = Kept(n)
      /\ Numbers(l, n + 1) \in Seq(Nat) /\ Len(Numbers(l, n + 1)) = Kept(n + 1)
  <2>1. ASSUME NEW m \in Nat, NEW s \in [1 .. m -> Nat] PROVE s \in Seq(Nat) /\ Len(s) = m
    OBVIOUS
  <2> QED
    BY <1>4, <1>5, <2>1
<1>7. CASE n < MaxComponents
  <2> DEFINE c == Clipped(l[n + 1])
             a == Numbers(l, n)
             b == Numbers(l, n + 1)
             u == Append(a, c)
  <2>1. Kept(n) = n /\ Kept(n + 1) = n + 1
    BY <1>1, <1>7 DEF Kept
  <2>2. c \in Nat /\ b[n + 1] = c /\ \A k \in 1 .. n : b[k] = a[k]
    BY <1>3, <2>1 DEF Numbers
  <2>3. a \in Seq(Nat) /\ b \in Seq(Nat) /\ Len(a) = n /\ Len(b) = n + 1
    BY <1>6, <2>1
  <2> HIDE DEF a, b, c
  <2>4. /\ u \in Seq(Nat) /\ Len(u) = n + 1 /\ u[n + 1] = c
        /\ \A k \in 1 .. n : u[k] = a[k]
    BY <2>2, <2>3, AppendProperties
  <2> HIDE DEF u
  <2>5. ASSUME NEW k \in 1 .. Len(u) PROVE u[k] = b[k]
    <3>1. k = n + 1 \/ k \in 1 .. n
      BY <2>4
    <3> QED
      BY <3>1, <2>2, <2>4
  <2>6. u = b
    BY <2>3, <2>4, <2>5, SeqEqual
  <2>7. Len(a) < MaxComponents
    BY <1>7, <2>3
  <2>8. WithNumber(a, l[n + 1]) = [components |-> u, open |-> TRUE]
    BY <2>7 DEF WithNumber, u, c
  <2> QED
    BY <1>6, <2>6, <2>8 DEF a, b, Scans
<1>8. CASE ~(n < MaxComponents)
  <2>1. Kept(n) = MaxComponents /\ Kept(n + 1) = MaxComponents
    BY <1>1, <1>8 DEF Kept
  <2>2. Numbers(l, n) = Numbers(l, n + 1)
    BY <2>1 DEF Numbers
  <2>3. WithNumber(Numbers(l, n), l[n + 1]) = [components |-> Numbers(l, n), open |-> FALSE]
    BY <1>1, <1>6, <2>1 DEF WithNumber
  <2> QED
    BY <1>6, <2>2, <2>3 DEF Scans
<1> QED
  BY <1>7, <1>8

LEMMA ScanPrinted ==
  ASSUME NEW l \in Seq(Nat), NEW n \in Nat, n <= Len(l)
  PROVE  /\ Texts(l)[n] \in Seq(Characters)
         /\ Texts(l)[n] = << >> => n = 0
         /\ Final(Texts(l)[n]) \in Scans(Numbers(l, n))
<1> DEFINE Good(k) ==
             /\ Texts(l)[k] \in Seq(Characters)
             /\ Texts(l)[k] = << >> => k = 0
             /\ Final(Texts(l)[k]) \in Scans(Numbers(l, k))
           S == {k \in Nat : k <= Len(l) => Good(k)}
<1>1. MaxComponent \in Nat /\ MaxComponents \in Nat /\ Len(l) \in Nat
  BY ConditionConstants
<1>2. Texts(l)[0] = << >> /\ Numbers(l, 0) = << >>
  <2>1. Kept(0) = 0
    BY <1>1 DEF Kept
  <2>2. 1 .. 0 = {}
    OBVIOUS
  <2> QED
    BY <1>1, <2>1, <2>2, TextsDef DEF Numbers
<1>3. 0 \in S
  <2>1. Good(0)
    BY <1>2, FinalEmpty DEF Scans
  <2> QED
    BY <2>1
<1>4. ASSUME NEW k \in Nat, k \in S PROVE k + 1 \in S
  <2> SUFFICES ASSUME k + 1 <= Len(l) PROVE Good(k + 1)
    OBVIOUS
  <2> DEFINE t == Texts(l)[k]
             c == l[k + 1]
             cs == Numbers(l, k)
             u == IF t = << >> THEN t ELSE Append(t, Separator)
  <2>1. Good(k)
    BY <1>1, <1>4
  <2>2. Texts(l)[k + 1] = Joined(t, c)
    BY <1>1, TextsDef
  <2>3. c \in Nat
    BY <1>1
  <2>4. /\ cs \in Seq(Nat)
        /\ WithNumber(cs, c) \in Scans(Numbers(l, k + 1))
    BY NumbersGrow
  <2>5. Final(t) \in Scans(cs)
    BY <2>1
  <2>6. t \in Seq(Characters)
    BY <2>1
  <2>7. t = << >> => cs = << >>
    BY <1>2, <2>1
  <2> HIDE DEF t, c, cs
  <2>8. u \in Seq(Characters) /\ Final(u) = [components |-> cs, open |-> FALSE]
    <3>1. CASE t = << >>
      BY <3>1, <2>6, <2>7, FinalEmpty
    <3>2. CASE t # << >>
      <4>1. Separator \in Characters /\ Separator \notin Digits
        BY DEF Characters, Separator, Digits
      <4>2. Final(u) = Scanned(Final(t), Separator)
        BY <3>2, <4>1, <2>6, FinalAppend
      <4>3. Scanned(Final(t), Separator) = [components |-> cs, open |-> FALSE]
        BY <4>1, <2>5, ScansComponents DEF Scanned
      <4>4. u \in Seq(Characters)
        BY <3>2, <4>1, <2>6
      <4> QED
        BY <4>2, <4>3, <4>4
    <3> QED
      BY <3>1, <3>2
  <2>9. Decimal[c] \in Seq(Characters) /\ Decimal[c] # << >>
    BY <2>3, DecimalText
  <2>10. Joined(t, c) = u \o Decimal[c]
    <3> DEFINE D == Decimal[c]
    <3>1. Joined(t, c) = IF t = << >> THEN D ELSE Append(t, Separator) \o D
      BY DEF Joined
    <3>2. D \in Seq(Characters)
      BY <2>9
    <3> HIDE DEF D
    <3>3. << >> \o D = D
      BY <3>2
    <3> QED
      BY <3>1, <3>3 DEF D
  <2> HIDE DEF u
  <2>11. u \o Decimal[c] \in Seq(Characters) /\ u \o Decimal[c] # << >>
    <3> DEFINE D == Decimal[c]
    <3>1. D \in Seq(Characters) /\ D # << >>
      BY <2>9
    <3> HIDE DEF D
    <3>2. u \o D \in Seq(Characters) /\ u \o D # << >>
      BY <2>8, <3>1, ConcatProperties, ConcatEqualIffEmpty
    <3> QED
      BY <3>2 DEF D
  <2>12. Final(u \o Decimal[c]) \in Scans(Numbers(l, k + 1))
    BY <2>3, <2>4, <2>8, ScanNumber
  <2> QED
    BY <2>2, <2>10, <2>11, <2>12
<1>5. n \in S
  <2> HIDE DEF S
  <2> QED
    BY <1>3, <1>4, SetInduction
<1>6. Good(n)
  BY <1>5
<1> QED
  BY <1>6

(* SoftwareVersion::parse undoes printing.                                 *)
LEMMA ParsePrinted ==
  ASSUME NEW l \in NumberLists
  PROVE  Parse(Printed(l)) = Numbers(l, Len(l))
<1>1. l \in Seq(Nat) /\ Len(Printed(l)) <= MaxVersionText
  BY ApplicabilityConstants
<1>2. Len(l) \in Nat /\ Len(l) <= Len(l)
  BY <1>1
<1>3. Printed(l) \in Seq(Characters) /\ Final(Printed(l)).components = Numbers(l, Len(l))
  BY <1>1, <1>2, ScanPrinted, ScansComponents DEF Printed
<1>4. Len(Printed(l)) \in Nat /\ MaxVersionText \in Nat
  BY <1>3, ConditionConstants
<1>5. ~(Len(Printed(l)) > MaxVersionText)
  BY <1>1, <1>4
<1> QED
  BY <1>3, <1>5 DEF Parse, Final

LEMMA ComponentNumber ==
  ASSUME NEW l \in Seq(Nat), NEW i \in Nat \ {0}
  PROVE  LET a == Numbers(l, Len(l))
         IN  /\ a \in Seq(Nat) /\ Len(a) = Kept(Len(l))
             /\ Component(a, i) \in Nat
             /\ i <= MaxComponents => Component(a, i) = Number(l, i)
             /\ i > Len(a) => Component(a, i) = 0
             /\ i > MaxComponents => Component(a, i) = 0
<1> DEFINE a == Numbers(l, Len(l))
           n == Kept(Len(l))
<1>1. MaxComponent \in Nat /\ MaxComponents \in Nat
  BY ConditionConstants
<1> DEFINE k0 == Len(l)
<1>0. k0 \in Nat /\ DOMAIN l = 1 .. k0
  OBVIOUS
<1>2. n \in Nat /\ n <= k0 /\ n <= MaxComponents /\ (n = k0 \/ n = MaxComponents)
  <2> HIDE DEF k0
  <2> QED
    BY <1>0, <1>1 DEF Kept, k0
<1>3. a = [k \in 1 .. n |-> Clipped(l[k])]
  BY DEF Numbers
<1> HIDE DEF a, n, k0
<1>4. ASSUME NEW k \in 1 .. k0
      PROVE  Clipped(l[k]) \in Nat /\ Clipped(l[k]) = Number(l, k)
  <2>1. l[k] \in Nat
    BY DEF k0
  <2> QED
    BY <1>0, <1>1, <2>1 DEF Clipped, Number
<1>9. \A k \in 1 .. n : k \in 1 .. k0
  BY <1>0, <1>2
<1>5. a \in [1 .. n -> Nat]
  BY <1>3, <1>4, <1>9
<1>6. a \in Seq(Nat) /\ Len(a) = n /\ DOMAIN a = 1 .. n
  BY <1>2, <1>5
<1>7. CASE i \in 1 .. n
  <2>1. Component(a, i) = Clipped(l[i])
    BY <1>3, <1>6, <1>7 DEF Component
  <2>2. ~(i > n) /\ ~(i > MaxComponents) /\ i \in 1 .. k0
    BY <1>0, <1>1, <1>2, <1>7
  <2> QED
    BY <1>4, <1>6, <2>1, <2>2 DEF a, n
<1>8. CASE i \notin 1 .. n
  <2>1. Component(a, i) = 0
    BY <1>6, <1>8 DEF Component
  <2>2. i <= MaxComponents => i \notin 1 .. k0
    BY <1>0, <1>1, <1>2, <1>8
  <2>3. i <= MaxComponents => Number(l, i) = 0
    BY <1>0, <2>2 DEF Number
  <2> QED
    BY <1>6, <2>1, <2>3 DEF a, n
<1> QED
  BY <1>7, <1>8

(* SoftwareVersion::compare orders the numbers.                            *)
LEMMA CompareNumbers ==
  ASSUME NEW l \in Seq(Nat), NEW m \in Seq(Nat), l # << >>, m # << >>
  PROVE  Compare(Numbers(l, Len(l)), Numbers(m, Len(m))) =
           IF Below(l, m) THEN -1 ELSE IF Below(m, l) THEN 1 ELSE 0
<1> DEFINE a == Numbers(l, Len(l))
           b == Numbers(m, Len(m))
           D == {i \in 1 .. Len(a) + Len(b) : Component(a, i) # Component(b, i)}
           first == CHOOSE i \in D : \A j \in D : i <= j
<1>1. MaxComponents \in Nat /\ Len(l) \in Nat \ {0} /\ Len(m) \in Nat \ {0}
  BY ConditionConstants
<1>2. /\ a \in Seq(Nat) /\ Len(a) = Kept(Len(l)) /\ b \in Seq(Nat) /\ Len(b) = Kept(Len(m))
  <2>1. 1 \in Nat \ {0}
    OBVIOUS
  <2> QED
    BY <2>1, ComponentNumber
<1>3. ASSUME NEW i \in Nat \ {0}
      PROVE  /\ Component(a, i) \in Nat /\ Component(b, i) \in Nat
             /\ i <= MaxComponents => /\ Component(a, i) = Number(l, i)
                                      /\ Component(b, i) = Number(m, i)
             /\ i > MaxComponents => Component(a, i) = Component(b, i)
             /\ i > Len(a) /\ i > Len(b) => Component(a, i) = Component(b, i)
  BY ComponentNumber
<1>4. Len(a) \in Nat /\ Len(b) \in Nat
  BY <1>2
<1>5. \A i \in Nat \ {0} : i \in D <=> i <= MaxComponents /\ Number(l, i) # Number(m, i)
  <2> HIDE DEF a, b
  <2> TAKE i \in Nat \ {0}
  <2>1. i \in D <=> i <= Len(a) + Len(b) /\ Component(a, i) # Component(b, i)
    BY <1>4
  <2>2. i > Len(a) + Len(b) => i > Len(a) /\ i > Len(b)
    BY <1>4
  <2>3. i <= Len(a) + Len(b) \/ i > Len(a) + Len(b)
    BY <1>4
  <2>4. i <= MaxComponents \/ i > MaxComponents
    BY <1>1
  <2> HIDE DEF D
  <2> QED
    BY <1>3, <2>1, <2>2, <2>3, <2>4
<1>6. D \subseteq Nat \ {0}
  <2> HIDE DEF a, b
  <2> QED
    BY <1>4
<1>7. CASE MaxComponents = 0
  <2>1. Kept(Len(l)) = 0 /\ Kept(Len(m)) = 0
    BY <1>1, <1>7 DEF Kept
  <2>2. a = << >> /\ b = << >>
    BY <1>2, <2>1
  <2>3. ~Below(l, m) /\ ~Below(m, l)
    BY <1>7 DEF Below
  <2> QED
    BY <2>2, <2>3 DEF Compare
<1>8. CASE MaxComponents # 0
  <2>1. Kept(Len(l)) # 0 /\ Kept(Len(m)) # 0
    BY <1>1, <1>8 DEF Kept
  <2>2. a # << >> /\ b # << >>
    BY <1>2, <2>1
  <2>3. Compare(a, b) = IF D = {} THEN 0
                        ELSE IF Component(a, first) < Component(b, first) THEN -1 ELSE 1
    <3> HIDE DEF a, b
    <3> QED
      BY <2>2 DEF Compare
  <2> HIDE DEF D
  <2>4. CASE D = {}
    <3>1. \A i \in 1 .. MaxComponents : Number(l, i) = Number(m, i)
      BY <1>1, <1>5, <2>4
    <3>2. \A i \in 1 .. MaxComponents : Number(l, i) \in Nat
      BY <1>1, <1>3
    <3>3. ~Below(l, m) /\ ~Below(m, l)
      BY <3>1, <3>2 DEF Below
    <3> QED
      BY <2>3, <2>4, <3>3 DEF a, b
  <2>5. CASE D # {}
    <3>1. \E i \in D : \A j \in D : i <= j
      BY <1>6, <2>5, LeastElement
    <3>2. first \in D /\ \A j \in D : first <= j
      BY <3>1
    <3> HIDE DEF first
    <3>3. first \in Nat \ {0} /\ first \in 1 .. MaxComponents
      BY <1>1, <1>5, <1>6, <3>2
    <3>4. \A j \in 1 .. first - 1 : Number(l, j) = Number(m, j)
      <4> TAKE j \in 1 .. first - 1
      <4>1. j \in Nat \ {0} /\ j <= MaxComponents /\ ~(first <= j)
        BY <1>1, <3>3
      <4> QED
        BY <1>5, <3>2, <4>1
    <3>5. /\ Component(a, first) = Number(l, first) /\ Component(b, first) = Number(m, first)
          /\ Number(l, first) \in Nat /\ Number(m, first) \in Nat
          /\ Number(l, first) # Number(m, first)
      BY <1>1, <1>3, <1>5, <3>2, <3>3
    <3>6. ASSUME NEW i \in 1 .. MaxComponents, Number(l, i) # Number(m, i),
                 \A j \in 1 .. i - 1 : Number(l, j) = Number(m, j)
          PROVE  i = first
      <4>1. i \in D
        BY <1>1, <1>5, <3>6
      <4>2. first <= i /\ i \in Nat
        BY <3>2, <4>1
      <4>3. ~(first < i)
        BY <3>3, <3>5, <3>6, <4>2
      <4> QED
        BY <3>3, <4>2, <4>3
    <3>7. ASSUME NEW i \in 1 .. MaxComponents
          PROVE  Number(l, i) \in Nat /\ Number(m, i) \in Nat
      <4>1. i \in Nat \ {0} /\ i <= MaxComponents
        BY <1>1
      <4> QED
        BY <1>3, <4>1
    <3>8. Below(l, m) <=> Number(l, first) < Number(m, first)
      <4>1. ASSUME Below(l, m) PROVE Number(l, first) < Number(m, first)
        <5>1. PICK i \in 1 .. MaxComponents :
                Number(l, i) < Number(m, i) /\ \A j \in 1 .. i - 1 : Number(l, j) = Number(m, j)
          BY <4>1 DEF Below
        <5>2. Number(l, i) # Number(m, i)
          BY <3>7, <5>1
        <5> QED
          BY <3>6, <5>1, <5>2
      <4>2. ASSUME Number(l, first) < Number(m, first) PROVE Below(l, m)
        BY <3>3, <3>4, <4>2 DEF Below
      <4> QED
        BY <4>1, <4>2
    <3>9. Below(m, l) <=> Number(m, first) < Number(l, first)
      <4>1. ASSUME Below(m, l) PROVE Number(m, first) < Number(l, first)
        <5>1. PICK i \in 1 .. MaxComponents :
                Number(m, i) < Number(l, i) /\ \A j \in 1 .. i - 1 : Number(m, j) = Number(l, j)
          BY <4>1 DEF Below
        <5>2. Number(l, i) # Number(m, i)
          BY <3>7, <5>1
        <5> QED
          BY <3>6, <5>1, <5>2
      <4>2. ASSUME Number(m, first) < Number(l, first) PROVE Below(m, l)
        BY <3>3, <3>4, <4>2 DEF Below
      <4> QED
        BY <4>1, <4>2
    <3> QED
      BY <2>3, <2>5, <3>5, <3>8, <3>9 DEF a, b
  <2> QED
    BY <2>4, <2>5
<1> QED
  BY <1>7, <1>8

--------------------------------------------------------------------------------
(* The composition.  A step of the identities and the facts is a step of   *)
(* the device history or leaves it alone.                                  *)

(* Adding identities and the facts of callers adds no behaviour to the     *)
(* device registry (apply_device_locked, EnvironmentContext::set).         *)
THEOREM ApplicabilityImplementsHistory == ApSpec => Spec
<1>1. ApInit => Init
  BY DEF ApInit
<1>2. [ApNext]_apVars => [Next]_vars
  <2> SUFFICES ASSUME [ApNext]_apVars PROVE [Next]_vars
    OBVIOUS
  <2>1. CASE \E d \in Devices, r \in Reports, identity \in Identities : ReportIdentified(d, r, identity)
    BY <2>1 DEF ReportIdentified, Next
  <2>2. CASE \E key \in FactKeys : \E value \in FactValues[key[1]] : SetFact(key, value)
    BY <2>2 DEF SetFact
  <2>3. CASE UNCHANGED apVars
    BY <2>3 DEF apVars
  <2> QED
    BY <2>1, <2>2, <2>3 DEF ApNext
<1> QED
  BY <1>1, <1>2, PTL DEF ApSpec, Spec

(* The version a device has reported is ordered against any other as the   *)
(* numbers are that the two were printed from, however many digits and     *)
(* components those have (SoftwareVersion::parse and compare).             *)
THEOREM VersionsCompareAsNumbers == ApSpec => []VersionsOrderAsNumbers
<1>1. TypeOK => VersionsOrderAsNumbers
  <2> SUFFICES ASSUME TypeOK, NEW d \in registered,
                      NEW s \in {software[d][a] : a \in Axes} \ {None}, NEW m \in NumberLists
               PROVE  Compare(Parse(Version[s]), ParsedLists[m]) =
                        IF Below(NumbersOf[s], m) THEN -1 ELSE IF Below(m, NumbersOf[s]) THEN 1 ELSE 0
    BY DEF VersionsOrderAsNumbers
  <2>1. s \in SoftwareIds
    BY DEF TypeOK, DeviceTypeOK, Software
  <2> DEFINE l == NumbersOf[s]
  <2>2. l \in NumberLists /\ Printed(l) = Version[s]
    <3>1. \E k \in NumberLists : Printed(k) = Version[s]
      BY <2>1, ApplicabilityConstants
    <3> QED
      BY <2>1, <3>1 DEF NumbersOf
  <2> HIDE DEF l
  <2>3. Parse(Version[s]) = Numbers(l, Len(l)) /\ ParsedLists[m] = Numbers(m, Len(m))
    BY <2>2, ParsePrinted DEF ParsedLists
  <2>4. l \in Seq(Nat) /\ l # << >> /\ m \in Seq(Nat) /\ m # << >>
    BY <2>2, ApplicabilityConstants
  <2> QED
    BY <2>3, <2>4, CompareNumbers DEF l
<1> QED
  BY <1>1, ApplicabilityImplementsHistory, DeviceTypeCorrect, PTL

================================================================================
