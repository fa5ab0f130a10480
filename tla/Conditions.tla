------------------------------- MODULE Conditions --------------------------------
(***************************************************************************)
(* Software versions, version ranges and condition trees, with their       *)
(* three-valued evaluation against the facts a caller supplies.            *)
(*                                                                         *)
(* A text is a sequence of characters; a character is a number in the      *)
(* order of the C locale: -1 a separator, 0 .. 9 the digits, 10 .. 19      *)
(* upper case letters, 20 .. 29 the same letters in lower case.            *)
(*                                                                         *)
(* A condition tree is the sequence of its nodes, the root first and every *)
(* node before its children, which it names by their places.  The evidence *)
(* list of an evaluation (the leaves' explanations) is left out.           *)
(***************************************************************************)
EXTENDS Integers, Sequences

CONSTANTS
  MaxComponent,      \* numeric_limits<uint64_t>::max()
  MaxComponents,     \* kMaxComponents
  MaxVersionText,    \* the 128 characters a version may have
  MaxNodes,          \* limits.max_condition_nodes
  MaxChildren,       \* limits.max_condition_children
  MaxDepth           \* limits.max_record_depth + 2

ASSUME ConditionConstants ==
  /\ MaxComponent \in Nat /\ MaxComponent > 9
  /\ {MaxComponents, MaxVersionText, MaxNodes, MaxChildren, MaxDepth} \subseteq Nat

Digits == 0 .. 9
Separator == -1
ascii_lower(text) == [i \in DOMAIN text |-> IF text[i] \in 10 .. 19 THEN text[i] + 10 ELSE text[i]]

\* Texts in the order of std::string_view.
TextLess(a, b) ==
  \/ Len(a) < Len(b) /\ SubSeq(b, 1, Len(a)) = a
  \/ \E i \in DOMAIN a \cap DOMAIN b : SubSeq(a, 1, i - 1) = SubSeq(b, 1, i - 1) /\ a[i] < b[i]

--------------------------------------------------------------------------------
(* Versions: the sequence of their numeric components, << >> when invalid. *)

\* The text of a version with the given numbers.
Decimal[n \in Nat] == IF n < 10 THEN <<n>> ELSE Append(Decimal[n \div 10], n % 10)
Joined(text, number) ==
  IF text = << >> THEN Decimal[number] ELSE Append(text, Separator) \o Decimal[number]
Texts(numbers) ==
  LET Text[i \in 0 .. Len(numbers)] == IF i = 0 THEN << >> ELSE Joined(Text[i - 1], numbers[i])
  IN Text
Printed(numbers) == Texts(numbers)[Len(numbers)]

\* Mutant of NextDigit: unsigned arithmetic without the overflow test.
NextDigitWrapping(value, digit) == (value * 10 + digit) % (MaxComponent + 1)

\* One more digit of a component, saturating at the largest value of the type.
NextDigit(value, digit) ==
  IF value > (MaxComponent - digit) \div 10 THEN MaxComponent ELSE value * 10 + digit

\* A turn of the loop of SoftwareVersion::parse: a digit extends the open component or
\* opens another while there is room, anything else closes it.
Scanned(scan, c) ==
  LET n == Len(scan.components)
  IN IF c \notin Digits THEN [components |-> scan.components, open |-> FALSE]
     ELSE IF scan.open
          THEN [components |-> [scan.components EXCEPT ![n] = NextDigit(@, c)], open |-> TRUE]
     ELSE IF n < MaxComponents
          THEN [components |-> Append(scan.components, c), open |-> TRUE]
     ELSE scan

Scan(text) ==
  LET After[i \in 0 .. Len(text)] ==
        IF i = 0 THEN [components |-> << >>, open |-> FALSE] ELSE Scanned(After[i - 1], text[i])
  IN After

Parse(text) ==
  IF Len(text) > MaxVersionText THEN << >> ELSE Scan(text)[Len(text)].components

IsParseable(text) == Len(text) <= MaxVersionText /\ \E i \in DOMAIN text : text[i] \in Digits

\* A shorter version is padded with zeros.
Component(v, i) == IF i \in DOMAIN v THEN v[i] ELSE 0

\* SoftwareVersion::compare, -1, 0 or 1; an invalid version sorts first.
Compare(a, b) ==
  LET differ == {i \in 1 .. Len(a) + Len(b) : Component(a, i) # Component(b, i)}
      first == CHOOSE i \in differ : \A j \in differ : i <= j
  IN IF a = << >> \/ b = << >>
     THEN IF a = b THEN 0 ELSE IF a = << >> THEN -1 ELSE 1
     ELSE IF differ = {} THEN 0
     ELSE IF Component(a, first) < Component(b, first) THEN -1 ELSE 1

\* VersionRange::valid and VersionRange::contains; an invalid bound means unbounded.
RangeValid(r) ==
  \/ r.minimum = << >> \/ r.maximum = << >>
  \/ Compare(r.minimum, r.maximum) < 0
  \/ Compare(r.minimum, r.maximum) = 0 /\ r.include_maximum

InRange(r, v) ==
  /\ v # << >>
  /\ r.minimum # << >> => Compare(v, r.minimum) >= 0
  /\ r.maximum # << >> => \/ Compare(v, r.maximum) < 0
                          \/ Compare(v, r.maximum) = 0 /\ r.include_maximum

\* compare_revision_token: as versions when both have digits, as texts otherwise.
CompareRevisions(a, b) ==
  IF Parse(a) # << >> /\ Parse(b) # << >> THEN Compare(Parse(a), Parse(b))
  ELSE IF TextLess(a, b) THEN -1 ELSE IF TextLess(b, a) THEN 1 ELSE 0

\* std::stoull: the digits the text starts with; -1 where it throws.  (Signs and
\* leading blanks, which it also takes, are not among the characters.)
Stoull(text) ==
  LET n == CHOOSE k \in 0 .. Len(text) : /\ \A i \in 1 .. k : text[i] \in Digits
                                         /\ k < Len(text) => text[k + 1] \notin Digits
      Value[i \in 0 .. n] == IF i = 0 THEN 0 ELSE Value[i - 1] * 10 + text[i]
  IN IF n = 0 \/ Value[n] > MaxComponent THEN -1 ELSE Value[n]

--------------------------------------------------------------------------------
(* Facts and conditions.                                                   *)

\* A fact's key is its name and, for settings and gates, the text after the prefix.
\* NoFact is not a text: find answered null.
NoFact == <<-2>>
Find(env, key) == IF key \in DOMAIN env THEN env[key] ELSE NoFact

\* EnvironmentContext::set: key and value are kept in lower case.
Set(env, key, value) ==
  [k \in DOMAIN env \cup {<<key[1], ascii_lower(key[2])>>} |->
     IF k = <<key[1], ascii_lower(key[2])>> THEN ascii_lower(value) ELSE env[k]]

\* The fact each kind of leaf consults (env_keys).
VersionFact ==
  [min_driver_version |-> "driver.version", min_firmware_version |-> "firmware.version",
   min_runtime_version |-> "runtime.version", required_kernel_version |-> "kernel.version"]
GenerationFact ==
  [min_platform_generation |-> "platform.generation",
   required_device_generation |-> "device.generation"]
EqualityFact ==
  [required_os |-> "os.name", required_device_mode |-> "device.mode",
   required_topology |-> "topology", required_peer_hardware |-> "peer.hardware",
   required_partition_state |-> "partition.state", required_privilege |-> "privilege"]

LogicalKinds == {"all_of", "any_of"}
ComparisonKinds == DOMAIN VersionFact \cup {"min_platform_generation"}
EqualityKinds == DOMAIN EqualityFact \cup {"required_device_generation"}

\* What validate_condition asks of one node, whatever its place in the tree.  The
\* length limit on keys and values is above every text here.
NodeValid(n) ==
  /\ Len(n.children) <= MaxChildren
  /\ CASE n.kind \in LogicalKinds -> n.children # << >> /\ n.key = << >> /\ n.value = << >>
       [] n.kind = "not" -> Len(n.children) = 1
       [] n.kind = "always" -> n.children = << >>
       [] n.kind = "required_feature_gate" -> n.key # << >>
       [] n.kind = "required_platform_setting" -> n.key # << >> /\ n.value # << >>
       [] OTHER -> /\ n.value # << >>
                   /\ n.kind \in ComparisonKinds => IsParseable(n.value)
                   /\ n.kind \in EqualityKinds => n.children = << >>

\* What a tree of nodes is: each node but the root is one child of one node before it.
IsSequence(s) == Len(s) \in Nat /\ DOMAIN s = 1 .. Len(s)
Kinds == LogicalKinds \cup ComparisonKinds \cup EqualityKinds
         \cup {"not", "always", "required_platform_setting", "required_feature_gate"}
IsTree(tree) ==
  /\ IsSequence(tree)
  /\ \A i \in DOMAIN tree : /\ tree[i].kind \in Kinds
                             /\ tree[i].children \in Seq((i + 1) .. Len(tree))
  /\ \A j \in 2 .. Len(tree) :
       \E i \in 1 .. j - 1 : \E k \in DOMAIN tree[i].children :
         /\ tree[i].children[k] = j
         /\ \A h \in DOMAIN tree : \A m \in DOMAIN tree[h].children :
              tree[h].children[m] = j => h = i /\ m = k

\* How deep each node lies; the root is at depth 1.
Depths(tree) ==
  LET Depth[j \in DOMAIN tree] ==
        IF j = 1 THEN 1
        ELSE 1 + Depth[CHOOSE i \in 1 .. j - 1 :
                         \E k \in DOMAIN tree[i].children : tree[i].children[k] = j]
  IN Depth

ValidateCondition(tree) ==
  /\ Len(tree) <= MaxNodes
  /\ \A i \in DOMAIN tree : Depths(tree)[i] <= MaxDepth /\ NodeValid(tree[i])

Negated(outcome) ==
  CASE outcome = "satisfied" -> "unsatisfied"
    [] outcome = "unsatisfied" -> "satisfied"
    [] OTHER -> outcome

Definite(holds) == IF holds THEN "satisfied" ELSE "unsatisfied"

VersionMinimum(observed, required) ==
  IF observed = NoFact \/ Parse(required) = << >> \/ Parse(observed) = << >> THEN "unknown"
  ELSE Definite(Compare(Parse(observed), Parse(required)) >= 0)

GenerationMinimum(observed, required) ==
  IF observed = NoFact \/ Stoull(required) = -1 \/ Stoull(observed) = -1 THEN "unknown"
  ELSE Definite(Stoull(observed) >= Stoull(required))

Equality(observed, required) ==
  IF observed = NoFact THEN "unknown" ELSE Definite(ascii_lower(observed) = ascii_lower(required))

AllOf(outcomes) ==
  IF "unsatisfied" \in outcomes THEN "unsatisfied"
  ELSE IF "unknown" \in outcomes THEN "unknown" ELSE "satisfied"

AnyOf(outcomes) ==
  IF "satisfied" \in outcomes THEN "satisfied"
  ELSE IF "unknown" \in outcomes THEN "unknown" ELSE "unsatisfied"

\* evaluate_condition for a leaf.  The key of a setting or gate is looked up as the
\* condition spells it; a gate that is not among the facts is closed, not unknown.
Leaf(n, env) ==
  CASE n.kind = "always" -> "satisfied"
    [] n.kind \in DOMAIN VersionFact ->
         VersionMinimum(Find(env, <<VersionFact[n.kind], << >> >>), n.value)
    [] n.kind \in DOMAIN GenerationFact ->
         GenerationMinimum(Find(env, <<GenerationFact[n.kind], << >> >>), n.value)
    [] n.kind \in DOMAIN EqualityFact ->
         Equality(Find(env, <<EqualityFact[n.kind], << >> >>), n.value)
    [] n.kind = "required_platform_setting" ->
         Equality(Find(env, <<"platform.setting.", n.key>>), n.value)
    [] n.kind = "required_feature_gate" ->
         Definite(<<"feature.gate.", n.key>> \in DOMAIN env)

\* evaluate_condition for a node, from the outcomes of the places its children have.
Judged(node, outcome, env) ==
  LET outcomes == {outcome[node.children[k]] : k \in DOMAIN node.children}
  IN CASE node.kind = "all_of" -> AllOf(outcomes)
       [] node.kind = "any_of" -> AnyOf(outcomes)
       [] node.kind = "not" -> Negated(outcome[node.children[1]])
       [] OTHER -> Leaf(node, env)

Outcomes(tree, env) ==
  LET Outcome[i \in DOMAIN tree] == Judged(tree[i], Outcome, env)
  IN Outcome

Evaluate(tree, env) == Outcomes(tree, env)[1]

================================================================================
