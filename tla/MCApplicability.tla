----------------------------- MODULE MCApplicability -----------------------------
(* Inputs of the run about devices and the quirks that apply to them. *)
EXTENDS Applicability

\* Adapters that identify neither platform nor family; that identify both and at most
\* one software axis, the driver in either version; and one that sees every axis.
DeviceReports ==
  {r \in Report : /\ r.descriptor = r.platform
                  /\ r.platform = None <=> r.family = None
                  /\ r.platform = None => \A a \in Axes : r.software[a] = None
                  /\ ~r.boot_observed
                  /\ \/ /\ Cardinality({a \in Axes : r.software[a] # None}) <= 1
                        /\ \A a \in Axes \ {"driver"} : r.software[a] \in {None, "s2"}
                     \/ r.software = [driver |-> "s2", firmware |-> "s1", runtime |-> "s1"]}

\* Two versions, "9" and "256.1", whose first number is larger than a component may be.
MCSoftware == {"s1", "s2"}
MCVersion == [s \in MCSoftware |-> IF s = "s1" THEN <<9>> ELSE <<2, 5, 6, -1, 1>>]

\* Revision "B" (a letter), revision "a1" of a known architecture, neither known.
MCIdentities == {[model |-> "m1", architecture |-> None, revision |-> << >>],
                 [model |-> "m1", architecture |-> None, revision |-> <<11>>],
                 [model |-> "m1", architecture |-> "x", revision |-> <<20, 1>>]}

Node(kind, key, value, children) ==
  [kind |-> kind, key |-> key, value |-> value, children |-> children]
DriverNine == Node("min_driver_version", << >>, <<9, -1, 0>>, << >>)
OsIsA == Node("required_os", << >>, <<10>>, << >>)
SettingOn == Node("required_platform_setting", <<20>>, <<1>>, << >>)
GateG == Node("required_feature_gate", <<20>>, << >>, << >>)
Generation2 == Node("required_device_generation", << >>, <<2>>, << >>)
Logical(kind, children) == Node(kind, << >>, << >>, children)

\* Conditions of every shape; the last three are refused (no child, nested too deep, a
\* minimum that is not a version).
Trees ==
  << <<Logical("any_of", <<2, 3>>), DriverNine, SettingOn>>,
     <<Logical("all_of", <<2, 3>>), DriverNine, Logical("not", <<4>>), OsIsA>>,
     <<Logical("not", <<2>>), Logical("all_of", <<3, 4>>), OsIsA, Generation2>>,
     <<Logical("any_of", <<2, 3>>), GateG, SettingOn>>,
     <<Logical("all_of", << >>)>>,
     <<Logical("not", <<2>>), Logical("not", <<3>>), Logical("not", <<4>>), OsIsA>>,
     <<Node("min_driver_version", << >>, <<20>>, << >>)>> >>

Everything == [families |-> {}, models |-> {}, devices |-> {}, revisions |-> {}, architectures |-> {},
               revision_ranges |-> {}, driver |-> {}, firmware |-> {}, runtime |-> {},
               platform_conditions |-> NoCondition]
From9Below10 == [minimum |-> <<9>>, maximum |-> <<10>>, include_maximum |-> FALSE]
UpTo9 == [minimum |-> << >>, maximum |-> <<9, 0>>, include_maximum |-> TRUE]

Quirk(severity, applicability) ==
  [severity |-> severity, withdrawn |-> FALSE, applicability |-> applicability, impacted |-> 1,
   source |-> "StaticCuratedDatabase", provenance |-> "CuratedStatic"]

MCQuirks ==
  <<Quirk(1, [Everything EXCEPT !.families = {"f1"}, !.driver = {From9Below10}]),
    Quirk(4, [Everything EXCEPT !.firmware = {UpTo9}, !.revision_ranges = {[minimum |-> <<10>>, maximum |-> <<12>>]}]),
    Quirk(2, [Everything EXCEPT !.architectures = {"x"}, !.platform_conditions = Trees[1]]),
    Quirk(3, [Everything EXCEPT !.models = {"m1"}, !.platform_conditions = Trees[2]]),
    Quirk(2, [Everything EXCEPT !.revisions = {<<11>>}, !.platform_conditions = Trees[3]]),
    Quirk(0, [Everything EXCEPT !.runtime = {From9Below10, UpTo9}, !.platform_conditions = Trees[4]]),
    [Quirk(4, Everything) EXCEPT !.withdrawn = TRUE],
    [Quirk(4, Everything) EXCEPT !.impacted = 0],
    [Quirk(4, Everything) EXCEPT !.provenance = "RealLiveHardware"],
    Quirk(4, [Everything EXCEPT !.platform_conditions = Trees[5]]),
    Quirk(4, [Everything EXCEPT !.platform_conditions = Trees[6]]),
    Quirk(4, [Everything EXCEPT !.platform_conditions = Trees[7]]),
    Quirk(4, [Everything EXCEPT !.driver = {[From9Below10 EXCEPT !.maximum = <<9>>]}]),
    Quirk(4, [Everything EXCEPT !.revision_ranges = {[minimum |-> <<2>>, maximum |-> <<1>>]}])>>

MCFactKeys == {<<"driver.version", << >> >>, <<"os.name", << >> >>, <<"device.generation", << >> >>,
               <<"platform.setting.", <<10>> >>}
MCFactValues == [name \in {k[1] : k \in MCFactKeys} |->
                   CASE name = "driver.version" -> {<<9>>, <<8, -1, 9>>}
                     [] name = "os.name" -> {<<10>>, <<21>>}
                     [] OTHER -> {<<1>>}]

\* Numbers around a digit boundary and around the largest value of the type; two lists
\* are longer than what is kept of them.
MCNumberLists == UNION {[1 .. n -> {0, 1, 9, 255, 256}] : n \in 1 .. 2}
                 \cup {<<9, 0, 1>>, <<256, 1, 9>>}

================================================================================
