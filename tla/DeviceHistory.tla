------------------------------ MODULE DeviceHistory ------------------------------
(***************************************************************************)
(* The device registry alone, with the history of what its generations     *)
(* were used for.  Evidence refers to the device, its driver, its firmware *)
(* and its runtime only by generation number, so a number that names two   *)
(* different things makes evidence about one pass for evidence about the   *)
(* other.                                                                  *)
(***************************************************************************)
EXTENDS DeviceRegistry

VARIABLES
  named,    \* history: [device, axis, gen, software] that were current together
  lives     \* history: [device, gen, incarnation] that were reported together

vars == <<deviceVars, named, lives>>

Init ==
  /\ DeviceInit
  /\ named = {}
  /\ lives = {}

\* What the report makes current enters the histories.
Recorded(d, r) ==
  /\ named' = named \cup
       {[device |-> d, axis |-> a, gen |-> axis_generation'[d][a],
         software |-> software'[d][a]] : a \in {b \in Axes : software'[d][b] # None}}
  /\ lives' = lives \cup
       {[device |-> d, gen |-> generation'[d], incarnation |-> r.incarnation]}

Next == \E d \in Devices, r \in Reports : ReportDevice(d, r) /\ Recorded(d, r)

Spec == Init /\ [][Next]_vars

--------------------------------------------------------------------------------
\* Every variable has its type (DeviceState and the tables beside it).
TypeOK ==
  /\ DeviceTypeOK
  /\ named \subseteq [device : Devices, axis : Axes, gen : Generations, software : SoftwareIds]
  /\ lives \subseteq [device : Devices, gen : Generations, incarnation : Incarnations]

\* A driver, firmware or runtime generation never names two software identities, in
\* whatever order adapters that see different axes report (advance_*_generation and
\* the merge with what was known).
AxisGenerationNamesOneSoftware ==
  \A m, n \in named :
    m.device = n.device /\ m.axis = n.axis /\ m.gen = n.gen => m.software = n.software

\* A device generation never covers two incarnations (the boundary test of
\* apply_device_locked).
GenerationNamesOneIncarnation ==
  \A l, n \in lives :
    l.device = n.device /\ l.gen = n.gen => l.incarnation = n.incarnation

================================================================================
