--------------------------- MODULE DeviceRegistryProofs ---------------------------
(***************************************************************************)
(* Lemmas about device reports, for the proofs of the modules that are     *)
(* built on DeviceRegistry: a report leaves the device subjects well typed *)
(* and only adds to the tables that other records refer to.                *)
(***************************************************************************)
EXTENDS DeviceRegistry, WellFoundedInduction, TLAPS

--------------------------------------------------------------------------------
(* Induction.  A set of naturals has a least element, which gives          *)
(* induction over a set (the library's induction theorems are about an     *)
(* operator).                                                              *)

LEMMA LeastElement ==
  ASSUME NEW T, T \subseteq Nat, T # {}
  PROVE  \E x \in T : \A y \in T : x <= y
<1>1. \E R : IsWellFoundedOn(R, Nat) /\ \A x, y \in Nat : y < x => <<y, x>> \in R
  <2>1. \A x, y \in Nat : y < x => <<y, x>> \in OpToRel(<, Nat)
    BY DEF OpToRel
  <2> QED
    BY <2>1, NatLessThanWellFounded, Zenon
<1>2. PICK R : IsWellFoundedOn(R, Nat) /\ \A x, y \in Nat : y < x => <<y, x>> \in R
  BY <1>1
<1>3. \E x \in T : \A y \in T : <<y, x>> \notin R
  BY <1>2, WFMin, Zenon
<1>4. PICK x \in T : \A y \in T : <<y, x>> \notin R
  BY <1>3
<1>5. ASSUME NEW y \in T PROVE x <= y
  <2>1. x \in Nat /\ y \in Nat
    OBVIOUS
  <2>2. ~(y < x)
    BY <1>2, <1>4, <2>1, Zenon
  <2> QED
    BY <2>1, <2>2
<1> QED
  BY <1>5

LEMMA SetInduction ==
  ASSUME NEW S, 0 \in S, \A n \in Nat : n \in S => n + 1 \in S
  PROVE  Nat \subseteq S
<1> SUFFICES ASSUME Nat \ S # {} PROVE FALSE
  OBVIOUS
<1>1. PICK x \in Nat \ S : \A y \in Nat \ S : x <= y
  BY LeastElement
<1>2. x # 0 /\ x - 1 \in Nat /\ ~(x <= x - 1) /\ (x - 1) + 1 = x
  OBVIOUS
<1> QED
  BY <1>1, <1>2

--------------------------------------------------------------------------------
(* Type correctness.  The bound on reports is on generation, which boot    *)
(* accompanies.                                                            *)

BootFollowsGeneration == device_boot = generation

\* Well-typed device subjects.
SubjectInv == DeviceTypeOK /\ BootFollowsGeneration

\* The axis generations a report leads to are numbers, which the bound then limits.
LEMMA AdvancedIsNat ==
  ASSUME NEW old, NEW new, NEW gen \in Nat
  PROVE  Advanced(old, new, gen) \in Nat /\ Advanced(old, new, gen) \in {gen, gen + 1}
  BY DEF Advanced

LEMMA SubjectInit == DeviceInit => SubjectInv
  BY DeviceConstants
  DEF DeviceInit, SubjectInv, DeviceTypeOK, BootFollowsGeneration, Generations, Software,
      PlatformIds, FamilyIds

LEMMA PlatformsType ==
  ASSUME DeviceTypeOK, NEW r \in Report
  PROVE  PlatformsWith(r.descriptor) \subseteq Platforms
  BY DEF DeviceTypeOK, Report, PlatformsWith, PlatformIds

LEMMA RegisterDeviceType ==
  ASSUME SubjectInv, NEW d \in Devices, NEW r \in Report, RegisterDevice(d, r)
  PROVE  SubjectInv'
<1> USE DeviceConstants DEF SubjectInv, DeviceTypeOK, BootFollowsGeneration, Generations
<1>1. /\ r.incarnation \in Incarnations /\ r.family \in FamilyIds
      /\ r.platform \in PlatformIds /\ r.software \in [Axes -> Software]
  BY DEF Report
<1>2. /\ registered' \subseteq Devices /\ families' \subseteq Families
      /\ incarnation' \in [Devices -> Incarnations \cup {None}]
      /\ family' \in [Devices -> FamilyIds]
      /\ platform' \in [Devices -> PlatformIds]
  BY <1>1 DEF RegisterDevice, FamilyIds
<1>3. /\ generation' \in [Devices -> 0 .. MaxGeneration]
      /\ device_boot' \in [Devices -> 0 .. MaxGeneration]
      /\ platform_generation' \in [Devices -> 0 .. MaxGeneration]
      /\ device_boot' = generation'
  BY DEF RegisterDevice
<1>4. /\ software' \in [Devices -> [Axes -> Software]]
      /\ axis_generation' \in [Devices -> [Axes -> 0 .. MaxGeneration]]
  BY <1>1 DEF RegisterDevice
<1>5. platforms' \subseteq Platforms
  BY PlatformsType DEF RegisterDevice
<1> QED
  BY <1>2, <1>3, <1>4, <1>5

LEMMA RefreshDeviceType ==
  ASSUME SubjectInv, NEW d \in Devices, NEW r \in Report, RefreshDevice(d, r), WithinBound
  PROVE  SubjectInv'
<1> USE DeviceConstants DEF SubjectInv, DeviceTypeOK, BootFollowsGeneration, Generations
<1> DEFINE merged == [a \in Axes |-> Merged(software[d][a], r.software[a])]
           step == IF Boundary(d, r) THEN 1 ELSE 0
<1>1. /\ r.family \in FamilyIds /\ r.platform \in PlatformIds
      /\ r.software \in [Axes -> Software]
  BY DEF Report
<1>2. /\ registered' \subseteq Devices /\ families' \subseteq Families
      /\ incarnation' \in [Devices -> Incarnations \cup {None}]
      /\ family' \in [Devices -> FamilyIds]
      /\ platform' \in [Devices -> PlatformIds]
  BY <1>1 DEF RefreshDevice
<1>3. /\ generation' = [generation EXCEPT ![d] = @ + step]
      /\ device_boot' = [device_boot EXCEPT ![d] = @ + step]
      /\ step \in {0, 1}
  BY DEF RefreshDevice
<1>4. /\ generation' \in [Devices -> 0 .. MaxGeneration]
      /\ device_boot' \in [Devices -> 0 .. MaxGeneration]
      /\ device_boot' = generation'
  <2> HIDE DEF step
  <2>1. generation' \in [Devices -> Nat] /\ device_boot' = generation'
    BY <1>3
  <2>2. \A e \in Devices : generation'[e] <= MaxGeneration
    BY DEF WithinBound
  <2> QED
    BY <2>1, <2>2
<1>5. platform_generation' \in [Devices -> 0 .. MaxGeneration]
  <2>1. platform_generation' \in [Devices -> Nat]
    BY DEF RefreshDevice
  <2>2. \A e \in Devices : platform_generation'[e] <= MaxGeneration
    BY DEF WithinBound
  <2> QED
    BY <2>1, <2>2
<1>6. software' \in [Devices -> [Axes -> Software]]
  <2>1. merged \in [Axes -> Software]
    BY <1>1 DEF Merged
  <2> QED
    BY <2>1 DEF RefreshDevice
<1>7. axis_generation' \in [Devices -> [Axes -> 0 .. MaxGeneration]]
  <2> DEFINE moved == [a \in Axes |-> Advanced(software[d][a], merged[a], axis_generation[d][a])]
  <2>1. moved \in [Axes -> Nat]
    <3>1. \A a \in Axes : axis_generation[d][a] \in Nat
      OBVIOUS
    <3> QED
      BY <3>1, AdvancedIsNat
  <2>2. axis_generation' = [axis_generation EXCEPT ![d] = moved]
    BY DEF RefreshDevice
  <2> HIDE DEF moved
  <2>3. axis_generation' \in [Devices -> [Axes -> Nat]]
    BY <2>1, <2>2
  <2>4. \A e \in Devices, a \in Axes : axis_generation'[e][a] <= MaxGeneration
    BY DEF WithinBound
  <2> QED
    BY <2>3, <2>4
<1>8. platforms' \subseteq Platforms
  BY PlatformsType DEF RefreshDevice
<1> QED
  BY <1>2, <1>4, <1>5, <1>6, <1>7, <1>8

LEMMA ReportDeviceType ==
  ASSUME SubjectInv, NEW d \in Devices, NEW r \in Reports, ReportDevice(d, r)
  PROVE  SubjectInv'
<1>1. r \in Report
  BY ReportsAssumption
<1> QED
  BY <1>1, RegisterDeviceType, RefreshDeviceType DEF ReportDevice

\* Devices, platforms and families are never forgotten by a report.
LEMMA ReportOnlyAdds ==
  ASSUME NEW d \in Devices, NEW r \in Reports, ReportDevice(d, r)
  PROVE  registered \subseteq registered' /\ platforms \subseteq platforms'
         /\ families \subseteq families'
  BY DEF ReportDevice, RegisterDevice, RefreshDevice, PlatformsWith

\* A device that was never reported has no generation of any kind.
UnregisteredBlank ==
  \A d \in Devices \ registered :
    /\ generation[d] = 0 /\ platform_generation[d] = 0
    /\ \A a \in Axes : axis_generation[d][a] = 0

LEMMA BlankInit == DeviceInit => UnregisteredBlank
  BY DEF DeviceInit, UnregisteredBlank

\* Generations only grow, whatever is reported.
GenerationsGrow ==
  \A d \in Devices :
    /\ generation[d] <= generation'[d]
    /\ platform_generation[d] <= platform_generation'[d]
    /\ \A a \in Axes : axis_generation[d][a] <= axis_generation'[d][a]

LEMMA ReportGrows ==
  ASSUME SubjectInv, UnregisteredBlank, NEW d \in Devices, NEW r \in Reports,
         ReportDevice(d, r)
  PROVE  UnregisteredBlank' /\ GenerationsGrow
<1> USE DeviceConstants DEF SubjectInv, DeviceTypeOK, Generations
<1>1. CASE RegisterDevice(d, r)
  <2>1. /\ registered' = registered \cup {d} /\ d \notin registered
        /\ generation' = [generation EXCEPT ![d] = 1]
        /\ platform_generation' = [platform_generation EXCEPT ![d] = 1]
        /\ axis_generation' = [axis_generation EXCEPT ![d] =
             [a \in Axes |-> IF r.software[a] = None THEN 0 ELSE 1]]
    BY <1>1 DEF RegisterDevice
  <2>2. \A a \in Axes : axis_generation'[d][a] \in {0, 1}
    BY <2>1
  <2>3. \A e \in Devices \ {d} : axis_generation'[e] = axis_generation[e]
    BY <2>1
  <2>4. UnregisteredBlank'
    BY <2>1, <2>3 DEF UnregisteredBlank
  <2>5. ASSUME NEW e \in Devices
        PROVE  /\ generation[e] <= generation'[e]
               /\ platform_generation[e] <= platform_generation'[e]
    BY <2>1 DEF UnregisteredBlank
  <2>6. ASSUME NEW e \in Devices, NEW a \in Axes
        PROVE  axis_generation[e][a] <= axis_generation'[e][a]
    <3>1. axis_generation[e][a] \in Nat
      OBVIOUS
    <3> QED
      BY <2>1, <2>2, <2>3, <3>1 DEF UnregisteredBlank
  <2> QED
    BY <2>4, <2>5, <2>6 DEF GenerationsGrow
<1>2. CASE RefreshDevice(d, r)
  <2> DEFINE merged == [a \in Axes |-> Merged(software[d][a], r.software[a])]
             moved == [a \in Axes |-> Advanced(software[d][a], merged[a], axis_generation[d][a])]
             step == IF Boundary(d, r) THEN 1 ELSE 0
  <2>1. /\ registered' = registered /\ d \in registered
        /\ generation' = [generation EXCEPT ![d] = @ + step]
        /\ platform_generation' = [platform_generation EXCEPT ![d] =
             IF r.platform # platform[d] THEN @ + 1 ELSE @]
        /\ axis_generation' = [axis_generation EXCEPT ![d] = moved]
    BY <1>2 DEF RefreshDevice
  <2>2. step \in {0, 1}
    OBVIOUS
  <2>3. \A a \in Axes : moved[a] \in {axis_generation[d][a], axis_generation[d][a] + 1}
    <3>1. \A a \in Axes : axis_generation[d][a] \in Nat
      OBVIOUS
    <3> QED
      BY <3>1, AdvancedIsNat
  <2> HIDE DEF moved, step
  <2>4. UnregisteredBlank'
    BY <2>1 DEF UnregisteredBlank
  <2>5. ASSUME NEW e \in Devices
        PROVE  /\ generation[e] <= generation'[e]
               /\ platform_generation[e] <= platform_generation'[e]
    BY <2>1, <2>2
  <2>6. ASSUME NEW e \in Devices, NEW a \in Axes
        PROVE  axis_generation[e][a] <= axis_generation'[e][a]
    <3>1. axis_generation[e][a] \in Nat
      OBVIOUS
    <3> QED
      BY <2>1, <2>3, <3>1
  <2> QED
    BY <2>4, <2>5, <2>6 DEF GenerationsGrow
<1> QED
  BY <1>1, <1>2 DEF ReportDevice

===================================================================================
