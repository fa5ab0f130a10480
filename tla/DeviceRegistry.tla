----------------------------- MODULE DeviceRegistry -----------------------------
(***************************************************************************)
(* Device subjects and their generations: what apply_device_locked does    *)
(* with a device report, from whichever adapter it comes.                  *)
(*                                                                         *)
(* A device has a generation and a boot that move together, a platform     *)
(* generation, and one generation per software axis (driver, firmware,     *)
(* runtime).  Capability evidence is stamped with all of them and goes     *)
(* stale when they move on, so they are the clock of the whole registry.   *)
(*                                                                         *)
(* Names, serial numbers, locators and descriptor texts are left out; of   *)
(* the hardware identity only the family is kept (a subject without one    *)
(* has a model, which is recorded the same way, without a limit).          *)
(***************************************************************************)
EXTENDS Integers, FiniteSets

CONSTANTS
  Devices,         \* device ids
  MaxDevices,      \* limits.max_devices (also bounds the platform table)
  Families,        \* hardware family ids
  MaxFamilies,     \* limits.max_families
  Incarnations,    \* driver-visible incarnations, for example a vendor UUID
  Platforms,       \* platform ids
  SoftwareIds,     \* software identities [id |-> component, version |-> version]
  None,            \* model value: an invalid id, a level that is not identified
  MaxGeneration,   \* bound: every generation counter of a device
  Reports          \* the device reports that adapters send, a subset of Report

ASSUME DeviceConstants ==
  /\ MaxDevices \in Nat /\ MaxFamilies \in Nat
  /\ MaxGeneration \in Nat \ {0}
  /\ None \notin Incarnations /\ None \notin Families
  /\ None \notin Platforms /\ None \notin SoftwareIds

VARIABLES
  registered,           \* the device ids in Impl::devices
  incarnation,          \* identity.incarnation
  family,               \* identity.hardware.family
  platform,             \* identity.platform
  generation,           \* DeviceState::generation
  device_boot,          \* DeviceState::boot
  platform_generation,
  software,             \* software[d][axis], None while unidentified
  axis_generation,      \* software.<axis>_generation, 0 while invalid
  families,             \* Impl::families
  platforms             \* the ids in Impl::platforms

deviceVars == <<registered, incarnation, family, platform, generation, device_boot,
                platform_generation, software, axis_generation, families, platforms>>

Axes == {"driver", "firmware", "runtime"}
Generations == 0 .. MaxGeneration
Software == SoftwareIds \cup {None}
PlatformIds == Platforms \cup {None}
FamilyIds == Families \cup {None}

\* A RegisterDevice or PublishDeviceGeneration publication.  boot_observed stands for
\* device_boot_observed, or for the second kind, which has the same effect.
Report == [incarnation : Incarnations, family : FamilyIds, platform : PlatformIds,
           descriptor : PlatformIds, software : [Axes -> Software],
           boot_observed : BOOLEAN]

ASSUME ReportsAssumption == Reports \subseteq Report

--------------------------------------------------------------------------------
\* A report that does not identify an axis does not erase what is known about it.
Merged(old, new) == IF new = None THEN old ELSE new

\* Mutant of Advanced: the counter moves only when an axis becomes known.
AdvancedOnce(old, new, gen) == IF new = None THEN gen ELSE IF gen = 0 THEN 1 ELSE gen

\* advance_<axis>_generation: one counter per axis, which moves when the identified
\* software changes or becomes known.
Advanced(old, new, gen) ==
  IF new = None THEN gen
  ELSE IF old # new \/ gen = 0 THEN gen + 1
  ELSE gen

\* Mutant of PlatformsWith: an invalid platform id is kept as well.
PlatformsWithAny(descriptor) ==
  IF Cardinality(platforms) < MaxDevices THEN platforms \cup {descriptor} ELSE platforms

\* register_platform_locked: a new descriptor is kept while there is room.
PlatformsWith(descriptor) ==
  IF descriptor # None /\ Cardinality(platforms) < MaxDevices
  THEN platforms \cup {descriptor}
  ELSE platforms

\* apply_device_locked for an id that is not registered.
RegisterDevice(d, r) ==
  /\ d \notin registered
  /\ Cardinality(registered) < MaxDevices
  /\ r.family \in families \cup {None} \/ Cardinality(families) < MaxFamilies
  /\ registered' = registered \cup {d}
  /\ incarnation' = [incarnation EXCEPT ![d] = r.incarnation]
  /\ family' = [family EXCEPT ![d] = r.family]
  /\ platform' = [platform EXCEPT ![d] = r.platform]
  /\ generation' = [generation EXCEPT ![d] = 1]
  /\ device_boot' = [device_boot EXCEPT ![d] = 1]
  /\ platform_generation' = [platform_generation EXCEPT ![d] = 1]
  /\ software' = [software EXCEPT ![d] = r.software]
  /\ axis_generation' = [axis_generation EXCEPT ![d] =
       [a \in Axes |-> IF r.software[a] = None THEN 0 ELSE 1]]
  /\ families' = families \cup ({r.family} \ {None})
  /\ platforms' = PlatformsWith(r.descriptor)

\* The report opens a new capability generation.
Boundary(d, r) == r.incarnation # incarnation[d] \/ r.boot_observed

\* apply_device_locked for a registered id.  identity.incarnation is compared but not
\* assigned, and families learns only from first registrations.
RefreshDevice(d, r) ==
  LET merged == [a \in Axes |-> Merged(software[d][a], r.software[a])]
      step == IF Boundary(d, r) THEN 1 ELSE 0
  IN /\ d \in registered
     /\ family' = [family EXCEPT ![d] = r.family]
     /\ platform' = [platform EXCEPT ![d] = r.platform]
     /\ platform_generation' = [platform_generation EXCEPT ![d] =
          IF r.platform # platform[d] THEN @ + 1 ELSE @]
     /\ software' = [software EXCEPT ![d] = merged]
     /\ axis_generation' = [axis_generation EXCEPT ![d] =
          [a \in Axes |-> Advanced(software[d][a], merged[a], axis_generation[d][a])]]
     /\ generation' = [generation EXCEPT ![d] = @ + step]
     /\ device_boot' = [device_boot EXCEPT ![d] = @ + step]
     /\ platforms' = PlatformsWith(r.descriptor)
     /\ UNCHANGED <<registered, incarnation, families>>

\* The bound on the counters: a report that would pass it is not sent.
WithinBound ==
  \A d \in Devices :
    /\ generation'[d] <= MaxGeneration
    /\ platform_generation'[d] <= MaxGeneration
    /\ \A a \in Axes : axis_generation'[d][a] <= MaxGeneration

DeviceInit ==
  /\ registered = {}
  /\ incarnation = [d \in Devices |-> None]
  /\ family = [d \in Devices |-> None]
  /\ platform = [d \in Devices |-> None]
  /\ generation = [d \in Devices |-> 0]
  /\ device_boot = [d \in Devices |-> 0]
  /\ platform_generation = [d \in Devices |-> 0]
  /\ software = [d \in Devices |-> [a \in Axes |-> None]]
  /\ axis_generation = [d \in Devices |-> [a \in Axes |-> 0]]
  /\ families = {}
  /\ platforms = {}

ReportDevice(d, r) ==
  /\ RegisterDevice(d, r) \/ RefreshDevice(d, r)
  /\ WithinBound

DeviceTypeOK ==
  /\ registered \subseteq Devices
  /\ incarnation \in [Devices -> Incarnations \cup {None}]
  /\ family \in [Devices -> FamilyIds]
  /\ platform \in [Devices -> PlatformIds]
  /\ generation \in [Devices -> Generations]
  /\ device_boot \in [Devices -> Generations]
  /\ platform_generation \in [Devices -> Generations]
  /\ software \in [Devices -> [Axes -> Software]]
  /\ axis_generation \in [Devices -> [Axes -> Generations]]
  /\ families \subseteq Families
  /\ platforms \subseteq Platforms

================================================================================
