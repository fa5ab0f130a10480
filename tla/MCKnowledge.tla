------------------------------- MODULE MCKnowledge -------------------------------
(***************************************************************************)
(* Inputs of the knowledge runs: one device that is moved between          *)
(* platforms, or reported as a member of another family.                   *)
(***************************************************************************)
EXTENDS Knowledge

ReportFrom(fam, host) ==
  [incarnation |-> "i1", family |-> fam, platform |-> host, descriptor |-> host,
   software |-> [a \in Axes |-> None], boot_observed |-> FALSE]

MCCatalog == {[id |-> "s1", capability |-> "c1", content |-> "x"]}
MovingReports == {ReportFrom("f1", "h1"), ReportFrom("f1", None)}
RenamedReports == {ReportFrom("f1", "h1"), ReportFrom("f2", "h1")}

FamilyRef == [kind |-> "HardwareFamily", token |-> "f1"]
HostRef == [kind |-> "Platform", token |-> "h1"]
DriverRef == [kind |-> "Driver", token |-> "cuda"]
MCReferences == {FamilyRef, HostRef, DriverRef}

================================================================================
