------------------------------- MODULE MCEvidence -------------------------------
(***************************************************************************)
(* Inputs of the evidence runs: a few device reports, sources and claims,  *)
(* chosen so that each run reaches the interplay it is about.              *)
(***************************************************************************)
EXTENDS EvidenceAnswers, TLC

\* Devices are interchangeable: nothing compares or orders them.
SameDevices == Permutations(Devices)

v1 == [id |-> "cuda", version |-> 1]
v2 == [id |-> "cuda", version |-> 2]
other == [id |-> "rocm", version |-> 1]
MCSoftware == {v1, v2}
MCRuntimes == {v1, v2, other}

\* A report of the one device: its driver, its runtime, and what it observed.
ReportOf(driver, runtime, host, booted) ==
  [incarnation |-> "i1", family |-> "f1", platform |-> host, descriptor |-> host,
   software |-> [a \in Axes |-> CASE a = "driver"   -> driver
                                  [] a = "runtime"  -> runtime
                                  [] a = "firmware" -> None],
   boot_observed |-> booted]

\* The device appears, its driver is updated, it reboots.
DriverReports == {ReportOf(v1, None, "h1", FALSE), ReportOf(v2, None, "h1", FALSE),
                  ReportOf(None, None, "h1", TRUE)}

\* Reports through two runtimes, one of them in two versions.
RuntimeReports == {ReportOf(v1, s, "h1", FALSE) : s \in SoftwareIds}

\* A source of the class with the class's own provenance.
SourceOf(class, reference, precision) ==
  [class |-> class, provenance |-> DefaultProvenance(class), reference |-> reference,
   precision |-> precision, evidence_generation |-> 1]

Nvml == SourceOf("Nvml", "nvmlDeviceGetMigMode", "DirectReported")
Curated == SourceOf("StaticCuratedDatabase", "datasheet", "Curated")

\* A backend that names the same interface, and claims to be exact.
Synthetic == SourceOf("SyntheticBackend", "nvmlDeviceGetMigMode", "Exact")

AnswerSources == {Nvml, Curated, Synthetic}
UpdateReports == {ReportOf(v1, None, "h1", FALSE), ReportOf(v2, None, "h1", TRUE)}

MixedSources == {Nvml, Curated}
OneSource == {Nvml}

Native == [support |-> "SupportedNative", value |-> "yes", gates |-> {}]
Gated == [support |-> "SupportedConditional", value |-> "yes", gates |-> {"driver"}]
Absent == [support |-> "Unsupported", value |-> "none", gates |-> {}]
TwoClaims == {Native, Absent}
GatedClaims == {Gated, Absent}
GatedClaim == {Gated}

================================================================================
