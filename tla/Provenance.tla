------------------------------- MODULE Provenance -------------------------------
(***************************************************************************)
(* The fixed tables of evidence provenance: which source outranks which,   *)
(* what a source class may claim, which knowledge survives its process.    *)
(***************************************************************************)
EXTENDS Integers

\* source_authority: a larger number outranks a smaller one.
SourceAuthority ==
  [SyntheticBackend |-> 1, Unspecified |-> 2, ImportedManifest |-> 3,
   StaticCuratedDatabase |-> 4, AcpiSmbios |-> 5, PciConfiguration |-> 6,
   OsEnumeration |-> 7, NicDriverApi |-> 8, CxlEnumeration |-> 9, RocmSmi |-> 10,
   Nvml |-> 11, CudaRuntime |-> 12, RuntimeProbe |-> 13, FirmwareQuery |-> 14,
   DriverQuery |-> 15, LiveVendorApi |-> 16, HardwareProbe |-> 17]

SourceClasses == DOMAIN SourceAuthority

\* provenance_strength
ProvenanceStrength ==
  [Synthetic |-> 0, UnknownSource |-> 1, Imported |-> 2, CuratedStatic |-> 3,
   Derived |-> 4, RealOsReported |-> 5, RealVendorApi |-> 6, RealRuntimeProbe |-> 7,
   RealLiveHardware |-> 8]

ProvenanceClasses == DOMAIN ProvenanceStrength

\* default_provenance_for
DefaultProvenance(class) ==
  CASE class = "SyntheticBackend"      -> "Synthetic"
    [] class = "ImportedManifest"      -> "Imported"
    [] class = "StaticCuratedDatabase" -> "CuratedStatic"
    [] class \in {"AcpiSmbios", "PciConfiguration", "OsEnumeration"} -> "RealOsReported"
    [] class \in {"NicDriverApi", "CxlEnumeration", "RocmSmi", "Nvml", "CudaRuntime"}
                                       -> "RealVendorApi"
    [] class \in {"RuntimeProbe", "FirmwareQuery", "DriverQuery"} -> "RealRuntimeProbe"
    [] class \in {"LiveVendorApi", "HardwareProbe"} -> "RealLiveHardware"
    [] class = "Unspecified"           -> "UnknownSource"

\* provenance_allowed_for: a source may weaken its claim, never strengthen it.
ProvenanceAllowed(provenance, class) ==
  ProvenanceStrength[provenance] <= ProvenanceStrength[DefaultProvenance(class)]

\* provenance_is_durable
IsDurable(provenance) == provenance \in {"CuratedStatic", "Imported", "Derived"}

\* provenance_is_real
IsReal(provenance) ==
  provenance \in {"RealLiveHardware", "RealOsReported", "RealVendorApi", "RealRuntimeProbe"}

\* precision_class_rank
PrecisionRank ==
  [Exact |-> 6, Probed |-> 5, DirectReported |-> 4, Derived |-> 3, Curated |-> 2,
   Inferred |-> 1, Unknown |-> 0]

\* SupportState
SupportStates ==
  {"SupportedNative", "SupportedConditional", "SupportedEmulated",
   "SupportedSoftwareAssisted", "SupportedExperimental", "Disabled", "Unsupported",
   "Unknown", "RevalidationRequired"}

================================================================================
