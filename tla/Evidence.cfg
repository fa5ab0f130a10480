SPECIFICATION Spec
CONSTANTS
  Devices = {d1}
  MaxDevices = 1
  Families = {"f1"}
  MaxFamilies = 1
  Incarnations = {"i1"}
  Platforms = {"h1"}
  SoftwareIds <- MCSoftware
  None = None
  MaxGeneration = 2
  Reports <- DriverReports
  Capabilities = {c1}
  Publishers = {1}
  MaxBoot = 2
  Sources <- MixedSources
  Claims <- GatedClaims
  MaxHistory = 3
  KeyCap = 2
  MaxCapabilities = 1
  MaxSerial = 3
  MaxKeyGeneration = 3
INVARIANTS GenerationNamesOneClaim NewestOfSlotKept RepeatedEvidenceIsCurrent WithdrawalRetracts
CHECK_DEADLOCK FALSE
