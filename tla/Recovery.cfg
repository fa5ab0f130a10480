SPECIFICATION RecoverySpec
CONSTANTS
  Devices = {d1}
  MaxDevices = 1
  Families = {"f1"}
  MaxFamilies = 1
  Incarnations = {"i1"}
  Platforms = {"h1"}
  SoftwareIds <- MCSoftware
  None = None
  NoFile = NoFile
  MaxGeneration = 2
  Reports <- UpdateReports
  Capabilities = {c1}
  Publishers = {1}
  MaxBoot = 2
  Sources <- MixedSources
  Claims <- GatedClaim
  MaxHistory = 3
  KeyCap = 2
  MaxCapabilities = 1
  MaxSerial = 3
  MaxKeyGeneration = 3
INVARIANTS FileIsLastSave ImagesLoad LiveEvidenceEndsWithProcess GenerationNamesOneClaim
PROPERTIES RestartKeepsDeviceStaleness
CHECK_DEADLOCK FALSE
