SPECIFICATION Spec
CONSTANTS
  Devices = {d1, d2}
  MaxDevices = 2
  Families = {"f1"}
  MaxFamilies = 1
  Incarnations = {"i1"}
  Platforms = {"h1"}
  SoftwareIds <- MCSoftware
  None = None
  MaxGeneration = 2
  Reports <- UpdateReports
  Capabilities = {c1}
  Publishers = {1}
  MaxBoot = 1
  Sources <- AnswerSources
  Claims <- GatedClaims
  MaxHistory = 8
  KeyCap = 2
  MaxCapabilities = 1
  MaxSerial = 2
  MaxKeyGeneration = 2
INVARIANTS SyntheticIsNotReal

CHECK_DEADLOCK FALSE
