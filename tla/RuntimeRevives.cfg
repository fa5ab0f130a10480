SPECIFICATION Spec
CONSTANTS
  Devices = {d1}
  MaxDevices = 1
  Families = {"f1"}
  MaxFamilies = 1
  Incarnations = {"i1"}
  Platforms = {"h1"}
  SoftwareIds <- MCRuntimes
  None = None
  MaxGeneration = 3
  Reports <- RuntimeReports
  Capabilities = {c1}
  Publishers = {1}
  MaxBoot = 1
  Sources <- OneSource
  Claims <- GatedClaim
  MaxHistory = 2
  KeyCap = 2
  MaxCapabilities = 1
  MaxSerial = 2
  MaxKeyGeneration = 3
PROPERTIES StaleForever
CHECK_DEADLOCK FALSE
