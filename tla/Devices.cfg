SPECIFICATION ApSpec
CONSTANTS
  Devices = {d1}
  MaxDevices = 1
  Families = {"f1"}
  MaxFamilies = 1
  Incarnations = {i1}
  Platforms = {h1}
  SoftwareIds <- MCSoftware
  None = None
  MaxGeneration = 2
  Reports <- DeviceReports
  MaxComponent = 255
  MaxComponents = 2
  MaxVersionText = 12
  MaxNodes = 4
  MaxChildren = 2
  MaxDepth = 3
  Version <- MCVersion
  Identities <- MCIdentities
  Quirks <- MCQuirks
  FactKeys <- MCFactKeys
  FactValues <- MCFactValues
  MaxSelectors = 1
  MaxRanges = 2
  MaxImpacted = 2
  MaxResults = 5
  NumberLists <- MCNumberLists
INVARIANTS TypeOK AxisGenerationNamesOneSoftware VersionsOrderAsNumbers MostSevereDecides
PROPERTIES LearningSettles
CHECK_DEADLOCK FALSE
