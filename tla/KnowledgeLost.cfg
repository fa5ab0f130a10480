SPECIFICATION KnSpec
CONSTANTS
  Devices = {"d1"}
  MaxDevices = 1
  Families = {"f1", "f2"}
  MaxFamilies = 2
  Incarnations = {"i1"}
  Platforms = {"h1"}
  SoftwareIds = {}
  None = None
  MaxGeneration = 2
  Reports <- RenamedReports
  CapabilityIds = {"c1", "c2"}
  SchemaIds = {"s1", "s2"}
  Contents = {"x"}
  Catalog <- MCCatalog
  MaxSchemas = 2
  QuirkIds = {"q1", "q2"}
  MaxQuirks = 1
  FactIds = {"k1"}
  MaxFacts = 1
  Faces = {"a", "b"}
  Rests = {"r", "s"}
  References <- MCReferences
  MaxVersion = 2
INVARIANTS KnowledgeSurvivesRestart
CHECK_DEADLOCK FALSE
