SPECIFICATION Spec
CONSTANTS
  busy = busy
  brief = brief
  mute = mute
  Clients <- MCClients
  p1 = p1
  p2 = p2
  Publishers <- MCPublishers
  RegistersAs <- MCRegistersAs
  Operators <- MCOperators
  MaxConnections = 2
  MaxPublishers = 1
  MaxBatch = 2
  Window = 3
  MaxRequests <- MCMaxRequests
  None = None
INVARIANTS AuthorityHasSession AuthorityLastsWithSession
CHECK_DEADLOCK FALSE
PROPERTIES RequestsServed DeathRetires ShutdownServed
