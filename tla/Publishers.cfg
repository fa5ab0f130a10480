SPECIFICATION Spec
CONSTANTS
  Publishers = {p1, p2}
  MaxPublishers = 1
  MaxBoot = 2
  MaxEpoch = 3
  MaxSeq = 2
  MaxGen = 0
  Bodies = {x, y}
  Rests = {r}
  FingerprintCap = 1
  PersistAtStart = TRUE
  Crashes = TRUE
  NoPrint = NoPrint
INVARIANTS TypeOK AdmittedHoldsAuthority AcknowledgedWasApplied DuplicatesComparedWithApplied NoReplay
PROPERTIES ImplementsAuthority
CHECK_DEADLOCK FALSE
