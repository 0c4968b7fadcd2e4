SPECIFICATION FairSpec
CONSTANTS
  Jobs = {j1}
  Runners = {r1, r2}
  MaxAttempts = 3
  NoJob = NoJob
  MaxJobFaults = 2
  Instances = {i1, i2}
  NoOwner = NoOwner
  Interval = 2
  Expiry = 5
  OpTimeout = 1
  MaxMishaps = 3
  MaxControls = 2
  ControlFaults = TRUE
  Mutable = {a1, a2}
  Callers = {k1, k2}
  NoCaller = NoCaller
  NoOne = NoOne
  MaxRounds = 2
  Faces = {1, 2}
  MaxSpoken = 3
  MaxLosers = 2
  Plays = {p1, p2}
  NoPlay = NoPlay
  Buffer = 1
  MaxSockets = 2
  MaxDelay = 2
  Window = 2
  EchoArm = 2
  MaxCycles = 3
INVARIANTS JobInv ElectorInv ControlsInv MutesInv AgentInv TurnInv ConnectionInv
PROPERTIES JobsEnd OwnerSettles ControlsSettle TurnEnds ConnectionSettles
CHECK_DEADLOCK FALSE
