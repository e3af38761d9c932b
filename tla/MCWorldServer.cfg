CONSTANTS
  c1 = c1  c2 = c2  c3 = c3  p1 = p1  p2 = p2  k1 = k1  k2 = k2
  Commands = {c1, c2, c3}
  PlayerOf <- Player
  Conns = {k1, k2}
  ConnOf <- Carrier
  Modules = 2
  MaxInFlight = 1
  LocksPerShard = 1
  MaxEpoch = 2
  MaxFaults = 1
SPECIFICATION WorldSpec
CHECK_DEADLOCK FALSE
INVARIANT WorldTypeOK
INVARIANT SerialPerPlayer
INVARIANT AnswerIsOutcome
INVARIANT NoOrphanTransaction
 
INVARIANT CommandsHaveModules
INVARIANT ListedIsListening
