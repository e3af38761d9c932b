CONSTANTS
  c1 = c1  c2 = c2  c3 = c3  c4 = c4
  Callers = {c1, c2, c3, c4}
  MaxConcurrent = 3
  FailureThreshold = 2
  OpenTimeout = 2
  HalfOpenMax = 2
  MaxFaults = 2
SPECIFICATION FairSpec
INVARIANT TypeOK
INVARIANT ProbesAreHeld
PROPERTY OpenIsServed
PROPERTY Recovers
