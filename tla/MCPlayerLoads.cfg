CONSTANTS
  w1 = w1  w2 = w2  p1 = p1  p2 = p2
  r1 = r1  r2 = r2  r3 = r3  c1 = c1  c2 = c2
  Worlds = {w1, w2}
  Players = {p1}
  Readers = {r1, r2}
  Writers = {c2}
  WorldOf <- Placement
  MaxEntries = 1
  Ttl = 2
  MaxVersion = 2
  MaxFaults = 1
SPECIFICATION FairLoads
 
INVARIANT Coalesced
 
PROPERTY EventuallyFresh
