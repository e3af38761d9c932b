CONSTANTS
  s1 = s1  s2 = s2  s3 = s3  u1 = u1  u2 = u2  r1 = r1  r2 = r2
  g1 = g1  g2 = g2  t1 = t1  t2 = t2  t3 = t3
  Sessions = {s1, s2}
  Users = {u1}
  Realms = {r1, r2}
  UserOf <- Owner
  RealmOf <- Home
  Mode = "KickExisting"
  MaxSessions = 2
  Groups = {}
  Ttl = 2
  Gateways = {g1, g2}
  GatewayOf <- Place
  Tickets = {t1, t2}
  TicketsOf <- Carries
  ReconnectTickets = {t2}
  RenewInterval = 1
  Draining = {g1}
  MaxFaults = 1
SPECIFICATION GatewaySpec
CHECK_DEADLOCK FALSE
INVARIANT GatewayTypeOK
INVARIANT PolicyHolds
 
INVARIANT NoSeatLeft
INVARIANT DrainedIsEmpty
INVARIANT DuplicateIsLeaving
PROPERTY ImplementsContract
