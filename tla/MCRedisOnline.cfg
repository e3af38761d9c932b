CONSTANTS
  s1 = s1  s2 = s2  s3 = s3  u1 = u1  u2 = u2  r1 = r1  g1 = g1
  Sessions = {s1, s2, s3}
  Users = {u1, u2}
  Realms = {r1}
  UserOf <- Owner
  RealmOf <- Home
  Mode = "RejectNew"
  MaxSessions = 1
  Groups = {g1}
  Joiners = {s1, s2}
  Ttl = 2
SPECIFICATION RedisSpec
CHECK_DEADLOCK FALSE
 
 
PROPERTY ImplementsContract
