CONSTANTS
  s1 = s1  s2 = s2  s3 = s3  u1 = u1  u2 = u2  r1 = r1  g1 = g1
  Sessions = {s1, s2}
  Users = {u1}
  Realms = {r1}
  UserOf <- Owner
  RealmOf <- Home
  Mode = "KickExisting"
  MaxSessions = 1
  Groups = {}
  Joiners = {}
  Ttl = 2
SPECIFICATION RedisSpec
INVARIANT RealmCapacity
