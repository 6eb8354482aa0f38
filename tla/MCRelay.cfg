SPECIFICATION Spec
CONSTANTS
  a = a
  b = b
  a1 = a1
  a2 = a2
  b1 = b1
  s1 = s1
  s2 = s2
  s3 = s3
  u = u
  n = n
  None = None
  Relay = {a, b}
  Announce = {a1, a2, b1}
  Home <- MCHome
  TTL = 2
  Sub = {s1, s2, s3}
  Name <- MCName
  Url = {u}
  MaxRemote = 2
  MaxTrack = 3
  HasUpstream = TRUE
INVARIANTS RegisteredIsServed RepairedEachPeriod OneRemotePerUrl SharedUnlessUnlisted
PROPERTIES StaleExpires AnsweredOrStranded
CHECK_DEADLOCK FALSE
