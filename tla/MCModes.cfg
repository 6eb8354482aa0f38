SPECIFICATION Spec
CONSTANTS
  Scripts <- MCScripts
  s1 = s1
  s2 = s2
  s3 = s3
  s4 = s4
  s5 = s5
  x = x
  y = y
  z = z
  EmptyName = none
  Announcer = {s1, s2, s3, s4, s5}
  Base <- MCBase
  Inside = {s1, s2, s3, s4}
  MaxOps = 7
  ObjectGroup = {1, 2}
  Priority = {1, 2}
  MaxObjects = 5
  DatagramGroup = {1, 2}
  MaxDatagrams = 4
  MaxGroup = 2
  MaxObject = 3
INVARIANTS
  InStep NeverOverwaits FailsForCause RolesFit
  ListingFollows ObjectsOnce  StreamFaithful
CHECK_DEADLOCK FALSE
