SPECIFICATION MCSpec
CONSTANTS
  u = u
  v = v
  w = w
  x = x
  b = b
  Scenes <- MCCut
  Uni = {u}
  Bi = {b}
  Initiator <- MCInitiator
  Write <- MCWriteAll
  OutCap = 1
  AcceptCap = 1
  MayBreak <- MCData
  MayStop <- MCServer
  MayClose = {"server"}
INVARIANTS ReadInOrder AcceptedOnce NothingIgnored
CHECK_DEADLOCK FALSE
