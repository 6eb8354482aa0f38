CONSTANTS
  l1 = l1
  l2 = l2
  r1 = r1
  Handle <- MCHandle
  Left <- MCLeft
  Value = {0, 1}
  MaxEpoch = 3
SPECIFICATION FairSpec
INVARIANTS WatchInv NoLostWakeup EndedSawLast
PROPERTY WaiterReleased
\* Every handle may be dropped, and then nothing is left to happen.
CHECK_DEADLOCK FALSE
