CONSTANTS
  n1 = n1
  n2 = n2
  r1 = r1
  r2 = r2
  Name <- MCName
  Reader <- MCReader
  MaxTracks = 2
  NoTrack = NoTrack
SPECIFICATION FairSpec
INVARIANTS TracksInv RequestedOnce OnlyLateStranded
PROPERTY ReaderAnswered
\* All handles may be dropped, and then nothing is left to happen.
CHECK_DEADLOCK FALSE
