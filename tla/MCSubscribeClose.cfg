CONSTANTS
  i1 = i1
  i2 = i2
  Id <- OneId
SPECIFICATION FairSpec
PROPERTY CleanedUpAfterClose
\* A session may go quiet, or down.
CHECK_DEADLOCK FALSE
