CONSTANTS
  MaxSubgroups = 2
  MaxObjects = 2
  MaxErrors = 2
SPECIFICATION FairSpec
INVARIANTS SubgroupsInv SurvivesInOrder
PROPERTIES LatestReaches ImplementsFeed
\* The track ends, and then all that is left is read.
CHECK_DEADLOCK FALSE
