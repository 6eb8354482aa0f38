CONSTANTS
  n1 = n1
  n2 = n2
  i1 = i1
  Namespace <- MCNamespace
  MaxAnnounces = 2
  NoAnnounce = NoAnnounce
SPECIFICATION MCSpec
INVARIANTS AnnounceInv DuplicateNeedsOverlap TablesAgree
PROPERTIES UnannounceReaches CancelReaches CallerReleased UnsubscribeEnds
\* Every announce may be given up, a session may go quiet, or down.
CHECK_DEADLOCK FALSE
