CONSTANTS
  i1 = i1
  i2 = i2
  Id <- TwoIds
SPECIFICATION Spec
INVARIANTS SubscribeInv AnswersWellFormed LastAnswerClearsEntry
SYMMETRY Symmetry
\* A session may go quiet, or down.
CHECK_DEADLOCK FALSE
