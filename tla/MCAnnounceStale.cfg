CONSTANTS
  n1 = n1
  n2 = n2
  Namespace <- MCNamespace
  MaxAnnounces = 2
  NoAnnounce = NoAnnounce
SPECIFICATION Spec
PROPERTY RemovesOwnEntry
CHECK_DEADLOCK FALSE
