SPECIFICATION Spec
CONSTANTS
  Puts = {"p1"}
  Edits = {"default", "other", "empty"}
  InitialKeys <- OneKey
  NewIds = {"k3"}
  ReloadLists <- Lists
  MaxTime = 1
  MaxOps = 3
  ValidFor = 2
INVARIANTS WritesKept LoadedIsInForce  NoGap RulesAgree
CHECK_DEADLOCK FALSE
