SPECIFICATION Spec
CONSTANTS
  Scenes <- BothScenes
  UserValues = {"u1"}
  Challenges <- TwoNames
  MaxSerial = 3
  MaxKeys = 1
INVARIANTS ZonesAsAnswered OthersKept NothingLeftBehind
PROPERTIES SerialsGrow
