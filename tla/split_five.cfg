SPECIFICATION Spec
CONSTANTS
  Size = 5
  Colors = {1, 2}
  Keys <- TurnedKeys
INVARIANTS
  SplitIsRight
