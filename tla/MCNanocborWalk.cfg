CONSTANTS
  Alphabet = {0, 24, 65, 97, 129, 130, 159, 161, 191, 196, 245, 246, 255}
  MaxLen = 3
  MaxLevels = 3
  Inputs <- MCInputs
  Keys <- MCKeys
SPECIFICATION Spec
INVARIANTS SkipIsItem WalkIsSkip StringInside BoundedOverrun ValueOfKey
CHECK_DEADLOCK FALSE
