CONSTANTS
  Sizes = {0, 3, 9, 12}
  Numbers <- MCNumbers
  Strings <- MCStrings
  Floats <- MCFloats
  Doubles <- MCDoubles
  MaxCalls = 2
SPECIFICATION EncodeSpec
INVARIANTS LengthTells HeadReadBack RealKept
 
CHECK_DEADLOCK FALSE
