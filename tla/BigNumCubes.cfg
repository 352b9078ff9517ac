SPECIFICATION BnSpec
CONSTANTS
  BnBits = 3
  BnWords = 2
  BnExponents = {3, 65537}
INVARIANT CubesExact
