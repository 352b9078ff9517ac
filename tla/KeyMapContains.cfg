SPECIFICATION MapSpec
CONSTANTS
  MapKeyCode = {a, b}
  NoCode = NoCode
  MapModifier = {shift}
  Lengths = {1, 2}
  MaxCreates = 2
  MaxTotal = 3
  CallerSize = 2
INVARIANT SuccessMeansContained
