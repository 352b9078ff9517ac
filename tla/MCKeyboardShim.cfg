SPECIFICATION MCSpec
CONSTANTS
  Key = {k1, k2}
  NoKey = NoKey
  AIK_DATA_BUFFER_SIZE = 3
  KeyCode = {a, b, c, d}
  MapKeyCode = {a, b}
  MapModifier = {shift}
  UsbHidUndefined = UsbHidUndefined
  NoCode = NoCode
  Modifier = {shift}
  AIK_TARGET_BUFFER_SIZE = 3
  AIK_KEY_POLL_LIMIT = 3
  KeyForgotThreshold = 3
  Lengths = {1, 2}
  MaxCreates = 2
  MaxTotal = 3
  CallerSize = 2
  AikDatabases = 2
INVARIANTS PointersAgree HarmlessUnlessFull HeldKeysRight KeySetsRight ShimWholeOrGone
PROPERTIES ImplementsKeyFifo ReleasedKeyForgotten
