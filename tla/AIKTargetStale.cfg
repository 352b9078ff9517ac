SPECIFICATION TargetSpec
CONSTANTS
  KeyCode = {a, b, c, d}
  UsbHidUndefined = UsbHidUndefined
  Modifier = {shift}
  AIK_TARGET_BUFFER_SIZE = 3
  AIK_KEY_POLL_LIMIT = 3
  KeyForgotThreshold = 3
INVARIANT StaleKeysRemoved
