SPECIFICATION MCSpec
CONSTANTS
  KeyCode = {a, b, CLock}
  CLock = CLock
  NoCode = NoCode
  Modifier = {shift}
  SLOTS = 2
  KEY_STROKE_DELAY = 2
  REPEAT_START = 2
  MaxKeys = 3
  UsbLetter = {letter}
  UsbLock = lock
  LeftCtrl = LeftCtrl
  LeftShift = LeftShift
  RightShift = RightShift
  UsbShift = {LeftShift, RightShift}
  UsbCtrl = {LeftCtrl}
  UsbModifiers <- MCUsbModifiers
  NoUsbKey = NoUsbKey
  MAX_KEY_ALLOWED = 2
  UsbHeldMax = 2
  UsbMaxStarts = 1
  UsbMaxReports = 2
  UsbStale <- MCUsbStale
INVARIANTS ToldAsPressed EveryKeyAnnounced RepeatsHeldKeys ReportsFollowed
PROPERTIES PollsTellChanges ErrorsRecovered
CHECK_DEADLOCK FALSE
SYMMETRY KeySymmetry
