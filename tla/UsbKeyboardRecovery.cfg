SPECIFICATION UsbSpec
CONSTANTS
  UsbLetter = {letter}
  UsbLock = lock
  LeftCtrl = LeftCtrl
  LeftShift = LeftShift
  RightShift = RightShift
  UsbShift = {LeftShift, RightShift}
  UsbCtrl = {LeftCtrl}
  UsbModifiers <- MCUsbModifiers
  NoUsbKey = NoUsbKey
  MAX_KEY_ALLOWED = 2
  UsbHeldMax = 2
  UsbMaxStarts = 1
  UsbMaxReports = 2
  UsbStale <- MCUsbStale
INVARIANT RecoveryIsPending
CHECK_DEADLOCK FALSE
