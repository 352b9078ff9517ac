SPECIFICATION MCSpec
CONSTANTS
  Handle = {h1, h2}
  Masks = {{"key"}, {"key", "pointer"}}
  GoOnAfter = {}
  CounterRange = 4
  MaxQueue = 2
  MaxTimers = 2
  Device = {d1, d2}
  POINTER_POLL_FREQUENCY = 20000
  MAX_POINTER_POLL_FREQUENCY = 800000
  Elapsed = {0, 1100000, 1100001, 50000000}
  MaxGeneration = 2
  Resolution = 2
  MAXIMUM_CLICK_DURATION = 1
  MAXIMUM_DOUBLE_CLICK_SPEED = 2
  MINIMAL_MOVEMENT = 0
  AimHandle = {a1, a2}
  NoHandle = NoHandle
  AIM_MAX_POINTERS = 2
  AimSamples = 2
  AimUnread = 1
  AimInstalls = 4
INVARIANTS HandlersRight OnlyLiveDevicesAsked LeftButtonTold MovementKept 
PROPERTIES ListenersTold QueueDrains  ClicksEarned
