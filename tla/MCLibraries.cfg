SPECIFICATION MCSpec
CONSTANTS
  UMM_NUMBLOCKS = 7
  Sizes = {0, 8, 9, 24, 25, 72, 73}
  Data = Data
  MemBlocks = 3
  MemSizes = {1, 2}
  MemLimits = {2, 4, 7}
  Base4Gb = 4
  PageFan = 2
  VmPoolPages = 4
  VmTargets = {6}
  VmLengths = {1, 3}
  VmCalls = 2
  NoMapping = NoMapping
  Size32 = 4
  UintnIs64 = TRUE
  BnBits = 3
  BnWords = 2
  BnExponents = {3, 65537}
  SoundBuffer = {b1, b2, b3}
  NoBuffer = NoBuffer
INVARIANTS HeapRight MapsRight OverflowToldExactly PowModExact SoundBuffersRight
PROPERTIES ImplementsBlockHeap OnlyThePageRemapped SoundWaitEnds
