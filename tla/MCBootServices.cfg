SPECIFICATION MCSpec
CONSTANTS
  BootName = {"BootOrder", "Boot0080"}
  OtherName = {"Lang", "Oversized"}
  NameTooLong = {"BootOrder"}
  HugeName = {"Oversized"}
  MaxStore = 3
  MaxDeleted = 1
  Deletable = {"d1", "d2", "refused", "unfound"}
  Kept = {"k1", "k2"}
  Refused = {"refused"}
  Unfound = {"unfound"}
  LongName = {"d2", "k2"}
  MaxFaults = 2
  AbcAddress = {1, 2}
  AbcDescs = 3
  RT_RELOC_PROTECT_MAX_NUM = 1
  AbcDepth = 2
  AbcStarts = 2
  TOTAL_SLIDE_NUM = 4
  SLIDE_ERRATA_NUM = 1
  SLIDE_ERRATA_SKIP_RANGE = 1
  KERNEL_BASE_PADDR = 0
  ESTIMATED_KERNEL_SIZE = 1
  SlideMemory = 4
  SlideCsr = {{unrestricted}}
  Unrestricted = unrestricted
  SlideBoots = 2
INVARIANTS WalkComplete CleanupComplete KernelsPrepared ExitHandlersOnce SlideFits
PROPERTIES WalksEnd OneSlide
