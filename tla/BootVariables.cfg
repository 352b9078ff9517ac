SPECIFICATION Spec
CONSTANTS
  Num = {1, 2}
  OC_GL_BOOT_OPTION_START = 10
  MAP_SIZE = 2
  ORDER_SIZE = 2
  Path = {w, l, m}
  Eligible = {w, l}
  w = w
  l = l
  m = m
  NoOption = NoOption
  MaxOrder = 3
  MaxCalls = 5
SYMMETRY PathSymmetry
INVARIANT NamedOnce
PROPERTY FirmwareOptionsKept
PROPERTY FallbackOffered
