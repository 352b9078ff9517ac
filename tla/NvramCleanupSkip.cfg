SPECIFICATION Spec
CONSTANTS
  Deletable = {"d1", "d2", "d3", "refused", "unfound"}
  Kept = {"k1", "k2"}
  Refused = {"refused"}
  Unfound = {"unfound"}
  LongName = {"d2", "k2"}
  MaxFaults = 2
INVARIANT SkippedIsPassedOver
