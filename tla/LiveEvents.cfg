SPECIFICATION FairSpec
CONSTANTS
  Streams = {s1}
  Cap = 2
  SnapLimit = 3
  Faults = {"committed", "settle"}
  MaxLog = 5
  MaxFaults = 1
  MaxConnects = 2
  MaxRestarts = 1
  Unknown = Unknown
  None = None
INVARIANTS TypeOK SkipsOnlyUnoffered BundleWhole FinalWithheld
PROPERTY CatchesUp
CHECK_DEADLOCK FALSE
