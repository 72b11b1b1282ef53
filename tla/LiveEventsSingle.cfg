SPECIFICATION Spec
CONSTANTS
  Streams = {s1}
  Cap = 2
  SnapLimit = 3
  Faults = {"single"}
  MaxLog = 5
  MaxFaults = 1
  MaxConnects = 2
  MaxRestarts = 1
  Unknown = Unknown
  None = None
INVARIANT FrontierCurrent
CHECK_DEADLOCK FALSE
