SPECIFICATION FairSpec
CONSTANTS
  t1 = t1
  k1 = k1
  k2 = k2
  None = None
  Threads = {t1}
  Turns = {k1, k2}
  ThreadOf <- MCThreadOf
  Starts = {e1}
  Resumptions = {}
  Steers = {s1}
  Interrupts = {i1}
  Transitions = {m1}
  Auxiliaries = {}
  Closers = {}
  HostStops = FALSE
INVARIANTS TypeOK SteersDrained
PROPERTY WaitersSettle
CHECK_DEADLOCK FALSE
