SPECIFICATION FairSpec
CONSTANTS
  t1 = t1
  k1 = k1
  k2 = k2
  None = None
  Threads = {t1}
  Turns = {k1, k2}
  ThreadOf <- MCThreadOf
  Starts = {e1, e2}
  Resumptions = {}
  Steers = {}
  Interrupts = {}
  Transitions = {}
  Auxiliaries = {a1}
  Closers = {}
  HostStops = TRUE
INVARIANTS AuxiliaryServesOne Quiesced
PROPERTY ShutdownSettles
CHECK_DEADLOCK FALSE
