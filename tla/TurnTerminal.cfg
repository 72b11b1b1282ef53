SPECIFICATION Spec
CONSTANTS
  t1 = t1
  k1 = k1
  k2 = k2
  None = None
  Threads = {t1}
  Turns = {k1, k2}
  ThreadOf <- MCThreadOf
  Starts = {}
  Resumptions = {e1, e2}
  Steers = {}
  Interrupts = {i1}
  Transitions = {m1}
  Auxiliaries = {a1}
  Closers = {c1}
  HostStops = FALSE
SYMMETRY MCSymmetry
INVARIANTS TerminalExclusive QuietTransition ReservationsOwned AuxiliaryAlone
CHECK_DEADLOCK FALSE
