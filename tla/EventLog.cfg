SPECIFICATION Spec
CONSTANTS
  e1 = e1
  e2 = e2
  b1 = b1
  Calls = {e1, e2, b1}
  Bundles = {b1}
  NoCall = NoCall
  Inodes = {1, 2, 3, 4, 5, 6, 7, 8}
  MaxReads = 1
  MaxCrashes = 1
  MaxLosses = 2
  MaxFaults = 1
SYMMETRY MCSymmetry
INVARIANTS TypeOK RecoveryAccepts
PROPERTY ImplementsLog
CHECK_DEADLOCK FALSE
