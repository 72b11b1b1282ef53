SPECIFICATION Spec
CONSTANTS
  Gates = {1, 2}
  r1 = r1
  r2 = r2
  Records = {r1, r2}
  Scopes <- MCScopes
  Payloads = {p1}
  Owners = {o1}
  Resolutions = {allowed}
  Intents = {i1, i2}
  Observers = {w1}
  Nil = Nil
  MaxToken = 2
  MaxBorn = 2
SYMMETRY MCSymmetry
INVARIANTS TypeOK OneHolder ClaimsConserved
PROPERTIES DispositionFrozen ImplementsLifecycle ClaimedAsObserved
CHECK_DEADLOCK FALSE
