CONSTANTS
  Drafts = {d}
  Replies = {r}
  JobSteers = {j1}
  Protected = {r}
  CaseTurns = {1}
  MaxTurns = 2
  MaxSends = 2
  MaxCrashes = 1
SPECIFICATION Spec
INVARIANTS TypeOK RefusesOnlyResent
PROPERTIES ImplementsQueue PendingSettles
CHECK_DEADLOCK FALSE
