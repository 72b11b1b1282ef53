CONSTANTS
  Finals = {b1, b2, x1}
  Facts = {x1}
  NoFinal = NoFinal
  MaxTurns = 2
  MaxFaults = 2
  MaxCrashes = 2
SPECIFICATION Spec
INVARIANTS TypeOK RefusesOnlyStranded
PROPERTIES ImplementsDecision PreparedCompletes
CHECK_DEADLOCK FALSE
