SPECIFICATION Spec
CONSTANTS
  ReadReq = {r1, r2}
  WriteReq = {s1}
  Executions = {r1}
  NoReq = NoReq
  p = p
  q = q
  w1 = w1
  w2 = w2
  Threads = {p, q}
  Workspaces = {w1, w2}
  WorkspaceOrder <- MCOrder
  Contexts <- MCContexts
  StrictContexts <- MCStrict
  OrdinaryContexts <- MCOrdinary
  MetadataContexts <- MCMetadata
  ChildOf <- MCChildOf
  Discipline = FALSE
INVARIANTS
  TypeOK
  CountersExact
  LockExclusion
  EffectExcludesTransition
  BorrowedLeaseLive
PROPERTIES
  BarrierFence
  ImplementsTable
CHECK_DEADLOCK FALSE
