SPECIFICATION FairSpec
CONSTANTS
  ReadReq = {r1, r2}
  WriteReq = {s1}
  Executions = {r1}
  NoReq = NoReq
  p = p
  q = q
  w1 = w1
  w2 = w2
  Threads = {p, q}
  Workspaces = {w1, w2}
  WorkspaceOrder <- MCOrder
  Contexts <- MCContexts
  StrictContexts <- MCStrict
  OrdinaryContexts <- MCOrdinary
  MetadataContexts <- MCMetadata
  ChildOf <- MCChildOf
  Discipline = TRUE
PROPERTY CallsSettle
