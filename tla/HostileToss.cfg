CONSTANTS
  o1 = o1
  o2 = o2
  o3 = o3
  o4 = o4
  Order = {o1, o3}
  Currency = {"KRW"}
  Ceiling = 2
  LastDay = 1
  Proc = {p1, p2}
  Durable = TRUE
  RejectIsFinal = FALSE
  BadBodies = TRUE
  SerialTokens = TRUE
  CutCalls = {}
  OrderSpec <- Pair
  Cap <- MCCap
SYMMETRY SymmetricProcs
SPECIFICATION Spec
INVARIANTS SuccessIsCounted CommittedIsExecuted CounterIsExact OverrunIsReleased
CHECK_DEADLOCK FALSE
