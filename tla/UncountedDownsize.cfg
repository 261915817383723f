CONSTANTS
  o1 = o1
  o2 = o2
  o3 = o3
  o4 = o4
  Order = {o1, o3, o4}
  Currency = {"KRW"}
  Ceiling = 3
  LastDay = 0
  Proc = {p1}
  Durable = TRUE
  RejectIsFinal = TRUE
  BadBodies = FALSE
  SerialTokens = TRUE
  CutCalls = {}
  OrderSpec <- Uncounted
  Cap <- MCCap
SPECIFICATION Spec
INVARIANT CapHolds
CHECK_DEADLOCK FALSE
