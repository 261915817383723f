CONSTANTS
  o1 = o1
  o2 = o2
  o3 = o3
  o4 = o4
  Order = {o1, o3}
  Currency = {"KRW"}
  Ceiling = 2
  LastDay = 0
  Proc = {p1, p2}
  Durable = TRUE
  RejectIsFinal = TRUE
  BadBodies = FALSE
  SerialTokens = FALSE
  CutCalls = {}
  OrderSpec <- Pair
  Cap <- MCCap
SPECIFICATION Spec
INVARIANT CapHolds
CHECK_DEADLOCK FALSE
