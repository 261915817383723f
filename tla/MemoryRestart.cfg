CONSTANTS
  o1 = o1
  o2 = o2
  o3 = o3
  o4 = o4
  Order = {o1, o2}
  Currency = {"KRW"}
  Ceiling = 2
  LastDay = 1
  Proc = {p1}
  Durable = FALSE
  RejectIsFinal = FALSE
  BadBodies = TRUE
  SerialTokens = TRUE
  CutCalls = {}
  OrderSpec <- Companions
  Cap <- MCCap
SPECIFICATION Spec
INVARIANTS FinishedIsCountedToday
CHECK_DEADLOCK FALSE
