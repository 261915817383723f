CONSTANTS
  o1 = o1
  o2 = o2
  o3 = o3
  o4 = o4
  Order = {o1, o3}
  Currency = {"KRW"}
  Ceiling = 2
  LastDay = 0
  Proc = {p1}
  Durable = TRUE
  RejectIsFinal = TRUE
  BadBodies = TRUE
  SerialTokens = TRUE
  CutCalls = {}
  OrderSpec <- Pair
  Cap <- MCCap
SPECIFICATION Spec
PROPERTY ReleaseIsCertain
CHECK_DEADLOCK FALSE
