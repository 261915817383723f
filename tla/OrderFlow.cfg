CONSTANTS
  o1 = o1
  o2 = o2
  o3 = o3
  o4 = o4
  Order = {o1, o2, o3, o4}
  Currency = {"KRW", "USD"}
  Ceiling = 3
  LastDay = 1
  Proc = {p1, p2}
  Durable = TRUE
  RejectIsFinal = TRUE
  BadBodies = FALSE
  SerialTokens = TRUE
  CutCalls = {o1, o2, o4}
  OrderSpec <- Mixed
  Cap <- MCCap
SPECIFICATION Spec
INVARIANTS TypeOK CapHolds ChargesStand
SYMMETRY SymmetricProcs
CHECK_DEADLOCK FALSE
