CONSTANTS
  o1 = o1
  o2 = o2
  o3 = o3
  Order = {o1, o2, o3}
  Currency = {"KRW", "USD"}
  Ceiling = 2
  LastDay = 0
  Proc = {p1, p2, p3}
  LeaseHolds = TRUE
  Failures = TRUE
  OrderSpec <- TwoBuckets
  Cap <- MCCap
SPECIFICATION LiveSpec
INVARIANTS CounterCovers CounterWithinCap
PROPERTIES IsAtomic EveryCallEnds
