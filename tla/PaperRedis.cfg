CONSTANTS
  o1 = o1
  o2 = o2
  o3 = o3
  Order = {o1, o2, o3}
  Currency = {"KRW", "USD"}
  Symbol = {"S"}
  Ceiling = 12
  LastDay = 0
  Proc = {p1, p2}
  LeaseHolds = TRUE
  Failures = TRUE
  SerialTokens = FALSE
  OrderSpec <- Specs
  Trade <- Trades
  Price <- MCPrice
  StartCash <- MCCash
  Cap <- MCCap
SPECIFICATION Spec
INVARIANTS SuccessStays MoneyIsConserved
PROPERTY FillsAreAtomic
SYMMETRY SymmetricProcs
CHECK_DEADLOCK FALSE
