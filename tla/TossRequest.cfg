CONSTANTS
  Proc = {p1, p2}
  MaxRetries = 1
SPECIFICATION LiveSpec
INVARIANTS OutcomeIsTrue SendsAreBounded TokenFailureNeedsRival
PROPERTY EveryCallEnds
