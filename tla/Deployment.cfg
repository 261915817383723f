SPECIFICATION Spec
CONSTANTS
  live = live  old = old  paper = paper  readOnly = readOnly  unarmed = unarmed
  Instance <- MCInstance
  Preview = {v1}
  Setting <- MCSetting
  Skew <- MCSkew
  Argument <- MCArgument
  Last <- MCLast
  AppOrder = {"a", "b"}
  Symbol <- MCSymbol
  Canon <- MCCanon
  Currency = {"KRW", "USD"}
  Market <- MCMarket
  HighValue <- MCHighValue
  HardCeiling <- MCHardCeiling
  Window = 5
  MaxCall = 1
  MaxSkew = 1
  ModifiesStayLive = TRUE
  DayLength = 4
  Horizon = 6
INVARIANTS
  ExecutedOnce AsPreviewed ModeTable GuardrailsHold ConfirmedInTime
  OpenWhenPreviewed NotionalIsExposure
CHECK_DEADLOCK FALSE
