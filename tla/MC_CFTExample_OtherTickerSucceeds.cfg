CONSTANTS
  GE = GE
  MSFT = MSFT
  Tickers <- MC_Tickers
  OtherTicker = OtherTicker
  NoArg = NoArg
  None = None
  Rounds = 3
  MaxPolls = 45
  PubPeriod = 5
  LaunchWindow = 35

SPECIFICATION Spec
SYMMETRY MC_Symmetry
INVARIANT
  OtherTickerSucceeds
