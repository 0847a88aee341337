SPECIFICATION FairPipeline

CONSTANTS
  p1 = p1
  p2 = p2
  Pairs = {p1, p2}
  MaxBar = 2
  Cross = {2}
  Lookback = 2
  Own <- Uneven
  Late = TRUE
  MaxFaults = 1
  MaxCrashes = 1

INVARIANT CoveredDelivered
INVARIANT ReanalysisExplained
PROPERTY Signalled
