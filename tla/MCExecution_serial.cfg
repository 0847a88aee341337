SPECIFICATION Spec
CHECK_DEADLOCK FALSE
CONSTANTS
    r1 = r1
    r2 = r2
    r3 = r3
    l1 = l1
    l2 = l2
    l3 = l3
    ema = ema
    macd = macd
    eur = eur
    gbp = gbp
    Runs = {r1, r2, r3}
    Lots = {l1, l2, l3}
    Strategies = {ema, macd}
    Pair <- TwoPairs
    Units <- Both
    Batch <- Two
    Limit = 2
    OnePerPair = TRUE
    MaxTrades <- Once
    Priority <- Ranks
    Override = {macd}
    MaxFaults = 1
 
INVARIANT NoFlip
 
