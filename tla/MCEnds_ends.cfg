SPECIFICATION Spec
CHECK_DEADLOCK FALSE
CONSTANTS
    none = none
    r1 = r1
    r2 = r2
    r3 = r3
    l1 = l1
    l2 = l2
    l3 = l3
    ema = ema
    macd = macd
    eur = eur
PROPERTY FinallyFree
PROPERTY EveryRunEnds
PROPERTY EveryCallEnds
