CONSTANTS
    p = p  q = q  good = good  bad = bad  k = k  l = l
    Publications = {p, q}
    Qualities = {good, bad}
    Messages <- MCMessages
    Keys = {k, l}
    Scenarios <- MCScenarios
    Order <- MCOrder
    MaxNumber = 3
    QueueSize = 1
    None = None
SPECIFICATION FairSpec
INVARIANTS TypeOK 
PROPERTIES ImplementsStream ShowsLast
CHECK_DEADLOCK FALSE
