CONSTANTS
    A = A  B = B  x = x  y = y  e = e  f = f  m = m  n = n
    Managers = {m, n}
    Servers = {A, B}
    Names = {x, y}
    Datasets = {e, f}
    Scenarios <- MCScenarios
    None = None
SPECIFICATION FairSpec
INVARIANTS TypeOK NoOrphanPublisher LinkedMeansBoth WaitTellsTheTruth UnlinkTellsTheTruth
PROPERTIES ClosesItsOwn UnlinkSucceeds
CHECK_DEADLOCK FALSE
