CONSTANTS
    g = g  h = h
    Names = {m, n}
    Endpoints = {g, h}
    Port <- Ports
    Multicast = {g}
    Unbindable = {h}
    MaxSockets = 3
    Boot = boot
    Clients = {t}
    Follower = {u}
    SaveFails = TRUE
    MaxSent = 1
    None = None
SPECIFICATION FairSpec
INVARIANTS TypeOK HeardWhenSaved HeldIsOpen NothingLeftOpen CountedOnce
PROPERTIES Undisturbed SyncsEnd
CHECK_DEADLOCK FALSE
