CONSTANTS
    g = g  h = h
    Names = {m, n}
    Endpoints = {g, h}
    Port <- Ports
    Multicast = {g}
    Unbindable = {h}
    MaxSockets = 3
    Boot = boot
    Clients = {t, u}
    Follower = {}
    SaveFails = FALSE
    MaxSent = 0
    None = None
SPECIFICATION FairSpec
INVARIANTS OneReceiverPerEndpoint
CHECK_DEADLOCK FALSE
