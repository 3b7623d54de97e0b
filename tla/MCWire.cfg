CONSTANTS
    v = v  w = w  k = k  l = l
    Values = {v, w}
    Sent <- MCSent
    Receivers <- MCReceivers
    RelayKeys = {k}
    MaxMessages = 2
    MaxBody = 60
    SeqModulus = 8
    Damaged = Damaged
    None = None
SPECIFICATION Spec
INVARIANTS TypeOK RoundTrip OnlyVerified RelayKeeps
CHECK_DEADLOCK FALSE
