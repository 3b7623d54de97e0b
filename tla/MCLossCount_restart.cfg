CONSTANTS
    Modulus = 6
    MaxMade = 7
    MaxAir = 2
    None = None
SPECIFICATION Spec
INVARIANTS ResetsAreAccepted
CHECK_DEADLOCK FALSE
