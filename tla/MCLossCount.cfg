CONSTANTS
    Modulus = 6
    MaxMade = 6
    MaxAir = 2
    None = None
SPECIFICATION Spec
INVARIANTS TypeOK LossIsExact LossIsNotHidden FalseLossIsTheSetback
CHECK_DEADLOCK FALSE
