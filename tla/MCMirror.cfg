CONSTANTS
    m = m  n = n  s = s  t = t
    Names = {m, n}
    Streams = {s, t}
    Absent = Absent
    Skew = 0
    MaxRequests = 2
SPECIFICATION FairSpec
INVARIANTS FollowerTypeOK UniqueTriples
PROPERTIES Converges
