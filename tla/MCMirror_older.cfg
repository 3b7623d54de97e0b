CONSTANTS
    m = m  n = n  s = s  t = t
    Names = {m, n}
    Streams = {s, t}
    Absent = Absent
    Skew = 0
    MaxRequests = 3
SPECIFICATION FollowerSpec
PROPERTIES NothingOlderKept
