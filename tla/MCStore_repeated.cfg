CONSTANTS
    a = a  b = b  s = s  t = t
    Names = {a, b}
    Streams = {s, t}
    Absent = Absent
    MaxTime = 1
    EditedFiles <- RepeatedName
SPECIFICATION Spec
INVARIANTS TripleLeadsToItsName
