CONSTANTS
    a = a  b = b  s = s  t = t
    Names = {a, b}
    Streams = {s, t}
    Absent = Absent
    MaxTime = 1
    EditedFiles <- EditedByHand
SPECIFICATION Spec
INVARIANTS TypeOK NameHoldsItsTriple TripleLeadsToItsName AnsweredIsSaved RestartRestores
PROPERTIES RegistrationDateKept ImplementsCatalog
