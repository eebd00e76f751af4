SPECIFICATION Spec
CONSTANTS
    Callers = {c1, c2, c3}
    Ids = {i1}
    Bases = {b1, b2}
    Digests = {x, y}
    Empty = Empty
    Nobody = Nobody
CHECK_DEADLOCK FALSE
INVARIANTS
    AnswersAgree
    WritesAreTheResults
PROPERTIES
    NoTakeBack
    ImplementsPromise
    EveryCallEnds
