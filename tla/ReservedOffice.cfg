SPECIFICATION Spec
CONSTANTS
    Daemons = {d1}
    Nobody = Nobody
    Generals = {g1, n1}
    Npcs = {n1}
    Autorun = {}
    Posts = {o1}
    NoPost = NoPost
    NoGeneral = NoGeneral
    MaxRevision = 2
    Promotions = TRUE
CHECK_DEADLOCK FALSE
PROPERTY OldNeverOverwritesNew
