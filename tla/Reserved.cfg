SPECIFICATION Spec
CONSTANTS
    Daemons = {d1}
    Nobody = Nobody
    Generals = {g1, n1}
    Npcs = {n1}
    Autorun = {n1}
    Posts = {o1}
    NoPost = NoPost
    NoGeneral = NoGeneral
    MaxRevision = 2
    Promotions = FALSE
CHECK_DEADLOCK FALSE
PROPERTY OldNeverOverwritesNew
