SPECIFICATION Spec
CONSTANTS
    Daemons = {d1, d2, d3}
    NoDaemon = NoDaemon
    Events = {1, 2}
    Withheld = {}
    Malformed = {}
    maxAttempts = 2
    MaxFaults = 4
    MaxTurns = 1
    LostReplies = FALSE
SYMMETRY DaemonSymmetry
CHECK_DEADLOCK FALSE
INVARIANTS
    SucceededIffApplied
    MemoryIsDurable
PROPERTIES
    ImplementsPromise
    ImplementsSingleWriter
