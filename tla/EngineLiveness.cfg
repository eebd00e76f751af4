SPECIFICATION Spec
CONSTANTS
    Daemons = {d1, d2, d3}
    NoDaemon = NoDaemon
    Events = {1, 2}
    Withheld = {1}
    Malformed = {2}
    maxAttempts = 2
    MaxFaults = 2
    MaxTurns = 1
    LostReplies = TRUE
CHECK_DEADLOCK FALSE
INVARIANTS
    NeverTwice
PROPERTIES
    EventuallyAnswered
    ResultsAreFinal
