SPECIFICATION Spec
CONSTANTS
    Profiles = {p1}
    Gateway = gw
    Orchestrators = {o1, o2}
    Controllers = {c1, c2}
    Roles = 1
    Commits = {A, B}
    First = A
    Branch = main
    None = None
    Requests = {"START", "STOP", "DEPLOY", "RESET", "CANCEL_GAME", "RELEASE"}
    LogOutages = TRUE
    MaxOps = 2
    MaxFaults = 1
SYMMETRY Interchangeable
INVARIANTS TypeOK OneRunning OneStrayEffect
PROPERTIES CancelledBuildUntouched SucceededIsPublished SeasonKept
CHECK_DEADLOCK FALSE
