SPECIFICATION Spec
CONSTANTS
    Profiles = {p1}
    Gateway = gw
    Orchestrators = {o1}
    Controllers = {c1}
    Roles = 1
    Commits = {A, B}
    First = A
    Branch = main
    None = None
    Requests = {"DEPLOY", "RESET", "RELEASE", "BULK"}
    LogOutages = FALSE
    MaxOps = 2
    MaxFaults = 1
PROPERTIES OperationsEnd ImplementsSerialJobs
CHECK_DEADLOCK FALSE
