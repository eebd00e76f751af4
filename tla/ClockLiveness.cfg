SPECIFICATION FairSpec
CONSTANTS
    Projectors = {p1, p2}
    Lasting = {p1}
    Writers = {}
    Shifts = {1}
    MaxRevision = 2
    OpeningPhases = {"PREOPEN"}
    FirstTournament = FALSE
    ScheduleShifts = 1
PROPERTIES ReconciliationEnds MemoryCatchesUp
CHECK_DEADLOCK FALSE
