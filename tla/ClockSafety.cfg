SPECIFICATION Spec
CONSTANTS
    Projectors = {p1, p2}
    Lasting = {}
    Writers = {w1}
    Shifts = {1}
    MaxRevision = 2
    OpeningPhases = {"PREOPEN", "RUNNING"}
    FirstTournament = FALSE
    ScheduleShifts = 1
SYMMETRY ProjectorSymmetry
INVARIANTS RedisKeepsStep ShiftedOnce TournamentProjected ReadinessAgrees
PROPERTIES ProjectionKeepsWrites OnlyReconciliationMovesDeadlines
CHECK_DEADLOCK FALSE
