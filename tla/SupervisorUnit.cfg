CONSTANTS
    Units = {u1, u2, u3}
    Hands = {}
    Pids = {p}
    Linger = TRUE
SPECIFICATION FairSpec
INVARIANTS
    HeldIsMarked
    InputReachable
PROPERTIES
    ExitTellsRelease
    SupervisorEnds
CHECK_DEADLOCK FALSE
