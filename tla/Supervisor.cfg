CONSTANTS
    Units = {u}
    Hands = {h}
    Pids = {p1, p2}
    Linger = FALSE
SPECIFICATION Spec
SYMMETRY Symmetry
INVARIANTS
    ReleaseAlone
    Stoppable
    StopHitsSupervisor
CHECK_DEADLOCK FALSE
