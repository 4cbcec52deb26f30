CONSTANTS
    Edges = {1}
    Deltas <- MCDeltas
    MaxDelta = 2
    Notch = 2
    ClientCap = 2
    ServerCap = 2
    SocketCap = 1
    MaxEvents = 4
SPECIFICATION FairSpec
INVARIANTS
    MergingInvisible
    AppliedPrefix
    MotionFits
    WheelExact
PROPERTIES
    EventsArrive
    BothSidesEnd
