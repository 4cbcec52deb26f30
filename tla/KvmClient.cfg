CONSTANTS
    Ready = {"m1", "m2"}
    PollFailureLimit = 2
    ReconnectLimit = 2
    StablePolls = 2
SPECIFICATION FairSpec
INVARIANTS
    StreamHasHost
    WantIsDriven
PROPERTIES
    QuitWins
    WantResolves
    UnwantedEnds
