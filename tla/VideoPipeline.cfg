CONSTANTS
    QueueLimit = 2
    RecoveryWindow = 2
    MaxSeq = 4
    MaxEncoders = 2
    IdrBacklog = 1
SPECIFICATION FairSpec
INVARIANTS
    DecodableStream
    NextIsIdr
    OneCredit
    IdrPrompt
PROPERTIES
    GateRejectsBlind
    DropRecovers
    SessionEnds
