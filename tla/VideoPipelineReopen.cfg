CONSTANTS
    QueueLimit = 2
    RecoveryWindow = 2
    MaxSeq = 3
    MaxEncoders = 3
    IdrBacklog = 1
SPECIFICATION Spec
INVARIANT GateAccepts
