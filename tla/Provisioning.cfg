CONSTANTS
    f1 = f1
    f2 = f2
    r1 = r1
    r2 = r2
    unit = unit
    operator = operator
    e1 = e1
    e2 = e2
    vendor = vendor
    Files <- MCFiles
    Naming = f2
    FailPoints = {"write", "replace", "move"}
    Releases <- MCReleases
    Versions <- MCReleases
    Appliers <- MCAppliers
    Ours <- MCOurs
    BootEdids <- MCBootEdids
SPECIFICATION MCSpec
SYMMETRY MCSymmetry
INVARIANTS
    RunsPatchedServer
    BackupIsOriginal
    ServesOwnNodes
PROPERTIES
    LocalWorkKept
    RefusedRestores
    ImplementsSwitch
    OperatorFilesKept
    CodecRestored
