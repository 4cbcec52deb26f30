CONSTANTS
    c1 = c1
    c2 = c2
    va = va
    vb = vb
    A = A
    Shift = Shift
    B1 = B1
    Boot = Boot
    Keys <- MCKeys
    Buttons <- MCButtons
    WakeKey = Shift
    VKs <- MCVKs
    KeyOf <- MCKeyOf
    Clients <- MCClients
    Modes = {"relative", "absolute"}
    StreamFaults = {}
    StreamBacklog = 2
SPECIFICATION FairSpec
INVARIANTS
    NeutralWhenFree
    HeldMatchesVirtual
    OwnSelectionLasts
PROPERTIES
    StartsNeutral
    ImplementsLease
    CleanupFreesLease
