\* Crashes, faults, lost answers and outside changes, two in one behaviour.
SPECIFICATION FairSpec
CONSTANTS
    MaxTurns = 5
    MaxReceipts = 4
    MaxFollowUps = 1
    MaxCapabilities = 2
    Disturbances <- AllDisturbances
    MaxDisturbed = 2
INVARIANTS
    SpawnsWithinReceipts
    SpawnNeedsBound
    BoundIsReal
    OneResultObject
    DeliveredWasShown
    NoLeak
PROPERTIES
    VerifiedAgainstFresh
    ArchivedBeforeRemoval
    UnresolvedSettles
    ResultPresented
