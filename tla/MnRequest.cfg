\* A local request, an authenticated caller and a panel on one registry.
SPECIFICATION Spec
CONSTANTS
    Content <- MCContent
    r1 = r1
    Ref = {r1}
    MaxMissions = 1
    MaxRequestIds = 1
    MaxDecisionIds = 3
    MaxAuthorizations = 2
    MaxLedger = 3
    MaxRevisions = 2
    MaxDecisions = 3
    AttestedValidity = 1
    KeyValidity = 1
    MaxPauses = 1
    MaxReconcileAttempts = 1
    MaxVerifications = 1
    MaxCrashes = 1
    MaxTime = 2
    AskedScopes = {"requested"}
INVARIANTS
    StoreAccepted
    AuthorityIsCurrent
    SurfaceTells
PROPERTIES
    RecordOnlyGrows
\* A withdrawn or cancelled mission takes no further step.
CHECK_DEADLOCK FALSE
