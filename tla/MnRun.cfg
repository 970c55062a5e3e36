\* A panel, a runtime and a person at the command line act on one mission.
SPECIFICATION FairSpec
CONSTANTS
    panel = panel
    runtime = runtime
    cli = cli
    Content <- MCContent
    Caller <- MCCaller
    Does <- MCDoes
    Guarded = {panel, runtime}
    MaxMissions = 1
    MaxRequestIds = 1
    MaxDecisionIds = 1
    MaxAuthorizations = 1
    MaxLedger = 2
    MaxRevisions = 1
    MaxDecisions = 1
    AttestedValidity = 1
    MaxPauses = 1
    MaxReconcileAttempts = 2
    MaxVerifications = 1
    MaxTime = 2
    MaxFaults = 2
INVARIANTS
    RunAccepted
    CompletedIsProven
PROPERTIES
    PausedQuiet
    HeldSettles
    VerifiesItself
\* A mission that is over takes no further step.
CHECK_DEADLOCK FALSE
