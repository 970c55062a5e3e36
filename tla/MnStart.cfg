\* Starts race an edit, an expiry, a cancel and a closure of the progress.
SPECIFICATION Spec
CONSTANTS
    panel = panel
    runtime = runtime
    cli = cli
    Content <- MCContent
    Caller <- MCCaller
    Does <- MCStarts
    Guarded = {panel, runtime}
    MaxMissions = 1
    MaxRequestIds = 1
    MaxDecisionIds = 3
    MaxAuthorizations = 2
    MaxLedger = 3
    MaxRevisions = 2
    MaxDecisions = 3
    AttestedValidity = 1
    MaxPauses = 1
    MaxReconcileAttempts = 1
    MaxVerifications = 1
    MaxTime = 2
    MaxFaults = 1
INVARIANTS
    StartsOnce
PROPERTIES
    EligibleIsQuiet
    AttemptsAlone
\* A mission that is over takes no further step.
CHECK_DEADLOCK FALSE
