\* One process that crashes and whose calls fail.
SPECIFICATION Spec
CONSTANTS
    cli = cli
    Mode = "pull_request"
    Drivers = {cli}
    OfficeDrivers = {}
    Disturbances = {"crash", "fault", "base", "clash", "expire"}
    MaxDisturbed = 4
    MaxAttempts = 3
    MaxBase = 2
INVARIANTS
    TypeOK
    SavesAreValid
PROPERTIES
    VoidsOnlyAbsent
    ProvenStays
    LedgerSpec
\* A terminal delivery takes no further step.
CHECK_DEADLOCK FALSE
