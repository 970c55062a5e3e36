\* A pr_update delivery that a drive and the office advance: crashes, failures, and
\* outside changes.
SPECIFICATION FairSpec
CONSTANTS
    cli = cli
    office = office
    Mode = "pr_update"
    Drivers = {cli, office}
    OfficeDrivers = {office}
    Disturbances = {"crash", "fault", "foreign", "close", "expire"}
    MaxDisturbed = 2
    MaxAttempts = 3
    MaxBase = 0
INVARIANTS
    OneConfirmedStep
PROPERTIES
    UpdateExtendsApprovedHead
    Stops
\* A terminal delivery takes no further step.
CHECK_DEADLOCK FALSE
