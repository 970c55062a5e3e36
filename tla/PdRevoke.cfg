\* A revocation that falls between the load and a save.
SPECIFICATION Spec
CONSTANTS
    cli = cli
    Mode = "pull_request"
    Drivers = {cli}
    OfficeDrivers = {}
    Disturbances = {"revoke"}
    MaxDisturbed = 1
    MaxAttempts = 2
    MaxBase = 0
PROPERTIES
    RevocationStopsNextEffect
\* A terminal delivery takes no further step.
CHECK_DEADLOCK FALSE
