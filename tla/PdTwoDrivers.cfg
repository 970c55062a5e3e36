\* Two processes advance the same delivery; others move its branches and pull requests.
SPECIFICATION Spec
CONSTANTS
    cli1 = cli1
    cli2 = cli2
    Mode = "pull_request"
    Drivers = {cli1, cli2}
    OfficeDrivers = {}
    Disturbances = {"crash", "fault", "base", "clash", "foreign", "close", "openpr", "revoke"}
    MaxDisturbed = 2
    MaxAttempts = 2
    MaxBase = 1
INVARIANTS
    OneCommitOnePush
    CandidateOnItsBase
    RecordedIsReal
PROPERTIES
    PushNeverOverwrites
SYMMETRY DriverSymmetry
\* A terminal delivery takes no further step.
CHECK_DEADLOCK FALSE
