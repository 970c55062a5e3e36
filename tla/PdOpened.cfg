\* A crash between the saves of PR_OPENED and COMPLETE.
SPECIFICATION FairSpec
CONSTANTS
    cli = cli
    Mode = "pull_request"
    Drivers = {cli}
    OfficeDrivers = {}
    Disturbances = {"crash"}
    MaxDisturbed = 1
    MaxAttempts = 2
    MaxBase = 0
PROPERTIES
    OpenedCompletes
\* A terminal delivery takes no further step.
CHECK_DEADLOCK FALSE
