\* A workspace is released while a corrective target still works in it.
SPECIFICATION Spec
CONSTANTS
    MaxTurns = 6
    MaxReceipts = 6
    MaxFollowUps = 1
    MaxCapabilities = 2
    Disturbances <- AllDisturbances
    MaxDisturbed = 1
PROPERTIES
    NoSessionInRemoved
