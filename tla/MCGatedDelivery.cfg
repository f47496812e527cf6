\* The switch is thrown at any time; the daemon runs as it is.
SPECIFICATION GatedSpec
CONSTANTS
    NumRequests = 1
    Surface <- NoSurface
    RetryBudget = 1
    MaxCrashes = 0
    Channels = {"chat"}
    Targets = {"user"}
    Route <- OneRoute
PROPERTY
    NoCallWhileOff
CHECK_DEADLOCK FALSE
