\* What delivery_attempts keeps of an attempt.
SPECIFICATION Spec
CONSTANTS
    NumRequests = 1
    Surface <- NoSurface
    RetryBudget = 2
    MaxCrashes = 0
PROPERTY
    ClosedAttemptHasOutcome
CHECK_DEADLOCK FALSE
