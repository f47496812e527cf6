CONSTANTS
    Interactions = {i1}
    Acting = {i1}
    Stacks = {a}
    None = None
    MaxTime = 1
    MaxFailures = 1
SPECIFICATION Spec
PROPERTY
    RetryIsAdmitted
CHECK_DEADLOCK FALSE
