CONSTANTS
    Interactions = {i1, i2}
    Acting = {i1}
    Stacks = {a, b}
    None = None
    MaxTime = 1
    MaxFailures = 1
SPECIFICATION Spec
SYMMETRY Symmetry
INVARIANTS
    CommittedTurnsSurvive
    AdmittedOnceWithMarker
    LeaseNeverLeaked
    ToldIsDurable
CHECK_DEADLOCK FALSE
