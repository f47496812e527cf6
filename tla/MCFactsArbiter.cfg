\* One service stored the evidence; the other, started before, is handed other bytes first.
SPECIFICATION FactSpec
CONSTANTS
    Services = {s1, s2}
    Evidences = {1}
    Interactions = {1, 2}
    Bytes = {b1, b2}
    Absent = Absent
    MaxFactFaults = 0
INVARIANT
    TableArbitratesReality
CHECK_DEADLOCK FALSE
