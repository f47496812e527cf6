SPECIFICATION SourceSpec
CONSTANTS
  Services = {s1, s2}
  Loop = s1
  Evidences = {1, 2, 3}
  Interactions = {1, 2, 3}
  Bytes = {b1, b2}
  Absent = Absent
  AgentRows = {2}
  TypedRows = {3}
  MaxFactFaults = 2
INVARIANT LaterRowsProceed
CHECK_DEADLOCK FALSE
