\* Two incidents and two requests under way.
SPECIFICATION Spec
CONSTANTS
  Incidents = {i1, i2}
  MaxRequests = 2
  None = None
SYMMETRY Symmetry
INVARIANT PlanOfIncident
CHECK_DEADLOCK FALSE
