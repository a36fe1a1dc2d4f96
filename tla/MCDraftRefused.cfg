\* A Resolved incident whose alert fires again.
SPECIFICATION Spec
CONSTANTS
  Incidents = {i1, i2, i3}
  Keys <- MCKeys
  Deliveries <- MCDeliveries
  Starters = {c1}
  CanCrash = FALSE
  None = None
INVARIANT DraftAvailable
CHECK_DEADLOCK FALSE
