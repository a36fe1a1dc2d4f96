\* Two alert groups, two overlapping demo starts, crashes.
SPECIFICATION Spec
CONSTANTS
  Incidents = {i1, i2, i3}
  Keys <- MCKeys
  Deliveries <- MCDeliveries
  Starters = {c1, c2}
  CanCrash = TRUE
  None = None
SYMMETRY Symmetry
INVARIANTS TypeOK OneOpenPerKey RecordedOnce OpenedByFiring OneDriver
PROPERTY ImplementsBook
CHECK_DEADLOCK FALSE
