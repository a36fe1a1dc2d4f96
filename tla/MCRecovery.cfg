\* Overlapping checks of a plan of each kind; pods come and go while they are watched.
SPECIFICATION FairSpec
CONSTANTS
  Callers = {c1, c2}
  Actions <- MCOneOfEach
  RestartWindow = 2
  ResponseWindow = 2
  MaxReplicas = 1
  MaxRestarts = 1
INVARIANT TypeOK
PROPERTIES StableUnlessReplaced RefutedOnlyAfterSettling ImplementsContract HealthyGetsVerified
CHECK_DEADLOCK FALSE
