\* A second execution invalidates the plan while the first is about to claim it.
SPECIFICATION FairSpec
CONSTANTS
  Incidents = {i1}
  Plans = {p1}
  Callers = {c1, c2}
  Requests <- MCRestore
  InitialSpecs <- MCFailing
  DriftSpecs <- MCFailing
  MaxVersion = 2
  CanCrash = FALSE
  NoPlan = NoPlan
  NoProposal = NoProposal
PROPERTY ExecutionFinishes
CHECK_DEADLOCK FALSE
