\* Two overlapping verifications of one plan.
SPECIFICATION Spec
CONSTANTS
  Incidents = {i1}
  Plans = {p1}
  Callers = {c1, c2}
  Requests <- MCRestore
  InitialSpecs <- MCFailing
  DriftSpecs <- MCFailing
  MaxVersion = 2
  CanCrash = FALSE
  NoPlan = NoPlan
  NoProposal = NoProposal
INVARIANT ResolvedIsVerified
CHECK_DEADLOCK FALSE
