\* The server dies between two steps of one call.
SPECIFICATION Spec
CONSTANTS
  Incidents = {i1}
  Plans = {p1}
  Callers = {c1}
  Requests <- MCRestore
  InitialSpecs <- MCFailing
  DriftSpecs <- MCFailing
  MaxVersion = 2
  CanCrash = TRUE
  NoPlan = NoPlan
  NoProposal = NoProposal
INVARIANT ProposalDecidable
CHECK_DEADLOCK FALSE
