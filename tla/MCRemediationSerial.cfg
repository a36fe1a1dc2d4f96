\* Calls one at a time, every allowlisted action and malformed requests.
SPECIFICATION FairSpec
CONSTANTS
  Incidents = {i1}
  Plans = {p1, p2}
  Callers = {c1}
  Requests <- MCEveryAction
  InitialSpecs <- MCFailing
  DriftSpecs <- MCFaulty
  MaxVersion = 2
  CanCrash = FALSE
  NoPlan = NoPlan
  NoProposal = NoProposal
INVARIANTS ProposalDecidable MonitoringVerifiable ResolvedIsVerified
PROPERTY ExecutionFinishes
CHECK_DEADLOCK FALSE
