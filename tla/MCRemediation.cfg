\* Two overlapping calls, two plans of one incident that can both be written, crashes.
SPECIFICATION Spec
CONSTANTS
  Incidents = {i1}
  Plans = {p1, p2}
  Callers = {c1, c2}
  Requests <- MCRestoreOrRestart
  InitialSpecs <- MCFailing
  DriftSpecs <- MCFailing
  MaxVersion = 2
  CanCrash = TRUE
  NoPlan = NoPlan
  NoProposal = NoProposal
SYMMETRY Symmetry
INVARIANTS TypeOK Inductive PatchedAsApproved AuditTruthful OneExecutor ClosedAfterPatch ClosedOnVerdict
PROPERTIES ImplementsGate ImplementsContract OutcomeRecorded
CHECK_DEADLOCK FALSE
