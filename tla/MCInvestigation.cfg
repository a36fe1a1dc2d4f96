\* Two investigations, one after the other or overlapping, of one incident
\* or of two, with crashes and restarts.
SPECIFICATION Spec
CONSTANTS
  Incidents = {i1, i2}
  Workers = {w1, w2}
  Events <- MCEvents
  Revisions <- MCRevisions
  MaxCalls = 2
  MaxToolTurns = 2
  Citations <- MCCitations
  None = None
INVARIANTS TypeOK CitesOwnEvidence SnapshotPersisted OnceUnlessRaced
PROPERTIES ImplementsLedger InvestigationEnds
CHECK_DEADLOCK FALSE
