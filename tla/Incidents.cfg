SPECIFICATION IncidentsSpec
CONSTANTS
  blocked = blocked
  findings = findings
  p1 = p1
  p2 = p2
  Signature <- MCSignature
  Recoverable <- MCRecoverable
  Task <- MCTask
  Drainer = drainer
  StateSurvives = FALSE
  IndexLimit = 1
  MaxCaptures = 3
  MaxEvents = 2
  MaxFaults = 1
SYMMETRY MCSymmetry
INVARIANTS
  AskedOnce
  EveryIncidentShips
CHECK_DEADLOCK FALSE
