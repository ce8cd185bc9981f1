SPECIFICATION IncidentsSpec
CONSTANTS
  blocked = blocked
  findings = findings
  p1 = p1
  p2 = p2
  Signature <- MCSignature
  Recoverable <- MCRecoverable
  Task <- MCTask
  Drainer = drainer
  StateSurvives = FALSE
  IndexLimit = 2
  MaxCaptures = 1
  MaxEvents = 2
  MaxFaults = 0
SYMMETRY MCSymmetry
INVARIANTS
  ShipsOnce
CHECK_DEADLOCK FALSE
