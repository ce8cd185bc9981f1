SPECIFICATION Spec
CONSTANTS
  s1 = s1
  s2 = s2
  f1 = f1
  f2 = f2
  g1 = g1
  p1 = p1
  p2 = p2
  None = None
  Session <- MCSession
  Flow <- MCFlow
  SessionOf <- MCSessionOf
  Action = {search, select}
  Txn = {x1, x2}
  Party <- MCParty
  MaxArms = 3
  MaxJobs = 3
SYMMETRY MCSymmetry
PROPERTY SiblingsStayArmed
CHECK_DEADLOCK FALSE
