SPECIFICATION FairSpec
CONSTANTS
  ana = ana
  ben = ben
  p1 = p1
  p2 = p2
  p3 = p3
  Users = {ana, ben}
  None = None
  Reports <- Others2
  Joins = {}
  Blockers = {}
  Projects = {p1, p2, p3}
  Owner <- Owner3
  SwapIds = {s1, s2}
  Requests = {r1}
  MaxPending = 1
INVARIANTS
  FulfilledMeansFiled
  ToldOnce
PROPERTY
  ReportCompletes
