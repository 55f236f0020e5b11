SPECIFICATION FairSpec
CONSTANTS
  ana = ana
  ben = ben
  p1 = p1
  p2 = p2
  p3 = p3
  Users = {ana, ben}
  None = None
  Reports = {}
  Joins = {}
  Blockers = {ana, ben}
  Projects = {p1, p2}
  Owner <- Owner2
  SwapIds = {s1}
  Requests = {r1}
  MaxPending = 1
INVARIANT NoPendingAcrossBlock
