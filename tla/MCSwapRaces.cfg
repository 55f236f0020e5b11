SPECIFICATION Spec
CONSTANTS
  ana = ana
  ben = ben
  p1 = p1
  p2 = p2
  p3 = p3
  Users = {ana, ben}
  None = None
  Reports = {}
  Joins <- Others3
  Blockers = {ana, ben}
  Projects = {p1, p2, p3}
  Owner <- Owner3
  SwapIds = {s1, s2}
  Requests = {r1, r2}
  MaxPending = 1
SYMMETRY Symmetry
INVARIANTS
  TypeOK
  AcceptedAreMembers
  CreatorsStay
  CapOverrun
PROPERTY
  AnswersAreFinal
