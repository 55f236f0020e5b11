SPECIFICATION Spec
CONSTANTS
  ana = ana
  ben = ben
  p1 = p1
  r1 = r1
  r2 = r2
  i1 = i1
  i2 = i2
  Users = {ana, ben}
  Projects = {p1}
  Owner <- OwnerMC
  InviteIds = {i1, i2}
  Requests = {r1, r2}
  Swaps <- SwapsMC
  Blockers = {ana}
  None = None
SYMMETRY Symmetry
INVARIANTS
  TypeOK
  DevelopersWereInvited
  BlockWithdraws
  WelcomedOnce
PROPERTIES
  MembershipSpec
  DeveloperKept
  AnsweredOnce
CHECK_DEADLOCK FALSE
