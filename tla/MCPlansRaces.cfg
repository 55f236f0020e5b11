SPECIFICATION Spec
SYMMETRY Symmetry
CONSTANTS
  ana = ana
  ben = ben
  w1 = w1
  w2 = w2
  r1 = r1
  r2 = r2
  Users = {ana}
  Customers <- Ana
  Kinds <- Buy
  EventIds = {e1, e2}
  Hooks = {w1, w2}
  Requests = {r1, r2}
  FreeProjectLimit = 1
  MaxProjects = 2
  MaxFailures = 2
  None = None
INVARIANTS
  TypeOK
  FreeLeavesMarketplace
  LimitOverrun
