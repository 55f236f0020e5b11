SPECIFICATION FairSpec
CONSTANTS
  ana = ana
  ben = ben
  w1 = w1
  w2 = w2
  r1 = r1
  r2 = r2
  Users = {ana, ben}
  Customers <- AnaBen
  Kinds <- All
  EventIds = {e1, e2}
  Hooks = {w1, w2}
  Requests = {r1}
  FreeProjectLimit = 1
  MaxProjects = 0
  MaxFailures = 1
  None = None
PROPERTY Idempotent
