SPECIFICATION CalmSpec
CONSTANTS
  Users = {ana, dev}
  Creator = ana
  Feedbacks = {f1}
  Bugs = {b1}
  Releases = {v1}
  Requests = {r1}
  None = None
  Unborn = Unborn
  Gone = Gone
PROPERTY MovesTakeEffect
CHECK_DEADLOCK FALSE
