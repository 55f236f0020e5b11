SPECIFICATION Spec
CONSTANTS
  Users = {ana, dev}
  Creator = ana
  Feedbacks = {f1}
  Bugs = {b1}
  Releases = {v1}
  Requests = {r1, r2}
  None = None
  Unborn = Unborn
  Gone = Gone
SYMMETRY Symmetry
INVARIANTS
  TypeOK
  FixMetadata
  AuditMatchesRows
PROPERTY
  FixedIsHistory
