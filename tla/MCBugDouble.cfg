SPECIFICATION FairSpec
CONSTANTS
  Users = {ana, dev}
  Creator = ana
  Feedbacks = {f1}
  Bugs = {b1, b2}
  Releases = {v1}
  Requests = {r1}
  None = None
  Unborn = Unborn
  Gone = Gone
INVARIANT OneBugPerFeedback
