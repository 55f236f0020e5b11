SPECIFICATION ServerSpec
CONSTANTS
  Accounts = {ana, ben}
  Phones = {ph1}
  Tokens = {tok1, tok2}
  Sends = {push1}
  MaxPosts = 2
  None = None
  eve = eve
  rev = rev
  Emails = {eve, rev}
  Reviewers = {rev}
  Codes = {code1, code2}
  FixedCode = code1
  subA = subA
  subB = subB
  Identities = {subA, subB}
  Callers = {req1, req2}
  MaxAccounts = 2
  Nil = Nil
  Kids = {key1, key2, key3}
  First = key1
  Hour = 2
  MaxTime = 6
  srv1 = srv1
  srv2 = srv2
  srv3 = srv3
  Servers = {srv1, srv2, srv3}
  Files <- FilesMC
  Repeatable = {1, 3}
  Edits = {edit1, edit2, edit3}
  Created = Created
  Asked <- AskedMC
  Projects = {app1, app2}
  Uploads = {up1, up2, up3}
SYMMETRY Symmetry
INVARIANTS
  DeviceTypeOK
  SignedOutSilent
  RegisteredAtRest
  SignInTypeOK
  NewKeyAccepted
  OldKeyLapses
  AppliedOnceInOrder
  ServesItsSchema
  SomebodyStarts
  EditLasts
  FilesFollowProjects
PROPERTIES
  TokenKept
  CodesOpenOnce
  AppleKeepsAccount
CHECK_DEADLOCK FALSE
