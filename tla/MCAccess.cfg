SPECIFICATION MCSpec
CONSTANTS
  Families = {f1, f2}
  MaxGen = 2
  Procs = {p1, p2}
  Readers = {}
  Cap = 1
  MaxResets = 1
  NoSid = NoSid
  User = {u1, u2}
  Root = u1
  Role = {r1}
  Admin = admin
  Code = {c1}
  Proc = {q1, q2}
  Email = {e1, e2}
  Invitation = {i1, i2}
  Link = {k1, k2}
  LeftTab = left
  RightTab = right
  FirstCall = first
  OtherCall = other
  Tabs = {left, right}
  Calls = {first, late, other}
  TabOf <- PageTabs
  Kind <- PageKinds
  MaxRow = 3
CHECK_DEADLOCK FALSE
SYMMETRY Symmetry
INVARIANTS
  ChainHasOneTip
  ClosedFamiliesStayClosed
  PasswordChangeEndsLogins
  EnforcementIsDerived
  GrantsAreAsAsked
  ASuperuserRemains
  ClientIsSound
PROPERTIES
  RevocationIsFinal
  AnswersAreFinal
  LinksDieWithThePassword
