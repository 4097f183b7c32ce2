\* Two requests at a time where nobody is an administrator: logins that
\* synchronise groups and creations of groups against deletions of accounts.
SPECIFICATION FairSpec
CONSTANTS
  g1 = g1
  g2 = g2
  s1 = s1
  s2 = s2
  NoGroup = NoGroup
  Users = {1, 2}
  Groups <- OneGroup
  Slots <- TwoSlots
  Ops = {"createGroup", "sync", "deleteUser"}
  RowIds = {1, 2, 3, 4}
  DefaultAdmin = 1
  InitialAdmins = {}
  InitialUsers = {1, 2}
INVARIANTS NoDanglingRows
PROPERTIES RequestsAnswered
CHECK_DEADLOCK FALSE
