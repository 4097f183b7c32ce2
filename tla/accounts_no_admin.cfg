\* One request at a time on users in two groups where nobody is an administrator:
\* of the owner checks that run in parallel any number fails.
SPECIFICATION FairSpec
CONSTANTS
  g1 = g1
  g2 = g2
  s1 = s1
  s2 = s2
  NoGroup = NoGroup
  Users = {1, 2}
  Groups <- TwoGroups
  Slots <- OneSlot
  Ops = {"createGroup", "addUser", "removeUser", "setRole", "deleteUser", "sync"}
  RowIds = {1, 2, 3, 4, 5}
  DefaultAdmin = 1
  InitialAdmins = {}
  InitialUsers = {1, 2}
PROPERTY EnsuredGroupKeepsOwner
CHECK_DEADLOCK FALSE
