\* Two administrators delete their accounts at once.
SPECIFICATION Spec
CONSTANTS
  g1 = g1
  g2 = g2
  s1 = s1
  s2 = s2
  NoGroup = NoGroup
  Users = {1, 2}
  Groups <- OneGroup
  Slots <- TwoSlots
  Ops = {"deleteUser"}
  RowIds = {1}
  DefaultAdmin = 0
  InitialAdmins = {1, 2}
  InitialUsers = {}
INVARIANT AdminRemains
