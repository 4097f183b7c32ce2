\* One request at a time, every operation; ADMIN_EMAIL names a plain user at first.
SPECIFICATION Spec
CONSTANTS
  g1 = g1
  g2 = g2
  s1 = s1
  s2 = s2
  NoGroup = NoGroup
  Users = {1, 2, 3}
  Groups <- OneGroup
  Slots <- OneSlot
  Ops <- AllOps
  RowIds = {1, 2, 3, 4}
  DefaultAdmin = 2
  InitialAdmins = {1}
  InitialUsers = {2}
INVARIANTS TypeOK OneRowPerMember AdminRemains RulesAgree
PROPERTIES OwnerLossExplained SyncMatchesNamesUnlessFallback ManagedMembership
