\* Two requests in flight.
SPECIFICATION FairSpec
CONSTANTS
  u1 = u1
  u2 = u2
  g1 = g1
  g2 = g2
  Users = {u1, u2}
  NoUser = NoUser
  Groups = {g1}
  Evals = {e1}
  NoEval = NoEval
  Tags = {t1}
  Slots = {s1, s2}
  Ops <- Races
  Admins = {}
  Members <- BothInG1
  Owners <- U1OwnsG1
INVARIANTS NoDanglingShares
PROPERTY UploadReachesGroups
