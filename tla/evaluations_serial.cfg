\* One request at a time, with the additions of earlier uploads still on their way.
SPECIFICATION Spec
CONSTANTS
  u1 = u1
  u2 = u2
  g1 = g1
  g2 = g2
  Users = {u1, u2}
  NoUser = NoUser
  Groups = {g1, g2}
  Evals = {e1}
  NoEval = NoEval
  Tags = {t1, t2}
  Slots = {s1}
  Ops <- AllOps
  Admins = {}
  Members <- SharedGroups
  Owners <- U1OwnsG1
INVARIANTS TypeOK TagsHaveEvaluation RulesAgree
PROPERTY ReadersAdmitReaders
