SPECIFICATION Browser
CONSTANTS
  e1 = e1
  e2 = e2
  e3 = e3
  s1 = s1
  s2 = s2
  g1 = g1
  g2 = g2
  g3 = g3
  c1 = c1
  c2 = c2
  Evals = {e1, e2, e3}
  NoEval = NoEval
  Slots = {s1, s2}
  Contents <- Holds
  Uploaded = {e1, e2}
  Opened = {"profile", "unreadable"}
  MaxClicks = 0
  MaxFiles = 0
  Parts = 2
  Groups = {g1, g2, g3}
  NoGroup = NoGroup
  Calls = {c1, c2}
  Admin = TRUE
  Existing <- Stands
  GroupClicks = 3
CHECK_DEADLOCK FALSE
PROPERTIES DeletedGroupLeaves
