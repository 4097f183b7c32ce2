\* API keys, and sessions of a user who has not logged in before.
SPECIFICATION Credentials
CONSTANTS
  u1 = u1
  u2 = u2
  g1 = g1
  ann = ann
  Ids = {1}
  Mails = {ann}
  NoMail = NoMail
  Ops = {"local", "signOut", "remove"}
  Established <- AnnIs1
  OldSecret = 0
  OneSessionPerUser = FALSE
  Users = {u1, u2}
  Groups = {g1}
  NoOwner = NoOwner
  Admins = {u1}
  Owners <- U2OwnsG1
  Keys = {k1}
  NoKey = NoKey
  Slots = {s1, s2}
  MaxSerial = 5
CHECK_DEADLOCK FALSE
PROPERTIES SessionEndsBySignOut HashStays RemovedStaysRemoved HashLands
