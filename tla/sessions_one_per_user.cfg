\* One session per user: accounts appear with their first login, every login
\* replaces the one before, and users sign out.
SPECIFICATION FairSpec
CONSTANTS
  ann = ann
  bob = bob
  s1 = s1
  s2 = s2
  NoMail = NoMail
  Ids = {1, 2}
  Mails <- OneMail
  Slots <- TwoSlots
  Ops = {"local", "external", "signOut", "remove"}
  MaxSerial = 4
  Established <- NoUsers
  OldSecret = 0
  OneSessionPerUser = TRUE
CHECK_DEADLOCK FALSE
INVARIANTS TypeOK OneAccountPerMail OneSession SignedOutStaysOut
PROPERTIES RevokedStaysRevoked LoginTakesEffect
