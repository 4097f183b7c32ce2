--------------------------- MODULE MCCredentials ---------------------------
(***************************************************************************)
(* API keys, and the sessions of users who may have several.  The two      *)
(* share no variable: a behaviour is about one or the other, as focus      *)
(* says.                                                                   *)
(***************************************************************************)
EXTENDS ApiKeys, Integers

CONSTANTS u1, u2, g1, ann,
          Ids, Mails, NoMail, Ops, MaxSerial, Established, OldSecret, OneSessionPerUser

VARIABLES
  focus,                                           \* whose behaviour it is
  account, spentIds, request, serial, pending, tokens  \* the variables of Sessions

U2OwnsG1 == {<<u2, g1>>}
AnnIs1   == [i \in {1} |-> ann]

sessionVars == <<account, spentIds, request, serial, pending, tokens>>
allVars == <<focus, vars, sessionVars>>

S == INSTANCE Sessions WITH row <- account, spent <- spentIds, req <- request

\* What Sessions assumes of its constants.
ASSUME SessionsAssumption ==
  /\ Ids \subseteq Nat \ {0} /\ NoMail \notin Mails /\ Ops \subseteq S!AllOps
  /\ MaxSerial \in Nat \ {0} /\ OldSecret \in {S!NoSecret, 1} /\ OneSessionPerUser \in BOOLEAN
  /\ Established \in [Ids -> Mails \cup {NoMail}]
  /\ \A i, j \in Ids : Established[i] = Established[j] => i = j \/ Established[i] = NoMail

InitBoth == Init /\ S!Init /\ focus \in {"sessions", "keys"}

NextOne ==
  /\ UNCHANGED focus
  /\ \/ focus = "keys" /\ Next /\ UNCHANGED sessionVars
     \/ focus = "sessions" /\ S!Next /\ UNCHANGED vars

\* Statements that were sent are executed.
Credentials ==
  /\ InitBoth /\ [][NextOne]_allVars
  /\ \A k \in Keys :
       WF_allVars(focus = "keys" /\ LandHash(k) /\ UNCHANGED <<focus, sessionVars>>)

\* A session that works ends by a sign-out or with its account; another login ends it
\* only if it had found a user without a secret, however late its save lands
\* (Sessions.SessionEndsBySignOut).
SessionEndsBySignOut == S!SessionEndsBySignOut
=============================================================================
