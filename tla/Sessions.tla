------------------------------ MODULE Sessions ------------------------------
(***************************************************************************)
(* Login, sign-out and the JWT guard of the Heimdall backend               *)
(* (apps/backend/src/authn and the secret of users.service.ts).            *)
(*                                                                         *)
(* A token is signed with JWT_SECRET and the jwtSecret of its user, and the *)
(* guard verifies it with the jwtSecret it finds in the database, so a     *)
(* user signs out by getting another secret.  A login does not wait for    *)
(* what it saves: pending holds the UPDATE statements on their way, each   *)
(* with the instance it saves, and they land in any order.                 *)
(*                                                                         *)
(* Tokens also expire; here a client just stops presenting one.            *)
(***************************************************************************)
EXTENDS Integers, FiniteSets

CONSTANTS
  Ids,                \* the ids of the Users table
  Mails,              \* the emails people log in with
  NoMail,             \* the email of a row that does not exist
  Slots,              \* the requests that may be in flight at once
  Ops,                \* what clients ask for
  MaxSerial,          \* bound on the requests of a behaviour
  Established,        \* the users of the deployment, by id ...
  OldSecret,          \* ... with this secret (NoSecret: never logged in)
  OneSessionPerUser   \* the setting ONE_SESSION_PER_USER

NoSecret == 0
AllOps == {"local", "external", "signOut", "remove"}

ASSUME IdsAssumption     == Ids \subseteq Nat \ {0}
ASSUME MailsAssumption   == NoMail \notin Mails
ASSUME OpsAssumption     == Ops \subseteq AllOps
ASSUME SerialAssumption  == MaxSerial \in Nat \ {0}
ASSUME EstablishedAssumption ==
  /\ Established \in [Ids -> Mails \cup {NoMail}]
  /\ \A i, j \in Ids : Established[i] = Established[j] => i = j \/ Established[i] = NoMail
ASSUME SecretAssumption  == OldSecret \in {NoSecret, 1}
ASSUME SettingAssumption == OneSessionPerUser \in BOOLEAN

VARIABLES
  row,      \* the Users table
  spent,    \* the ids that have been given out
  req,      \* the requests in flight
  serial,   \* the number of requests so far; the number of one is its fresh v4()
  pending,  \* the saves nobody waits for
  tokens    \* the tokens handed out

vars == <<row, spent, req, serial, pending, tokens>>

-----------------------------------------------------------------------------
Serials == 1 .. MaxSerial
Secrets == {NoSecret} \cup Serials

UserRow == [mail : Mails \cup {NoMail}, secret : Secrets, logins : Nat]
NoRow   == [mail |-> NoMail, secret |-> NoSecret, logins |-> 0]
NewRow(m) == [mail |-> m, secret |-> NoSecret, logins |-> 0]

Exists(i) == row[i].mail # NoMail

\* A token.  For the properties, it remembers whether its user has signed out since
\* it was handed out: before or after the secret that signed it was saved.
Token   == [n : Serials, id : Ids, secret : Secrets, out : {"no", "before", "after"}]
NoToken == [n |-> 0, id |-> 0, secret |-> NoSecret, out |-> "no"]

\* What the guard finds: the user exists and has the secret that signed the token.
Accepts(t) == Exists(t.id) /\ row[t.id].secret = t.secret

\* A save: the column that changed, the secret of the instance when it was found, and
\* the instance as it is now.
Columns == {"secret", "logins"}
Save == [n : Serials, column : Columns, id : Ids, found : Secrets, instance : UserRow]

Request == [at : {"idle", "find", "create", "refind", "login", "guard", "user", "signOut"},
            op : AllOps \cup {"none"}, n : Serials \cup {0}, mail : Mails \cup {NoMail},
            id : Ids \cup {0}, token : Token \cup {NoToken}, seen : UserRow]

Idle == [at |-> "idle", op |-> "none", n |-> 0, mail |-> NoMail, id |-> 0,
         token |-> NoToken, seen |-> NoRow]

Reply(s) == req' = [req EXCEPT ![s] = Idle]

Init ==
  /\ row = [i \in Ids |-> IF Established[i] = NoMail THEN NoRow
                          ELSE [mail |-> Established[i], secret |-> OldSecret, logins |-> 0]]
  /\ spent = {i \in Ids : Established[i] # NoMail}
  /\ req = [s \in Slots |-> Idle]
  /\ serial = 1
  /\ pending = {}
  /\ tokens = {}

-----------------------------------------------------------------------------
(* Requests. *)

Begin(s, new) ==
  /\ req[s].at = "idle" /\ serial < MaxSerial
  /\ serial' = serial + 1
  /\ req' = [req EXCEPT ![s] = [new EXCEPT !.n = serial + 1]]
  /\ UNCHANGED <<row, spent, pending, tokens>>

\* POST /authn/login, or the callback of an identity provider.
AskLogin(s) ==
  \E op \in Ops \cap {"local", "external"}, m \in Mails :
    Begin(s, [Idle EXCEPT !.at = "find", !.op = op, !.mail = m])

\* POST /users/logout with a token.
AskSignOut(s) ==
  /\ "signOut" \in Ops
  /\ \E t \in tokens :
       Begin(s, [Idle EXCEPT !.at = "guard", !.op = "signOut", !.id = t.id, !.token = t])

\* validateUser finds the user and compares the password; validateOrCreateUser
\* goes on to create a user it does not find.
FindUser(s) ==
  /\ req[s].at = "find"
  /\ \/ \E i \in Ids :
          /\ row[i].mail = req[s].mail
          /\ req' = [req EXCEPT ![s].at = "login", ![s].id = i, ![s].seen = row[i]]
     \/ /\ req[s].op = "local"
        /\ Reply(s)
     \/ /\ req[s].op = "external" /\ \A i \in Ids : row[i].mail # req[s].mail
        /\ req' = [req EXCEPT ![s].at = "create"]
  /\ UNCHANGED <<row, spent, serial, pending, tokens>>

\* Slip: no unique key on the email.
CreateUserUnchecked(s) ==
  /\ req[s].at = "create"
  /\ \E i \in Ids \ spent :
       /\ \A j \in Ids \ spent : i <= j
       /\ row' = [row EXCEPT ![i] = NewRow(req[s].mail)]
       /\ spent' = spent \cup {i}
  /\ req' = [req EXCEPT ![s].at = "refind"]
  /\ UNCHANGED <<serial, pending, tokens>>

\* The email is unique: a second creation is refused (and a full table of ids,
\* which bounds the model, refuses as well).
CreateUser(s) ==
  /\ req[s].at = "create"
  /\ \/ /\ \A i \in Ids : row[i].mail # req[s].mail
        /\ \E i \in Ids \ spent :
             /\ \A j \in Ids \ spent : i <= j
             /\ row' = [row EXCEPT ![i] = NewRow(req[s].mail)]
             /\ spent' = spent \cup {i}
        /\ req' = [req EXCEPT ![s].at = "refind"]
     \/ /\ Ids \subseteq spent \/ \E i \in Ids : row[i].mail = req[s].mail
        /\ Reply(s)
        /\ UNCHANGED <<row, spent>>
  /\ UNCHANGED <<serial, pending, tokens>>

FindCreated(s) ==
  /\ req[s].at = "refind"
  /\ \/ \E i \in Ids :
          /\ row[i].mail = req[s].mail
          /\ req' = [req EXCEPT ![s].at = "login", ![s].id = i, ![s].seen = row[i]]
     \/ /\ \A i \in Ids : row[i].mail # req[s].mail
        /\ Reply(s)
  /\ UNCHANGED <<row, spent, serial, pending, tokens>>

SaveOf(s, column, found, instance) ==
  [n |-> req[s].n, column |-> column, id |-> req[s].id, found |-> found.secret,
   instance |-> instance]

\* Slip: the count goes the wrong way.
LoginMetadataDown(s) == SaveOf(s, "logins", req[s].seen, [req[s].seen EXCEPT !.logins = @ - 1])

\* updateLoginMetadata increments the count of the instance that was found.
LoginMetadata(s) == SaveOf(s, "logins", req[s].seen, [req[s].seen EXCEPT !.logins = @ + 1])

\* Slip: the setting is on whatever its value, "false" included.
NeedsSecretAlways(i) == TRUE

\* Slip: one session per user only takes effect at the first login.
NeedsSecretOnce(i) == row[i].secret = NoSecret

NeedsSecret(i) == row[i].secret = NoSecret \/ OneSessionPerUser

\* Slip: the new secret signs the token and is not saved.
LoginUnsaved(s) ==
  LET i      == req[s].id
      secret == IF NeedsSecret(i) THEN req[s].n ELSE row[i].secret IN
  /\ req[s].at = "login"
  /\ pending' = pending \cup {LoginMetadata(s)}
  /\ tokens' = IF Exists(i)
               THEN tokens \cup {[n |-> req[s].n, id |-> i, secret |-> secret, out |-> "no"]}
               ELSE tokens
  /\ Reply(s)
  /\ UNCHANGED <<row, spent, serial>>

\* updateLoginMetadata starts its save; login reads the user again, starts to
\* save a new secret where one is needed, and signs the token with it at once.
Login(s) ==
  LET i      == req[s].id
      fresh  == [row[i] EXCEPT !.secret = req[s].n]
      secret == IF NeedsSecret(i) THEN req[s].n ELSE row[i].secret IN
  /\ req[s].at = "login"
  /\ IF Exists(i)
     THEN /\ pending' = pending \cup {LoginMetadata(s)} \cup
                          (IF NeedsSecret(i) THEN {SaveOf(s, "secret", row[i], fresh)} ELSE {})
          /\ tokens' = tokens \cup {[n |-> req[s].n, id |-> i, secret |-> secret, out |-> "no"]}
     ELSE /\ pending' = pending \cup {LoginMetadata(s)}
          /\ UNCHANGED tokens
  /\ Reply(s)
  /\ UNCHANGED <<row, spent, serial>>

\* secretOrKeyProvider reads the secret and the token is verified with it ...
VerifyToken(s) ==
  /\ req[s].at = "guard"
  /\ \/ Accepts(req[s].token) /\ req' = [req EXCEPT ![s].at = "user"]
     \/ ~Accepts(req[s].token) /\ Reply(s)
  /\ UNCHANGED <<row, spent, serial, pending, tokens>>

\* ... and validate reads the user again.
LoadCaller(s) ==
  LET i == req[s].id IN
  /\ req[s].at = "user"
  /\ \/ Exists(i) /\ req' = [req EXCEPT ![s].at = "signOut", ![s].seen = row[i]]
     \/ ~Exists(i) /\ Reply(s)
  /\ UNCHANGED <<row, spent, serial, pending, tokens>>

\* The tokens when user i signs out.
TokensOut(i) ==
  LET onItsWay(t) == \E p \in pending : p.column = "secret" /\ p.n = t.secret IN
  {IF t.id = i THEN [t EXCEPT !.out = IF onItsWay(t) THEN "before" ELSE "after"] ELSE t :
     t \in tokens}

\* Slip: logOut writes back the secret that was read.
SignOutStale(s) ==
  LET i == req[s].id IN
  /\ req[s].at = "signOut"
  /\ row' = IF Exists(i) THEN [row EXCEPT ![i].secret = req[s].seen.secret] ELSE row
  /\ tokens' = TokensOut(i)
  /\ Reply(s)
  /\ UNCHANGED <<spent, serial, pending>>

\* logOut waits for its save.
SignOut(s) ==
  LET i == req[s].id IN
  /\ req[s].at = "signOut"
  /\ row' = IF Exists(i) THEN [row EXCEPT ![i].secret = req[s].n] ELSE row
  /\ tokens' = TokensOut(i)
  /\ Reply(s)
  /\ UNCHANGED <<spent, serial, pending>>

\* Slip: save() writes every column of its instance.
LandWholeRow(n, column) ==
  /\ \E p \in pending :
       /\ p.n = n /\ p.column = column
       /\ row' = IF Exists(p.id) THEN [row EXCEPT ![p.id] = p.instance] ELSE row
       /\ pending' = pending \ {p}
  /\ UNCHANGED <<spent, req, serial, tokens>>

\* save() writes the changed column, and nothing if the row is gone.
Land(n, column) ==
  /\ \E p \in pending :
       /\ p.n = n /\ p.column = column
       /\ row' = IF Exists(p.id)
                 THEN [row EXCEPT ![p.id][column] = p.instance[column]] ELSE row
       /\ pending' = pending \ {p}
  /\ UNCHANGED <<spent, req, serial, tokens>>

\* An account is deleted (see Accounts).
RemoveUser ==
  /\ "remove" \in Ops
  /\ \E i \in Ids : Exists(i) /\ row' = [row EXCEPT ![i] = NoRow]
  /\ UNCHANGED <<spent, req, serial, pending, tokens>>

-----------------------------------------------------------------------------
Step(s) ==
  \/ FindUser(s) \/ CreateUser(s) \/ FindCreated(s) \/ Login(s)
  \/ VerifyToken(s) \/ LoadCaller(s) \/ SignOut(s)

Next ==
  \/ \E s \in Slots : AskLogin(s) \/ AskSignOut(s) \/ Step(s)
  \/ \E n \in Serials, column \in Columns : Land(n, column)
  \/ RemoveUser

Spec == Init /\ [][Next]_vars

\* Statements that were sent are executed, and handlers go on.
FairSpec ==
  /\ Spec
  /\ \A s \in Slots : WF_vars(Step(s))
  /\ \A n \in Serials, column \in Columns : WF_vars(Land(n, column))

-----------------------------------------------------------------------------
\* Every variable holds values of its shape.
TypeOK ==
  /\ row \in [Ids -> UserRow]
  /\ spent \subseteq Ids
  /\ req \in [Slots -> Request]
  /\ serial \in Serials
  /\ pending \subseteq Save
  /\ tokens \subseteq Token

\* validateOrCreateUser looks for an account before it creates one, and yet
\* nobody ever has two accounts: the unique key of the email refuses the second.
OneAccountPerMail ==
  \A i, j \in Ids : row[i].mail = row[j].mail => i = j \/ ~Exists(i)

\* Where users have one session, at most one token of a user is accepted,
\* whatever logins overlap.
OneSession ==
  OneSessionPerUser =>
    \A t, u \in tokens : t.id = u.id /\ Accepts(t) /\ Accepts(u) => t = u

\* The secret of user i is n.
Has(i, n) == Exists(i) /\ row[i].secret = n

\* A secret that was replaced never comes back, so a token that was accepted and
\* no longer is stays dead whatever saves are still on their way.
RevokedStaysRevoked ==
  \A i \in Ids, n \in Serials : [](Has(i, n) => [](~Has(i, n) => []~Has(i, n)))

\* "Users have their own JWT Secret to allow for session invalidation on sign
\* out": whatever logins, saves and sign-outs overlap, a token is accepted after a
\* sign-out of its user only where that overtook the save of the token's secret,
\* which the login that made them both did not wait for.
SignedOutStaysOut ==
  \A t \in tokens : t.out # "no" /\ Accepts(t) => t.out = "before" /\ t.secret = t.n

\* A session that works ends by a sign-out of its user or with its account.  Another
\* login ends it only with its new secret: with one session per user, or if it had
\* found a user without a secret, however late its save lands.
SessionEndsBySignOut ==
  [][\A t \in tokens : Accepts(t) /\ ~Accepts(t)' =>
       \/ \E s \in Slots : /\ req[s].at = "signOut" /\ req[s].id = t.id
                         /\ req'[s].at = "idle"
       \/ row'[t.id].mail = NoMail
       \/ \E p \in pending \ pending' :
            /\ p.column = "secret" /\ p.id = t.id
            /\ OneSessionPerUser \/ p.found = NoSecret]_vars

\* Whoever logs in and does not sign out gets a token that works in the end, even
\* if first logins overlap and only the last secret to land counts.
LoginTakesEffect ==
  \A i \in Ids :
    (\E t \in tokens : t.id = i /\ t.out = "no") ~>
      (~Exists(i) \/ \E t \in tokens : t.id = i /\ Accepts(t))
=============================================================================
