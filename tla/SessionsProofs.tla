--------------------------- MODULE SessionsProofs ---------------------------
(***************************************************************************)
(* Proofs about Sessions for every number of users, requests and logins.   *)
(***************************************************************************)
EXTENDS Sessions, TLAPS

USE IdsAssumption, MailsAssumption, SerialAssumption DEF NoSecret

-----------------------------------------------------------------------------
(* Type correctness. *)

LEMMA IdleType == Idle \in Request /\ NoRow \in UserRow
  BY DEF Idle, Request, NoRow, UserRow, Secrets, NoToken

LEMMA ReplyType ==
  ASSUME TypeOK, NEW s \in Slots, Reply(s)
  PROVE  req' \in [Slots -> Request]
  BY IdleType DEF TypeOK, Reply

LEMMA InitType == Init => TypeOK
  <1> SUFFICES ASSUME Init PROVE TypeOK
    OBVIOUS
  <1>1. row \in [Ids -> UserRow]
    BY IdleType, EstablishedAssumption, SecretAssumption DEF Init, UserRow, Secrets, Serials
  <1>2. req \in [Slots -> Request]
    BY IdleType DEF Init
  <1> QED BY <1>1, <1>2 DEF Init, TypeOK, Serials

LEMMA BeginType ==
  ASSUME TypeOK, NEW s \in Slots, NEW new \in Request, Begin(s, new)
  PROVE  TypeOK'
  <1>1. serial + 1 \in Serials
    BY DEF Begin, TypeOK, Serials
  <1>2. [new EXCEPT !.n = serial + 1] \in Request
    BY <1>1 DEF Request
  <1> QED BY <1>1, <1>2 DEF Begin, TypeOK

LEMMA AskType ==
  ASSUME TypeOK, NEW s \in Slots, AskLogin(s) \/ AskSignOut(s)
  PROVE  \E new \in Request : Begin(s, new)
  <1>1. CASE AskLogin(s)
    <2>1. PICK op \in {"local", "external"}, m \in Mails :
            Begin(s, [Idle EXCEPT !.at = "find", !.op = op, !.mail = m])
      BY <1>1 DEF AskLogin
    <2>2. [Idle EXCEPT !.at = "find", !.op = op, !.mail = m] \in Request
      BY IdleType DEF Request, AllOps
    <2> QED BY <2>1, <2>2
  <1>2. CASE AskSignOut(s)
    <2>1. PICK t \in tokens :
            Begin(s, [Idle EXCEPT !.at = "guard", !.op = "signOut", !.id = t.id, !.token = t])
      BY <1>2 DEF AskSignOut
    <2>2. t \in Token /\ t.id \in Ids
      BY DEF TypeOK, Token
    <2>3. [Idle EXCEPT !.at = "guard", !.op = "signOut", !.id = t.id, !.token = t] \in Request
      BY <2>2, IdleType DEF Request, AllOps
    <2> QED BY <2>1, <2>3
  <1> QED BY <1>1, <1>2

LEMMA FoundType ==
  ASSUME TypeOK, NEW s \in Slots, NEW i \in Ids,
         NEW st \in {"login", "signOut"},
         req' = [req EXCEPT ![s].at = st, ![s].id = i, ![s].seen = row[i]]
  PROVE  req' \in [Slots -> Request]
  <1>1. req[s] \in Request /\ row[i] \in UserRow
    BY DEF TypeOK
  <1>2. [req[s] EXCEPT !.at = st, !.id = i, !.seen = row[i]] \in Request
    BY <1>1 DEF Request
  <1>3. req' = [req EXCEPT ![s] = [req[s] EXCEPT !.at = st, !.id = i, !.seen = row[i]]]
    BY DEF TypeOK
  <1> QED BY <1>2, <1>3 DEF TypeOK

LEMMA MovedType ==
  ASSUME TypeOK, NEW s \in Slots, NEW st \in {"create", "refind", "user"},
         req' = [req EXCEPT ![s].at = st]
  PROVE  req' \in [Slots -> Request]
  <1>1. req[s] \in Request
    BY DEF TypeOK
  <1>2. [req[s] EXCEPT !.at = st] \in Request
    BY <1>1 DEF Request
  <1> QED BY <1>2 DEF TypeOK

\* A request knows its serial, and its user once it has found or named one.
LocatedRequest(q) ==
  /\ q.at \in {"login", "guard", "user", "signOut"} => q.id \in Ids
  /\ q.at # "idle" => q.n \in Serials

Located == \A s \in Slots : LocatedRequest(req[s])

Typed == TypeOK /\ Located

LEMMA LocatedStep ==
  ASSUME Located, NEW s \in Slots, NEW q, LocatedRequest(q),
         req \in [Slots -> Request], req' = [req EXCEPT ![s] = q]
  PROVE  Located'
  BY DEF Located, LocatedRequest

LEMMA ReplyLocated ==
  ASSUME Typed, NEW s \in Slots, Reply(s)
  PROVE  Located'
  BY LocatedStep DEF Typed, TypeOK, Reply, LocatedRequest, Idle

LEMMA AskTyped ==
  ASSUME Typed, NEW s \in Slots, AskLogin(s) \/ AskSignOut(s)
  PROVE  Typed'
  <1>1. PICK new \in Request : Begin(s, new)
    BY AskType DEF Typed
  <1>2. TypeOK'
    BY <1>1, BeginType DEF Typed
  <1>3. serial + 1 \in Serials
    BY <1>1 DEF Typed, Begin, TypeOK, Serials
  <1>4. Located'
    <2>1. CASE AskLogin(s)
      <3>1. PICK op \in {"local", "external"}, m \in Mails :
              Begin(s, [Idle EXCEPT !.at = "find", !.op = op, !.mail = m])
        BY <2>1 DEF AskLogin
      <3>2. LocatedRequest([[Idle EXCEPT !.at = "find", !.op = op, !.mail = m]
                              EXCEPT !.n = serial + 1])
        BY <1>3 DEF LocatedRequest, Idle
      <3> QED BY <3>1, <3>2, LocatedStep DEF Begin, Typed, TypeOK
    <2>2. CASE AskSignOut(s)
      <3>1. PICK t \in tokens :
              Begin(s, [Idle EXCEPT !.at = "guard", !.op = "signOut", !.id = t.id, !.token = t])
        BY <2>2 DEF AskSignOut
      <3>2. t.id \in Ids
        BY DEF Typed, TypeOK, Token
      <3>3. LocatedRequest([[Idle EXCEPT !.at = "guard", !.op = "signOut", !.id = t.id, !.token = t]
                              EXCEPT !.n = serial + 1])
        BY <1>3, <3>2 DEF LocatedRequest, Idle
      <3> QED BY <3>1, <3>3, LocatedStep DEF Begin, Typed, TypeOK
    <2> QED BY <2>1, <2>2
  <1> QED BY <1>2, <1>4 DEF Typed

\* A step that only moves a request on.
LEMMA MovedTyped ==
  ASSUME Typed, NEW s \in Slots, req[s].at # "idle", UNCHANGED <<row, spent, serial, pending, tokens>>,
         \/ Reply(s)
         \/ \E st \in {"create", "refind", "user"} :
              /\ req' = [req EXCEPT ![s].at = st]
              /\ st = "user" => req[s].at = "guard"
         \/ \E i \in Ids, st \in {"login", "signOut"} :
              req' = [req EXCEPT ![s].at = st, ![s].id = i, ![s].seen = row[i]]
  PROVE  Typed'
  <1>1. CASE Reply(s)
    BY <1>1, ReplyType, ReplyLocated DEF Typed, TypeOK
  <1>2. ASSUME NEW st \in {"create", "refind", "user"},
               req' = [req EXCEPT ![s].at = st], st = "user" => req[s].at = "guard"
        PROVE  Typed'
    <2>1. req' \in [Slots -> Request]
      BY <1>2, MovedType DEF Typed
    <2>2. req[s] \in Request
      BY DEF Typed, TypeOK
    <2>3. LocatedRequest([req[s] EXCEPT !.at = st])
      BY <1>2, <2>2 DEF Typed, Located, LocatedRequest, Request
    <2>4. req' = [req EXCEPT ![s] = [req[s] EXCEPT !.at = st]]
      BY <1>2 DEF Typed, TypeOK
    <2>5. Located'
      BY <2>3, <2>4, LocatedStep DEF Typed, TypeOK
    <2> QED BY <2>1, <2>5 DEF Typed, TypeOK
  <1>3. ASSUME NEW i \in Ids, NEW st \in {"login", "signOut"},
               req' = [req EXCEPT ![s].at = st, ![s].id = i, ![s].seen = row[i]]
        PROVE  Typed'
    <2>1. req' \in [Slots -> Request]
      BY <1>3, FoundType DEF Typed
    <2>2. req[s] \in Request
      BY DEF Typed, TypeOK
    <2>3. LocatedRequest([req[s] EXCEPT !.at = st, !.id = i, !.seen = row[i]])
      BY <2>2 DEF Typed, Located, LocatedRequest, Request
    <2>4. req' = [req EXCEPT ![s] = [req[s] EXCEPT !.at = st, !.id = i, !.seen = row[i]]]
      BY <1>3 DEF Typed, TypeOK
    <2>5. Located'
      BY <2>3, <2>4, LocatedStep DEF Typed, TypeOK
    <2> QED BY <2>1, <2>5 DEF Typed, TypeOK
  <1> QED BY <1>1, <1>2, <1>3

LEMMA ReadTyped ==
  ASSUME Typed, NEW s \in Slots,
         FindUser(s) \/ FindCreated(s) \/ VerifyToken(s) \/ LoadCaller(s)
  PROVE  Typed'
  <1>1. req[s].at # "idle" /\ UNCHANGED <<row, spent, serial, pending, tokens>>
    BY DEF FindUser, FindCreated, VerifyToken, LoadCaller
  <1>2. CASE FindUser(s)
    BY <1>1, <1>2, MovedTyped DEF FindUser
  <1>3. CASE FindCreated(s)
    BY <1>1, <1>3, MovedTyped DEF FindCreated
  <1>4. CASE VerifyToken(s)
    BY <1>1, <1>4, MovedTyped DEF VerifyToken
  <1>5. CASE LoadCaller(s)
    <2>1. req[s].id \in Ids
      BY <1>5 DEF LoadCaller, Typed, Located, LocatedRequest
    <2>2. CASE Reply(s)
      BY <1>1, <2>2, MovedTyped
    <2>3. CASE req' = [req EXCEPT ![s].at = "signOut", ![s].seen = row[req[s].id]]
      <3>1. req[s] \in Request
        BY DEF Typed, TypeOK
      <3>2. req' = [req EXCEPT ![s].at = "signOut", ![s].id = req[s].id, ![s].seen = row[req[s].id]]
        BY <2>3, <3>1 DEF Typed, TypeOK, Request
      <3> QED BY <1>1, <2>1, <3>2, MovedTyped
    <2> QED BY <1>5, <2>2, <2>3 DEF LoadCaller
  <1> QED BY <1>2, <1>3, <1>4, <1>5

LEMMA CreateTyped ==
  ASSUME Typed, NEW s \in Slots, CreateUser(s)
  PROVE  Typed'
  <1>1. CASE Reply(s) /\ UNCHANGED <<row, spent>>
    BY <1>1, MovedTyped DEF CreateUser
  <1>2. ASSUME NEW i \in Ids \ spent,
               row' = [row EXCEPT ![i] = NewRow(req[s].mail)],
               spent' = spent \cup {i}, req' = [req EXCEPT ![s].at = "refind"]
        PROVE  Typed'
    <2>1. req[s] \in Request /\ req[s].mail \in Mails \cup {NoMail}
      BY DEF Typed, TypeOK, Request
    <2>2. NewRow(req[s].mail) \in UserRow
      BY <2>1 DEF NewRow, UserRow, Secrets
    <2>3. row' \in [Ids -> UserRow] /\ spent' \subseteq Ids
      BY <1>2, <2>2 DEF Typed, TypeOK
    <2>4. req' \in [Slots -> Request]
      BY <1>2, MovedType DEF Typed
    <2>5. LocatedRequest([req[s] EXCEPT !.at = "refind"])
      <3>1. req[s].n \in Serials
        BY DEF CreateUser, Typed, Located, LocatedRequest
      <3>2. /\ [req[s] EXCEPT !.at = "refind"].at = "refind"
            /\ [req[s] EXCEPT !.at = "refind"].n = req[s].n
        BY <2>1 DEF Request
      <3> QED BY <3>1, <3>2 DEF LocatedRequest
    <2>6. req' = [req EXCEPT ![s] = [req[s] EXCEPT !.at = "refind"]]
      BY <1>2 DEF Typed, TypeOK
    <2>7. Located'
      BY <2>5, <2>6, LocatedStep DEF Typed, TypeOK
    <2> QED BY <2>3, <2>4, <2>7 DEF CreateUser, Typed, TypeOK
  <1> QED BY <1>1, <1>2 DEF CreateUser

LEMMA SaveType ==
  ASSUME Typed, NEW s \in Slots, req[s].at = "login"
  PROVE  /\ LoginMetadata(s) \in Save
         /\ SaveOf(s, "secret", row[req[s].id],
                  [row[req[s].id] EXCEPT !.secret = req[s].n]) \in Save
  <1>1. /\ req[s] \in Request /\ req[s].seen \in UserRow
        /\ req[s].id \in Ids /\ req[s].n \in Serials /\ row[req[s].id] \in UserRow
    BY DEF Typed, TypeOK, Located, LocatedRequest, Request
  <1>2. [req[s].seen EXCEPT !.logins = @ + 1] \in UserRow
    BY <1>1 DEF UserRow
  <1>3. [row[req[s].id] EXCEPT !.secret = req[s].n] \in UserRow
    BY <1>1 DEF UserRow, Secrets
  <1>4. req[s].seen.secret \in Secrets /\ row[req[s].id].secret \in Secrets
    BY <1>1 DEF UserRow
  <1> QED BY <1>1, <1>2, <1>3, <1>4 DEF LoginMetadata, SaveOf, Save, Columns

LEMMA LoginTyped ==
  ASSUME Typed, NEW s \in Slots, Login(s)
  PROVE  Typed'
  <1> DEFINE i == req[s].id
             secret == IF NeedsSecret(i) THEN req[s].n ELSE row[i].secret
             t == [n |-> req[s].n, id |-> i, secret |-> secret, out |-> "no"]
  <1>1. i \in Ids /\ req[s].n \in Serials /\ row[i] \in UserRow /\ req[s].at = "login"
    BY DEF Login, Typed, TypeOK, Located, LocatedRequest
  <1>2. t \in Token
    BY <1>1 DEF Token, UserRow, Secrets
  <1>3. pending' \subseteq Save
    BY <1>1, SaveType DEF Login, Typed, TypeOK
  <1>4. tokens' \subseteq Token
    BY <1>2 DEF Login, Typed, TypeOK
  <1>5. req' \in [Slots -> Request] /\ Located'
    BY ReplyType, ReplyLocated DEF Login, Typed
  <1> QED BY <1>3, <1>4, <1>5 DEF Login, Typed, TypeOK

LEMMA SignOutTyped ==
  ASSUME Typed, NEW s \in Slots, SignOut(s)
  PROVE  Typed'
  <1>1. req[s].id \in Ids /\ req[s].n \in Serials
    BY DEF SignOut, Typed, TypeOK, Located, LocatedRequest
  <1>2. row' \in [Ids -> UserRow]
    BY <1>1 DEF SignOut, Typed, TypeOK, UserRow, Secrets
  <1>3. tokens' \subseteq Token
    BY DEF SignOut, TokensOut, Typed, TypeOK, Token
  <1>4. req' \in [Slots -> Request] /\ Located'
    BY ReplyType, ReplyLocated DEF SignOut, Typed
  <1> QED BY <1>2, <1>3, <1>4 DEF SignOut, Typed, TypeOK

LEMMA LandTyped ==
  ASSUME Typed, NEW n \in Serials, NEW column \in Columns, Land(n, column)
  PROVE  Typed'
  <1>1. PICK p \in pending :
          /\ p.column = column
          /\ row' = IF Exists(p.id)
                    THEN [row EXCEPT ![p.id][column] = p.instance[column]] ELSE row
          /\ pending' = pending \ {p}
    BY DEF Land
  <1>2. p.id \in Ids /\ p.instance \in UserRow /\ row[p.id] \in UserRow
    BY DEF Typed, TypeOK, Save
  <1>3. row' \in [Ids -> UserRow]
    <2>1. CASE column = "secret"
      BY <1>1, <1>2, <2>1 DEF Typed, TypeOK, UserRow
    <2>2. CASE column = "logins"
      BY <1>1, <1>2, <2>2 DEF Typed, TypeOK, UserRow
    <2> QED BY <2>1, <2>2 DEF Columns
  <1> QED BY <1>1, <1>3 DEF Land, Typed, TypeOK, Located

LEMMA RemoveTyped == ASSUME Typed, RemoveUser PROVE Typed'
  BY IdleType DEF RemoveUser, Typed, TypeOK, Located

LEMMA StepTyped == ASSUME Typed, [Next]_vars PROVE Typed'
  <1>1. CASE UNCHANGED vars
    BY <1>1 DEF vars, Typed, TypeOK, Located
  <1>2. ASSUME NEW s \in Slots, AskLogin(s) \/ AskSignOut(s) \/ Step(s)
        PROVE  Typed'
    BY <1>2, AskTyped, ReadTyped, CreateTyped, LoginTyped, SignOutTyped DEF Step
  <1>3. ASSUME NEW n \in Serials, NEW column \in Columns, Land(n, column)
        PROVE  Typed'
    BY <1>3, LandTyped
  <1> QED BY <1>1, <1>2, <1>3, RemoveTyped DEF Next

LEMMA InitTyped == Init => Typed
  BY InitType DEF Init, Typed, Located, LocatedRequest, Idle

LEMMA AlwaysTyped == Spec => []Typed
  BY InitTyped, StepTyped, PTL DEF Spec

\* Every reachable state is well typed, for any users, logins and sign-outs.
THEOREM TypeCorrect == Spec => []TypeOK
  <1>1. Typed => TypeOK
    BY DEF Typed
  <1> QED BY <1>1, AlwaysTyped, PTL

-----------------------------------------------------------------------------
(* Accounts. *)

LEMMA AccountStep ==
  ASSUME Typed, OneAccountPerMail, [Next]_vars
  PROVE  OneAccountPerMail'
  <1>1. CASE UNCHANGED row
    BY <1>1 DEF OneAccountPerMail, Exists
  <1>2. ASSUME NEW s \in Slots, CreateUser(s), ~UNCHANGED row
        PROVE  OneAccountPerMail'
    <2>1. PICK i \in Ids : row' = [row EXCEPT ![i] = NewRow(req[s].mail)]
      BY <1>2 DEF CreateUser
    <2>2. \A j \in Ids : row[j].mail # req[s].mail
      BY <1>2 DEF CreateUser
    <2>3. \A j \in Ids : row'[j].mail = IF j = i THEN req[s].mail ELSE row[j].mail
      BY <2>1 DEF NewRow, Typed, TypeOK
    <2> QED BY <2>2, <2>3 DEF OneAccountPerMail, Exists
  <1>3. CASE \A j \in Ids : row'[j].mail = row[j].mail
    BY <1>3 DEF OneAccountPerMail, Exists
  <1>4. ASSUME NEW s \in Slots, SignOut(s)
        PROVE  \A j \in Ids : row'[j].mail = row[j].mail
    <2>1. req[s].id \in Ids
      BY <1>4 DEF SignOut, Typed, Located, LocatedRequest
    <2> QED BY <1>4, <2>1 DEF SignOut, Typed, TypeOK, UserRow
  <1>5. ASSUME NEW n \in Serials, NEW column \in Columns, Land(n, column)
        PROVE  \A j \in Ids : row'[j].mail = row[j].mail
    <2>1. PICK p \in pending :
            row' = IF Exists(p.id)
                   THEN [row EXCEPT ![p.id][column] = p.instance[column]] ELSE row
      BY <1>5 DEF Land
    <2>2. p.id \in Ids
      BY DEF Typed, TypeOK, Save
    <2>3. CASE column = "secret"
      BY <2>1, <2>2, <2>3 DEF Typed, TypeOK, UserRow
    <2>4. CASE column = "logins"
      BY <2>1, <2>2, <2>4 DEF Typed, TypeOK, UserRow
    <2> QED BY <2>3, <2>4 DEF Columns
  <1>6. ASSUME RemoveUser PROVE OneAccountPerMail'
    <2>1. PICK i \in Ids : row' = [row EXCEPT ![i] = NoRow]
      BY <1>6 DEF RemoveUser
    <2>2. \A j \in Ids : row'[j].mail = IF j = i THEN NoMail ELSE row[j].mail
      BY <2>1 DEF NoRow, Typed, TypeOK
    <2> QED BY <2>2 DEF OneAccountPerMail, Exists
  <1>7. ASSUME NEW s \in Slots,
               \/ AskLogin(s) \/ AskSignOut(s) \/ FindUser(s) \/ FindCreated(s)
               \/ Login(s) \/ VerifyToken(s) \/ LoadCaller(s)
        PROVE  UNCHANGED row
    BY <1>7 DEF AskLogin, AskSignOut, Begin, FindUser, FindCreated, Login, VerifyToken, LoadCaller
  <1>8. UNCHANGED vars => UNCHANGED row
    BY DEF vars
  <1> QED BY <1>1, <1>2, <1>3, <1>4, <1>5, <1>6, <1>7, <1>8 DEF Next, Step

\* Nobody ever has two accounts, however many first logins overlap.
THEOREM OneAccount == Spec => []OneAccountPerMail
  <1>1. Init => OneAccountPerMail
    <2> SUFFICES ASSUME Init PROVE OneAccountPerMail
      OBVIOUS
    <2>1. \A i \in Ids : row[i].mail = Established[i]
      BY DEF Init, NoRow
    <2> QED BY <2>1, EstablishedAssumption DEF OneAccountPerMail, Exists
  <1>2. Typed /\ OneAccountPerMail /\ [Next]_vars => OneAccountPerMail'
    BY AccountStep
  <1> QED BY <1>1, <1>2, AlwaysTyped, PTL DEF Spec

-----------------------------------------------------------------------------
(* Every request has a serial of its own, and every secret is the serial of   *)
(* the request that made it.  So the secret of a user is in no save that is   *)
(* still on its way and in no request that is still to write it.              *)

Active(s) == req[s].at # "idle"

\* Serial n has been given out, and nobody is going to write it.
Written(n) ==
  /\ n <= serial
  /\ \A s \in Slots : Active(s) => req[s].n # n
  /\ \A p \in pending : p.column = "secret" => p.n # n

FreshRequests ==
  /\ \A s \in Slots : Active(s) => req[s].n <= serial
  /\ \A s, r \in Slots : Active(s) /\ Active(r) /\ req[s].n = req[r].n => s = r

FreshSaves ==
  /\ \A p \in pending :
       /\ p.n <= serial
       /\ \A s \in Slots : Active(s) => req[s].n # p.n
       /\ p.column = "secret" => p.instance.secret = p.n
  /\ \A p, q \in pending : p.n = q.n /\ p.column = q.column => p = q

FreshTokens ==
  /\ \A t \in tokens :
       /\ t.n <= serial
       /\ \A s \in Slots : Active(s) => req[s].n # t.n
       /\ OneSessionPerUser => t.secret = t.n
  /\ \A t, u \in tokens : t.n = u.n => t = u

WrittenSecrets == \A i \in Ids : row[i].secret # NoSecret => Written(row[i].secret)

Fresh == FreshRequests /\ FreshSaves /\ FreshTokens /\ WrittenSecrets

\* No request begins, and none gets another serial.
NoNewRequest ==
  /\ serial' = serial
  /\ \A s \in Slots : req'[s].at # "idle" => Active(s) /\ req'[s].n = req[s].n

LEMMA ReplyNoNew ==
  ASSUME Typed, NEW s \in Slots, Reply(s), UNCHANGED serial
  PROVE  NoNewRequest /\ req'[s].at = "idle"
  BY DEF Typed, TypeOK, Reply, Idle, NoNewRequest, Active

LEMMA MovedNoNew ==
  ASSUME Typed, NEW s \in Slots, Active(s), UNCHANGED serial, NEW q \in Request,
         q.n = req[s].n, req' = [req EXCEPT ![s] = q]
  PROVE  NoNewRequest
  BY DEF Typed, TypeOK, NoNewRequest, Active

LEMMA StepNoNew ==
  ASSUME Typed, NEW s \in Slots, Step(s)
  PROVE  NoNewRequest
  <1>0. req[s] \in Request /\ UNCHANGED serial /\ Active(s)
    BY DEF Step, FindUser, CreateUser, FindCreated, Login, VerifyToken, LoadCaller, SignOut,
           Active, Typed, TypeOK
  <1>1. CASE Reply(s)
    BY <1>0, <1>1, ReplyNoNew
  <1>2. ASSUME NEW i \in Ids, NEW st \in {"login", "signOut"},
               req' = [req EXCEPT ![s].at = st, ![s].id = i, ![s].seen = row[i]]
        PROVE  NoNewRequest
    <2>1. req' = [req EXCEPT ![s] = [req[s] EXCEPT !.at = st, !.id = i, !.seen = row[i]]]
      BY <1>2 DEF Typed, TypeOK
    <2>2. row[i] \in UserRow
      BY DEF Typed, TypeOK
    <2>3. /\ [req[s] EXCEPT !.at = st, !.id = i, !.seen = row[i]] \in Request
          /\ [req[s] EXCEPT !.at = st, !.id = i, !.seen = row[i]].n = req[s].n
      BY <1>0, <2>2 DEF Request
    <2> QED BY <1>0, <2>1, <2>3, MovedNoNew
  <1>3. ASSUME NEW st \in {"create", "refind", "user"}, req' = [req EXCEPT ![s].at = st]
        PROVE  NoNewRequest
    <2>1. /\ [req[s] EXCEPT !.at = st] \in Request
          /\ [req[s] EXCEPT !.at = st].n = req[s].n
      BY <1>0 DEF Request
    <2>2. req' = [req EXCEPT ![s] = [req[s] EXCEPT !.at = st]]
      BY <1>3 DEF Typed, TypeOK
    <2> QED BY <1>0, <2>1, <2>2, MovedNoNew
  <1>4. ASSUME req' = [req EXCEPT ![s].at = "signOut", ![s].seen = row[req[s].id]],
               req[s].id \in Ids
        PROVE  NoNewRequest
    <2>1. row[req[s].id] \in UserRow
      BY <1>4 DEF Typed, TypeOK
    <2>2. /\ [req[s] EXCEPT !.at = "signOut", !.seen = row[req[s].id]] \in Request
          /\ [req[s] EXCEPT !.at = "signOut", !.seen = row[req[s].id]].n = req[s].n
      BY <1>0, <2>1 DEF Request
    <2>3. req' = [req EXCEPT ![s] = [req[s] EXCEPT !.at = "signOut", !.seen = row[req[s].id]]]
      BY <1>4 DEF Typed, TypeOK
    <2> QED BY <1>0, <2>2, <2>3, MovedNoNew
  <1>5. CASE FindUser(s)
    BY <1>1, <1>2, <1>3, <1>5 DEF FindUser
  <1>6. CASE CreateUser(s)
    BY <1>1, <1>3, <1>6 DEF CreateUser
  <1>7. CASE FindCreated(s)
    BY <1>1, <1>2, <1>7 DEF FindCreated
  <1>8. CASE Login(s) \/ SignOut(s)
    BY <1>1, <1>8 DEF Login, SignOut
  <1>9. CASE VerifyToken(s)
    BY <1>1, <1>3, <1>9 DEF VerifyToken
  <1>10. CASE LoadCaller(s)
    <2>1. req[s].id \in Ids
      BY <1>10 DEF LoadCaller, Typed, Located, LocatedRequest
    <2> QED BY <1>1, <1>4, <1>10, <2>1 DEF LoadCaller
  <1> QED BY <1>5, <1>6, <1>7, <1>8, <1>9, <1>10 DEF Step

LEMMA AskBegins ==
  ASSUME Typed, NEW s \in Slots, AskLogin(s) \/ AskSignOut(s)
  PROVE  /\ ~Active(s) /\ serial' = serial + 1 /\ serial \in Nat
         /\ UNCHANGED <<row, spent, pending, tokens>>
         /\ req'[s].n = serial + 1
         /\ \A r \in Slots \ {s} : req'[r] = req[r]
  <1>1. PICK new \in Request : Begin(s, new)
    BY AskType DEF Typed
  <1>2. req'[s] = [new EXCEPT !.n = serial + 1] /\ \A r \in Slots \ {s} : req'[r] = req[r]
    BY <1>1 DEF Begin, Typed, TypeOK
  <1>3. req'[s].n = serial + 1
    BY <1>2 DEF Request
  <1> QED BY <1>1, <1>2, <1>3 DEF Begin, Active, Typed, TypeOK, Serials

\* The saves that a step adds carry the serial of the request that makes them.
LEMMA LoginAdds ==
  ASSUME Typed, NEW s \in Slots, Login(s)
  PROVE  /\ Active(s) /\ req'[s].at = "idle" /\ UNCHANGED row
         /\ \A p \in pending' \ pending :
              p.n = req[s].n /\ (p.column = "secret" => p.instance.secret = p.n)
         /\ \A p, q \in pending' \ pending : p.column = q.column => p = q
         /\ \A t \in tokens' \ tokens :
              t.n = req[s].n /\ (OneSessionPerUser => t.secret = t.n)
         /\ \A t, u \in tokens' \ tokens : t = u
         /\ tokens \subseteq tokens'
  <1> DEFINE i == req[s].id
             fresh == [row[i] EXCEPT !.secret = req[s].n]
  <1>1. i \in Ids /\ row[i] \in UserRow
    BY DEF Login, Typed, TypeOK, Located, LocatedRequest
  <1>2. fresh.secret = req[s].n
    BY <1>1 DEF UserRow
  <1>3. Active(s) /\ req'[s].at = "idle" /\ UNCHANGED row
    BY ReplyNoNew DEF Login, Active
  <1>4. \A p \in pending' \ pending : p \in {LoginMetadata(s), SaveOf(s, "secret", row[i], fresh)}
    BY DEF Login
  <1>5. /\ LoginMetadata(s).n = req[s].n /\ LoginMetadata(s).column = "logins"
        /\ SaveOf(s, "secret", row[i], fresh).n = req[s].n
        /\ SaveOf(s, "secret", row[i], fresh).column = "secret"
        /\ SaveOf(s, "secret", row[i], fresh).instance = fresh
    BY DEF LoginMetadata, SaveOf
  <1>6. /\ \A p \in pending' \ pending :
             p.n = req[s].n /\ (p.column = "secret" => p.instance.secret = p.n)
        /\ \A p, q \in pending' \ pending : p.column = q.column => p = q
    BY <1>2, <1>4, <1>5
  <1> DEFINE secret == IF NeedsSecret(i) THEN req[s].n ELSE row[i].secret
             new == [n |-> req[s].n, id |-> i, secret |-> secret, out |-> "no"]
  <1>7. tokens' \in {tokens, tokens \cup {new}}
    BY DEF Login
  <1>8. new.n = req[s].n /\ (OneSessionPerUser => new.secret = new.n)
    BY DEF NeedsSecret
  <1> HIDE DEF new
  <1>9. /\ \A t \in tokens' \ tokens :
             t.n = req[s].n /\ (OneSessionPerUser => t.secret = t.n)
        /\ \A t, u \in tokens' \ tokens : t = u
        /\ tokens \subseteq tokens'
    BY <1>7, <1>8
  <1> QED BY <1>3, <1>6, <1>9

LEMMA SignOutWrites ==
  ASSUME Typed, NEW s \in Slots, SignOut(s)
  PROVE  /\ Active(s) /\ req'[s].at = "idle" /\ UNCHANGED <<pending, serial>>
         /\ \A j \in Ids : row'[j].secret \in {row[j].secret, req[s].n} /\ row'[j].mail = row[j].mail
         /\ \A u \in tokens' : \E t \in tokens : u.n = t.n /\ u.secret = t.secret /\ u.id = t.id
         /\ (\A t, u \in tokens : t.n = u.n => t = u)
              => (\A v, w \in tokens' : v.n = w.n => v = w)
  <1> DEFINE onItsWay(t) == \E p \in pending : p.column = "secret" /\ p.n = t.secret
             signedOut(t) == IF t.id = req[s].id
                             THEN [t EXCEPT !.out = IF onItsWay(t) THEN "before" ELSE "after"]
                             ELSE t
  <1>1. req[s].id \in Ids
    BY DEF SignOut, Typed, Located, LocatedRequest
  <1>2. Active(s) /\ req'[s].at = "idle" /\ UNCHANGED <<pending, serial>>
    BY ReplyNoNew DEF SignOut, Active
  <1>3. \A j \in Ids : row'[j].secret \in {row[j].secret, req[s].n} /\ row'[j].mail = row[j].mail
    BY <1>1 DEF SignOut, Typed, TypeOK, UserRow
  <1>4. \A t \in tokens : /\ signedOut(t).n = t.n /\ signedOut(t).secret = t.secret
                          /\ signedOut(t).id = t.id
    BY DEF Typed, TypeOK, Token
  <1>5. tokens' = {signedOut(t) : t \in tokens}
    BY DEF SignOut, TokensOut
  <1> HIDE DEF signedOut
  <1>6. \A u \in tokens' : \E t \in tokens : u.n = t.n /\ u.secret = t.secret /\ u.id = t.id
    BY <1>4, <1>5
  <1>7. ASSUME \A t, u \in tokens : t.n = u.n => t = u
        PROVE  \A v, w \in tokens' : v.n = w.n => v = w
    <2> TAKE v, w \in tokens'
    <2> SUFFICES ASSUME v.n = w.n PROVE v = w
      OBVIOUS
    <2>1. PICK t \in tokens : v = signedOut(t)
      BY <1>5
    <2>2. PICK u \in tokens : w = signedOut(u)
      BY <1>5
    <2>3. t.n = u.n
      BY <1>4, <2>1, <2>2
    <2> QED BY <1>7, <2>1, <2>2, <2>3
  <1> QED BY <1>2, <1>3, <1>6, <1>7

LEMMA LandWrites ==
  ASSUME Typed, NEW n \in Serials, NEW column \in Columns, Land(n, column)
  PROVE  \E p \in pending :
           /\ p.column = column /\ pending' = pending \ {p} /\ p.id \in Ids
           /\ UNCHANGED <<req, serial, tokens>>
           /\ \A j \in Ids :
                /\ row'[j].secret \in {row[j].secret} \cup
                                   (IF column = "secret" THEN {p.instance.secret} ELSE {})
                /\ row'[j].mail = row[j].mail
  <1>1. PICK p \in pending :
          /\ p.column = column
          /\ row' = IF Exists(p.id)
                    THEN [row EXCEPT ![p.id][column] = p.instance[column]] ELSE row
          /\ pending' = pending \ {p}
    BY DEF Land
  <1>2. p.id \in Ids /\ p.instance \in UserRow
    BY DEF Typed, TypeOK, Save
  <1>3. \A j \in Ids : /\ row'[j].secret \in {row[j].secret} \cup
                                   (IF column = "secret" THEN {p.instance.secret} ELSE {})
                     /\ row'[j].mail = row[j].mail
    <2>1. CASE column = "secret"
      BY <1>1, <1>2, <2>1 DEF Typed, TypeOK, UserRow
    <2>2. CASE column = "logins"
      BY <1>1, <1>2, <2>2 DEF Typed, TypeOK, UserRow
    <2> QED BY <2>1, <2>2 DEF Columns
  <1> QED BY <1>1, <1>2, <1>3 DEF Land

\* Where nothing begins and no save is added, what was written stays written.
LEMMA WrittenQuiet ==
  ASSUME NoNewRequest, pending' \subseteq pending, NEW n, Written(n)
  PROVE  Written(n)'
  BY DEF NoNewRequest, Written, Active

LEMMA FreshAsk ==
  ASSUME Typed, Fresh, NEW s \in Slots, AskLogin(s) \/ AskSignOut(s)
  PROVE  Fresh'
  <1>1. /\ ~Active(s) /\ serial' = serial + 1 /\ serial \in Nat
        /\ UNCHANGED <<row, spent, pending, tokens>>
        /\ req'[s].n = serial + 1
        /\ \A r \in Slots \ {s} : req'[r] = req[r]
    BY AskBegins
  <1>2. /\ \A r \in Slots : Active(r) => req[r].n \in Nat
        /\ \A p \in pending : p.n \in Nat
        /\ \A t \in tokens : t.n \in Nat
        /\ \A i \in Ids : row[i].secret \in Nat
    BY DEF Typed, TypeOK, Located, LocatedRequest, Active, Save, Token, UserRow, Secrets, Serials
  <1>3. FreshRequests'
    BY <1>1, <1>2 DEF Fresh, FreshRequests, Active
  <1>4. FreshSaves'
    BY <1>1, <1>2 DEF Fresh, FreshSaves, Active
  <1>5. FreshTokens'
    BY <1>1, <1>2 DEF Fresh, FreshTokens, Active
  <1>6. WrittenSecrets'
    BY <1>1, <1>2 DEF Fresh, WrittenSecrets, Written, Active
  <1> QED BY <1>3, <1>4, <1>5, <1>6 DEF Fresh

\* A step that only moves a request, or writes no secret.
LEMMA FreshQuiet ==
  ASSUME Typed, Fresh, NoNewRequest, UNCHANGED <<pending, tokens>>,
         \A i \in Ids : row'[i].secret \in {NoSecret, row[i].secret}
  PROVE  Fresh'
  <1>1. FreshRequests'
    BY DEF Fresh, FreshRequests, NoNewRequest, Active
  <1>2. FreshSaves'
    BY DEF Fresh, FreshSaves, NoNewRequest, Active
  <1>3. FreshTokens'
    BY DEF Fresh, FreshTokens, NoNewRequest, Active
  <1>4. WrittenSecrets'
    BY WrittenQuiet DEF Fresh, WrittenSecrets
  <1> QED BY <1>1, <1>2, <1>3, <1>4 DEF Fresh

LEMMA FreshLogin ==
  ASSUME Typed, Fresh, NEW s \in Slots, Login(s)
  PROVE  Fresh'
  <1>1. /\ Active(s) /\ req'[s].at = "idle" /\ UNCHANGED row
        /\ \A p \in pending' \ pending :
             p.n = req[s].n /\ (p.column = "secret" => p.instance.secret = p.n)
        /\ \A p, q \in pending' \ pending : p.column = q.column => p = q
        /\ \A t \in tokens' \ tokens :
             t.n = req[s].n /\ (OneSessionPerUser => t.secret = t.n)
        /\ \A t, u \in tokens' \ tokens : t = u
    BY LoginAdds
  <1>2. NoNewRequest
    BY StepNoNew DEF Step
  <1>3. req[s].n <= serial /\ \A r \in Slots : req'[r].at # "idle" => req'[r].n # req[s].n
    BY <1>1, <1>2 DEF Fresh, FreshRequests, NoNewRequest, Active
  <1>4. FreshRequests'
    BY <1>2 DEF Fresh, FreshRequests, NoNewRequest, Active
  <1>5. \A p \in pending : p.n # req[s].n
    BY <1>1 DEF Fresh, FreshSaves
  <1>6. \A t \in tokens : t.n # req[s].n
    BY <1>1 DEF Fresh, FreshTokens
  <1>7. FreshSaves'
    <2>1. \A p \in pending' :
            /\ p.n <= serial'
            /\ \A r \in Slots : req'[r].at # "idle" => req'[r].n # p.n
            /\ p.column = "secret" => p.instance.secret = p.n
      BY <1>1, <1>2, <1>3 DEF Fresh, FreshSaves, NoNewRequest, Active
    <2>2. \A p, q \in pending' : p.n = q.n /\ p.column = q.column => p = q
      BY <1>1, <1>5 DEF Fresh, FreshSaves
    <2> QED BY <2>1, <2>2 DEF FreshSaves, Active
  <1>8. FreshTokens'
    <2>1. \A t \in tokens' :
            /\ t.n <= serial'
            /\ \A r \in Slots : req'[r].at # "idle" => req'[r].n # t.n
            /\ OneSessionPerUser => t.secret = t.n
      BY <1>1, <1>2, <1>3 DEF Fresh, FreshTokens, NoNewRequest, Active
    <2>2. \A t, u \in tokens' : t.n = u.n => t = u
      BY <1>1, <1>6 DEF Fresh, FreshTokens
    <2> QED BY <2>1, <2>2 DEF FreshTokens, Active
  <1>9. WrittenSecrets'
    <2> SUFFICES ASSUME NEW i \in Ids, row[i].secret # NoSecret PROVE Written(row[i].secret)'
      BY <1>1 DEF WrittenSecrets
    <2>1. Written(row[i].secret)
      BY DEF Fresh, WrittenSecrets
    <2>2. row[i].secret # req[s].n
      BY <1>1, <2>1 DEF Written
    <2> QED BY <1>1, <1>2, <2>1, <2>2 DEF Written, NoNewRequest, Active
  <1> QED BY <1>4, <1>7, <1>8, <1>9 DEF Fresh

LEMMA FreshSignOut ==
  ASSUME Typed, Fresh, NEW s \in Slots, SignOut(s)
  PROVE  Fresh'
  <1>1. /\ Active(s) /\ req'[s].at = "idle" /\ UNCHANGED <<pending, serial>>
        /\ \A j \in Ids : row'[j].secret \in {row[j].secret, req[s].n}
        /\ \A u \in tokens' : \E t \in tokens : u.n = t.n /\ u.secret = t.secret /\ u.id = t.id
        /\ (\A t, u \in tokens : t.n = u.n => t = u)
             => (\A v, w \in tokens' : v.n = w.n => v = w)
    BY SignOutWrites
  <1>2. NoNewRequest
    BY StepNoNew DEF Step
  <1>3. FreshRequests'
    BY <1>2 DEF Fresh, FreshRequests, NoNewRequest, Active
  <1>4. FreshSaves'
    BY <1>1, <1>2 DEF Fresh, FreshSaves, NoNewRequest, Active
  <1>5. FreshTokens'
    <2>1. \A v, w \in tokens' : v.n = w.n => v = w
      BY <1>1 DEF Fresh, FreshTokens
    <2>2. \A u \in tokens' :
            /\ u.n <= serial'
            /\ \A r \in Slots : req'[r].at # "idle" => req'[r].n # u.n
            /\ OneSessionPerUser => u.secret = u.n
      <3> TAKE u \in tokens'
      <3>1. PICK t \in tokens : u.n = t.n /\ u.secret = t.secret
        BY <1>1
      <3> QED BY <1>2, <3>1 DEF Fresh, FreshTokens, NoNewRequest, Active
    <2> QED BY <2>1, <2>2 DEF FreshTokens, Active
  <1>6. ASSUME NEW n, n = req[s].n PROVE Written(n)'
    <2>1. n <= serial /\ \A p \in pending : p.n # n
      BY <1>1, <1>6 DEF Fresh, FreshRequests, FreshSaves
    <2>2. \A r \in Slots : req'[r].at # "idle" => req'[r].n # n
      BY <1>1, <1>2, <1>6 DEF Fresh, FreshRequests, NoNewRequest, Active
    <2> QED BY <1>1, <2>1, <2>2 DEF Written, Active
  <1>7. WrittenSecrets'
    <2> SUFFICES ASSUME NEW i \in Ids, row'[i].secret # NoSecret PROVE Written(row[i].secret)'
      BY DEF WrittenSecrets
    <2>1. CASE row'[i].secret = row[i].secret
      BY <1>1, <1>2, <2>1, WrittenQuiet DEF Fresh, WrittenSecrets
    <2>2. CASE row'[i].secret = req[s].n
      BY <1>6, <2>2
    <2> QED BY <1>1, <2>1, <2>2
  <1> QED BY <1>3, <1>4, <1>5, <1>7 DEF Fresh

LEMMA FreshLand ==
  ASSUME Typed, Fresh, NEW n \in Serials, NEW column \in Columns, Land(n, column)
  PROVE  Fresh'
  <1>1. PICK p \in pending :
          /\ p.column = column /\ pending' = pending \ {p} /\ p.id \in Ids
          /\ UNCHANGED <<req, serial, tokens>>
          /\ \A j \in Ids :
               /\ row'[j].secret \in {row[j].secret} \cup
                                  (IF column = "secret" THEN {p.instance.secret} ELSE {})
               /\ row'[j].mail = row[j].mail
    BY LandWrites
  <1>2. NoNewRequest
    BY <1>1 DEF NoNewRequest, Active
  <1>3. FreshRequests'
    BY <1>1 DEF Fresh, FreshRequests, Active
  <1>4. FreshSaves'
    BY <1>1 DEF Fresh, FreshSaves, Active
  <1>5. FreshTokens'
    BY <1>1 DEF Fresh, FreshTokens, Active
  <1>6. ASSUME column = "secret" PROVE Written(p.n)' /\ p.instance.secret = p.n
    <2>1. /\ p.n <= serial /\ p.instance.secret = p.n
          /\ \A s \in Slots : Active(s) => req[s].n # p.n
      BY <1>1, <1>6 DEF Fresh, FreshSaves
    <2>2. \A q \in pending' : q.column = "secret" => q.n # p.n
      BY <1>1, <1>6 DEF Fresh, FreshSaves
    <2> QED BY <1>1, <2>1, <2>2 DEF Written, Active
  <1>7. WrittenSecrets'
    <2> SUFFICES ASSUME NEW i \in Ids, row'[i].secret # NoSecret PROVE Written(row[i].secret)'
      BY DEF WrittenSecrets
    <2>1. CASE row'[i].secret = row[i].secret
      BY <1>1, <1>2, <2>1, WrittenQuiet DEF Fresh, WrittenSecrets
    <2>2. CASE column = "secret" /\ row'[i].secret = p.instance.secret
      BY <1>6, <2>2 DEF Written
    <2> QED BY <1>1, <2>1, <2>2
  <1> QED BY <1>3, <1>4, <1>5, <1>7 DEF Fresh

LEMMA FreshStep == ASSUME Typed, Fresh, [Next]_vars PROVE Fresh'
  <1>1. CASE UNCHANGED vars
    <2>1. UNCHANGED <<row, req, serial, pending, tokens>>
      BY <1>1 DEF vars
    <2> QED BY <2>1, FreshQuiet DEF NoNewRequest, Active
  <1>2. ASSUME NEW s \in Slots,
               FindUser(s) \/ CreateUser(s) \/ FindCreated(s) \/ VerifyToken(s) \/ LoadCaller(s)
        PROVE  Fresh'
    <2>1. NoNewRequest
      BY <1>2, StepNoNew DEF Step
    <2>2. UNCHANGED <<pending, tokens>>
      BY <1>2 DEF FindUser, CreateUser, FindCreated, VerifyToken, LoadCaller
    <2>3. \A i \in Ids : row'[i].secret \in {NoSecret, row[i].secret}
      <3>1. CASE UNCHANGED row
        BY <3>1
      <3>2. CASE \E i \in Ids : row' = [row EXCEPT ![i] = NewRow(req[s].mail)]
        BY <3>2 DEF NewRow, Typed, TypeOK
      <3> QED BY <1>2, <3>1, <3>2 DEF FindUser, CreateUser, FindCreated, VerifyToken, LoadCaller
    <2> QED BY <2>1, <2>2, <2>3, FreshQuiet
  <1>3. ASSUME NEW s \in Slots, AskLogin(s) \/ AskSignOut(s) \/ Login(s) \/ SignOut(s)
        PROVE  Fresh'
    BY <1>3, FreshAsk, FreshLogin, FreshSignOut
  <1>4. ASSUME NEW n \in Serials, NEW column \in Columns, Land(n, column)
        PROVE  Fresh'
    BY <1>4, FreshLand
  <1>5. ASSUME RemoveUser PROVE Fresh'
    <2>1. NoNewRequest /\ UNCHANGED <<pending, tokens>>
      BY <1>5 DEF RemoveUser, NoNewRequest, Active
    <2>2. \A i \in Ids : row'[i].secret \in {NoSecret, row[i].secret}
      BY <1>5 DEF RemoveUser, NoRow, Typed, TypeOK
    <2> QED BY <2>1, <2>2, FreshQuiet
  <1> QED BY <1>1, <1>2, <1>3, <1>4, <1>5 DEF Next, Step

LEMMA InitFresh == Init => Fresh
  <1> SUFFICES ASSUME Init PROVE Fresh
    OBVIOUS
  <1>1. \A s \in Slots : ~Active(s)
    BY DEF Init, Active, Idle
  <1>2. \A i \in Ids : row[i].secret \in {NoSecret, 1}
    BY SecretAssumption DEF Init, NoRow
  <1>3. FreshRequests /\ FreshSaves /\ FreshTokens
    BY <1>1 DEF Init, FreshRequests, FreshSaves, FreshTokens
  <1>4. WrittenSecrets
    BY <1>1, <1>2 DEF Init, WrittenSecrets, Written
  <1> QED BY <1>3, <1>4 DEF Fresh

LEMMA AlwaysFresh == Spec => [](Typed /\ Fresh)
  BY InitTyped, StepTyped, InitFresh, FreshStep, PTL DEF Spec

-----------------------------------------------------------------------------
\* Where users have one session, at most one token of a user is accepted.
THEOREM OneSessionAlways == Spec => []OneSession
  <1>1. Typed /\ Fresh => OneSession
    BY DEF Fresh, FreshTokens, OneSession, Accepts
  <1> QED BY <1>1, AlwaysFresh, PTL

-----------------------------------------------------------------------------
\* A secret that is written and that user i does not have, i will never have.
LEMMA WrittenStep ==
  ASSUME Typed, Fresh, [Next]_vars, NEW n \in Serials, Written(n)
  PROVE  Written(n)' /\ \A i \in Ids : ~Has(i, n) => ~Has(i, n)'
  <1>0. n # NoSecret
    BY DEF Serials
  <1>1. ASSUME NoNewRequest, pending' \subseteq pending,
               \A i \in Ids : \/ row'[i] = row[i] \/ row'[i].secret = NoSecret
                              \/ row'[i].secret # n
                              \/ row'[i].secret = row[i].secret /\ row'[i].mail = row[i].mail
        PROVE  Written(n)' /\ \A i \in Ids : ~Has(i, n) => ~Has(i, n)'
    BY <1>0, <1>1, WrittenQuiet DEF Has, Exists
  <1>2. CASE UNCHANGED vars
    BY <1>1, <1>2 DEF vars, NoNewRequest, Active
  <1>3. ASSUME NEW s \in Slots, AskLogin(s) \/ AskSignOut(s)
        PROVE  Written(n)' /\ \A i \in Ids : ~Has(i, n) => ~Has(i, n)'
    <2>1. n \in Nat
      BY DEF Serials
    <2> QED BY <1>3, <2>1, AskBegins DEF Written, Active, Has, Exists
  <1>4. ASSUME NEW s \in Slots,
               FindUser(s) \/ CreateUser(s) \/ FindCreated(s) \/ VerifyToken(s) \/ LoadCaller(s)
        PROVE  Written(n)' /\ \A i \in Ids : ~Has(i, n) => ~Has(i, n)'
    <2>1. NoNewRequest
      BY <1>4, StepNoNew DEF Step
    <2>2. UNCHANGED pending
      BY <1>4 DEF FindUser, CreateUser, FindCreated, VerifyToken, LoadCaller
    <2>3. CASE UNCHANGED row
      BY <1>1, <2>1, <2>2, <2>3
    <2>4. ASSUME NEW i \in Ids, row' = [row EXCEPT ![i] = NewRow(req[s].mail)]
          PROVE  Written(n)' /\ \A j \in Ids : ~Has(j, n) => ~Has(j, n)'
      <3>1. \A j \in Ids : row'[j] = row[j] \/ row'[j].secret = NoSecret
        BY <2>4 DEF NewRow, Typed, TypeOK
      <3> QED BY <1>1, <2>1, <2>2, <3>1
    <2> QED BY <1>4, <2>3, <2>4 DEF FindUser, CreateUser, FindCreated, VerifyToken, LoadCaller
  <1>5. ASSUME NEW s \in Slots, Login(s)
        PROVE  Written(n)' /\ \A i \in Ids : ~Has(i, n) => ~Has(i, n)'
    <2>1. NoNewRequest
      BY <1>5, StepNoNew DEF Step
    <2>2. /\ Active(s) /\ UNCHANGED row
          /\ \A p \in pending' \ pending : p.n = req[s].n
      BY <1>5, LoginAdds
    <2> QED BY <2>1, <2>2 DEF Written, NoNewRequest, Active, Has, Exists
  <1>6. ASSUME NEW s \in Slots, SignOut(s)
        PROVE  Written(n)' /\ \A i \in Ids : ~Has(i, n) => ~Has(i, n)'
    <2>1. NoNewRequest
      BY <1>6, StepNoNew DEF Step
    <2>2. /\ Active(s) /\ UNCHANGED pending
          /\ \A j \in Ids : row'[j].secret \in {row[j].secret, req[s].n} /\ row'[j].mail = row[j].mail
      BY <1>6, SignOutWrites
    <2>3. req[s].n # n
      BY <2>2 DEF Written
    <2> QED BY <1>1, <2>1, <2>2, <2>3
  <1>7. ASSUME NEW m \in Serials, NEW column \in Columns, Land(m, column)
        PROVE  Written(n)' /\ \A i \in Ids : ~Has(i, n) => ~Has(i, n)'
    <2>1. PICK p \in pending :
            /\ p.column = column /\ pending' = pending \ {p}
            /\ UNCHANGED <<req, serial, tokens>>
            /\ \A j \in Ids :
                 /\ row'[j].secret \in {row[j].secret} \cup
                                    (IF column = "secret" THEN {p.instance.secret} ELSE {})
                 /\ row'[j].mail = row[j].mail
      BY <1>7, LandWrites
    <2>2. column = "secret" => p.instance.secret # n
      BY <2>1 DEF Fresh, FreshSaves, Written
    <2>3. NoNewRequest
      BY <2>1 DEF NoNewRequest, Active
    <2> QED BY <1>1, <2>1, <2>2, <2>3
  <1>8. ASSUME RemoveUser
        PROVE  Written(n)' /\ \A i \in Ids : ~Has(i, n) => ~Has(i, n)'
    <2>1. NoNewRequest /\ UNCHANGED pending
      BY <1>8 DEF RemoveUser, NoNewRequest, Active
    <2>2. \A i \in Ids : row'[i] = row[i] \/ row'[i].secret = NoSecret
      BY <1>8 DEF RemoveUser, NoRow, Typed, TypeOK
    <2> QED BY <1>1, <2>1, <2>2
  <1> QED BY <1>2, <1>3, <1>4, <1>5, <1>6, <1>7, <1>8 DEF Next, Step

\* A secret that was replaced never comes back, so neither does the acceptance of
\* a token that was revoked, whatever saves are still on their way.
THEOREM RevokedStays == Spec => RevokedStaysRevoked
  <1>1. ASSUME NEW i \in Ids, NEW n \in Serials
        PROVE  Spec => [](Has(i, n) => [](~Has(i, n) => []~Has(i, n)))
    <2>1. Typed /\ Fresh /\ Has(i, n) => Written(n)
      <3> SUFFICES ASSUME Fresh, Has(i, n) PROVE Written(n)
        OBVIOUS
      <3>1. row[i].secret = n /\ n # NoSecret
        BY DEF Has, Serials
      <3>2. Written(row[i].secret)
        BY <3>1 DEF Fresh, WrittenSecrets
      <3> QED BY <3>1, <3>2 DEF Written
    <2>2. Typed /\ Fresh /\ [Next]_vars /\ Written(n) => Written(n)'
      BY WrittenStep
    <2>3. Typed /\ Fresh /\ [Next]_vars /\ Written(n) /\ ~Has(i, n) => ~Has(i, n)'
      BY WrittenStep
    <2> QED BY <2>1, <2>2, <2>3, AlwaysFresh, PTL DEF Spec
  <1> QED BY <1>1 DEF RevokedStaysRevoked
-----------------------------------------------------------------------------
(* Tokens and sign-outs.  What a token was signed with is the secret its own   *)
(* login made, or was in a row already.                                        *)

SignedTokens ==
  \A t \in tokens : t.secret \in Serials /\ (t.secret = t.n \/ Written(t.secret))

OutTokens ==
  \A t \in tokens :
    /\ t.out = "before" => t.secret = t.n
    /\ t.out = "after" => Written(t.secret) /\ ~Accepts(t)

Tokens == SignedTokens /\ OutTokens

LEMMA TokensKept ==
  ASSUME Typed, Fresh, Tokens, [Next]_vars, NEW t \in tokens
  PROVE  /\ t.secret \in Serials /\ (t.secret = t.n \/ Written(t.secret)')
         /\ t.out = "before" => t.secret = t.n
         /\ t.out = "after" => Written(t.secret)' /\ ~Accepts(t)'
  <1>1. t.secret \in Serials /\ t.id \in Ids
    BY DEF Tokens, SignedTokens, Typed, TypeOK, Token
  <1>2. Written(t.secret) => Written(t.secret)' /\ (~Has(t.id, t.secret) => ~Has(t.id, t.secret)')
    BY <1>1, WrittenStep
  <1> QED BY <1>1, <1>2 DEF Tokens, SignedTokens, OutTokens, Accepts, Has

\* A token of a login is signed with the secret the login makes, or with the one it
\* finds in the row.
LEMMA LoginToken ==
  ASSUME Typed, Fresh, NEW s \in Slots, Login(s), NEW t \in tokens' \ tokens
  PROVE  /\ t.out = "no" /\ t.secret \in Serials
         /\ t.secret = t.n \/ Written(t.secret)
  <1> DEFINE i == req[s].id
             secret == IF NeedsSecret(i) THEN req[s].n ELSE row[i].secret
             new == [n |-> req[s].n, id |-> i, secret |-> secret, out |-> "no"]
  <1>1. i \in Ids /\ row[i] \in UserRow /\ req[s].n \in Serials
    BY DEF Login, Typed, TypeOK, Located, LocatedRequest
  <1>2. t = new
    BY DEF Login
  <1>3. t.out = "no" /\ t.n = req[s].n /\ t.secret = secret
    BY <1>2
  <1>4. CASE NeedsSecret(i)
    BY <1>1, <1>3, <1>4
  <1>5. CASE ~NeedsSecret(i)
    <2>1. t.secret = row[i].secret /\ row[i].secret # NoSecret
      BY <1>3, <1>5 DEF NeedsSecret
    <2>2. row[i].secret \in Serials
      BY <1>1, <2>1 DEF UserRow, Secrets
    <2> QED BY <1>1, <1>3, <2>1, <2>2 DEF Fresh, WrittenSecrets
  <1> QED BY <1>4, <1>5

\* A sign-out takes every token of its user whose secret is not on its way: that secret
\* is written, and the one the sign-out writes is another.
LEMMA SignOutToken ==
  ASSUME Typed, Fresh, Tokens, NEW s \in Slots, SignOut(s), NEW u \in tokens'
  PROVE  /\ u.secret \in Serials /\ (u.secret = u.n \/ Written(u.secret)')
         /\ u.out = "before" => u.secret = u.n
         /\ u.out = "after" => Written(u.secret)' /\ ~Accepts(u)'
  <1> DEFINE i == req[s].id
             onItsWay(t) == \E p \in pending : p.column = "secret" /\ p.n = t.secret
             signedOut(t) == IF t.id = i
                             THEN [t EXCEPT !.out = IF onItsWay(t) THEN "before" ELSE "after"]
                             ELSE t
  <1>1. PICK t \in tokens : u = signedOut(t)
    BY DEF SignOut, TokensOut
  <1>2. t \in Token /\ t.id \in Ids
    BY DEF Typed, TypeOK, Token
  <1>3. [Next]_vars
    BY DEF Next, Step
  <1>4. /\ t.secret \in Serials /\ (t.secret = t.n \/ Written(t.secret)')
        /\ t.out = "before" => t.secret = t.n
        /\ t.out = "after" => Written(t.secret)' /\ ~Accepts(t)'
    BY <1>3, TokensKept
  <1>5. u.n = t.n /\ u.id = t.id /\ u.secret = t.secret
    BY <1>1, <1>2 DEF Token
  <1>6. CASE t.id # i
    BY <1>1, <1>4, <1>6
  <1>7. CASE t.id = i /\ onItsWay(t)
    <2>1. u.out = "before"
      BY <1>1, <1>2, <1>7 DEF Token
    <2>2. ~Written(t.secret)
      BY <1>7 DEF Written
    <2> QED BY <1>4, <1>5, <2>1, <2>2 DEF Tokens, SignedTokens
  <1>8. CASE t.id = i /\ ~onItsWay(t)
    <2>1. Written(t.secret)
      <3>1. CASE t.secret = t.n
        BY <1>8, <3>1 DEF Fresh, FreshTokens, Written
      <3> QED BY <3>1 DEF Tokens, SignedTokens
    <2>2. Written(t.secret)'
      BY <1>3, <1>4, <2>1, WrittenStep
    <2>3. Active(s) /\ i \in Ids
      BY DEF SignOut, Active, Typed, Located, LocatedRequest
    <2>4. t.secret # req[s].n
      BY <2>1, <2>3 DEF Written
    <2>5. row' = IF Exists(i) THEN [row EXCEPT ![i].secret = req[s].n] ELSE row
      BY DEF SignOut
    <2>6. u.out = "after"
      BY <1>1, <1>2, <1>8 DEF Token
    <2>7. CASE Exists(i)
      <3>1. row'[i].secret = req[s].n
        BY <2>3, <2>5, <2>7 DEF Typed, TypeOK, UserRow
      <3>2. ~Accepts(u)'
        BY <1>5, <1>8, <2>4, <3>1 DEF Accepts
      <3> QED BY <1>4, <1>5, <2>2, <2>6, <3>2
    <2>8. CASE ~Exists(i)
      <3>1. row'[t.id].mail = NoMail
        BY <1>8, <2>5, <2>8 DEF Exists
      <3>2. ~Accepts(u)'
        BY <1>5, <3>1 DEF Accepts, Exists
      <3> QED BY <1>4, <1>5, <2>2, <2>6, <3>2
    <2> QED BY <2>7, <2>8
  <1> QED BY <1>6, <1>7, <1>8

LEMMA TokensStep ==
  ASSUME Typed, Fresh, Tokens, [Next]_vars
  PROVE  Tokens'
  <1> DEFINE Right(t) == /\ t.secret \in Serials /\ (t.secret = t.n \/ Written(t.secret)')
                         /\ t.out = "before" => t.secret = t.n
                         /\ t.out = "after" => Written(t.secret)' /\ ~Accepts(t)'
  <1>1. \A t \in tokens : Right(t)
    BY TokensKept
  <1>2. ASSUME \A t \in tokens' : Right(t) PROVE Tokens'
    BY <1>2 DEF Tokens, SignedTokens, OutTokens
  <1>3. CASE UNCHANGED tokens
    BY <1>1, <1>2, <1>3
  <1>4. ASSUME NEW s \in Slots, Login(s) PROVE Tokens'
    <2>1. ASSUME NEW t \in tokens' \ tokens PROVE Right(t)
      <3>1. t.out = "no" /\ t.secret \in Serials /\ (t.secret = t.n \/ Written(t.secret))
        BY <1>4, <2>1, LoginToken
      <3>2. Written(t.secret) => Written(t.secret)'
        BY <3>1, WrittenStep
      <3> QED BY <3>1, <3>2
    <2> QED BY <1>1, <1>2, <2>1
  <1>5. ASSUME NEW s \in Slots, SignOut(s) PROVE Tokens'
    BY <1>2, <1>5, SignOutToken
  <1>6. ASSUME NEW s \in Slots,
               \/ AskLogin(s) \/ AskSignOut(s) \/ FindUser(s) \/ CreateUser(s)
               \/ FindCreated(s) \/ VerifyToken(s) \/ LoadCaller(s)
        PROVE  UNCHANGED tokens
    BY <1>6 DEF AskLogin, AskSignOut, Begin, FindUser, CreateUser, FindCreated, VerifyToken,
                LoadCaller
  <1>7. (\E n \in Serials, column \in Columns : Land(n, column)) \/ RemoveUser \/ UNCHANGED vars
          => UNCHANGED tokens
    BY DEF Land, RemoveUser, vars
  <1> QED BY <1>3, <1>4, <1>5, <1>6, <1>7 DEF Next, Step

\* Whatever logins, late saves and sign-outs overlap, a token is accepted after a
\* sign-out of its user only where that overtook the save of the secret which the
\* token's own login had made (AuthnService.login, UsersController.logOut).
THEOREM SignedOut == Spec => []SignedOutStaysOut
  <1>1. Init => Tokens
    BY DEF Init, Tokens, SignedTokens, OutTokens
  <1>2. Typed /\ Fresh /\ Tokens /\ [Next]_vars => Tokens'
    BY TokensStep
  <1>3. Typed /\ Tokens => SignedOutStaysOut
    BY DEF Typed, TypeOK, Token, Tokens, OutTokens, SignedOutStaysOut
  <1> QED BY <1>1, <1>2, <1>3, AlwaysFresh, PTL DEF Spec

-----------------------------------------------------------------------------
(* How a session ends.                                                         *)

\* Where users may have several sessions, a login makes a secret only for a user
\* that has none.
NeededSaves ==
  \A p \in pending : p.column = "secret" => OneSessionPerUser \/ p.found = NoSecret

\* No id is given out twice, so no new row takes the place of another.
RowsGiven == \A i \in Ids : Exists(i) => i \in spent

\* What a step may do to the rows.
LEMMA RowStep ==
  ASSUME Typed, [Next]_vars
  PROVE  \/ UNCHANGED <<row, spent>>
         \/ \E i \in Ids \ spent, m \in Mails \cup {NoMail} :
              row' = [row EXCEPT ![i] = NewRow(m)] /\ spent' = spent \cup {i}
         \/ \E p \in pending \ pending' :
              /\ UNCHANGED spent
              /\ row' = IF Exists(p.id)
                        THEN [row EXCEPT ![p.id][p.column] = p.instance[p.column]] ELSE row
         \/ \E s \in Slots : SignOut(s)
         \/ RemoveUser
  <1>1. ASSUME NEW s \in Slots,
               \/ AskLogin(s) \/ AskSignOut(s) \/ FindUser(s) \/ FindCreated(s)
               \/ Login(s) \/ VerifyToken(s) \/ LoadCaller(s)
        PROVE  UNCHANGED <<row, spent>>
    BY <1>1 DEF AskLogin, AskSignOut, Begin, FindUser, FindCreated, Login, VerifyToken, LoadCaller
  <1>2. ASSUME NEW s \in Slots, CreateUser(s), ~UNCHANGED <<row, spent>>
        PROVE  \E i \in Ids \ spent, m \in Mails \cup {NoMail} :
                 row' = [row EXCEPT ![i] = NewRow(m)] /\ spent' = spent \cup {i}
    <2>1. req[s].mail \in Mails \cup {NoMail}
      BY DEF Typed, TypeOK, Request
    <2> QED BY <1>2, <2>1 DEF CreateUser
  <1>3. ASSUME NEW n \in Serials, NEW column \in Columns, Land(n, column)
        PROVE  \E p \in pending \ pending' :
                 /\ UNCHANGED spent
                 /\ row' = IF Exists(p.id)
                           THEN [row EXCEPT ![p.id][p.column] = p.instance[p.column]] ELSE row
    BY <1>3 DEF Land
  <1>4. UNCHANGED vars => UNCHANGED <<row, spent>>
    BY DEF vars
  <1> QED BY <1>1, <1>2, <1>3, <1>4 DEF Next, Step

\* The save of a column changes that column of one row.
LEMMA Saved ==
  ASSUME Typed, NEW p \in pending,
         row' = IF Exists(p.id)
                THEN [row EXCEPT ![p.id][p.column] = p.instance[p.column]] ELSE row
  PROVE  \A i \in Ids : /\ row'[i].mail = row[i].mail
                        /\ row'[i].secret # row[i].secret => i = p.id /\ p.column = "secret"
  <1>1. p.id \in Ids /\ p.column \in Columns /\ p.instance \in UserRow
    BY DEF Typed, TypeOK, Save
  <1>2. CASE p.column = "secret"
    BY <1>1, <1>2 DEF Typed, TypeOK, UserRow
  <1>3. CASE p.column = "logins"
    BY <1>1, <1>3 DEF Typed, TypeOK, UserRow
  <1> QED BY <1>1, <1>2, <1>3 DEF Columns

LEMMA RowsGivenStep ==
  ASSUME Typed, RowsGiven, [Next]_vars
  PROVE  RowsGiven'
  <1>1. CASE UNCHANGED <<row, spent>>
    BY <1>1 DEF RowsGiven, Exists
  <1>2. ASSUME NEW i \in Ids \ spent, NEW m,
               row' = [row EXCEPT ![i] = NewRow(m)], spent' = spent \cup {i}
        PROVE  RowsGiven'
    BY <1>2 DEF RowsGiven, Exists, Typed, TypeOK
  <1>3. ASSUME UNCHANGED spent, \A i \in Ids : row'[i].mail \in {row[i].mail, NoMail}
        PROVE  RowsGiven'
    BY <1>3 DEF RowsGiven, Exists
  <1>4. ASSUME NEW p \in pending, UNCHANGED spent,
               row' = IF Exists(p.id)
                      THEN [row EXCEPT ![p.id][p.column] = p.instance[p.column]] ELSE row
        PROVE  RowsGiven'
    BY <1>3, <1>4, Saved
  <1>5. ASSUME NEW s \in Slots, SignOut(s) PROVE RowsGiven'
    BY <1>3, <1>5, SignOutWrites DEF SignOut
  <1>6. ASSUME RemoveUser PROVE RowsGiven'
    BY <1>3, <1>6 DEF RemoveUser, NoRow, Typed, TypeOK
  <1> QED BY <1>1, <1>2, <1>4, <1>5, <1>6, RowStep

LEMMA NeededSavesStep ==
  ASSUME Typed, NeededSaves, [Next]_vars
  PROVE  NeededSaves'
  <1>1. CASE pending' \subseteq pending
    BY <1>1 DEF NeededSaves
  <1>2. ASSUME NEW s \in Slots, Login(s) PROVE NeededSaves'
    <2> DEFINE i == req[s].id
               fresh == [row[i] EXCEPT !.secret = req[s].n]
    <2>1. LoginMetadata(s).column = "logins"
      BY DEF LoginMetadata, SaveOf
    <2>2. SaveOf(s, "secret", row[i], fresh).found = row[i].secret
      BY DEF SaveOf
    <2>3. \A p \in pending' \ pending :
            \/ p = LoginMetadata(s)
            \/ NeedsSecret(i) /\ p = SaveOf(s, "secret", row[i], fresh)
      BY <1>2 DEF Login
    <2> QED BY <2>1, <2>2, <2>3 DEF NeededSaves, NeedsSecret
  <1>3. ASSUME NEW s \in Slots,
               \/ AskLogin(s) \/ AskSignOut(s) \/ FindUser(s) \/ CreateUser(s)
               \/ FindCreated(s) \/ VerifyToken(s) \/ LoadCaller(s) \/ SignOut(s)
        PROVE  UNCHANGED pending
    BY <1>3 DEF AskLogin, AskSignOut, Begin, FindUser, CreateUser, FindCreated, VerifyToken,
                LoadCaller, SignOut
  <1>4. (\E n \in Serials, column \in Columns : Land(n, column)) \/ RemoveUser \/ UNCHANGED vars
          => pending' \subseteq pending
    BY DEF Land, RemoveUser, vars
  <1> QED BY <1>1, <1>2, <1>3, <1>4 DEF Next, Step

\* A session that works ends by a sign-out of its user or with its account, and by
\* another login only with the secret of one that needed one, however late that lands.
THEOREM EndsBySignOut == Spec => SessionEndsBySignOut
  <1> DEFINE Ends(t) ==
        \/ \E s \in Slots : req[s].at = "signOut" /\ req[s].id = t.id /\ req'[s].at = "idle"
        \/ row'[t.id].mail = NoMail
        \/ \E p \in pending \ pending' :
             /\ p.column = "secret" /\ p.id = t.id
             /\ OneSessionPerUser \/ p.found = NoSecret
  <1>1. ASSUME Typed, RowsGiven, NeededSaves, [Next]_vars,
               NEW t \in tokens, Accepts(t), ~Accepts(t)'
        PROVE  Ends(t)
    <2>1. t.id \in Ids /\ Exists(t.id)
      BY <1>1 DEF Typed, TypeOK, Token, Accepts
    <2>2. row'[t.id] # row[t.id]
      BY <1>1 DEF Accepts, Exists
    <2>3. ~UNCHANGED <<row, spent>>
      BY <2>2
    <2>4. ASSUME NEW i \in Ids \ spent, NEW m, row' = [row EXCEPT ![i] = NewRow(m)]
          PROVE  FALSE
      <3>1. i # t.id
        BY <1>1, <2>1 DEF RowsGiven
      <3> QED BY <1>1, <2>1, <2>2, <2>4, <3>1 DEF Typed, TypeOK
    <2>5. ASSUME NEW p \in pending \ pending',
                 row' = IF Exists(p.id)
                        THEN [row EXCEPT ![p.id][p.column] = p.instance[p.column]] ELSE row
          PROVE  Ends(t)
      <3>1. /\ row'[t.id].mail = row[t.id].mail
            /\ row'[t.id].secret # row[t.id].secret => t.id = p.id /\ p.column = "secret"
        BY <1>1, <2>1, <2>5, Saved
      <3>2. row'[t.id].secret # row[t.id].secret
        BY <1>1, <3>1 DEF Accepts, Exists
      <3> QED BY <1>1, <3>1, <3>2 DEF NeededSaves
    <2>6. ASSUME NEW s \in Slots, SignOut(s) PROVE Ends(t)
      <3>1. req[s].at = "signOut" /\ req'[s].at = "idle"
        BY <1>1, <2>6, SignOutWrites DEF SignOut
      <3>2. req[s].id = t.id
        BY <1>1, <2>1, <2>2, <2>6 DEF SignOut, Typed, TypeOK
      <3> QED BY <3>1, <3>2
    <2>7. ASSUME RemoveUser PROVE Ends(t)
      BY <1>1, <2>1, <2>2, <2>7 DEF RemoveUser, NoRow, Typed, TypeOK
    <2> QED BY <1>1, <2>3, <2>4, <2>5, <2>6, <2>7, RowStep
  <1>2. Typed /\ RowsGiven /\ NeededSaves /\ [Next]_vars =>
          [\A t \in tokens : Accepts(t) /\ ~Accepts(t)' =>
             \/ \E s \in Slots : /\ req[s].at = "signOut" /\ req[s].id = t.id
                               /\ req'[s].at = "idle"
             \/ row'[t.id].mail = NoMail
             \/ \E p \in pending \ pending' :
                  /\ p.column = "secret" /\ p.id = t.id
                  /\ OneSessionPerUser \/ p.found = NoSecret]_vars
    BY <1>1
  <1>3. Init => RowsGiven /\ NeededSaves
    BY DEF Init, RowsGiven, NeededSaves, Exists, NoRow
  <1>4. Typed /\ RowsGiven /\ [Next]_vars => RowsGiven'
    BY RowsGivenStep
  <1>5. Typed /\ NeededSaves /\ [Next]_vars => NeededSaves'
    BY NeededSavesStep
  <1> QED BY <1>2, <1>3, <1>4, <1>5, AlwaysTyped, PTL DEF Spec, SessionEndsBySignOut
=============================================================================
