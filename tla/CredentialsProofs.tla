------------------------- MODULE CredentialsProofs -------------------------
(***************************************************************************)
(* Proofs about ApiKeys for every number of users, groups, keys and        *)
(* requests, and what SessionsProofs proves of the sessions of             *)
(* MCCredentials.                                                          *)
(***************************************************************************)
EXTENDS MCCredentials, TLAPS

USE SubjectsAssumption, RightsAssumption, KeysAssumption

-----------------------------------------------------------------------------
\* A request knows the key that its next statement writes.
KnownIn(q, ids) ==
  /\ q.at \in {"key", "group", "again", "write", "open", "compare", "act"} => q.key \in Keys
  /\ q.at = "hash" => q.key \in ids

Known == \A s \in Slots : KnownIn(req[s], spent)

\* Every row has an id that was given out, and only rows have a hash.
RowsGiven == \A k \in Keys : (Exists(k) => k \in spent) /\ (row[k].hashed => Exists(k))

Inv == TypeOK /\ Known /\ RowsGiven

Requests == req \in [Slots -> Request] /\ Known

LEMMA IdleType == Idle \in Request /\ NoRow \in KeyRow
  BY DEF Idle, Request, NoRow, KeyRow

\* A request moves on.
LEMMA Moved ==
  ASSUME Requests, NEW s \in Slots, NEW q \in Request, KnownIn(q, spent'),
         spent \subseteq spent', req' = [req EXCEPT ![s] = q]
  PROVE  Requests'
  <1>1. req' \in [Slots -> Request]
    BY DEF Requests
  <1>2. ASSUME NEW t \in Slots PROVE KnownIn(req'[t], spent')
    <2>1. CASE t = s
      BY <2>1 DEF Requests
    <2>2. CASE t # s
      <3>1. req'[t] = req[t]
        BY <2>2 DEF Requests
      <3> QED BY <3>1 DEF Requests, Known, KnownIn
    <2> QED BY <2>1, <2>2
  <1> QED BY <1>1, <1>2 DEF Requests, Known

LEMMA Replied ==
  ASSUME Requests, NEW s \in Slots, Reply(s), spent \subseteq spent'
  PROVE  Requests'
  <1>1. KnownIn(Idle, spent')
    BY DEF KnownIn, Idle
  <1> QED BY <1>1, IdleType, Moved DEF Reply

\* One field of a request changes, or two.
LEMMA Gone ==
  ASSUME Requests, NEW s \in Slots, NEW stage \in {"insert", "again"}, Go(s, stage),
         stage = "again" => req[s].key \in Keys, UNCHANGED spent
  PROVE  Requests'
  <1>1. req[s] \in Request
    BY DEF Requests
  <1>2. [req[s] EXCEPT !.at = stage] \in Request
    BY <1>1 DEF Request
  <1>3. KnownIn([req[s] EXCEPT !.at = stage], spent')
    BY <1>1 DEF KnownIn, Request
  <1>4. req' = [req EXCEPT ![s] = [req[s] EXCEPT !.at = stage]]
    BY DEF Go, Requests
  <1> QED BY <1>2, <1>3, <1>4, Moved

LEMMA Seen ==
  ASSUME Requests, row \in [Keys -> KeyRow], NEW s \in Slots, req[s].key \in Keys,
         NEW stage \in {"write", "compare"}, UNCHANGED spent,
         req' = [req EXCEPT ![s].at = stage, ![s].seen = row[req[s].key]]
  PROVE  Requests'
  <1>1. req[s] \in Request /\ row[req[s].key] \in KeyRow
    BY DEF Requests
  <1>2. [req[s] EXCEPT !.at = stage, !.seen = row[req[s].key]] \in Request
    BY <1>1 DEF Request
  <1>3. KnownIn([req[s] EXCEPT !.at = stage, !.seen = row[req[s].key]], spent')
    BY <1>1 DEF KnownIn, Request
  <1>4. req' = [req EXCEPT ![s] = [req[s] EXCEPT !.at = stage, !.seen = row[req[s].key]]]
    BY DEF Requests
  <1> QED BY <1>2, <1>3, <1>4, Moved

LEMMA Located ==
  ASSUME Requests, NEW s \in Slots, req[s].key \in Keys, NEW stage \in {"group", "again", "act"},
         NEW x \in Subjects \cup {NoOwner}, UNCHANGED spent,
         req' = [req EXCEPT ![s].at = stage, ![s].subject = x]
  PROVE  Requests'
  <1>1. req[s] \in Request
    BY DEF Requests
  <1>2. [req[s] EXCEPT !.at = stage, !.subject = x] \in Request
    BY <1>1 DEF Request
  <1>3. KnownIn([req[s] EXCEPT !.at = stage, !.subject = x], spent')
    BY <1>1 DEF KnownIn, Request
  <1>4. req' = [req EXCEPT ![s] = [req[s] EXCEPT !.at = stage, !.subject = x]]
    BY DEF Requests
  <1> QED BY <1>2, <1>3, <1>4, Moved

-----------------------------------------------------------------------------
(* What the writes do to the table. *)

\* A column of a row is written.
LEMMA HashWritten ==
  ASSUME row \in [Keys -> KeyRow], NEW k \in Keys
  PROVE  LET new == [row EXCEPT ![k].hashed = TRUE] IN
         /\ new \in [Keys -> KeyRow]
         /\ \A l \in Keys : new[l].kind = row[l].kind
         /\ \A l \in Keys : new[l].hashed <=> (l = k \/ row[l].hashed)
  <1>1. row[k] \in KeyRow
    OBVIOUS
  <1>2. [row[k] EXCEPT !.hashed = TRUE] \in KeyRow
    BY <1>1 DEF KeyRow
  <1>3. [row EXCEPT ![k].hashed = TRUE] = [row EXCEPT ![k] = [row[k] EXCEPT !.hashed = TRUE]]
    OBVIOUS
  <1>4. [row[k] EXCEPT !.hashed = TRUE].kind = row[k].kind
    BY <1>1 DEF KeyRow
  <1>5. [row[k] EXCEPT !.hashed = TRUE].hashed = TRUE
    BY <1>1 DEF KeyRow
  <1> QED BY <1>2, <1>3, <1>4, <1>5

LEMMA NameWritten ==
  ASSUME row \in [Keys -> KeyRow], NEW k \in Keys
  PROVE  LET new == [row EXCEPT ![k].renamed = TRUE] IN
         /\ new \in [Keys -> KeyRow]
         /\ \A l \in Keys : new[l].kind = row[l].kind /\ new[l].hashed = row[l].hashed
  <1>1. row[k] \in KeyRow
    OBVIOUS
  <1>2. [row[k] EXCEPT !.renamed = TRUE] \in KeyRow
    BY <1>1 DEF KeyRow
  <1>3. [row EXCEPT ![k].renamed = TRUE] = [row EXCEPT ![k] = [row[k] EXCEPT !.renamed = TRUE]]
    OBVIOUS
  <1>4. /\ [row[k] EXCEPT !.renamed = TRUE].kind = row[k].kind
        /\ [row[k] EXCEPT !.renamed = TRUE].hashed = row[k].hashed
    BY <1>1 DEF KeyRow
  <1> QED BY <1>2, <1>3, <1>4

LEMMA OwnerCleared ==
  ASSUME row \in [Keys -> KeyRow], NEW x
  PROVE  LET new == [k \in Keys |-> IF row[k].owner = x THEN [row[k] EXCEPT !.owner = NoOwner]
                                    ELSE row[k]] IN
         /\ new \in [Keys -> KeyRow]
         /\ \A l \in Keys : new[l].kind = row[l].kind /\ new[l].hashed = row[l].hashed
  <1>1. ASSUME NEW k \in Keys
        PROVE  /\ [row[k] EXCEPT !.owner = NoOwner] \in KeyRow
               /\ [row[k] EXCEPT !.owner = NoOwner].kind = row[k].kind
               /\ [row[k] EXCEPT !.owner = NoOwner].hashed = row[k].hashed
    <2>1. row[k] \in KeyRow
      OBVIOUS
    <2> QED BY <2>1 DEF KeyRow
  <1> QED BY <1>1

\* The rows keep what they are, and none of them is new.
SameRows == \A k \in Keys : row'[k].kind = row[k].kind /\ row'[k].hashed = row[k].hashed

LEMMA SameGiven ==
  ASSUME Inv, SameRows, UNCHANGED spent
  PROVE  RowsGiven'
  BY DEF Inv, SameRows, RowsGiven, Exists

-----------------------------------------------------------------------------
(* Every action. *)

\* A step of a request that writes no row: what Next says of the other variables,
\* and what the request looks like after it.
Reads == UNCHANGED <<alive, row, spent, handed, hashing>>

LEMMA ReadsInv ==
  ASSUME Inv, Reads, Requests'
  PROVE  Inv'
  BY DEF Inv, Reads, Requests, TypeOK, RowsGiven, Exists

LEMMA InvRequests == Inv => Requests
  BY DEF Inv, Requests, TypeOK

LEMMA AskInv ==
  ASSUME Inv, NEW s \in Slots, AskCreate(s) \/ AskChange(s) \/ AskOpen(s)
  PROVE  Inv'
  <1> USE InvRequests
  <1>1. CASE AskCreate(s)
    <2>1. PICK u \in Users \cap alive, x \in Subjects :
            req' = [req EXCEPT ![s] =
                      [Idle EXCEPT !.at = "target", !.op = "create", !.who = u, !.subject = x]]
      BY <1>1 DEF AskCreate
    <2>2. [Idle EXCEPT !.at = "target", !.op = "create", !.who = u, !.subject = x] \in Request
      BY IdleType DEF Request
    <2>3. KnownIn([Idle EXCEPT !.at = "target", !.op = "create", !.who = u, !.subject = x], spent')
      BY DEF KnownIn, Idle
    <2>4. Requests'
      BY <1>1, <2>1, <2>2, <2>3, Moved DEF AskCreate
    <2> QED BY <1>1, <2>4, ReadsInv DEF AskCreate, Reads
  <1>2. CASE AskChange(s)
    <2>1. PICK u \in Users \cap alive, k \in Keys, op \in {"rename", "remove"} :
            req' = [req EXCEPT ![s] = [Idle EXCEPT !.at = "key", !.op = op, !.who = u, !.key = k]]
      BY <1>2 DEF AskChange
    <2>2. [Idle EXCEPT !.at = "key", !.op = op, !.who = u, !.key = k] \in Request
      BY IdleType DEF Request
    <2>3. KnownIn([Idle EXCEPT !.at = "key", !.op = op, !.who = u, !.key = k], spent')
      BY DEF KnownIn, Idle
    <2>4. Requests'
      BY <1>2, <2>1, <2>2, <2>3, Moved DEF AskChange
    <2> QED BY <1>2, <2>4, ReadsInv DEF AskChange, Reads
  <1>3. CASE AskOpen(s)
    <2>1. PICK k \in handed :
            req' = [req EXCEPT ![s] = [Idle EXCEPT !.at = "open", !.op = "open", !.key = k]]
      BY <1>3 DEF AskOpen
    <2>2. k \in Keys
      BY DEF Inv, TypeOK
    <2>3. [Idle EXCEPT !.at = "open", !.op = "open", !.key = k] \in Request
      BY <2>2, IdleType DEF Request
    <2>4. KnownIn([Idle EXCEPT !.at = "open", !.op = "open", !.key = k], spent')
      BY <2>2 DEF KnownIn, Idle
    <2>5. Requests'
      BY <1>3, <2>1, <2>3, <2>4, Moved DEF AskOpen
    <2> QED BY <1>3, <2>5, ReadsInv DEF AskOpen, Reads
  <1> QED BY <1>1, <1>2, <1>3

LEMMA FindInv ==
  ASSUME Inv, NEW s \in Slots,
         \/ FindTarget(s) \/ FindKey(s) \/ FindGroup(s) \/ FindAgain(s)
         \/ FindOpened(s) \/ Compare(s) \/ Act(s)
  PROVE  Inv'
  <1> USE InvRequests
  <1>1. Requests /\ row \in [Keys -> KeyRow] /\ req[s] \in Request /\ KnownIn(req[s], spent)
    BY DEF Inv, TypeOK, Known
  <1>2. Reads /\ UNCHANGED spent
    BY DEF Reads, FindTarget, FindKey, FindGroup, FindAgain, FindOpened, Compare, Act
  <1>3. CASE Reply(s)
    BY <1>1, <1>2, <1>3, Replied, ReadsInv
  <1>4. CASE FindTarget(s) /\ ~Reply(s)
    BY <1>1, <1>2, <1>4, Gone, ReadsInv DEF FindTarget
  <1>5. CASE FindKey(s) /\ ~Reply(s)
    <2>1. req[s].key \in Keys
      BY <1>1, <1>5 DEF FindKey, KnownIn
    <2>2. row[req[s].key].owner \in Subjects \cup {NoOwner}
      BY <1>1, <2>1 DEF KeyRow
    <2>3. PICK stage \in {"group", "again"} :
            req' = [req EXCEPT ![s].at = stage, ![s].subject = row[req[s].key].owner]
      BY <1>5 DEF FindKey
    <2> QED BY <1>1, <1>2, <2>1, <2>2, <2>3, Located, ReadsInv
  <1>6. CASE FindGroup(s) /\ ~Reply(s)
    <2>1. req[s].key \in Keys
      BY <1>1, <1>6 DEF FindGroup, KnownIn
    <2> QED BY <1>1, <1>2, <1>6, <2>1, Gone, ReadsInv DEF FindGroup
  <1>7. CASE FindAgain(s) /\ ~Reply(s)
    <2>1. req[s].key \in Keys
      BY <1>1, <1>7 DEF FindAgain, KnownIn
    <2> QED BY <1>1, <1>2, <1>7, <2>1, Seen, ReadsInv DEF FindAgain
  <1>8. CASE FindOpened(s) /\ ~Reply(s)
    <2>1. req[s].key \in Keys
      BY <1>1, <1>8 DEF FindOpened, KnownIn
    <2> QED BY <1>1, <1>2, <1>8, <2>1, Seen, ReadsInv DEF FindOpened
  <1>9. CASE Compare(s) /\ ~Reply(s)
    <2>1. req[s].key \in Keys
      BY <1>1, <1>9 DEF Compare, KnownIn
    <2>2. req[s].seen.owner \in Subjects \cup {NoOwner}
      BY <1>1 DEF Request, KeyRow
    <2>3. req' = [req EXCEPT ![s].at = "act", ![s].subject = req[s].seen.owner]
      BY <1>9 DEF Compare
    <2> QED BY <1>1, <1>2, <2>1, <2>2, <2>3, Located, ReadsInv
  <1> QED BY <1>3, <1>4, <1>5, <1>6, <1>7, <1>8, <1>9 DEF Act

\* A new row, under an id nobody has had.
LEMMA InsertInv ==
  ASSUME Inv, NEW s \in Slots, InsertKey(s)
  PROVE  Inv'
  <1> USE InvRequests
  <1>1. req[s] \in Request /\ row \in [Keys -> KeyRow]
    BY DEF Inv, TypeOK
  <1>2. CASE req[s].subject \in alive
    <2>1. PICK k \in Keys \ spent :
            /\ row' = [row EXCEPT ![k] = NewRow(req[s].subject)]
            /\ spent' = spent \cup {k}
            /\ req' = [req EXCEPT ![s].at = "hash", ![s].key = k]
      BY <1>2 DEF InsertKey
    <2>2. NewRow(req[s].subject) \in KeyRow /\ ~NewRow(req[s].subject).hashed
      BY <1>1, <1>2 DEF NewRow, KindOf, KeyRow, Inv, TypeOK
    <2>3. [req[s] EXCEPT !.at = "hash", !.key = k] \in Request
      BY <1>1 DEF Request
    <2>4. KnownIn([req[s] EXCEPT !.at = "hash", !.key = k], spent')
      BY <1>1, <2>1 DEF KnownIn, Request
    <2>5. req' = [req EXCEPT ![s] = [req[s] EXCEPT !.at = "hash", !.key = k]]
      BY <2>1 DEF Requests
    <2>6. Requests'
      BY <2>1, <2>3, <2>4, <2>5, Moved
    <2>7. RowsGiven'
      BY <1>1, <2>1, <2>2 DEF Inv, RowsGiven, Exists
    <2>8. TypeOK'
      BY <1>1, <2>1, <2>2, <2>6 DEF InsertKey, Inv, TypeOK, Requests
    <2> QED BY <2>6, <2>7, <2>8 DEF Inv, Requests
  <1>3. CASE req[s].subject \notin alive
    <2>1. Reads /\ Reply(s)
      BY <1>3 DEF InsertKey, Reads
    <2> QED BY <2>1, Replied, ReadsInv DEF Reads
  <1> QED BY <1>2, <1>3

LEMMA HandOutInv ==
  ASSUME Inv, NEW s \in Slots, HandOut(s)
  PROVE  Inv'
  <1> USE InvRequests
  <1>1. Requests'
    BY Replied DEF HandOut
  <1>2. req[s].key \in spent
    BY DEF HandOut, Inv, Known, KnownIn
  <1>3. TypeOK'
    BY <1>1, <1>2 DEF HandOut, Inv, TypeOK, Requests
  <1>4. RowsGiven'
    BY DEF HandOut, Inv, RowsGiven, Exists
  <1> QED BY <1>1, <1>3, <1>4 DEF Inv, Requests

LEMMA LandHashInv ==
  ASSUME Inv, NEW k \in Keys, LandHash(k)
  PROVE  Inv'
  <1>1. row \in [Keys -> KeyRow]
    BY DEF Inv, TypeOK
  <1>2. /\ row' \in [Keys -> KeyRow]
        /\ \A l \in Keys : row'[l].kind = row[l].kind
        /\ \A l \in Keys : row'[l].hashed <=> (row[l].hashed \/ (l = k /\ Exists(k)))
    BY <1>1, HashWritten DEF LandHash
  <1>3. RowsGiven'
    BY <1>2 DEF LandHash, Inv, RowsGiven, Exists
  <1>4. TypeOK'
    BY <1>2 DEF LandHash, Inv, TypeOK
  <1>5. Known'
    BY DEF LandHash, Inv, Known
  <1> QED BY <1>3, <1>4, <1>5 DEF Inv

\* A change of a name leaves everything else in every row.
LEMMA RenameRows ==
  ASSUME Inv, NEW s \in Slots, Rename(s)
  PROVE  row' \in [Keys -> KeyRow] /\ SameRows
  <1>1. row \in [Keys -> KeyRow] /\ req[s].key \in Keys
    BY DEF Inv, TypeOK, Known, KnownIn, Rename
  <1> QED BY <1>1, NameWritten DEF Rename, SameRows

LEMMA RenameInv ==
  ASSUME Inv, NEW s \in Slots, Rename(s)
  PROVE  Inv'
  <1>1. Requests'
    BY InvRequests, Replied DEF Rename
  <1>2. RowsGiven'
    BY RenameRows, SameGiven DEF Rename
  <1>3. TypeOK'
    BY <1>1, RenameRows DEF Rename, Inv, TypeOK, Requests
  <1> QED BY <1>1, <1>2, <1>3 DEF Inv, Requests

LEMMA RemoveInv ==
  ASSUME Inv, NEW s \in Slots, Remove(s)
  PROVE  Inv'
  <1>1. Requests'
    BY InvRequests, Replied DEF Remove
  <1>2. RowsGiven'
    BY DEF Remove, Inv, RowsGiven, Exists, NoRow, TypeOK
  <1>3. TypeOK'
    BY <1>1, IdleType DEF Remove, Inv, TypeOK, Requests
  <1> QED BY <1>1, <1>2, <1>3 DEF Inv, Requests

LEMMA SubjectRows ==
  ASSUME Inv, RemoveSubject
  PROVE  row' \in [Keys -> KeyRow] /\ SameRows
  <1>1. PICK x \in alive :
          row' = [k \in Keys |-> IF row[k].owner = x THEN [row[k] EXCEPT !.owner = NoOwner]
                                 ELSE row[k]]
    BY DEF RemoveSubject
  <1>2. row \in [Keys -> KeyRow]
    BY DEF Inv, TypeOK
  <1> QED BY <1>1, <1>2, OwnerCleared DEF SameRows

LEMMA SubjectInv ==
  ASSUME Inv, RemoveSubject
  PROVE  Inv'
  <1>1. RowsGiven'
    BY SubjectRows, SameGiven DEF RemoveSubject
  <1>2. TypeOK'
    BY SubjectRows DEF RemoveSubject, Inv, TypeOK
  <1>3. Known'
    BY DEF RemoveSubject, Inv, Known
  <1> QED BY <1>1, <1>2, <1>3 DEF Inv

LEMMA InitInv == Init => Inv
  <1> SUFFICES ASSUME Init PROVE Inv
    OBVIOUS
  <1>1. TypeOK
    BY IdleType DEF Init, TypeOK
  <1>2. Known
    BY DEF Init, Known, KnownIn, Idle
  <1>3. RowsGiven
    BY DEF Init, RowsGiven, Exists, NoRow
  <1> QED BY <1>1, <1>2, <1>3 DEF Inv

LEMMA NextInv == Inv /\ [Next]_vars => Inv'
  <1> SUFFICES ASSUME Inv, [Next]_vars PROVE Inv'
    OBVIOUS
  <1>1. CASE UNCHANGED vars
    BY <1>1 DEF vars, Inv, TypeOK, Known, RowsGiven, Exists
  <1>2. ASSUME NEW s \in Slots, AskCreate(s) \/ AskChange(s) \/ AskOpen(s) \/ Step(s)
        PROVE  Inv'
    BY <1>2, AskInv, FindInv, InsertInv, HandOutInv, RenameInv, RemoveInv DEF Step
  <1> QED BY <1>1, <1>2, LandHashInv, SubjectInv DEF Next

\* Every reachable state is well typed: in particular only keys whose row was
\* inserted are handed out, and only hashes of such keys are on their way.
THEOREM TypeCorrect == Spec => []TypeOK
  <1>1. Inv => TypeOK
    BY DEF Inv
  <1> QED BY InitInv, NextInv, <1>1, PTL DEF Spec

-----------------------------------------------------------------------------
(* What a step may not do to the table. *)

LEMMA RowsKept ==
  ASSUME Inv, [Next]_vars, NEW k \in Keys, k \in spent
  PROVE  /\ ~Exists(k) => ~Exists(k)'
         /\ row[k].hashed /\ Exists(k)' => row'[k].hashed
  <1>1. CASE row' = row
    BY <1>1 DEF Exists
  <1>2. CASE SameRows
    BY <1>2 DEF SameRows, Exists
  <1>3. ASSUME NEW s \in Slots, InsertKey(s) PROVE row'[k] = row[k]
    BY <1>3 DEF InsertKey, Inv, TypeOK
  <1>4. ASSUME NEW s \in Slots, Remove(s) PROVE row'[k] = row[k] \/ ~Exists(k)'
    BY <1>4 DEF Remove, Exists, NoRow, Inv, TypeOK
  <1>5. ASSUME NEW l \in Keys, LandHash(l)
        PROVE  row'[k].kind = row[k].kind /\ (row[k].hashed => row'[k].hashed)
    <2>1. row \in [Keys -> KeyRow]
      BY DEF Inv, TypeOK
    <2> QED BY <1>5, <2>1, HashWritten DEF LandHash
  <1>6. ASSUME NEW s \in Slots,
               AskCreate(s) \/ AskChange(s) \/ AskOpen(s) \/ FindTarget(s) \/ HandOut(s)
                 \/ FindKey(s) \/ FindGroup(s) \/ FindAgain(s) \/ FindOpened(s) \/ Compare(s)
                 \/ Act(s)
        PROVE  row' = row
    BY <1>6 DEF AskCreate, AskChange, AskOpen, FindTarget, HandOut, FindKey, FindGroup,
                FindAgain, FindOpened, Compare, Act
  <1>7. ASSUME NEW s \in Slots, AskCreate(s) \/ AskChange(s) \/ AskOpen(s) \/ Step(s)
        PROVE  /\ ~Exists(k) => ~Exists(k)'
               /\ row[k].hashed /\ Exists(k)' => row'[k].hashed
    <2>1. CASE InsertKey(s) \/ Remove(s)
      BY <2>1, <1>3, <1>4 DEF Exists
    <2>2. CASE Rename(s)
      BY <2>2, <1>2, RenameRows
    <2> QED BY <2>1, <2>2, <1>1, <1>6, <1>7 DEF Step
  <1>8. CASE UNCHANGED vars
    BY <1>8, <1>1 DEF vars
  <1> QED BY <1>2, <1>5, <1>7, <1>8, SubjectRows DEF Next, Exists

\* A key that was removed never comes back, for any number of requests that found
\* it before and of hashes on their way.
THEOREM RemovedStays == Spec => RemovedStaysRemoved
  <1>1. Inv /\ [Next]_vars => [\A k \in spent : ~Exists(k) => ~Exists(k)']_vars
    BY RowsKept DEF Inv, TypeOK
  <1> QED BY InitInv, NextInv, <1>1, PTL DEF Spec, RemovedStaysRemoved

\* A key that opens goes on to open until its row is gone.
THEOREM HashKept == Spec => HashStays
  <1>1. ASSUME Inv, [Next]_vars
        PROVE  \A k \in Keys : row[k].hashed /\ Exists(k)' => row[k].hashed'
    <2>1. ASSUME NEW k \in Keys, row[k].hashed, Exists(k)' PROVE row'[k].hashed
      <3>1. k \in spent
        BY <1>1, <2>1 DEF Inv, RowsGiven
      <3> QED BY <1>1, <2>1, <3>1, RowsKept
    <2> QED BY <2>1
  <1>2. Inv /\ [Next]_vars
          => [\A k \in Keys : row[k].hashed /\ Exists(k)' => row[k].hashed']_vars
    BY <1>1
  <1> QED BY InitInv, NextInv, <1>2, PTL DEF Spec, HashStays

-----------------------------------------------------------------------------
(* Sessions. *)

P == INSTANCE SessionsProofs WITH row <- account, spent <- spentIds, req <- request

LEMMA SessionsAssumptions ==
  /\ P!IdsAssumption /\ P!MailsAssumption /\ P!OpsAssumption /\ P!SerialAssumption
  /\ P!EstablishedAssumption /\ P!SecretAssumption /\ P!SettingAssumption
  BY SessionsAssumption
  DEF P!IdsAssumption, P!MailsAssumption, P!OpsAssumption, P!SerialAssumption,
      P!EstablishedAssumption, P!SecretAssumption, P!SettingAssumption,
      P!AllOps, S!AllOps, P!NoSecret, S!NoSecret

\* The sessions of this module are those of SessionsProofs.
LEMMA SameSpec == S!Spec <=> P!Spec
<1>1. S!Init <=> P!Init
  BY DEF S!Init, P!Init, S!NoRow, P!NoRow, S!Idle, P!Idle, S!NoSecret, P!NoSecret,
         S!NoToken, P!NoToken
<1>2. \A s \in Slots : P!AskLogin(s) <=> S!AskLogin(s)
  BY DEF S!AskLogin, P!AskLogin, S!Begin, P!Begin, S!Idle, P!Idle, S!NoRow, P!NoRow,
         S!NoToken, P!NoToken, S!NoSecret, P!NoSecret
<1>3. \A s \in Slots : P!AskSignOut(s) <=> S!AskSignOut(s)
  BY DEF S!AskSignOut, P!AskSignOut, S!Begin, P!Begin, S!Idle, P!Idle, S!NoRow, P!NoRow,
         S!NoToken, P!NoToken, S!NoSecret, P!NoSecret
<1>4. \A s \in Slots : P!Step(s) <=> S!Step(s)
  <2> TAKE s \in Slots
  <2>1. P!Reply(s) <=> S!Reply(s)
    BY DEF S!Reply, P!Reply, S!Idle, P!Idle, S!NoRow, P!NoRow, S!NoToken, P!NoToken,
           S!NoSecret, P!NoSecret
  <2>2. P!FindUser(s) <=> S!FindUser(s)
    BY <2>1 DEF S!FindUser, P!FindUser
  <2>3. P!CreateUser(s) <=> S!CreateUser(s)
    BY <2>1 DEF S!CreateUser, P!CreateUser, S!NewRow, P!NewRow, S!NoSecret, P!NoSecret
  <2>4. P!FindCreated(s) <=> S!FindCreated(s)
    BY <2>1 DEF S!FindCreated, P!FindCreated
  <2>5. P!Login(s) <=> S!Login(s)
    BY <2>1 DEF S!Login, P!Login, S!Exists, P!Exists, S!LoginMetadata, P!LoginMetadata,
                S!SaveOf, P!SaveOf, S!NeedsSecret, P!NeedsSecret, S!NoSecret, P!NoSecret
  <2>6. P!VerifyToken(s) <=> S!VerifyToken(s)
    BY <2>1 DEF S!VerifyToken, P!VerifyToken, S!Accepts, P!Accepts, S!Exists, P!Exists
  <2>7. P!LoadCaller(s) <=> S!LoadCaller(s)
    BY <2>1 DEF S!LoadCaller, P!LoadCaller, S!Exists, P!Exists
  <2>8. P!SignOut(s) <=> S!SignOut(s)
    BY <2>1 DEF S!SignOut, P!SignOut, S!TokensOut, P!TokensOut, S!Exists, P!Exists
  <2> QED
    BY <2>2, <2>3, <2>4, <2>5, <2>6, <2>7, <2>8 DEF S!Step, P!Step
<1>5. \A n, column : P!Land(n, column) <=> S!Land(n, column)
  BY DEF S!Land, P!Land, S!Exists, P!Exists
<1>6. P!RemoveUser <=> S!RemoveUser
  BY DEF S!RemoveUser, P!RemoveUser, S!Exists, P!Exists, S!NoRow, P!NoRow, S!NoSecret, P!NoSecret
<1>7. P!Serials = S!Serials /\ P!Columns = S!Columns
  BY DEF S!Serials, P!Serials, S!Columns, P!Columns
<1>8. [S!Next]_S!vars <=> [P!Next]_P!vars
  <2>1. (\E s \in Slots : P!AskLogin(s) \/ P!AskSignOut(s) \/ P!Step(s))
          <=> \E s \in Slots : S!AskLogin(s) \/ S!AskSignOut(s) \/ S!Step(s)
    BY <1>2, <1>3, <1>4
  <2>2. (\E n \in P!Serials, column \in P!Columns : P!Land(n, column))
          <=> \E n \in S!Serials, column \in S!Columns : S!Land(n, column)
    BY <1>5, <1>7
  <2>3. P!Next <=> S!Next
    BY <1>6, <2>1, <2>2 DEF S!Next, P!Next
  <2> QED
    BY <2>3 DEF S!vars, P!vars
<1> QED
  BY <1>1, <1>8, PTL DEF S!Spec, P!Spec

\* A session that works ends by a sign-out of its user or with its account, and by
\* another login only with the secret of one that needed one, for any number of users,
\* logins and sign-outs in flight and however late the secret is saved.
THEOREM EndsBySignOut == S!Spec => SessionEndsBySignOut
<1>1. P!Spec => P!SessionEndsBySignOut
  BY SessionsAssumptions, P!EndsBySignOut
<1>2. P!SessionEndsBySignOut <=> SessionEndsBySignOut
  BY DEF SessionEndsBySignOut, S!SessionEndsBySignOut, P!SessionEndsBySignOut, S!Accepts,
         P!Accepts, S!Exists, P!Exists, S!NoSecret, P!NoSecret, S!vars, P!vars
<1> QED
  BY <1>1, <1>2, SameSpec
=============================================================================
