------------------------------- MODULE ApiKeys -------------------------------
(***************************************************************************)
(* The API keys of the Heimdall backend (apps/backend/src/apikeys and      *)
(* AuthnService.validateApiKey).                                           *)
(*                                                                         *)
(* A key belongs to a user or to a group.  Its row is inserted first; the  *)
(* hash that lets the key open anything is written by a second save nobody *)
(* waits for, so the key is handed out while that UPDATE is on its way.    *)
(* Changes of a key are checked on one read and made on another, and the   *)
(* owner may disappear at any time, which leaves a row without an owner.   *)
(***************************************************************************)
EXTENDS FiniteSets

CONSTANTS
  Users, Groups,   \* who may own a key
  NoOwner,         \* NULL in the columns userId and groupId
  Admins,          \* the administrators
  Owners,          \* who owns which group: pairs of a user and a group
  Keys,            \* the ids of the ApiKeys table
  NoKey,           \* the key of a request that has none
  Slots            \* the requests that may be in flight at once

Subjects == Users \cup Groups

ASSUME SubjectsAssumption == Users \cap Groups = {} /\ NoOwner \notin Subjects
ASSUME RightsAssumption   == Admins \subseteq Users /\ Owners \subseteq Users \X Groups
ASSUME KeysAssumption     == NoKey \notin Keys

VARIABLES
  alive,    \* the users and groups that exist
  row,      \* the ApiKeys table
  spent,    \* the ids that have been given out
  handed,   \* the keys somebody holds
  hashing,  \* the keys whose hash is on its way to the table
  req       \* the requests in flight

vars == <<alive, row, spent, handed, hashing, req>>

-----------------------------------------------------------------------------
KeyRow == [kind : {"user", "group", "none"}, owner : Subjects \cup {NoOwner},
           hashed : BOOLEAN, renamed : BOOLEAN]
NoRow  == [kind |-> "none", owner |-> NoOwner, hashed |-> FALSE, renamed |-> FALSE]
Exists(k) == row[k].kind # "none"

KindOf(x) == IF x \in Users THEN "user" ELSE "group"
NewRow(x) == [kind |-> KindOf(x), owner |-> x, hashed |-> FALSE, renamed |-> FALSE]

Request == [at : {"idle", "target", "insert", "hash", "key", "group", "again",
                  "write", "open", "compare", "act"},
            op : {"none", "create", "rename", "remove", "open"},
            who : Users \cup {NoOwner}, subject : Subjects \cup {NoOwner},
            key : Keys \cup {NoKey}, seen : KeyRow]

Idle == [at |-> "idle", op |-> "none", who |-> NoOwner, subject |-> NoOwner,
         key |-> NoKey, seen |-> NoRow]

\* The rule "Update" on a user, on a group, or on nothing: the owner of a key may
\* be gone, and only administrators may update just anything.
CanUpdate(u, x) == u \in Admins \/ u = x \/ <<u, x>> \in Owners

Go(s, stage) == req' = [req EXCEPT ![s].at = stage]
Reply(s)     == req' = [req EXCEPT ![s] = Idle]

Init ==
  /\ alive = Subjects
  /\ row = [k \in Keys |-> NoRow]
  /\ spent = {} /\ handed = {} /\ hashing = {}
  /\ req = [s \in Slots |-> Idle]

-----------------------------------------------------------------------------
(* POST /apikeys *)

AskCreate(s) ==
  /\ req[s].at = "idle"
  /\ \E u \in Users \cap alive, x \in Subjects :
       req' = [req EXCEPT ![s] =
                 [Idle EXCEPT !.at = "target", !.op = "create", !.who = u, !.subject = x]]
  /\ UNCHANGED <<alive, row, spent, handed, hashing>>

\* createAPIKey looks the subject up, checks the right and then the password.
FindTarget(s) ==
  /\ req[s].at = "target"
  /\ \/ /\ req[s].subject \in alive /\ CanUpdate(req[s].who, req[s].subject)
        /\ Go(s, "insert")
     \/ Reply(s)
  /\ UNCHANGED <<alive, row, spent, handed, hashing>>

\* The first save of create; the foreign keys refuse a subject that is gone.
InsertKey(s) ==
  /\ req[s].at = "insert"
  /\ IF req[s].subject \in alive
       THEN \E k \in Keys \ spent :
              /\ row' = [row EXCEPT ![k] = NewRow(req[s].subject)]
              /\ spent' = spent \cup {k}
              /\ req' = [req EXCEPT ![s].at = "hash", ![s].key = k]
       ELSE Reply(s) /\ UNCHANGED <<row, spent>>
  /\ UNCHANGED <<alive, handed, hashing>>

\* Slip: the hash is never saved.
HandOutUnsaved(s) ==
  /\ req[s].at = "hash"
  /\ handed' = handed \cup {req[s].key}
  /\ Reply(s)
  /\ UNCHANGED <<alive, row, spent, hashing>>

\* The key is signed and hashed, the hash is saved without waiting, and the key
\* is the answer.
HandOut(s) ==
  /\ req[s].at = "hash"
  /\ hashing' = hashing \cup {req[s].key}
  /\ handed' = handed \cup {req[s].key}
  /\ Reply(s)
  /\ UNCHANGED <<alive, row, spent>>

\* The second save of create: an UPDATE of one column, of no row if it is gone.
LandHash(k) ==
  /\ k \in hashing
  /\ hashing' = hashing \ {k}
  /\ row' = IF Exists(k) THEN [row EXCEPT ![k].hashed = TRUE] ELSE row
  /\ UNCHANGED <<alive, spent, handed, req>>

-----------------------------------------------------------------------------
(* PUT and DELETE /apikeys/:id *)

AskChange(s) ==
  /\ req[s].at = "idle"
  /\ \E u \in Users \cap alive, k \in Keys, op \in {"rename", "remove"} :
       req' = [req EXCEPT ![s] = [Idle EXCEPT !.at = "key", !.op = op, !.who = u, !.key = k]]
  /\ UNCHANGED <<alive, row, spent, handed, hashing>>

\* The controller finds the key, with its user if it is a user's.
FindKey(s) ==
  LET r == row[req[s].key] IN
  /\ req[s].at = "key"
  /\ \/ /\ r.kind = "group"
        /\ req' = [req EXCEPT ![s].at = "group", ![s].subject = r.owner]
     \/ /\ r.kind = "user" /\ CanUpdate(req[s].who, r.owner)
        /\ req' = [req EXCEPT ![s].at = "again", ![s].subject = r.owner]
     \/ r.kind # "group" /\ Reply(s)
  /\ UNCHANGED <<alive, row, spent, handed, hashing>>

\* The group of a key is another read, and no group is found for NULL.
FindGroup(s) ==
  /\ req[s].at = "group"
  /\ \/ /\ req[s].subject \in alive /\ CanUpdate(req[s].who, req[s].subject)
        /\ Go(s, "again")
     \/ Reply(s)
  /\ UNCHANGED <<alive, row, spent, handed, hashing>>

\* The service finds the key again.
FindAgain(s) ==
  /\ req[s].at = "again"
  /\ IF Exists(req[s].key)
       THEN req' = [req EXCEPT ![s].at = "write", ![s].seen = row[req[s].key]]
       ELSE Reply(s)
  /\ UNCHANGED <<alive, row, spent, handed, hashing>>

\* Slips: every column is saved; the row is inserted if it is gone.
RenameWholeRow(s) ==
  /\ req[s].at = "write" /\ req[s].op = "rename"
  /\ LET k == req[s].key IN
     row' = IF Exists(k) THEN [row EXCEPT ![k] = [req[s].seen EXCEPT !.renamed = TRUE]]
            ELSE row
  /\ Reply(s)
  /\ UNCHANGED <<alive, spent, handed, hashing>>

RenameUpsert(s) ==
  /\ req[s].at = "write" /\ req[s].op = "rename"
  /\ row' = [row EXCEPT ![req[s].key] = [req[s].seen EXCEPT !.renamed = TRUE]]
  /\ Reply(s)
  /\ UNCHANGED <<alive, spent, handed, hashing>>

\* update saves the instance: an UPDATE of the one column that changed.
Rename(s) ==
  /\ req[s].at = "write" /\ req[s].op = "rename"
  /\ LET k == req[s].key IN
     row' = IF Exists(k) THEN [row EXCEPT ![k].renamed = TRUE] ELSE row
  /\ Reply(s)
  /\ UNCHANGED <<alive, spent, handed, hashing>>

Remove(s) ==
  /\ req[s].at = "write" /\ req[s].op = "remove"
  /\ row' = [row EXCEPT ![req[s].key] = NoRow]
  /\ Reply(s)
  /\ UNCHANGED <<alive, spent, handed, hashing>>

-----------------------------------------------------------------------------
(* A request with the header "Authorization: Api-Key ..." *)

AskOpen(s) ==
  /\ req[s].at = "idle"
  /\ \E k \in handed :
       req' = [req EXCEPT ![s] = [Idle EXCEPT !.at = "open", !.op = "open", !.key = k]]
  /\ UNCHANGED <<alive, row, spent, handed, hashing>>

\* validateApiKey finds the key with its owner ...
FindOpened(s) ==
  /\ req[s].at = "open"
  /\ IF Exists(req[s].key)
       THEN req' = [req EXCEPT ![s].at = "compare", ![s].seen = row[req[s].key]]
       ELSE Reply(s)
  /\ UNCHANGED <<alive, row, spent, handed, hashing>>

\* ... compares the signature, which throws as long as there is no hash, and
\* answers the owner it found, if any.
Compare(s) ==
  /\ req[s].at = "compare"
  /\ IF req[s].seen.hashed /\ req[s].seen.owner # NoOwner
       THEN req' = [req EXCEPT ![s].at = "act", ![s].subject = req[s].seen.owner]
       ELSE Reply(s)
  /\ UNCHANGED <<alive, row, spent, handed, hashing>>

\* The upload that follows (see Evaluations).
Act(s) ==
  /\ req[s].at = "act"
  /\ Reply(s)
  /\ UNCHANGED <<alive, row, spent, handed, hashing>>

-----------------------------------------------------------------------------
\* A user or a group is deleted (see Accounts): ON DELETE SET NULL.
RemoveSubject ==
  /\ \E x \in alive :
       /\ alive' = alive \ {x}
       /\ row' = [k \in Keys |-> IF row[k].owner = x THEN [row[k] EXCEPT !.owner = NoOwner]
                                 ELSE row[k]]
  /\ UNCHANGED <<spent, handed, hashing, req>>

Step(s) ==
  \/ FindTarget(s) \/ InsertKey(s) \/ HandOut(s)
  \/ FindKey(s) \/ FindGroup(s) \/ FindAgain(s) \/ Rename(s) \/ Remove(s)
  \/ FindOpened(s) \/ Compare(s) \/ Act(s)

Next ==
  \/ \E s \in Slots : AskCreate(s) \/ AskChange(s) \/ AskOpen(s) \/ Step(s)
  \/ \E k \in Keys : LandHash(k)
  \/ RemoveSubject

Spec == Init /\ [][Next]_vars

-----------------------------------------------------------------------------
TypeOK ==
  /\ alive \subseteq Subjects
  /\ row \in [Keys -> KeyRow]
  /\ spent \subseteq Keys /\ handed \subseteq spent /\ hashing \subseteq handed
  /\ req \in [Slots -> Request]

\* A key that opens goes on to open as long as its row is there: an update that
\* read the row before the hash landed does not write the missing hash back.
HashStays == [][\A k \in Keys : row[k].hashed /\ Exists(k)' => row[k].hashed']_vars

\* A key that was removed never comes back, not by the save of its hash and not by
\* a change that found it before.
RemovedStaysRemoved == [][\A k \in spent : ~Exists(k) => ~Exists(k)']_vars

\* Whoever is handed a key can use it in the end, although nobody waits for the
\* save of its hash, unless it was removed first.
HashLands == \A k \in Keys : k \in handed ~> (row[k].hashed \/ ~Exists(k))
=============================================================================
