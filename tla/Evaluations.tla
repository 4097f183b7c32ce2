---------------------------- MODULE Evaluations ----------------------------
(***************************************************************************)
(* Evaluations, their tags and the groups they are shared with             *)
(* (apps/backend/src/evaluations, evaluation-tags and the evaluation half  *)
(* of groups).                                                             *)
(*                                                                         *)
(* As in Accounts, one action is one awaited statement of a handler and    *)
(* the synchronous code up to the next one.  An upload does not wait for   *)
(* the statements that add it to its groups: they are in adding, and one   *)
(* that fails is a rejection nobody handles, which ends the Node process.  *)
(*                                                                         *)
(* Who is in which group does not change here (see Accounts).              *)
(***************************************************************************)
EXTENDS FiniteSets, Naturals

CONSTANTS
  Users, NoUser,      \* the users; the userId of an upload by a group key
  Groups,
  Evals, NoEval,      \* the ids of evaluations; the evaluationId NULL of a tag
  Tags,               \* the ids of tags
  Slots,              \* the requests that may be in flight at once
  Ops,                \* what clients ask for
  Admins,             \* the administrators
  Members, Owners     \* who is in which group, and who owns which

AllOps == {"upload", "keyUpload", "update", "remove", "addTag", "removeTag", "share", "unshare",
           "removeGroup"}

ASSUME NamesAssumption  == /\ NoUser \notin Users /\ NoEval \notin Evals
                           /\ {"new", "gone"} \cap (Evals \cup {NoEval}) = {}
ASSUME OpsAssumption    == Ops \subseteq AllOps
ASSUME RolesAssumption  == /\ Admins \subseteq Users
                           /\ Members \subseteq Users \X Groups
                           /\ Owners \subseteq Members

VARIABLES
  group,     \* which groups exist
  eval,      \* the Evaluations table, without the data
  tag,       \* the EvaluationTags table: the evaluation of each tag
  share,     \* the GroupEvaluations table, up to rows of the same pair
  req,       \* the requests in flight
  adding,    \* the additions to groups nobody waits for
  down       \* whether the process has ended of a rejection nobody handled

vars == <<group, eval, tag, share, req, adding, down>>

-----------------------------------------------------------------------------
Row     == [st : {"new", "live", "gone"}, owner : Users \cup {NoUser}, public : BOOLEAN]
NewRow  == [st |-> "new", owner |-> NoUser, public |-> FALSE]
GoneRow == [NewRow EXCEPT !.st = "gone"]

Live(e)   == eval[e].st = "live"
TagsOf(e) == {t \in Tags : tag[t] = e}
GroupsOf(e) == {g \in Groups : <<e, g>> \in share}

\* The rules of CaslAbilityFactory for evaluations, and for the evaluations of a group.
MayManage(u, e) ==
  \/ u \in Admins
  \/ eval[e].owner = u
  \/ \E g \in GroupsOf(e) : <<u, g>> \in Owners

MayRead(u, e) ==
  \/ MayManage(u, e)
  \/ eval[e].public
  \/ \E g \in GroupsOf(e) : <<u, g>> \in Members

MayShareIn(u, g)  == u \in Admins \/ <<u, g>> \in Members
MayRemove(u, g)   == u \in Admins \/ <<u, g>> \in Owners

Request == [at : {"idle", "groups", "insert", "tags", "offer", "group", "load", "reload", "write",
                  "destroy", "insertTag", "tag", "reloadTag", "destroyTag", "add", "drop",
                  "destroyGroup"},
            op : AllOps \cup {"none"}, by : Users \cup {NoUser}, e : Evals \cup {NoEval},
            gs : SUBSET Groups, ts : SUBSET Tags, public : BOOLEAN]

Idle == [at |-> "idle", op |-> "none", by |-> NoUser, e |-> NoEval,
         gs |-> {}, ts |-> {}, public |-> FALSE]

Goto(s, stage) == req' = [req EXCEPT ![s].at = stage]
Reply(s) == req' = [req EXCEPT ![s] = Idle]

Init ==
  /\ group = [g \in Groups |-> TRUE]
  /\ eval = [e \in Evals |-> NewRow]
  /\ tag = [t \in Tags |-> "new"]
  /\ share = {}
  /\ req = [s \in Slots |-> Idle]
  /\ adding = {}
  /\ down = FALSE

-----------------------------------------------------------------------------
(* Requests. *)

Begin(s, op, new) ==
  /\ op \in Ops /\ req[s].at = "idle" /\ ~down
  /\ req' = [req EXCEPT ![s] = [new EXCEPT !.op = op]]
  /\ UNCHANGED <<group, eval, tag, share, adding, down>>

\* POST /evaluations by a user, with the groups and the tag it names.
AskUpload(s) ==
  \E u \in Users, gs \in SUBSET Groups, ts \in SUBSET Tags, public \in BOOLEAN :
    /\ Cardinality(ts) <= 1
    /\ Begin(s, "upload",
             [Idle EXCEPT !.at = "groups", !.by = u, !.gs = gs, !.ts = ts, !.public = public])

\* ... and with the key of a group that exists when the key is validated.
AskKeyUpload(s) ==
  \E g \in Groups, ts \in SUBSET Tags, public \in BOOLEAN :
    /\ group[g] /\ Cardinality(ts) <= 1
    /\ Begin(s, "keyUpload",
             [Idle EXCEPT !.at = "insert", !.gs = {g}, !.ts = ts, !.public = public])

\* PUT and DELETE /evaluations/:id, POST /evaluation-tags/:evaluationId.
AskChange(s) ==
  \E op \in {"update", "remove", "addTag"}, u \in Users, e \in Evals, public \in BOOLEAN :
    Begin(s, op, [Idle EXCEPT !.at = "load", !.by = u, !.e = e, !.public = public])

\* DELETE /evaluation-tags/:id.
AskRemoveTag(s) ==
  \E u \in Users, t \in Tags :
    Begin(s, "removeTag", [Idle EXCEPT !.at = "tag", !.by = u, !.ts = {t}])

\* POST and DELETE /groups/:id/evaluation, and DELETE /groups/:id.
AskGroup(s) ==
  \E op \in {"share", "unshare", "removeGroup"}, u \in Users, e \in Evals, g \in Groups :
    Begin(s, op, [Idle EXCEPT !.at = "group", !.by = u, !.gs = {g},
                              !.e = IF op = "removeGroup" THEN NoEval ELSE e])

-----------------------------------------------------------------------------
(* Uploads. *)

\* Groups the uploader may not add evaluations to are left out.
FindGroups(s) ==
  /\ req[s].at = "groups"
  /\ req' = [req EXCEPT ![s].at = "insert",
                        ![s].gs = {g \in @ : group[g] /\ MayShareIn(req[s].by, g)}]
  /\ UNCHANGED <<group, eval, tag, share, adding, down>>

\* An upload by a key refers to its group, which must exist.
InsertEvaluation(s) ==
  /\ req[s].at = "insert"
  /\ \/ /\ req[s].op = "keyUpload" => \A g \in req[s].gs : group[g]
        /\ \E e \in Evals :
             /\ eval[e].st = "new"
             /\ eval' = [eval EXCEPT ![e] = [st |-> "live", owner |-> req[s].by,
                                             public |-> req[s].public]]
             /\ req' = [req EXCEPT ![s].at = "tags", ![s].e = e]
     \/ /\ \/ req[s].op = "keyUpload" /\ \E g \in req[s].gs : ~group[g]
           \/ \A e \in Evals : eval[e].st # "new"
        /\ Reply(s)
        /\ UNCHANGED eval
  /\ UNCHANGED <<group, tag, share, adding, down>>

\* The tags follow their evaluation, without a transaction.
InsertTags(s) ==
  /\ req[s].at = "tags"
  /\ \/ /\ Live(req[s].e) \/ req[s].ts = {}
        /\ tag' = [t \in Tags |-> IF t \in req[s].ts /\ tag[t] = "new" THEN req[s].e ELSE tag[t]]
        /\ Goto(s, "offer")
     \/ /\ ~Live(req[s].e) /\ req[s].ts # {}
        /\ Reply(s)
        /\ UNCHANGED tag
  /\ UNCHANGED <<group, eval, share, adding, down>>

\* Slip: an upload by a key does not offer the evaluation to its group.
OfferOfUsers(s) ==
  /\ req[s].at = "offer"
  /\ adding' = adding \cup {<<req[s].e, g>> : g \in {h \in req[s].gs : req[s].op = "upload"}}
  /\ Reply(s)
  /\ UNCHANGED <<group, eval, tag, share, down>>

\* The additions start and the upload is answered.  An upload by a key looks
\* for its group again, and is refused when it is gone: the evaluation stays.
Offer(s) ==
  /\ req[s].at = "offer"
  /\ \/ /\ req[s].op = "keyUpload" => \A g \in req[s].gs : group[g]
        /\ adding' = adding \cup ({req[s].e} \X req[s].gs)
     \/ /\ req[s].op = "keyUpload" /\ \E g \in req[s].gs : ~group[g]
        /\ UNCHANGED adding
  /\ Reply(s)
  /\ UNCHANGED <<group, eval, tag, share, down>>

\* Slip: the addition is not refused when its evaluation or group is gone.
LandUnchecked(e, g) ==
  /\ <<e, g>> \in adding
  /\ share' = share \cup {<<e, g>>}
  /\ adding' = adding \ {<<e, g>>}
  /\ UNCHANGED <<group, eval, tag, req, down>>

\* Slip: the evaluation and the group are passed in the wrong order.
LandSwapped(e, g) ==
  /\ <<e, g>> \in adding /\ Live(e) /\ group[g]
  /\ share' = share \cup {<<g, e>>}
  /\ adding' = adding \ {<<e, g>>}
  /\ UNCHANGED <<group, eval, tag, req, down>>

\* An addition is executed, or ends the process, and with it all that is in
\* flight, because its evaluation or its group is gone.
Land(e, g) ==
  /\ <<e, g>> \in adding
  /\ \/ /\ Live(e) /\ group[g]
        /\ share' = share \cup {<<e, g>>}
        /\ adding' = adding \ {<<e, g>>}
        /\ UNCHANGED <<req, down>>
     \/ /\ ~(Live(e) /\ group[g])
        /\ adding' = {}
        /\ req' = [s \in Slots |-> Idle]
        /\ down' = TRUE
        /\ UNCHANGED share
  /\ UNCHANGED <<group, eval, tag>>

\* The container is started again.
Restart ==
  /\ down /\ down' = FALSE
  /\ UNCHANGED <<group, eval, tag, share, req, adding>>

-----------------------------------------------------------------------------
(* Changes of an evaluation. *)

\* Slip: a member may share any evaluation with a group.
MayLoadAnything(s) == req[s].op \in {"share", "unshare"} \/ MayManage(req[s].by, req[s].e)

MayLoad(s) ==
  LET r == req[s]
  IN CASE r.op = "share"   -> MayRead(r.by, r.e)
       [] r.op = "unshare" -> TRUE
       [] OTHER            -> MayManage(r.by, r.e)

\* What follows the check of each operation.
AfterLoad == [update |-> "reload", remove |-> "reload", addTag |-> "insertTag",
              share |-> "add", unshare |-> "drop"]

Load(s) ==
  /\ req[s].at = "load"
  /\ IF Live(req[s].e) /\ MayLoad(s) THEN Goto(s, AfterLoad[req[s].op]) ELSE Reply(s)
  /\ UNCHANGED <<group, eval, tag, share, adding, down>>

\* The evaluation is read again: an update sends what differs from it, a
\* deletion remembers its tags.
Reload(s) ==
  LET r == req[s]
  IN /\ r.at = "reload"
     /\ \/ /\ Live(r.e) /\ r.op = "update" /\ r.public # eval[r.e].public
           /\ Goto(s, "write")
        \/ /\ Live(r.e) /\ r.op = "remove"
           /\ req' = [req EXCEPT ![s].at = "destroy", ![s].ts = TagsOf(r.e)]
        \/ /\ ~Live(r.e) \/ (r.op = "update" /\ r.public = eval[r.e].public)
           /\ Reply(s)
     /\ UNCHANGED <<group, eval, tag, share, adding, down>>

\* An update of a row that is gone changes nothing.
Write(s) ==
  /\ req[s].at = "write"
  /\ eval' = [eval EXCEPT ![req[s].e].public = IF Live(req[s].e) THEN req[s].public ELSE @]
  /\ Reply(s)
  /\ UNCHANGED <<group, tag, share, adding, down>>

\* Slip: a deletion leaves the tags to the foreign key.
DestroyRowOnly(s) ==
  LET e == req[s].e
  IN /\ req[s].at = "destroy"
     /\ eval' = [eval EXCEPT ![e] = GoneRow]
     /\ tag' = [t \in Tags |-> IF tag[t] = e THEN NoEval ELSE tag[t]]
     /\ share' = {p \in share : p[1] # e}
     /\ Reply(s)
     /\ UNCHANGED <<group, adding, down>>

\* The transaction of a deletion: the tags it has read and the evaluation go;
\* the foreign keys forget the evaluation in tags that were added since, and
\* in its shares.
Destroy(s) ==
  LET e == req[s].e
  IN /\ req[s].at = "destroy"
     /\ eval' = [eval EXCEPT ![e] = GoneRow]
     /\ tag' = [t \in Tags |-> IF t \in req[s].ts THEN "gone"
                               ELSE IF tag[t] = e THEN NoEval ELSE tag[t]]
     /\ share' = {p \in share : p[1] # e}
     /\ Reply(s)
     /\ UNCHANGED <<group, adding, down>>

\* A tag of an evaluation that is gone is refused.
InsertTag(s) ==
  /\ req[s].at = "insertTag"
  /\ \/ /\ Live(req[s].e)
        /\ \E t \in Tags : tag[t] = "new" /\ tag' = [tag EXCEPT ![t] = req[s].e]
     \/ /\ ~Live(req[s].e) \/ \A t \in Tags : tag[t] # "new"
        /\ UNCHANGED tag
  /\ Reply(s)
  /\ UNCHANGED <<group, eval, share, adding, down>>

-----------------------------------------------------------------------------
(* Deletion of a tag. *)

\* A tag without an evaluation is nobody's but the administrators'.
MayDeleteTag(u, t) == u \in Admins \/ (tag[t] # NoEval /\ MayManage(u, tag[t]))

TagExists(t) == tag[t] \notin {"new", "gone"}

LoadTag(s) ==
  /\ req[s].at = "tag"
  /\ \E t \in req[s].ts :
       IF TagExists(t) /\ MayDeleteTag(req[s].by, t) THEN Goto(s, "reloadTag") ELSE Reply(s)
  /\ UNCHANGED <<group, eval, tag, share, adding, down>>

ReloadTag(s) ==
  /\ req[s].at = "reloadTag"
  /\ \E t \in req[s].ts : IF TagExists(t) THEN Goto(s, "destroyTag") ELSE Reply(s)
  /\ UNCHANGED <<group, eval, tag, share, adding, down>>

DestroyTag(s) ==
  /\ req[s].at = "destroyTag"
  /\ \E t \in req[s].ts : tag' = [tag EXCEPT ![t] = "gone"]
  /\ Reply(s)
  /\ UNCHANGED <<group, eval, share, adding, down>>

-----------------------------------------------------------------------------
(* Sharing, and the deletion of a group. *)

LoadGroup(s) ==
  LET r == req[s]
  IN /\ r.at = "group"
     /\ \E g \in r.gs :
          \/ /\ group[g]
             /\ \/ r.op = "removeGroup" /\ MayRemove(r.by, g) /\ Goto(s, "destroyGroup")
                \/ r.op \in {"share", "unshare"} /\ MayShareIn(r.by, g) /\ Goto(s, "load")
          \/ /\ group[g] => ~(IF r.op = "removeGroup" THEN MayRemove(r.by, g)
                                                       ELSE MayShareIn(r.by, g))
             /\ Reply(s)
     /\ UNCHANGED <<group, eval, tag, share, adding, down>>

Add(s) ==
  /\ req[s].at = "add"
  /\ share' = share \cup {<<req[s].e, g>> : g \in {h \in req[s].gs : group[h] /\ Live(req[s].e)}}
  /\ Reply(s)
  /\ UNCHANGED <<group, eval, tag, adding, down>>

Drop(s) ==
  /\ req[s].at = "drop"
  /\ share' = share \ ({req[s].e} \X req[s].gs)
  /\ Reply(s)
  /\ UNCHANGED <<group, eval, tag, adding, down>>

\* A group is deleted; the foreign key forgets it in its shares.
DestroyGroup(s) ==
  /\ req[s].at = "destroyGroup"
  /\ group' = [g \in Groups |-> group[g] /\ g \notin req[s].gs]
  /\ share' = {p \in share : p[2] \notin req[s].gs}
  /\ Reply(s)
  /\ UNCHANGED <<eval, tag, adding, down>>

-----------------------------------------------------------------------------
Ask(s) == AskUpload(s) \/ AskKeyUpload(s) \/ AskChange(s) \/ AskRemoveTag(s) \/ AskGroup(s)

Step(s) ==
  \/ FindGroups(s) \/ InsertEvaluation(s) \/ InsertTags(s) \/ Offer(s)
  \/ Load(s) \/ Reload(s) \/ Write(s) \/ Destroy(s) \/ InsertTag(s)
  \/ LoadTag(s) \/ ReloadTag(s) \/ DestroyTag(s)
  \/ LoadGroup(s) \/ Add(s) \/ Drop(s) \/ DestroyGroup(s)

Next ==
  \/ \E s \in Slots : Ask(s) \/ Step(s)
  \/ \E e \in Evals, g \in Groups : Land(e, g)
  \/ Restart

Spec == Init /\ [][Next]_vars

\* Statements that were sent are executed, and handlers go on.
Fairness ==
  /\ \A s \in Slots : WF_vars(Step(s))
  /\ \A e \in Evals, g \in Groups : WF_vars(Land(e, g))

FairSpec == Spec /\ Fairness

-----------------------------------------------------------------------------
(* Properties. *)

\* Types, and what a request must know at the stages that use it.
TypeOK ==
  /\ group \in [Groups -> BOOLEAN]
  /\ eval \in [Evals -> Row]
  /\ tag \in [Tags -> {"new", "gone", NoEval} \cup Evals]
  /\ share \subseteq Evals \X Groups
  /\ adding \subseteq Evals \X Groups
  /\ req \in [Slots -> Request]
  /\ down \in BOOLEAN
  /\ \A s \in Slots :
       /\ req[s].at \in {"tags", "offer", "load", "reload", "write", "destroy", "insertTag", "add",
                         "drop"} => req[s].e \in Evals
       /\ req[s].at = "load" => req[s].op \in DOMAIN AfterLoad
       /\ req[s].at = "group" /\ req[s].op # "removeGroup" => req[s].e \in Evals

\* Nothing that is gone is shared, whatever additions of uploads were still on
\* their way when it was deleted (apps/backend/src/evaluations/evaluations.controller.ts:172, 204).
NoDanglingShares == \A p \in share : Live(p[1]) /\ group[p[2]]

\* The deletion of an evaluation takes its tags with it
\* (apps/backend/src/evaluations/evaluations.service.spec.ts:275).
TagsHaveEvaluation == \A t \in Tags : TagExists(t) => tag[t] # NoEval /\ Live(tag[t])

\* Only who may read an evaluation lets others read it, by an upload, by
\* making it public or by sharing it: no sequence of requests, one at a time
\* but with the additions of earlier uploads still landing, opens an evaluation
\* without one of its readers.
ReadersAdmitReaders ==
  [][\A u \in Users, e \in Evals :
       Live(e) /\ ~MayRead(u, e) /\ MayRead(u, e)' =>
         \/ \E g \in Groups : <<e, g>> \in adding
         \/ \E s \in Slots : req[s].at \in {"write", "add"} /\ req[s].e = e /\ MayRead(req[s].by, e)
    ]_vars

\* An upload that is answered reaches every group it was to be shared with,
\* unless the group or the evaluation goes or the process ends first.
UploadReachesGroups ==
  \A s \in Slots, e \in Evals, g \in Groups :
    (req[s].at = "offer" /\ req[s].e = e /\ g \in req[s].gs)
      ~> (<<e, g>> \in share \/ ~Live(e) \/ ~group[g] \/ down)
=============================================================================
