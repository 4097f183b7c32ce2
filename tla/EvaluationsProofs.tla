------------------------- MODULE EvaluationsProofs -------------------------
(***************************************************************************)
(* Proofs about Evaluations for every number of users, groups,             *)
(* evaluations, tags and requests in flight.                               *)
(***************************************************************************)
EXTENDS MCEvaluations, TLAPS

USE NamesAssumption, OpsAssumption, RolesAssumption

-----------------------------------------------------------------------------
(* Requests. *)

Stages == {"idle", "groups", "insert", "tags", "offer", "group", "load", "reload", "write",
           "destroy", "insertTag", "tag", "reloadTag", "destroyTag", "add", "drop",
           "destroyGroup"}

\* What the last conjunct of TypeOK says of one request.
LocatedRequest(q) ==
  /\ q.at \in {"tags", "offer", "load", "reload", "write", "destroy", "insertTag", "add",
               "drop"} => q.e \in Evals
  /\ q.at = "load" => q.op \in DOMAIN AfterLoad
  /\ q.at = "group" /\ q.op # "removeGroup" => q.e \in Evals

GoodRequests == req \in [Slots -> Request] /\ \A s \in Slots : LocatedRequest(req[s])

LEMMA GoodFromType == ASSUME TypeOK PROVE GoodRequests
  BY DEF TypeOK, GoodRequests, LocatedRequest

LEMMA IdleType == Idle \in Request /\ LocatedRequest(Idle)
  BY DEF Idle, Request, LocatedRequest

LEMMA SetRequest ==
  ASSUME GoodRequests, NEW s \in Slots, NEW q \in Request, LocatedRequest(q),
         req' = [req EXCEPT ![s] = q]
  PROVE  GoodRequests'
  BY DEF GoodRequests, LocatedRequest

LEMMA ReplyGood ==
  ASSUME GoodRequests, NEW s \in Slots, Reply(s)
  PROVE  GoodRequests'
  BY IdleType, SetRequest DEF Reply

LEMMA GotoGood ==
  ASSUME GoodRequests, NEW s \in Slots, NEW stage \in Stages, Goto(s, stage),
         stage \in {"tags", "offer", "load", "reload", "write", "destroy", "insertTag", "add",
                    "drop"} => req[s].e \in Evals,
         stage = "load" => req[s].op \in DOMAIN AfterLoad,
         stage # "group"
  PROVE  GoodRequests'
  <1> DEFINE q == [req[s] EXCEPT !.at = stage]
  <1>1. req[s] \in Request
    BY DEF GoodRequests
  <1>2. q \in Request /\ q.at = stage /\ q.e = req[s].e /\ q.op = req[s].op
    BY <1>1 DEF Request, Stages
  <1>3. req' = [req EXCEPT ![s] = q]
    BY DEF Goto
  <1>4. LocatedRequest(q)
    BY <1>2 DEF LocatedRequest
  <1> HIDE DEF q
  <1> QED BY <1>2, <1>3, <1>4, SetRequest

LEMMA BeginGood ==
  ASSUME GoodRequests, NEW s \in Slots, NEW op, NEW new \in Request, Begin(s, op, new),
         LocatedRequest([new EXCEPT !.op = op])
  PROVE  GoodRequests'
  <1>1. [new EXCEPT !.op = op] \in Request
    BY DEF Begin, Request
  <1> QED BY <1>1, SetRequest DEF Begin

-----------------------------------------------------------------------------
(* Type correctness. *)

TablesOK ==
  /\ group \in [Groups -> BOOLEAN]
  /\ eval \in [Evals -> Row]
  /\ tag \in [Tags -> {"new", "gone", NoEval} \cup Evals]
  /\ share \subseteq Evals \X Groups
  /\ adding \subseteq Evals \X Groups
  /\ down \in BOOLEAN

LEMMA TypeParts == TypeOK <=> TablesOK /\ GoodRequests
  BY DEF TypeOK, TablesOK, GoodRequests, LocatedRequest

LEMMA TypePartsNext == TypeOK' <=> TablesOK' /\ GoodRequests'
  BY DEF TypeOK, TablesOK, GoodRequests, LocatedRequest

LEMMA RowTypes == NewRow \in Row /\ GoneRow \in Row
  BY DEF NewRow, GoneRow, Row

LEMMA InitType == Init => TypeOK
  BY RowTypes, IdleType, TypeParts DEF Init, TablesOK, GoodRequests

LEMMA AskType == ASSUME TypeOK, NEW s \in Slots, Ask(s) PROVE TypeOK'
  <1> USE IdleType
  <1>1. GoodRequests
    BY GoodFromType
  <1>2. GoodRequests' /\ UNCHANGED <<group, eval, tag, share, adding, down>>
    <2>1. CASE AskUpload(s)
      <3>1. PICK u \in Users, gs \in SUBSET Groups, ts \in SUBSET Tags, public \in BOOLEAN :
              Begin(s, "upload", [Idle EXCEPT !.at = "groups", !.by = u, !.gs = gs, !.ts = ts,
                                              !.public = public])
        BY <2>1 DEF AskUpload
      <3> DEFINE new == [Idle EXCEPT !.at = "groups", !.by = u, !.gs = gs, !.ts = ts,
                                     !.public = public]
      <3>2. new \in Request /\ LocatedRequest([new EXCEPT !.op = "upload"])
        BY DEF Idle, Request, LocatedRequest
      <3> QED BY <1>1, <3>1, <3>2, BeginGood DEF Begin
    <2>2. CASE AskKeyUpload(s)
      <3>1. PICK g \in Groups, ts \in SUBSET Tags, public \in BOOLEAN :
              Begin(s, "keyUpload", [Idle EXCEPT !.at = "insert", !.gs = {g}, !.ts = ts,
                                                 !.public = public])
        BY <2>2 DEF AskKeyUpload
      <3> DEFINE new == [Idle EXCEPT !.at = "insert", !.gs = {g}, !.ts = ts, !.public = public]
      <3>2. new \in Request /\ LocatedRequest([new EXCEPT !.op = "keyUpload"])
        BY DEF Idle, Request, LocatedRequest
      <3> QED BY <1>1, <3>1, <3>2, BeginGood DEF Begin
    <2>3. CASE AskChange(s)
      <3>1. PICK op \in {"update", "remove", "addTag"}, u \in Users, e \in Evals,
                 public \in BOOLEAN :
              Begin(s, op, [Idle EXCEPT !.at = "load", !.by = u, !.e = e, !.public = public])
        BY <2>3 DEF AskChange
      <3> DEFINE new == [Idle EXCEPT !.at = "load", !.by = u, !.e = e, !.public = public]
      <3>2. new \in Request /\ LocatedRequest([new EXCEPT !.op = op])
        BY DEF Idle, Request, LocatedRequest, AfterLoad
      <3> QED BY <1>1, <3>1, <3>2, BeginGood DEF Begin
    <2>4. CASE AskRemoveTag(s)
      <3>1. PICK u \in Users, t \in Tags :
              Begin(s, "removeTag", [Idle EXCEPT !.at = "tag", !.by = u, !.ts = {t}])
        BY <2>4 DEF AskRemoveTag
      <3> DEFINE new == [Idle EXCEPT !.at = "tag", !.by = u, !.ts = {t}]
      <3>2. new \in Request /\ LocatedRequest([new EXCEPT !.op = "removeTag"])
        BY DEF Idle, Request, LocatedRequest
      <3> QED BY <1>1, <3>1, <3>2, BeginGood DEF Begin
    <2>5. CASE AskGroup(s)
      <3>1. PICK op \in {"share", "unshare", "removeGroup"}, u \in Users, e \in Evals,
                 g \in Groups :
              Begin(s, op, [Idle EXCEPT !.at = "group", !.by = u, !.gs = {g},
                                        !.e = IF op = "removeGroup" THEN NoEval ELSE e])
        BY <2>5 DEF AskGroup
      <3> DEFINE new == [Idle EXCEPT !.at = "group", !.by = u, !.gs = {g},
                                     !.e = IF op = "removeGroup" THEN NoEval ELSE e]
      <3>2. new \in Request /\ LocatedRequest([new EXCEPT !.op = op])
        BY DEF Idle, Request, LocatedRequest
      <3> QED BY <1>1, <3>1, <3>2, BeginGood DEF Begin
    <2> QED BY <2>1, <2>2, <2>3, <2>4, <2>5 DEF Ask
  <1> QED BY <1>2, TypeParts, TypePartsNext DEF TablesOK

\* The steps of an upload.
LEMMA UploadType ==
  ASSUME TypeOK, NEW s \in Slots,
         FindGroups(s) \/ InsertEvaluation(s) \/ InsertTags(s) \/ Offer(s)
  PROVE  TypeOK'
  <1> USE TypeParts, TypePartsNext
  <1>1. CASE FindGroups(s)
    <2> DEFINE gs == {g \in req[s].gs : group[g] /\ MayShareIn(req[s].by, g)}
               q  == [req[s] EXCEPT !.at = "insert", !.gs = gs]
    <2>1. req' = [req EXCEPT ![s] = q]
      BY <1>1 DEF FindGroups, GoodRequests
    <2>2. q \in Request /\ LocatedRequest(q)
      <3>1. req[s] \in Request /\ gs \subseteq req[s].gs
        BY DEF GoodRequests
      <3> HIDE DEF gs
      <3> QED BY <3>1 DEF Request, LocatedRequest
    <2> HIDE DEF q
    <2> QED BY <1>1, <2>1, <2>2, SetRequest DEF FindGroups, TablesOK
  <1>2. CASE InsertEvaluation(s)
    <2>1. CASE Reply(s) /\ UNCHANGED eval
      BY <1>2, <2>1, ReplyGood DEF InsertEvaluation, TablesOK
    <2>2. CASE \E e \in Evals :
                 /\ eval' = [eval EXCEPT ![e] = [st |-> "live", owner |-> req[s].by,
                                                 public |-> req[s].public]]
                 /\ req' = [req EXCEPT ![s].at = "tags", ![s].e = e]
      <3>1. PICK e \in Evals :
              /\ eval' = [eval EXCEPT ![e] = [st |-> "live", owner |-> req[s].by,
                                              public |-> req[s].public]]
              /\ req' = [req EXCEPT ![s].at = "tags", ![s].e = e]
        BY <2>2
      <3> DEFINE q == [req[s] EXCEPT !.at = "tags", !.e = e]
      <3>2. req[s] \in Request
        BY DEF GoodRequests
      <3>3. q \in Request /\ LocatedRequest(q)
        BY <3>2 DEF Request, LocatedRequest
      <3>4. req' = [req EXCEPT ![s] = q]
        BY <3>1 DEF GoodRequests
      <3>5. eval' \in [Evals -> Row]
        BY <3>1, <3>2 DEF TablesOK, Row, Request
      <3> HIDE DEF q
      <3> QED BY <1>2, <3>3, <3>4, <3>5, SetRequest DEF InsertEvaluation, TablesOK
    <2> QED BY <1>2, <2>1, <2>2 DEF InsertEvaluation
  <1>3. CASE InsertTags(s)
    <2>1. req[s].e \in Evals
      BY <1>3 DEF InsertTags, GoodRequests, LocatedRequest
    <2>2. CASE Reply(s) /\ UNCHANGED tag
      BY <1>3, <2>2, ReplyGood DEF InsertTags, TablesOK
    <2>3. CASE /\ tag' = [t \in Tags |-> IF t \in req[s].ts /\ tag[t] = "new" THEN req[s].e
                                                                            ELSE tag[t]]
               /\ Goto(s, "offer")
      <3>1. tag' \in [Tags -> {"new", "gone", NoEval} \cup Evals]
        BY <2>1, <2>3 DEF TablesOK
      <3>2. GoodRequests'
        BY <2>1, <2>3, GotoGood DEF Stages
      <3> QED BY <1>3, <3>1, <3>2 DEF InsertTags, TablesOK
    <2> QED BY <1>3, <2>2, <2>3 DEF InsertTags
  <1>4. CASE Offer(s)
    <2>1. req[s].e \in Evals /\ req[s].gs \subseteq Groups
      BY <1>4 DEF Offer, GoodRequests, LocatedRequest, Request
    <2>2. GoodRequests'
      BY <1>4, ReplyGood DEF Offer
    <2>3. adding' \subseteq Evals \X Groups
      BY <1>4, <2>1 DEF Offer, TablesOK
    <2> QED BY <1>4, <2>2, <2>3 DEF Offer, TablesOK
  <1> QED BY <1>1, <1>2, <1>3, <1>4

LEMMA LandType ==
  ASSUME TypeOK, NEW e \in Evals, NEW g \in Groups, Land(e, g)
  PROVE  TypeOK'
  <1> USE TypeParts, TypePartsNext
  <1>1. share' \subseteq Evals \X Groups /\ adding' \subseteq Evals \X Groups /\ down' \in BOOLEAN
    BY DEF Land, TablesOK
  <1>2. GoodRequests'
    BY IdleType DEF Land, GoodRequests
  <1> QED BY <1>1, <1>2 DEF Land, TablesOK

\* The steps of changes of an evaluation.
LEMMA ChangeType ==
  ASSUME TypeOK, NEW s \in Slots,
         Load(s) \/ Reload(s) \/ Write(s) \/ Destroy(s) \/ InsertTag(s)
  PROVE  TypeOK'
  <1> USE TypeParts, TypePartsNext
  <1>0. /\ req[s] \in Request
        /\ req[s].at \in {"load", "reload", "write", "destroy", "insertTag"} => req[s].e \in Evals
        /\ req[s].at = "load" => req[s].op \in {"update", "remove", "addTag", "share", "unshare"}
    BY DEF GoodRequests, LocatedRequest, AfterLoad
  <1>1. CASE Load(s)
    <2>1. CASE Reply(s)
      BY <1>1, <2>1, ReplyGood DEF Load, TablesOK
    <2>2. CASE Goto(s, AfterLoad[req[s].op])
      <3>1. AfterLoad[req[s].op] \in {"reload", "insertTag", "add", "drop"}
        BY <1>0, <1>1 DEF AfterLoad, Load
      <3>2. GoodRequests'
        BY <1>0, <1>1, <2>2, <3>1, GotoGood DEF Stages, Load
      <3> QED BY <1>1, <3>2 DEF Load, TablesOK
    <2> QED BY <1>1, <2>1, <2>2 DEF Load
  <1>2. CASE Reload(s)
    <2>1. CASE Reply(s)
      BY <1>2, <2>1, ReplyGood DEF Reload, TablesOK
    <2>2. CASE Goto(s, "write")
      <3>1. GoodRequests'
        BY <1>0, <1>2, <2>2, GotoGood DEF Stages, Reload
      <3> QED BY <1>2, <3>1 DEF Reload, TablesOK
    <2>3. CASE req' = [req EXCEPT ![s].at = "destroy", ![s].ts = TagsOf(req[s].e)]
      <3> DEFINE ts == TagsOf(req[s].e)
                 q  == [req[s] EXCEPT !.at = "destroy", !.ts = ts]
      <3>1. ts \in SUBSET Tags
        BY DEF TagsOf
      <3>2. req' = [req EXCEPT ![s] = q]
        BY <2>3 DEF GoodRequests
      <3> HIDE DEF ts
      <3>3. q \in Request /\ LocatedRequest(q)
        BY <1>0, <1>2, <3>1 DEF Request, LocatedRequest, Reload
      <3> HIDE DEF q
      <3> QED BY <1>2, <3>2, <3>3, SetRequest DEF Reload, TablesOK
    <2> QED BY <1>2, <2>1, <2>2, <2>3 DEF Reload
  <1>3. CASE Write(s)
    <2>1. eval' \in [Evals -> Row]
      BY <1>0, <1>3 DEF Write, TablesOK, Row, Request
    <2> QED BY <1>3, <2>1, ReplyGood DEF Write, TablesOK
  <1>4. CASE Destroy(s)
    <2>1. eval' \in [Evals -> Row]
      BY <1>0, <1>4, RowTypes DEF Destroy, TablesOK
    <2>2. tag' \in [Tags -> {"new", "gone", NoEval} \cup Evals]
      BY <1>4 DEF Destroy, TablesOK
    <2>3. GoodRequests'
      BY <1>4, ReplyGood DEF Destroy
    <2> QED BY <1>4, <2>1, <2>2, <2>3 DEF Destroy, TablesOK
  <1>5. CASE InsertTag(s)
    <2>1. tag' \in [Tags -> {"new", "gone", NoEval} \cup Evals]
      BY <1>0, <1>5 DEF InsertTag, TablesOK
    <2>2. GoodRequests'
      BY <1>5, ReplyGood DEF InsertTag
    <2> QED BY <1>5, <2>1, <2>2 DEF InsertTag, TablesOK
  <1> QED BY <1>1, <1>2, <1>3, <1>4, <1>5

\* The steps of deletions of tags.
LEMMA TagType ==
  ASSUME TypeOK, NEW s \in Slots, LoadTag(s) \/ ReloadTag(s) \/ DestroyTag(s)
  PROVE  TypeOK'
  <1> USE TypeParts, TypePartsNext
  <1>1. CASE LoadTag(s)
    <2>1. Reply(s) \/ Goto(s, "reloadTag")
      BY <1>1 DEF LoadTag
    <2>2. GoodRequests'
      BY <2>1, ReplyGood, GotoGood DEF Stages
    <2> QED BY <1>1, <2>2 DEF LoadTag, TablesOK
  <1>2. CASE ReloadTag(s)
    <2>1. Reply(s) \/ Goto(s, "destroyTag")
      BY <1>2 DEF ReloadTag
    <2>2. GoodRequests'
      BY <2>1, ReplyGood, GotoGood DEF Stages
    <2> QED BY <1>2, <2>2 DEF ReloadTag, TablesOK
  <1>3. CASE DestroyTag(s)
    <2>1. tag' \in [Tags -> {"new", "gone", NoEval} \cup Evals]
      BY <1>3 DEF DestroyTag, TablesOK
    <2>2. GoodRequests'
      BY <1>3, ReplyGood DEF DestroyTag
    <2> QED BY <1>3, <2>1, <2>2 DEF DestroyTag, TablesOK
  <1> QED BY <1>1, <1>2, <1>3

\* The steps of sharing and of deletions of groups.
LEMMA GroupType ==
  ASSUME TypeOK, NEW s \in Slots, LoadGroup(s) \/ Add(s) \/ Drop(s) \/ DestroyGroup(s)
  PROVE  TypeOK'
  <1> USE TypeParts, TypePartsNext
  <1>0. /\ req[s] \in Request
        /\ req[s].at = "add" => req[s].e \in Evals
        /\ req[s].at = "group" /\ req[s].op # "removeGroup" => req[s].e \in Evals
    BY DEF GoodRequests, LocatedRequest
  <1>1. CASE LoadGroup(s)
    <2>1. \/ Reply(s) \/ Goto(s, "destroyGroup")
          \/ req[s].op \in {"share", "unshare"} /\ Goto(s, "load")
      BY <1>1 DEF LoadGroup
    <2>2. req[s].op \in {"share", "unshare"} => req[s].e \in Evals
      BY <1>0, <1>1 DEF LoadGroup
    <2>3. GoodRequests'
      <3>1. CASE Reply(s)
        BY <3>1, ReplyGood
      <3>2. CASE Goto(s, "destroyGroup")
        BY <3>2, GotoGood DEF Stages
      <3>3. CASE req[s].op \in {"share", "unshare"} /\ Goto(s, "load")
        BY <2>2, <3>3, GotoGood DEF Stages, AfterLoad
      <3> QED BY <2>1, <3>1, <3>2, <3>3
    <2> QED BY <1>1, <2>3 DEF LoadGroup, TablesOK
  <1>2. CASE Add(s)
    <2>1. share' \subseteq Evals \X Groups
      BY <1>0, <1>2 DEF Add, TablesOK, Request
    <2>2. GoodRequests'
      BY <1>2, ReplyGood DEF Add
    <2> QED BY <1>2, <2>1, <2>2 DEF Add, TablesOK
  <1>3. CASE Drop(s)
    <2>1. share' \subseteq Evals \X Groups
      BY <1>3 DEF Drop, TablesOK
    <2>2. GoodRequests'
      BY <1>3, ReplyGood DEF Drop
    <2> QED BY <1>3, <2>1, <2>2 DEF Drop, TablesOK
  <1>4. CASE DestroyGroup(s)
    <2>1. group' \in [Groups -> BOOLEAN]
      BY <1>4 DEF DestroyGroup, TablesOK
    <2>2. share' \subseteq Evals \X Groups
      BY <1>4 DEF DestroyGroup, TablesOK
    <2>3. GoodRequests'
      BY <1>4, ReplyGood DEF DestroyGroup
    <2> QED BY <1>4, <2>1, <2>2, <2>3 DEF DestroyGroup, TablesOK
  <1> QED BY <1>1, <1>2, <1>3, <1>4

LEMMA NextType == TypeOK /\ [Next]_vars => TypeOK'
  <1> SUFFICES ASSUME TypeOK, [Next]_vars PROVE TypeOK'
    OBVIOUS
  <1>1. ASSUME NEW s \in Slots, Ask(s) PROVE TypeOK'
    BY <1>1, AskType
  <1>2. ASSUME NEW s \in Slots, Step(s) PROVE TypeOK'
    BY <1>2, UploadType, ChangeType, TagType, GroupType DEF Step
  <1>3. ASSUME NEW e \in Evals, NEW g \in Groups, Land(e, g) PROVE TypeOK'
    BY <1>3, LandType
  <1>4. CASE Restart
    BY <1>4, TypeParts, TypePartsNext DEF Restart, TablesOK, GoodRequests
  <1>5. CASE UNCHANGED vars
    BY <1>5, TypeParts, TypePartsNext DEF vars, TablesOK, GoodRequests
  <1> QED BY <1>1, <1>2, <1>3, <1>4, <1>5 DEF Next

\* Every reachable state is well typed, and a request knows at each stage what
\* its next statement uses.
THEOREM TypeCorrect == Spec => []TypeOK
  <1> QED BY InitType, NextType, PTL DEF Spec

-----------------------------------------------------------------------------
(* Sharing. *)

\* Where nothing is deleted, shares may only come from rows that are there.
LEMMA SharesKept ==
  ASSUME NoDanglingShares, UNCHANGED <<group, eval, share>>
  PROVE  NoDanglingShares'
  BY DEF NoDanglingShares, Live

LEMMA InsertKeepsShares ==
  ASSUME TypeOK, NoDanglingShares, NEW s \in Slots, InsertEvaluation(s)
  PROVE  NoDanglingShares'
  <1>1. \A e \in Evals : Live(e) => Live(e)'
    BY DEF InsertEvaluation, TypeOK, Live, Row
  <1>2. \A q \in share : q[1] \in Evals /\ Live(q[1])'
    BY <1>1 DEF NoDanglingShares, TypeOK
  <1> QED BY <1>2 DEF InsertEvaluation, NoDanglingShares, Live

LEMMA WriteKeepsShares ==
  ASSUME TypeOK, NoDanglingShares, NEW s \in Slots, Write(s)
  PROVE  NoDanglingShares'
  <1>1. \A e \in Evals : Live(e) => Live(e)'
    BY DEF Write, TypeOK, Live, Row
  <1> QED BY <1>1 DEF Write, NoDanglingShares, TypeOK

\* A deletion forgets the shares of what it deletes in the same transaction.
LEMMA DeletionKeepsShares ==
  ASSUME TypeOK, NoDanglingShares, NEW s \in Slots, Destroy(s) \/ DestroyGroup(s)
  PROVE  NoDanglingShares'
  <1>1. CASE Destroy(s)
    <2>1. \A e \in Evals : e # req[s].e /\ Live(e) => Live(e)'
      BY <1>1 DEF Destroy, TypeOK, Live
    <2> QED BY <1>1, <2>1 DEF Destroy, NoDanglingShares, TypeOK
  <1>2. CASE DestroyGroup(s)
    <2>1. \A g \in Groups : g \notin req[s].gs /\ group[g] => group'[g]
      BY <1>2 DEF DestroyGroup, TypeOK
    <2> QED BY <1>2, <2>1 DEF DestroyGroup, NoDanglingShares, TypeOK, Live
  <1> QED BY <1>1, <1>2

\* An addition looks at both tables when it is executed.
LEMMA AdditionKeepsShares ==
  ASSUME TypeOK, NoDanglingShares,
         \/ \E s \in Slots : Add(s) \/ Drop(s)
         \/ \E e \in Evals, g \in Groups : Land(e, g)
  PROVE  NoDanglingShares'
  <1>1. \A p \in share' : Live(p[1]) /\ group[p[2]]
    <2>1. ASSUME NEW s \in Slots, Add(s) PROVE \A p \in share' : Live(p[1]) /\ group[p[2]]
      BY <2>1 DEF Add, NoDanglingShares
    <2>2. ASSUME NEW s \in Slots, Drop(s) PROVE \A p \in share' : Live(p[1]) /\ group[p[2]]
      BY <2>2 DEF Drop, NoDanglingShares
    <2>3. ASSUME NEW e \in Evals, NEW g \in Groups, Land(e, g)
          PROVE  \A p \in share' : Live(p[1]) /\ group[p[2]]
      BY <2>3 DEF Land, NoDanglingShares
    <2> QED BY <2>1, <2>2, <2>3
  <1>2. UNCHANGED <<group, eval>>
    BY DEF Add, Drop, Land
  <1> QED BY <1>1, <1>2 DEF NoDanglingShares, Live

LEMMA NextKeepsShares ==
  TypeOK /\ NoDanglingShares /\ [Next]_vars => NoDanglingShares'
  <1> SUFFICES ASSUME TypeOK, NoDanglingShares, [Next]_vars PROVE NoDanglingShares'
    OBVIOUS
  <1>1. ASSUME NEW s \in Slots, Ask(s) PROVE NoDanglingShares'
    BY <1>1, SharesKept
       DEF Ask, AskUpload, AskKeyUpload, AskChange, AskRemoveTag, AskGroup, Begin
  <1>2. ASSUME NEW s \in Slots, Step(s) PROVE NoDanglingShares'
    <2>1. CASE \/ FindGroups(s) \/ InsertTags(s) \/ Offer(s) \/ Load(s) \/ Reload(s)
               \/ InsertTag(s) \/ LoadTag(s) \/ ReloadTag(s) \/ DestroyTag(s) \/ LoadGroup(s)
      BY <2>1, SharesKept DEF FindGroups, InsertTags, Offer, Load, Reload, InsertTag, LoadTag,
                              ReloadTag, DestroyTag, LoadGroup
    <2> QED BY <1>2, <2>1, InsertKeepsShares, WriteKeepsShares, DeletionKeepsShares,
               AdditionKeepsShares DEF Step
  <1>3. CASE Restart \/ UNCHANGED vars
    BY <1>3, SharesKept DEF Restart, vars
  <1> QED BY <1>1, <1>2, <1>3, AdditionKeepsShares DEF Next

\* Nothing that is gone is shared, for any number of requests in flight and of
\* additions nobody waits for.
THEOREM SharesHold == Spec => []NoDanglingShares
  <1>1. Init => NoDanglingShares
    BY DEF Init, NoDanglingShares
  <1> QED BY <1>1, NextKeepsShares, TypeCorrect, PTL DEF Spec

-----------------------------------------------------------------------------
(* Tags, with one request at a time. *)

OneAtATime == \A s, s2 \in Slots : s = s2

\* A deletion that is about to be executed has seen all tags.
SeenTags == \A s \in Slots : req[s].at = "destroy" => TagsOf(req[s].e) \subseteq req[s].ts

TagInv == TagsHaveEvaluation /\ SeenTags

\* Where tags stay and nothing is deleted, only a new deletion has to be looked at.
LEMMA TagsKept ==
  ASSUME TagInv, UNCHANGED tag, \A e \in Evals : Live(e) => Live(e)', TypeOK
  PROVE  TagsHaveEvaluation'
  <1>1. \A t \in Tags : TagExists(t) => tag[t] \in Evals
    BY DEF TagInv, TagsHaveEvaluation, TypeOK, TagExists
  <1> QED BY <1>1 DEF TagInv, TagsHaveEvaluation, TagExists, Live

\* A request that leaves the stage "destroy", or never reaches it, has nothing to have seen.
LEMMA ElsewhereSeen ==
  ASSUME OneAtATime, NEW s \in Slots, req'[s].at # "destroy"
  PROVE  SeenTags'
  BY DEF OneAtATime, SeenTags

LEMMA IdleElsewhere ==
  ASSUME TypeOK, NEW s \in Slots, Reply(s) PROVE req'[s].at # "destroy"
  BY DEF Reply, Idle, TypeOK

LEMMA GotoElsewhere ==
  ASSUME TypeOK, NEW s \in Slots, NEW stage, stage # "destroy", Goto(s, stage)
  PROVE  req'[s].at # "destroy"
  <1>1. req[s] \in Request
    BY DEF TypeOK
  <1> QED BY <1>1 DEF Goto, TypeOK, Request

LEMMA AskTags ==
  ASSUME TypeOK, TagInv, OneAtATime, NEW s \in Slots, Ask(s)
  PROVE  TagInv'
  <1>1. req'[s].at # "destroy"
    <2>1. CASE AskUpload(s)
      BY <2>1 DEF AskUpload, Begin, Idle, TypeOK
    <2>2. CASE AskKeyUpload(s)
      BY <2>2 DEF AskKeyUpload, Begin, Idle, TypeOK
    <2>3. CASE AskChange(s)
      BY <2>3 DEF AskChange, Begin, Idle, TypeOK
    <2>4. CASE AskRemoveTag(s)
      BY <2>4 DEF AskRemoveTag, Begin, Idle, TypeOK
    <2>5. CASE AskGroup(s)
      BY <2>5 DEF AskGroup, Begin, Idle, TypeOK
    <2> QED BY <2>1, <2>2, <2>3, <2>4, <2>5 DEF Ask
  <1>2. UNCHANGED <<eval, tag>>
    BY DEF Ask, AskUpload, AskKeyUpload, AskChange, AskRemoveTag, AskGroup, Begin
  <1> QED BY <1>1, <1>2, ElsewhereSeen, TagsKept DEF TagInv, Live

LEMMA InsertTagsKeeps ==
  ASSUME TypeOK, TagInv, OneAtATime, NEW s \in Slots, InsertTags(s) \/ InsertTag(s)
  PROVE  TagInv'
  <1>0. req[s].e \in Evals
    BY GoodFromType DEF InsertTags, InsertTag, GoodRequests, LocatedRequest
  <1>1. req'[s].at # "destroy"
    BY IdleElsewhere, GotoElsewhere DEF InsertTags, InsertTag
  <1>2. \A t \in Tags : tag'[t] = tag[t] \/ (tag'[t] = req[s].e /\ Live(req[s].e))
    BY DEF InsertTags, InsertTag, TypeOK
  <1>3. TagsHaveEvaluation'
    <2>1. UNCHANGED eval
      BY DEF InsertTags, InsertTag
    <2> QED BY <1>0, <1>2, <2>1 DEF TagInv, TagsHaveEvaluation, TagExists, Live
  <1> QED BY <1>1, <1>3, ElsewhereSeen DEF TagInv

LEMMA DestroyTagKeeps ==
  ASSUME TypeOK, TagInv, OneAtATime, NEW s \in Slots, DestroyTag(s)
  PROVE  TagInv'
  <1>1. req'[s].at # "destroy"
    BY IdleElsewhere DEF DestroyTag
  <1>2. \A t \in Tags : tag'[t] \in {tag[t], "gone"}
    BY DEF DestroyTag, TypeOK
  <1>3. TagsHaveEvaluation'
    BY <1>2 DEF DestroyTag, TagInv, TagsHaveEvaluation, TagExists, Live
  <1> QED BY <1>1, <1>3, ElsewhereSeen DEF TagInv

LEMMA DestroyKeeps ==
  ASSUME TypeOK, TagInv, OneAtATime, NEW s \in Slots, Destroy(s)
  PROVE  TagInv'
  <1> DEFINE e == req[s].e
  <1>1. req'[s].at # "destroy"
    BY IdleElsewhere DEF Destroy
  <1>2. \A t \in Tags : tag[t] = e => t \in req[s].ts
    BY DEF TagInv, SeenTags, TagsOf, Destroy
  <1>3. \A t \in Tags : tag'[t] = "gone" \/ (tag'[t] = tag[t] /\ tag[t] # e)
    BY <1>2 DEF Destroy, TypeOK
  <1>4. \A d \in Evals : d # e /\ Live(d) => Live(d)'
    BY DEF Destroy, TypeOK, Live
  <1>5. \A t \in Tags : TagExists(t) => tag[t] \in Evals /\ tag[t] # NoEval /\ Live(tag[t])
    BY DEF TagInv, TagsHaveEvaluation, TypeOK, TagExists
  <1>6. TagsHaveEvaluation'
    <2> SUFFICES ASSUME NEW t \in Tags, TagExists(t)' PROVE tag'[t] # NoEval /\ Live(tag[t])'
      BY DEF TagsHaveEvaluation
    <2>1. tag'[t] = tag[t] /\ tag[t] # e /\ TagExists(t)
      BY <1>3 DEF TagExists
    <2> QED BY <1>4, <1>5, <2>1 DEF Live
  <1> QED BY <1>1, <1>6, ElsewhereSeen DEF TagInv

LEMMA ReloadTags ==
  ASSUME TypeOK, TagInv, OneAtATime, NEW s \in Slots, Reload(s)
  PROVE  TagInv'
  <1>1. UNCHANGED <<eval, tag>>
    BY DEF Reload
  <1>2. TagsHaveEvaluation'
    BY <1>1, TagsKept DEF Live
  <1>3. SeenTags'
    <2>1. CASE Reply(s) \/ Goto(s, "write")
      BY <2>1, IdleElsewhere, GotoElsewhere, ElsewhereSeen
    <2>2. CASE req' = [req EXCEPT ![s].at = "destroy", ![s].ts = TagsOf(req[s].e)]
      <3>1. req[s] \in Request
        BY DEF TypeOK
      <3>2. req'[s].e = req[s].e /\ req'[s].ts = TagsOf(req[s].e)
        BY <2>2, <3>1 DEF TypeOK, Request
      <3> QED BY <1>1, <3>2 DEF OneAtATime, SeenTags, TagsOf
    <2> QED BY <2>1, <2>2 DEF Reload
  <1> QED BY <1>2, <1>3 DEF TagInv

\* The steps that neither touch tags nor delete an evaluation.
LEMMA OtherTags ==
  ASSUME TypeOK, TagInv, OneAtATime, NEW s \in Slots,
         \/ FindGroups(s) \/ InsertEvaluation(s) \/ Offer(s) \/ Load(s) \/ Write(s)
         \/ LoadTag(s) \/ ReloadTag(s) \/ LoadGroup(s) \/ Add(s) \/ Drop(s) \/ DestroyGroup(s)
  PROVE  TagInv'
  <1>1. req'[s].at # "destroy"
    <2>1. CASE FindGroups(s) \/ InsertEvaluation(s)
      <3>1. req[s] \in Request
        BY DEF TypeOK
      <3> QED BY <2>1, <3>1, IdleElsewhere DEF FindGroups, InsertEvaluation, TypeOK, Request
    <2>2. CASE Load(s)
      <3>1. req[s].op \in DOMAIN AfterLoad
        BY <2>2, GoodFromType DEF Load, GoodRequests, LocatedRequest
      <3>2. AfterLoad[req[s].op] # "destroy"
        BY <3>1 DEF AfterLoad
      <3> QED BY <2>2, <3>2, IdleElsewhere, GotoElsewhere DEF Load
    <2>3. CASE LoadTag(s) \/ ReloadTag(s) \/ LoadGroup(s)
      <3>1. Reply(s) \/ \E stage \in {"reloadTag", "destroyTag", "destroyGroup", "load"} :
                          Goto(s, stage)
        BY <2>3 DEF LoadTag, ReloadTag, LoadGroup
      <3> QED BY <3>1, IdleElsewhere, GotoElsewhere
    <2>4. CASE Offer(s) \/ Write(s) \/ Add(s) \/ Drop(s) \/ DestroyGroup(s)
      BY <2>4, IdleElsewhere DEF Offer, Write, Add, Drop, DestroyGroup
    <2> QED BY <2>1, <2>2, <2>3, <2>4
  <1>2. UNCHANGED tag
    BY DEF FindGroups, InsertEvaluation, Offer, Load, Write, LoadTag, ReloadTag, LoadGroup, Add,
           Drop, DestroyGroup
  <1>3. \A e \in Evals : Live(e) => Live(e)'
    <2>1. CASE InsertEvaluation(s)
      BY <2>1 DEF InsertEvaluation, TypeOK, Live, Row
    <2>2. CASE Write(s)
      BY <2>2 DEF Write, TypeOK, Live, Row
    <2>3. CASE UNCHANGED eval
      BY <2>3 DEF Live
    <2> QED BY <2>1, <2>2, <2>3
            DEF FindGroups, Offer, Load, LoadTag, ReloadTag, LoadGroup, Add, Drop, DestroyGroup
  <1> QED BY <1>1, <1>2, <1>3, TagsKept, ElsewhereSeen DEF TagInv

\* Additions nobody waits for, and their failure, leave tags alone.
LEMMA LandTags ==
  ASSUME TypeOK, TagInv, NEW e \in Evals, NEW g \in Groups, Land(e, g)
  PROVE  TagInv'
  <1>1. UNCHANGED <<eval, tag>>
    BY DEF Land
  <1>2. TagsHaveEvaluation'
    BY <1>1, TagsKept DEF Live
  <1>3. SeenTags'
    BY <1>1 DEF Land, TagInv, SeenTags, TagsOf, Idle
  <1> QED BY <1>2, <1>3 DEF TagInv

LEMMA NextTags == OneAtATime /\ TypeOK /\ TagInv /\ [Next]_vars => TagInv'
  <1> SUFFICES ASSUME OneAtATime, TypeOK, TagInv, [Next]_vars PROVE TagInv'
    OBVIOUS
  <1>1. ASSUME NEW s \in Slots, Ask(s) PROVE TagInv'
    BY <1>1, AskTags
  <1>2. ASSUME NEW s \in Slots, Step(s) PROVE TagInv'
    BY <1>2, InsertTagsKeeps, DestroyTagKeeps, DestroyKeeps, ReloadTags, OtherTags DEF Step
  <1>3. ASSUME NEW e \in Evals, NEW g \in Groups, Land(e, g) PROVE TagInv'
    BY <1>3, LandTags
  <1>4. CASE Restart \/ UNCHANGED vars
    <2>1. UNCHANGED <<eval, tag, req>>
      BY <1>4 DEF Restart, vars
    <2>2. TagsHaveEvaluation'
      BY <2>1, TagsKept DEF Live
    <2>3. SeenTags'
      BY <2>1 DEF TagInv, SeenTags, TagsOf
    <2> QED BY <2>2, <2>3 DEF TagInv
  <1> QED BY <1>1, <1>2, <1>3, <1>4 DEF Next

\* With one request at a time, the deletion of an evaluation takes its tags
\* along, whatever additions of earlier uploads still land.
THEOREM SerialTagsGo ==
  ASSUME OneAtATime
  PROVE  Spec => []TagsHaveEvaluation
  <1>1. Init => TagInv
    BY DEF Init, TagInv, TagsHaveEvaluation, TagExists, SeenTags, Idle
  <1>2. TypeOK /\ TagInv /\ [Next]_vars => TagInv'
    BY NextTags
  <1>3. TagInv => TagsHaveEvaluation
    BY DEF TagInv
  <1> QED BY <1>1, <1>2, <1>3, TypeCorrect, PTL DEF Spec

-----------------------------------------------------------------------------
(* The rules of CaslAbilityFactory. *)

R == INSTANCE AbilityRulesProofs WITH Ids <- Users, NoId <- NoUser

LEMMA SameRules ==
  ASSUME NEW u, NEW action, NEW x
  PROVE  R!Can(u, action, x) <=> Rules!Can(u, action, x)
<1>1. \A rule : R!Matches(rule, u, action, x) <=> Rules!Matches(rule, u, action, x)
  BY DEF R!Matches, Rules!Matches
<1>2. R!RulesOfUser(u, x) = Rules!RulesOfUser(u, x)
  BY DEF R!RulesOfUser, Rules!RulesOfUser, R!OfAdmin, Rules!OfAdmin, R!Allow, Rules!Allow,
         R!Forbid, Rules!Forbid, R!Readers, Rules!Readers
<1> QED
  BY <1>1, <1>2 DEF R!Can, Rules!Can

LEMMA AskerTyped ==
  ASSUME NEW u \in Users
  PROVE  /\ AskerOf(u) \in R!Asker
         /\ AskerOf(u).id = u
         /\ AskerOf(u).admin <=> u \in Admins
<1>1. CASE u \in Admins
  <2>1. (u \in Admins) = TRUE
    BY <1>1
  <2>2. AskerOf(u) = [id |-> u, admin |-> TRUE]
    BY <2>1, Zenon DEF AskerOf
  <2> QED
    BY <1>1, <2>2 DEF R!Asker
<1>2. CASE u \notin Admins
  <2>1. (u \in Admins) = FALSE
    BY <1>2
  <2>2. AskerOf(u) = [id |-> u, admin |-> FALSE]
    BY <2>1, Zenon DEF AskerOf
  <2> QED
    BY <1>2, <2>2 DEF R!Asker
<1> QED
  BY <1>1, <1>2

LEMMA GroupSubjectRights ==
  ASSUME NEW u \in Users, NEW g \in Groups
  PROVE  /\ Rules!Can(AskerOf(u), "delete", GroupSubject(g)) <=> MayRemove(u, g)
         /\ \A action \in {"add-evaluation", "remove-evaluation"} :
              Rules!Can(AskerOf(u), action, GroupSubject(g)) <=> MayShareIn(u, g)
<1> DEFINE a == AskerOf(u)
           x == GroupSubject(g)
<1>1. a \in R!Asker /\ a.id = u /\ (a.admin <=> u \in Admins)
  BY AskerTyped
<1>2. x \in R!Subject /\ x.row /\ x.type = "Group"
  BY DEF GroupSubject, R!Subject
<1>3. (u \in x.members <=> <<u, g>> \in Members) /\ (u \in x.owners <=> <<u, g>> \in Owners)
  BY DEF GroupSubject
<1> HIDE DEF a, x
<1>4. /\ R!Can(a, "delete", x) <=> a.admin \/ a.id \in x.owners
      /\ \A action \in {"add-evaluation", "remove-evaluation"} :
           R!Can(a, action, x) <=> a.admin \/ a.id \in x.members \/ a.id \in x.owners
  BY <1>1, <1>2, R!GroupRights
<1>5. R!Can(a, "delete", x) <=> MayRemove(u, g)
  BY <1>1, <1>3, <1>4 DEF MayRemove
<1>6. \A action \in {"add-evaluation", "remove-evaluation"} : R!Can(a, action, x) <=> MayShareIn(u, g)
  BY <1>1, <1>3, <1>4 DEF MayShareIn
<1> QED
  BY <1>5, <1>6, SameRules DEF a, x

LEMMA EvaluationSubjectRights ==
  ASSUME TypeOK, NEW u \in Users, NEW e \in Evals
  PROVE  /\ Rules!Can(AskerOf(u), "read", EvaluationSubject(e)) <=> MayRead(u, e)
         /\ \A action \in {"update", "delete"} :
              Rules!Can(AskerOf(u), action, EvaluationSubject(e)) <=> MayManage(u, e)
<1> DEFINE a == AskerOf(u)
           x == EvaluationSubject(e)
<1>1. a \in R!Asker /\ a.id = u /\ (a.admin <=> u \in Admins)
  BY AskerTyped
<1>2. eval[e].owner \in Users \cup {NoUser} /\ eval[e].public \in BOOLEAN
  BY DEF TypeOK, Row
<1> DEFINE M == UNION {GroupSubject(g).members : g \in GroupsOf(e)}
           O == UNION {GroupSubject(g).owners : g \in GroupsOf(e)}
<1>3. /\ \A v \in Users : v \in M <=> \E g \in GroupsOf(e) : <<v, g>> \in Members
      /\ \A v \in Users : v \in O <=> \E g \in GroupsOf(e) : <<v, g>> \in Owners
  <2>1. \A g : /\ GroupSubject(g).members = {v \in Users : <<v, g>> \in Members}
              /\ GroupSubject(g).owners = {v \in Users : <<v, g>> \in Owners}
    BY DEF GroupSubject
  <2>2. ASSUME NEW v \in Users, v \in M
        PROVE  \E g \in GroupsOf(e) : <<v, g>> \in Members
    <3>1. PICK g \in GroupsOf(e) : v \in GroupSubject(g).members
      BY <2>2
    <3> QED
      BY <2>1, <3>1
  <2>3. ASSUME NEW v \in Users, NEW g \in GroupsOf(e), <<v, g>> \in Members
        PROVE  v \in M
    <3>1. v \in GroupSubject(g).members
      BY <2>1, <2>3
    <3> QED
      BY <3>1
  <2>4. ASSUME NEW v \in Users, v \in O
        PROVE  \E g \in GroupsOf(e) : <<v, g>> \in Owners
    <3>1. PICK g \in GroupsOf(e) : v \in GroupSubject(g).owners
      BY <2>4
    <3> QED
      BY <2>1, <3>1
  <2>5. ASSUME NEW v \in Users, NEW g \in GroupsOf(e), <<v, g>> \in Owners
        PROVE  v \in O
    <3>1. v \in GroupSubject(g).owners
      BY <2>1, <2>5
    <3> QED
      BY <3>1
  <2> QED
    BY <2>2, <2>3, <2>4, <2>5
<1>4. M \subseteq Users /\ O \subseteq Users
  BY DEF GroupSubject
<1>5. /\ x \in R!Subject /\ x.row /\ x.type = "Evaluation"
      /\ x.user = eval[e].owner /\ x.public = eval[e].public
      /\ u \in x.members <=> \E g \in GroupsOf(e) : <<u, g>> \in Members
      /\ u \in x.owners <=> \E g \in GroupsOf(e) : <<u, g>> \in Owners
  BY <1>2, <1>3, <1>4 DEF EvaluationSubject, R!Subject
<1> HIDE DEF a, x
<1>6. /\ \A action \in {"update", "delete"} :
           R!Can(a, action, x) <=> a.admin \/ x.user = a.id \/ a.id \in x.owners
      /\ R!Can(a, "read", x)
           <=> a.admin \/ x.user = a.id \/ a.id \in x.owners \/ x.public \/ a.id \in x.members
  BY <1>1, <1>5, R!EvaluationRights
<1>7. \A action \in {"update", "delete"} : R!Can(a, action, x) <=> MayManage(u, e)
  BY <1>1, <1>5, <1>6 DEF MayManage
<1>8. R!Can(a, "read", x) <=> MayRead(u, e)
  BY <1>1, <1>5, <1>6 DEF MayRead, MayManage
<1> QED
  BY <1>7, <1>8, SameRules DEF a, x

\* Whatever is uploaded, shared and deleted, who may read, change and share what is
\* what the rules of createForUser answer, for any users, groups and evaluations.
THEOREM RulesHold == Spec => []RulesAgree
<1>1. TypeOK => RulesAgree
  BY GroupSubjectRights, EvaluationSubjectRights DEF RulesAgree
<1> QED
  BY <1>1, TypeCorrect, PTL

-----------------------------------------------------------------------------
(* Readers, with one request at a time. *)

\* The request that goes on to share or to change an evaluation has been allowed to,
\* and still is: only additions come in between.
MayGoOn(s) ==
  /\ req[s].at = "reload" => MayManage(req[s].by, req[s].e)
  /\ req[s].at \in {"write", "add"} => MayRead(req[s].by, req[s].e)

Allowed == \A s \in Slots : MayGoOn(s)

LEMMA RightsStay ==
  ASSUME NEW u, NEW e, eval'[e] = eval[e], GroupsOf(e) \subseteq GroupsOf(e)'
  PROVE  (MayManage(u, e) => MayManage(u, e)') /\ (MayRead(u, e) => MayRead(u, e)')
  BY DEF MayManage, MayRead

LEMMA RightsGo ==
  ASSUME NEW u, NEW e, eval'[e] = eval[e], GroupsOf(e)' \subseteq GroupsOf(e), MayRead(u, e)'
  PROVE  MayRead(u, e)
  BY DEF MayManage, MayRead

\* Elsewhere there is nothing to be allowed.
LEMMA ElsewhereAllowed ==
  ASSUME OneAtATime, NEW s \in Slots, req'[s].at \notin {"reload", "write", "add"}
  PROVE  Allowed'
  BY DEF OneAtATime, Allowed, MayGoOn

LEMMA IdleAllowed ==
  ASSUME OneAtATime, TypeOK, NEW s \in Slots, Reply(s)
  PROVE  Allowed'
<1>1. req'[s].at = "idle"
  BY DEF Reply, Idle, TypeOK
<1> QED
  BY <1>1, ElsewhereAllowed

LEMMA GotoAllowed ==
  ASSUME OneAtATime, TypeOK, NEW s \in Slots, NEW stage, Goto(s, stage),
         stage \notin {"reload", "write", "add"}
  PROVE  Allowed'
<1>1. req'[s].at = stage
  BY DEF Goto, TypeOK, Request
<1> QED
  BY <1>1, ElsewhereAllowed

LEMMA AskAllowed ==
  ASSUME OneAtATime, TypeOK, NEW s \in Slots, Ask(s)
  PROVE  Allowed'
<1>1. req'[s].at \notin {"reload", "write", "add"}
  <2>1. CASE AskUpload(s)
    BY <2>1 DEF AskUpload, Begin, Idle, TypeOK
  <2>2. CASE AskKeyUpload(s)
    BY <2>2 DEF AskKeyUpload, Begin, Idle, TypeOK
  <2>3. CASE AskChange(s)
    BY <2>3 DEF AskChange, Begin, Idle, TypeOK
  <2>4. CASE AskRemoveTag(s)
    BY <2>4 DEF AskRemoveTag, Begin, Idle, TypeOK
  <2>5. CASE AskGroup(s)
    BY <2>5 DEF AskGroup, Begin, Idle, TypeOK
  <2> QED
    BY <2>1, <2>2, <2>3, <2>4, <2>5 DEF Ask
<1> QED
  BY <1>1, ElsewhereAllowed

LEMMA LoadAllowed ==
  ASSUME OneAtATime, TypeOK, NEW s \in Slots, Load(s)
  PROVE  Allowed'
<1>1. CASE Reply(s)
  BY <1>1, IdleAllowed
<1>2. CASE MayLoad(s) /\ Goto(s, AfterLoad[req[s].op])
  <2>1. req[s] \in Request /\ req[s].op \in DOMAIN AfterLoad
    BY GoodFromType DEF Load, GoodRequests, LocatedRequest
  <2>2. /\ req'[s].at = AfterLoad[req[s].op]
        /\ req'[s].by = req[s].by /\ req'[s].e = req[s].e
    BY <1>2, <2>1 DEF Goto, TypeOK, Request
  <2>3. UNCHANGED <<eval, share>>
    BY DEF Load
  <2>4. CASE req[s].op \in {"update", "remove"}
    <3>1. req'[s].at = "reload" /\ MayManage(req[s].by, req[s].e)
      BY <1>2, <2>2, <2>4 DEF AfterLoad, MayLoad
    <3>2. MayManage(req[s].by, req[s].e)'
      BY <2>2, <2>3, <3>1 DEF MayManage, GroupsOf
    <3> QED
      BY <3>1, <3>2 DEF OneAtATime, Allowed, MayGoOn
  <2>5. CASE req[s].op = "share"
    <3>1. req'[s].at = "add" /\ MayRead(req[s].by, req[s].e)
      BY <1>2, <2>2, <2>5 DEF AfterLoad, MayLoad
    <3>2. MayRead(req[s].by, req[s].e)'
      BY <2>2, <2>3, <3>1 DEF MayRead, MayManage, GroupsOf
    <3> QED
      BY <3>1, <3>2 DEF OneAtATime, Allowed, MayGoOn
  <2>6. CASE req[s].op \in {"addTag", "unshare"}
    <3>1. req'[s].at \notin {"reload", "write", "add"}
      BY <2>2, <2>6 DEF AfterLoad
    <3> QED
      BY <3>1, ElsewhereAllowed
  <2> QED
    BY <2>1, <2>4, <2>5, <2>6 DEF AfterLoad
<1> QED
  BY <1>1, <1>2 DEF Load

LEMMA ReloadAllowed ==
  ASSUME OneAtATime, TypeOK, Allowed, NEW s \in Slots, Reload(s)
  PROVE  Allowed'
<1>1. CASE Reply(s)
  BY <1>1, IdleAllowed
<1>2. CASE Goto(s, "write")
  <2>1. /\ req'[s].at = "write"
        /\ req'[s].by = req[s].by /\ req'[s].e = req[s].e
    BY <1>2 DEF Goto, TypeOK, Request
  <2>2. UNCHANGED <<eval, share>> /\ MayManage(req[s].by, req[s].e)
    BY DEF Reload, Allowed, MayGoOn
  <2>3. MayRead(req[s].by, req[s].e)'
    BY <2>1, <2>2 DEF MayRead, MayManage, GroupsOf
  <2> QED
    BY <2>1, <2>3 DEF OneAtATime, Allowed, MayGoOn
<1>3. CASE req' = [req EXCEPT ![s].at = "destroy", ![s].ts = TagsOf(req[s].e)]
  <2>1. req[s] \in Request
    BY DEF TypeOK
  <2>2. req'[s].at = "destroy"
    BY <1>3, <2>1 DEF TypeOK, Request
  <2> QED
    BY <2>2, ElsewhereAllowed
<1> QED
  BY <1>1, <1>2, <1>3 DEF Reload

LEMMA StepAllowed ==
  ASSUME OneAtATime, TypeOK, Allowed, NEW s \in Slots, Step(s)
  PROVE  Allowed'
<1>1. CASE FindGroups(s) \/ InsertEvaluation(s)
  <2>1. req[s] \in Request
    BY DEF TypeOK
  <2>2. Reply(s) \/ req'[s].at \in {"insert", "tags"}
    BY <1>1, <2>1 DEF FindGroups, InsertEvaluation, TypeOK, Request
  <2> QED
    BY <2>2, IdleAllowed, ElsewhereAllowed
<1>2. CASE InsertTags(s) \/ LoadTag(s) \/ ReloadTag(s) \/ LoadGroup(s)
  <2>1. \/ Reply(s)
        \/ \E stage \in {"offer", "reloadTag", "destroyTag", "destroyGroup", "load"} :
             Goto(s, stage)
    BY <1>2 DEF InsertTags, LoadTag, ReloadTag, LoadGroup
  <2> QED
    BY <2>1, IdleAllowed, GotoAllowed
<1>3. CASE \/ Offer(s) \/ Write(s) \/ Destroy(s) \/ InsertTag(s) \/ DestroyTag(s) \/ Add(s)
           \/ Drop(s) \/ DestroyGroup(s)
  BY <1>3, IdleAllowed DEF Offer, Write, Destroy, InsertTag, DestroyTag, Add, Drop, DestroyGroup
<1> QED
  BY <1>1, <1>2, <1>3, LoadAllowed, ReloadAllowed DEF Step

LEMMA NextAllowed == OneAtATime /\ TypeOK /\ Allowed /\ [Next]_vars => Allowed'
<1> SUFFICES ASSUME OneAtATime, TypeOK, Allowed, [Next]_vars PROVE Allowed'
  OBVIOUS
<1>1. ASSUME NEW e \in Evals, NEW g \in Groups, Land(e, g) PROVE Allowed'
  <2>1. CASE req' = [s \in Slots |-> Idle]
    BY <2>1 DEF Allowed, MayGoOn, Idle
  <2>2. CASE UNCHANGED req /\ share' = share \cup {<<e, g>>} /\ UNCHANGED eval
    <3>1. \A d : GroupsOf(d) \subseteq GroupsOf(d)'
      BY <2>2 DEF GroupsOf
    <3> QED
      BY <2>2, <3>1, RightsStay DEF Allowed, MayGoOn
  <2> QED
    BY <1>1, <2>1, <2>2 DEF Land
<1>2. CASE Restart \/ UNCHANGED vars
  BY <1>2 DEF Restart, vars, Allowed, MayGoOn, MayRead, MayManage, GroupsOf
<1> QED
  BY <1>1, <1>2, AskAllowed, StepAllowed DEF Next

\* Who may read an evaluation after a step, and could not before it.
LEMMA NewReader ==
  ASSUME OneAtATime, TypeOK, Allowed, [Next]_vars, NEW u \in Users, NEW e \in Evals,
         Live(e), ~MayRead(u, e), MayRead(u, e)'
  PROVE  \/ \E g \in Groups : <<e, g>> \in adding
         \/ \E s \in Slots : /\ req[s].at \in {"write", "add"} /\ req[s].e = e
                             /\ MayRead(req[s].by, e)
<1>1. CASE eval'[e] = eval[e] /\ GroupsOf(e)' \subseteq GroupsOf(e)
  BY <1>1, RightsGo
<1>2. ASSUME NEW s \in Slots, Ask(s) PROVE UNCHANGED <<eval, share>>
  BY <1>2 DEF Ask, AskUpload, AskKeyUpload, AskChange, AskRemoveTag, AskGroup, Begin
<1>3. CASE UNCHANGED <<eval, share>>
  BY <1>1, <1>3 DEF GroupsOf
<1>4. ASSUME NEW s \in Slots, InsertEvaluation(s) PROVE eval'[e] = eval[e] /\ share' = share
  BY <1>4 DEF InsertEvaluation, Live, TypeOK
<1>5. ASSUME NEW s \in Slots, Write(s), req[s].e # e PROVE eval'[e] = eval[e] /\ share' = share
  BY <1>5 DEF Write, TypeOK
<1>6. ASSUME NEW s \in Slots, Destroy(s)
      PROVE  eval'[e] = eval[e] /\ GroupsOf(e)' \subseteq GroupsOf(e)
  <2>1. CASE req[s].e = e
    <3>1. eval'[e] = GoneRow /\ GroupsOf(e)' = {}
      BY <1>6, <2>1 DEF Destroy, TypeOK, GroupsOf
    <3>2. u \in Admins
      BY <3>1 DEF MayRead, MayManage, GoneRow, NewRow
    <3> QED
      BY <3>2 DEF MayRead, MayManage
  <2>2. CASE req[s].e # e
    BY <1>6, <2>2 DEF Destroy, TypeOK, GroupsOf
  <2> QED
    BY <2>1, <2>2
<1>7. ASSUME NEW s \in Slots, Add(s), req[s].e # e
      PROVE  eval'[e] = eval[e] /\ GroupsOf(e)' \subseteq GroupsOf(e)
  BY <1>7 DEF Add, GroupsOf
<1>8. ASSUME NEW s \in Slots, Drop(s) \/ DestroyGroup(s)
      PROVE  eval'[e] = eval[e] /\ GroupsOf(e)' \subseteq GroupsOf(e)
  BY <1>8 DEF Drop, DestroyGroup, GroupsOf
<1>9. ASSUME NEW s \in Slots, Write(s) \/ Add(s), req[s].e = e
      PROVE  req[s].at \in {"write", "add"} /\ MayRead(req[s].by, e)
  BY <1>9 DEF Write, Add, Allowed, MayGoOn
<1>10. ASSUME NEW s \in Slots,
              \/ FindGroups(s) \/ InsertTags(s) \/ Offer(s) \/ Load(s) \/ Reload(s) \/ InsertTag(s)
              \/ LoadTag(s) \/ ReloadTag(s) \/ DestroyTag(s) \/ LoadGroup(s)
       PROVE  UNCHANGED <<eval, share>>
  BY <1>10 DEF FindGroups, InsertTags, Offer, Load, Reload, InsertTag, LoadTag, ReloadTag,
               DestroyTag, LoadGroup
<1>11. ASSUME NEW d \in Evals, NEW g \in Groups, Land(d, g), <<e, g>> \notin adding
       PROVE  eval'[e] = eval[e] /\ GroupsOf(e)' \subseteq GroupsOf(e)
  BY <1>11 DEF Land, GroupsOf
<1>12. CASE Restart \/ UNCHANGED vars
  BY <1>3, <1>12 DEF Restart, vars
<1>13. ASSUME NEW s \in Slots, Step(s)
       PROVE  \/ req[s].at \in {"write", "add"} /\ req[s].e = e /\ MayRead(req[s].by, e)
              \/ eval'[e] = eval[e] /\ GroupsOf(e)' \subseteq GroupsOf(e)
  <2>1. share' = share => GroupsOf(e)' \subseteq GroupsOf(e)
    BY DEF GroupsOf
  <2> QED
    BY <1>4, <1>5, <1>6, <1>7, <1>8, <1>9, <1>10, <1>13, <2>1 DEF Step
<1>14. CASE \E s \in Slots : Ask(s) \/ Step(s)
  BY <1>1, <1>2, <1>3, <1>13, <1>14
<1>15. CASE \E d \in Evals, g \in Groups : Land(d, g)
  BY <1>1, <1>11, <1>15
<1> QED
  BY <1>12, <1>14, <1>15 DEF Next

\* With one request at a time, only a reader of an evaluation lets others read it, for
\* any users, groups and evaluations and whatever additions still land.
THEOREM SerialReaders ==
  ASSUME OneAtATime
  PROVE  Spec => ReadersAdmitReaders
<1>1. Init => Allowed
  BY DEF Init, Allowed, MayGoOn, Idle
<1>2. TypeOK /\ Allowed /\ [Next]_vars => Allowed'
  BY NextAllowed
<1>3. TypeOK /\ Allowed /\ [Next]_vars =>
        [\A u \in Users, e \in Evals :
           Live(e) /\ ~MayRead(u, e) /\ MayRead(u, e)' =>
             \/ \E g \in Groups : <<e, g>> \in adding
             \/ \E s \in Slots :
                  req[s].at \in {"write", "add"} /\ req[s].e = e /\ MayRead(req[s].by, e)
        ]_vars
  BY NewReader
<1> QED
  BY <1>1, <1>2, <1>3, TypeCorrect, PTL DEF Spec, ReadersAdmitReaders
=============================================================================
