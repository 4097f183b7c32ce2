--------------------------- MODULE AccountsProofs ---------------------------
(***************************************************************************)
(* Proofs about Accounts for every number of users, groups and requests.   *)
(***************************************************************************)
EXTENDS MCAccounts, FiniteSetTheorems, TLAPS

USE DEF NoUser

-----------------------------------------------------------------------------
(* Type correctness. *)

LEMMA IdleType == Idle \in Request
  BY DEF Idle, NewRequest, NoParams, Request, Stages, AllOps, UserRoles, GroupRoles, NoRow

LEMMA OffType == Off \in Task
  BY DEF Off, Task, Phases, GroupRoles, NoRow

LEMMA EnsureOwnerType ==
  ASSUME NEW u \in Users \cup {NoUser}
  PROVE  EnsureOwner(u) \in Task
  BY DEF EnsureOwner, Task, Phases, GroupRoles, NoRow

LEMMA AddUserType ==
  ASSUME NEW u \in Users \cup {NoUser}, NEW role \in GroupRoles
  PROVE  AddUser(u, role) \in Task
  BY DEF AddUser, Task, Phases, GroupRoles, NoRow

\* Starting tasks and answering keep the shapes of tasks and requests.
LEMMA BeginType ==
  ASSUME TypeOK, NEW s \in Slots, NEW G, NEW t \in Task, Begin(s, G, t)
  PROVE  task' \in [Slots \X Groups -> Task]
  BY OffType DEF TypeOK, Begin

LEMMA ReplyType ==
  ASSUME TypeOK, NEW s \in Slots, Reply(s)
  PROVE  /\ req' \in [Slots -> Request]
         /\ task' \in [Slots \X Groups -> Task]
  <1>1. req' \in [Slots -> Request]
    BY IdleType DEF TypeOK, Reply
  <1>2. task' \in [Slots \X Groups -> Task]
    BY BeginType, OffType DEF Reply
  <1> QED BY <1>1, <1>2

LEMMA GotoType ==
  ASSUME TypeOK, NEW s \in Slots, NEW stage \in Stages, Goto(s, stage)
  PROVE  req' \in [Slots -> Request]
  <1>1. req[s] \in Request
    BY DEF TypeOK
  <1>2. [req[s] EXCEPT !.at = stage] \in Request
    BY <1>1 DEF Request
  <1>3. req' = [req EXCEPT ![s] = [req[s] EXCEPT !.at = stage]]
    BY DEF Goto
  <1> QED BY <1>2, <1>3 DEF TypeOK

LEMMA AdvanceType ==
  ASSUME TypeOK, NEW s \in Slots, NEW g \in Groups, NEW ph \in Phases, Advance(s, g, ph)
  PROVE  task' \in [Slots \X Groups -> Task]
  BY DEF TypeOK, Advance, Task

LEMMA AdvancePhase ==
  ASSUME TypeOK, NEW s \in Slots, NEW g \in Groups, NEW ph, Advance(s, g, ph)
  PROVE  task'[<<s, g>>].ph = ph
  <1>1. task[<<s, g>>] \in Task
    BY DEF TypeOK
  <1>2. task'[<<s, g>>] = [task[<<s, g>>] EXCEPT !.ph = ph]
    BY DEF Advance, TypeOK
  <1> QED BY <1>1, <1>2 DEF Task

LEMMA WithRoleType ==
  ASSUME TypeOK, NEW read \in Row \cup {NoRow}, NEW role \in GroupRoles
  PROVE  WithRole(read, role) \subseteq Row
  BY DEF TypeOK, WithRole, Row

LEMMA InitType == Init => TypeOK
  <1> SUFFICES ASSUME Init PROVE TypeOK
    OBVIOUS
  <1>1. account \in [Users -> UserRoles \cup {"new", "gone"}]
    BY DEF Init, UserRoles
  <1>2. /\ group \in [Groups -> {"new", "live", "gone"}]
        /\ rows \subseteq Row
    BY DEF Init
  <1>3. req \in [Slots -> Request] /\ task \in [Slots \X Groups -> Task]
    BY IdleType, OffType DEF Init
  <1> QED BY <1>1, <1>2, <1>3 DEF TypeOK

LEMMA ParamsType ==
  ASSUME NEW op \in AllOps, NEW q \in ParamsOf(op)
  PROVE  q \in Params /\ FirstStage(op) \in Stages
  <1>1. CASE op = "createGroup"
    BY <1>1 DEF ParamsOf, SomeParams, Params, FirstStage, Stages, UserRoles, GroupRoles
  <1>2. CASE op = "removeGroup"
    BY <1>2 DEF ParamsOf, SomeParams, Params, FirstStage, Stages, UserRoles, GroupRoles
  <1>3. CASE op = "removeUser"
    BY <1>3 DEF ParamsOf, SomeParams, Params, FirstStage, Stages, UserRoles, GroupRoles
  <1>4. CASE op = "addUser"
    BY <1>4 DEF ParamsOf, SomeParams, Params, FirstStage, Stages, UserRoles, GroupRoles
  <1>5. CASE op = "setRole"
    BY <1>5 DEF ParamsOf, SomeParams, Params, FirstStage, Stages, UserRoles, GroupRoles
  <1>6. CASE op = "updateUser"
    BY <1>6 DEF ParamsOf, SomeParams, Params, FirstStage, Stages, UserRoles, GroupRoles
  <1>7. CASE op = "deleteUser"
    BY <1>7 DEF ParamsOf, SomeParams, Params, FirstStage, Stages, UserRoles, GroupRoles
  <1>8. CASE op = "sync"
    BY <1>8 DEF ParamsOf, SomeParams, Params, FirstStage, Stages, UserRoles, GroupRoles
  <1> QED BY <1>1, <1>2, <1>3, <1>4, <1>5, <1>6, <1>7, <1>8 DEF AllOps

LEMMA ReceiveType ==
  ASSUME TypeOK, NEW s \in Slots, Receive(s)
  PROVE  TypeOK'
  <1>1. PICK op \in Ops, by \in Users :
          /\ Exists(by)
          /\ \E q \in ParamsOf(op) :
               req' = [req EXCEPT ![s] = NewRequest(FirstStage(op), op, by, account[by], q)]
    BY DEF Receive
  <1>2. PICK q \in ParamsOf(op) :
          req' = [req EXCEPT ![s] = NewRequest(FirstStage(op), op, by, account[by], q)]
    BY <1>1
  <1>3. /\ op \in AllOps /\ q \in Params /\ FirstStage(op) \in Stages
        /\ account[by] \in UserRoles
    BY <1>1, <1>2, ParamsType, OpsAssumption DEF Exists
  <1>4. NewRequest(FirstStage(op), op, by, account[by], q) \in Request
    BY <1>1, <1>3 DEF NewRequest, Request, Params, UserRoles
  <1>5. req' \in [Slots -> Request]
    BY <1>2, <1>4 DEF TypeOK
  <1> QED BY <1>5 DEF Receive, TypeOK

LEMMA RegisterType == ASSUME TypeOK, Register PROVE TypeOK'
  BY DEF TypeOK, Register, UserRoles

LEMMA GroupStepType ==
  ASSUME TypeOK, NEW s \in Slots, GroupStep(s)
  PROVE  TypeOK'
  <1>0. /\ req[s] \in Request
        /\ req[s].by \in Users \cup {NoUser} /\ req[s].user \in Users \cup {NoUser}
        /\ req[s].row \in Row \cup {NoRow} /\ req[s].groupRole \in GroupRoles
    BY DEF TypeOK, Request
  <1>1. CASE InsertGroup(s)
    <2>1. CASE Reply(s) /\ UNCHANGED group
      BY <1>1, <2>1, ReplyType DEF InsertGroup, TypeOK
    <2>2. CASE ~(Reply(s) /\ UNCHANGED group)
      <3>1. PICK g \in Groups :
              /\ group' = [group EXCEPT ![g] = "live"]
              /\ req' = [req EXCEPT ![s].at = "adding", ![s].group = g]
              /\ Begin(s, {g}, AddUser(req[s].by, "owner"))
        BY <1>1, <2>2 DEF InsertGroup
      <3>2. [req[s] EXCEPT !.at = "adding", !.group = g] \in Request
        BY <1>0 DEF Request, Stages
      <3>3. req' \in [Slots -> Request]
        BY <3>1, <3>2 DEF TypeOK
      <3>4. AddUser(req[s].by, "owner") \in Task
        BY <1>0, AddUserType DEF GroupRoles
      <3>5. task' \in [Slots \X Groups -> Task]
        BY <3>1, <3>4, BeginType
      <3> QED BY <1>1, <3>1, <3>3, <3>5 DEF InsertGroup, TypeOK
    <2> QED BY <2>1, <2>2
  <1>2. CASE LoadGroup(s)
    <2>1. CASE Reply(s)
      BY <1>2, <2>1, ReplyType DEF LoadGroup, TypeOK
    <2>2. CASE Goto(s, AfterLoad(req[s].op)) /\ UNCHANGED task
      <3>1. AfterLoad(req[s].op) \in Stages
        BY DEF AfterLoad, Stages
      <3> QED BY <1>2, <2>2, <3>1, GotoType DEF LoadGroup, TypeOK
    <2> QED BY <1>2, <2>1, <2>2 DEF LoadGroup
  <1>3. CASE FindTarget(s)
    <2>0. "adding" \in Stages /\ "removing" \in Stages
      BY DEF Stages
    <2>1. CASE Reply(s)
      BY <1>3, <2>1, ReplyType DEF FindTarget, TypeOK
    <2>2. CASE /\ Goto(s, "adding")
               /\ Begin(s, {req[s].group}, AddUser(req[s].user, req[s].groupRole))
      BY <1>0, <1>3, <2>0, <2>2, GotoType, BeginType, AddUserType DEF FindTarget, TypeOK
    <2>3. CASE Goto(s, "removing") /\ Begin(s, {req[s].group}, EnsureOwner(req[s].user))
      BY <1>0, <1>3, <2>0, <2>3, GotoType, BeginType, EnsureOwnerType DEF FindTarget, TypeOK
    <2> QED BY <1>3, <2>1, <2>2, <2>3 DEF FindTarget
  <1>4. CASE FindMembership(s)
    <2>1. CASE Reply(s)
      BY <1>4, <2>1, ReplyType DEF FindMembership, TypeOK
    <2>2. CASE ~Reply(s)
      <3>1. PICK x \in RowsOf(req[s].group, req[s].user) :
              /\ req' = [req EXCEPT ![s].at = "demoting", ![s].row = x]
              /\ Begin(s, {req[s].group}, EnsureOwner(req[s].user))
        BY <1>4, <2>2 DEF FindMembership
      <3>2. x \in Row
        BY DEF RowsOf, TypeOK
      <3>3. [req[s] EXCEPT !.at = "demoting", !.row = x] \in Request
        BY <1>0, <3>2 DEF Request, Stages
      <3>4. req' \in [Slots -> Request]
        BY <3>1, <3>3 DEF TypeOK
      <3>5. task' \in [Slots \X Groups -> Task]
        BY <1>0, <3>1, BeginType, EnsureOwnerType
      <3> QED BY <1>4, <3>4, <3>5 DEF FindMembership, TypeOK
    <2> QED BY <2>1, <2>2
  <1>5. CASE FinishAdd(s)
    BY <1>5, ReplyType DEF FinishAdd, TypeOK
  <1>6. CASE RemoveMember(s)
    BY <1>6, ReplyType DEF RemoveMember, TypeOK
  <1>7. CASE SetMemberRole(s)
    <2>1. rows' \subseteq Row
      BY <1>0, <1>7, WithRoleType DEF SetMemberRole, TypeOK
    <2> QED BY <1>7, <2>1, ReplyType DEF SetMemberRole, TypeOK
  <1>8. CASE DestroyGroup(s)
    <2>1. group' \in [Groups -> {"new", "live", "gone"}] /\ rows' \subseteq Row
      BY <1>8 DEF DestroyGroup, TypeOK
    <2> QED BY <1>8, <2>1, ReplyType DEF DestroyGroup, TypeOK
  <1> QED BY <1>1, <1>2, <1>3, <1>4, <1>5, <1>6, <1>7, <1>8 DEF GroupStep

LEMMA UserStepType ==
  ASSUME TypeOK, NEW s \in Slots, UserStep(s)
  PROVE  TypeOK'
  <1>0. /\ req[s] \in Request
        /\ req[s].user \in Users \cup {NoUser} /\ req[s].role \in UserRoles
    BY DEF TypeOK, Request
  <1>1. CASE LoadUser(s)
    <2>1. CASE Reply(s)
      BY <1>1, <2>1, ReplyType DEF LoadUser, TypeOK
    <2>2. CASE ~Reply(s)
      <3> DEFINE stage == IF req[s].op = "updateUser" THEN "save" ELSE "count"
      <3>1. /\ Exists(req[s].user)
            /\ req' = [req EXCEPT ![s].at = stage, ![s].seen = account[req[s].user]]
            /\ UNCHANGED task
        BY <1>1, <2>2 DEF LoadUser
      <3>2. account[req[s].user] \in UserRoles /\ stage \in Stages
        BY <3>1 DEF Exists, Stages
      <3>3. [req[s] EXCEPT !.at = stage, !.seen = account[req[s].user]] \in Request
        BY <1>0, <3>2 DEF Request
      <3>4. req' \in [Slots -> Request]
        BY <3>1, <3>3 DEF TypeOK
      <3> QED BY <1>1, <3>1, <3>4 DEF LoadUser, TypeOK
    <2> QED BY <2>1, <2>2
  <1>2. CASE UpdateUser(s)
    <2>1. account' \in [Users -> UserRoles \cup {"new", "gone"}]
      BY <1>0, <1>2 DEF UpdateUser, TypeOK
    <2> QED BY <1>2, <2>1, ReplyType DEF UpdateUser, TypeOK
  <1>3. CASE CountAdmins(s)
    <2>1. "groups" \in Stages
      BY DEF Stages
    <2> QED BY <1>3, <2>1, ReplyType, GotoType DEF CountAdmins, TypeOK
  <1>4. CASE ListGroups(s)
    <2>1. "cleaning" \in Stages
      BY DEF Stages
    <2> QED BY <1>0, <1>4, <2>1, GotoType, BeginType, EnsureOwnerType DEF ListGroups, TypeOK
  <1>5. CASE DestroyUser(s)
    <2>1. "drain" \in Stages
      BY DEF Stages
    <2>2. CASE Goto(s, "drain") /\ UNCHANGED <<account, rows, task>>
      BY <1>5, <2>1, <2>2, GotoType DEF DestroyUser, TypeOK
    <2>3. CASE ~(Goto(s, "drain") /\ UNCHANGED <<account, rows, task>>)
      <3>1. /\ account' = [account EXCEPT ![req[s].user] = "gone"]
            /\ rows' = {x \in rows : x.user # req[s].user}
            /\ Reply(s)
        BY <1>5, <2>3 DEF DestroyUser
      <3>2. account' \in [Users -> UserRoles \cup {"new", "gone"}] /\ rows' \subseteq Row
        BY <3>1 DEF TypeOK
      <3> QED BY <1>5, <3>1, <3>2, ReplyType DEF DestroyUser, TypeOK
    <2> QED BY <2>2, <2>3
  <1>6. CASE Drain(s)
    BY <1>6, ReplyType DEF Drain, TypeOK
  <1> QED BY <1>1, <1>2, <1>3, <1>4, <1>5, <1>6 DEF UserStep

LEMMA SyncStepType ==
  ASSUME TypeOK, NEW s \in Slots, SyncStep(s)
  PROVE  TypeOK'
  <1>0. /\ req[s] \in Request
        /\ req[s].user \in Users \cup {NoUser}
        /\ req[s].joined \subseteq Groups /\ req[s].leave \subseteq Groups
    BY DEF TypeOK, Request
  <1>s. {"leave", "leaving", "joining", "dangling", "drain"} \subseteq Stages
    BY DEF Stages
  <1>t. EnsureOwner(req[s].user) \in Task /\ AddUser(req[s].user, "member") \in Task
    BY <1>0, EnsureOwnerType, AddUserType DEF GroupRoles
  <1>1. CASE ReadCurrentGroups(s)
    <2> DEFINE joined == {g \in Groups : InGroup(g, req[s].user)}
               r == [req[s] EXCEPT !.at = "leave", !.joined = joined,
                                   !.leave = joined \ req[s].names]
    <2>1. r \in Request
      BY <1>0, <1>s DEF Request
    <2>2. req' = [req EXCEPT ![s] = r]
      BY <1>1 DEF ReadCurrentGroups
    <2> HIDE DEF r
    <2>3. req' \in [Slots -> Request]
      BY <2>1, <2>2 DEF TypeOK
    <2> QED BY <1>1, <2>3 DEF ReadCurrentGroups, TypeOK
  <1>2. CASE LeaveNext(s)
    <2>1. PICK g \in req[s].leave :
            /\ req' = [req EXCEPT ![s].at = "leaving", ![s].group = g,
                                  ![s].leave = @ \ {g}]
            /\ Begin(s, {g}, EnsureOwner(req[s].user))
      BY <1>2 DEF LeaveNext
    <2>2. [req[s] EXCEPT !.at = "leaving", !.group = g, !.leave = @ \ {g}] \in Request
      BY <1>0, <1>s DEF Request
    <2>3. req' \in [Slots -> Request]
      BY <2>1, <2>2 DEF TypeOK
    <2> QED BY <1>2, <1>t, <2>1, <2>3, BeginType DEF LeaveNext, TypeOK
  <1>3. CASE LeaveGroup(s)
    <2>1. [req[s] EXCEPT !.at = "leave", !.group = NoGroup] \in Request
      BY <1>0, <1>s DEF Request
    <2>2. req' \in [Slots -> Request]
      BY <1>3, <2>1 DEF LeaveGroup, TypeOK
    <2>3. rows' \subseteq Row
      BY <1>3 DEF LeaveGroup, TypeOK
    <2>4. task' \in [Slots \X Groups -> Task]
      BY <1>3, OffType, BeginType DEF LeaveGroup
    <2> QED BY <1>3, <2>2, <2>3, <2>4 DEF LeaveGroup, TypeOK
  <1>4. CASE JoinGroups(s)
    BY <1>4, <1>s, <1>t, GotoType, BeginType DEF JoinGroups, TypeOK
  <1>5. CASE CheckDangling(s)
    BY <1>5, <1>s, <1>t, GotoType, BeginType DEF CheckDangling, TypeOK
  <1>6. CASE FinishSync(s)
    BY <1>6, <1>s, GotoType, ReplyType DEF FinishSync, TypeOK
  <1> QED BY <1>1, <1>2, <1>3, <1>4, <1>5, <1>6 DEF SyncStep

LEMMA TaskStepType ==
  ASSUME TypeOK, NEW s \in Slots, NEW g \in Groups, TaskStep(s, g)
  PROVE  TypeOK'
  <1>0. /\ task[<<s, g>>] \in Task
        /\ task[<<s, g>>].user \in Users \cup {NoUser}
        /\ task[<<s, g>>].role \in GroupRoles
        /\ task[<<s, g>>].row \in Row \cup {NoRow}
    BY DEF TypeOK, Task
  <1>p. {"default", "lowest", "within", "promote", "look", "insert", "update", "done", "failed"}
          \subseteq Phases
    BY DEF Phases
  <1>1. CASE ReadOwners(s, g)
    BY <1>1, <1>p, AdvanceType DEF ReadOwners, TypeOK
  <1>2. CASE FindDefaultAdmin(s, g)
    <2>1. [task[<<s, g>>] EXCEPT !.ph = "within", !.user = DefaultAdmin] \in Task
      BY <1>0, <1>p, AdminAssumption DEF Task
    <2>2. CASE DefaultAdmin \in Admins
      BY <1>2, <2>1, <2>2 DEF FindDefaultAdmin, TypeOK
    <2>3. CASE DefaultAdmin \notin Admins
      BY <1>2, <1>p, <2>3, AdvanceType DEF FindDefaultAdmin, TypeOK
    <2> QED BY <2>2, <2>3
  <1>3. CASE FindLowestAdmin(s, g)
    <2>1. CASE Advance(s, g, "failed")
      BY <1>3, <1>p, <2>1, AdvanceType DEF FindLowestAdmin, TypeOK
    <2>2. CASE ~Advance(s, g, "failed")
      <3>1. PICK a \in Admins :
              task' = [task EXCEPT ![<<s, g>>].ph = "within", ![<<s, g>>].user = a]
        BY <1>3, <2>2 DEF FindLowestAdmin
      <3>2. [task[<<s, g>>] EXCEPT !.ph = "within", !.user = a] \in Task
        BY <1>0, <1>p DEF Task, Admins
      <3> QED BY <1>3, <3>1, <3>2 DEF FindLowestAdmin, TypeOK
    <2> QED BY <2>1, <2>2
  <1>4. CASE FindAdminInGroup(s, g)
    <2>1. CASE Advance(s, g, "look")
      BY <1>4, <1>p, <2>1, AdvanceType DEF FindAdminInGroup, TypeOK
    <2>2. CASE ~Advance(s, g, "look")
      <3>1. PICK x \in RowsOf(g, task[<<s, g>>].user) :
              task' = [task EXCEPT ![<<s, g>>].ph = "promote", ![<<s, g>>].row = x]
        BY <1>4, <2>2 DEF FindAdminInGroup
      <3>2. x \in Row
        BY DEF RowsOf, TypeOK
      <3>3. [task[<<s, g>>] EXCEPT !.ph = "promote", !.row = x] \in Task
        BY <1>0, <1>p, <3>2 DEF Task
      <3> QED BY <1>4, <3>1, <3>3 DEF FindAdminInGroup, TypeOK
    <2> QED BY <2>1, <2>2
  <1>5. CASE PromoteAdmin(s, g)
    <2>1. rows' \subseteq Row
      BY <1>0, <1>5, WithRoleType DEF PromoteAdmin, GroupRoles
    <2>2. [task[<<s, g>>] EXCEPT !.ph = "done", !.row = NoRow] \in Task
      BY <1>0, <1>p DEF Task
    <2> QED BY <1>5, <2>1, <2>2 DEF PromoteAdmin, TypeOK
  <1>6. CASE LookUpRow(s, g)
    BY <1>6, <1>p, AdvanceType DEF LookUpRow, TypeOK
  <1>7. CASE InsertRow(s, g)
    <2>1. rows' = rows => rows' \subseteq Row
      BY DEF TypeOK
    <2>2. ASSUME rows' # rows PROVE rows' \subseteq Row
      <3>1. PICK i \in RowIds :
              rows' = rows \cup {[id |-> i, group |-> g, user |-> task[<<s, g>>].user,
                                 role |-> task[<<s, g>>].role]}
        BY <1>7, <2>2 DEF InsertRow
      <3>2. task[<<s, g>>].user \in Users
        BY <1>7, <2>2 DEF InsertRow, Exists
      <3>3. task[<<s, g>>].role \in GroupRoles
        BY <1>0
      <3>4. [id |-> i, group |-> g, user |-> task[<<s, g>>].user, role |-> task[<<s, g>>].role] \in Row
        BY <3>2, <3>3 DEF Row
      <3> QED BY <3>1, <3>4 DEF TypeOK
    <2>3. rows' \subseteq Row
      BY <2>1, <2>2
    <2>4. task' \in [Slots \X Groups -> Task]
      BY <1>7, <1>p, AdvanceType DEF InsertRow
    <2> QED BY <1>7, <2>3, <2>4 DEF InsertRow, TypeOK
  <1>8. CASE UpdateRows(s, g)
    <2>1. rows' \subseteq Row
      BY <1>0, <1>8 DEF UpdateRows, TypeOK, Row
    <2> QED BY <1>8, <1>p, <2>1, AdvanceType DEF UpdateRows, TypeOK
  <1> QED BY <1>1, <1>2, <1>3, <1>4, <1>5, <1>6, <1>7, <1>8 DEF TaskStep

\* Every variable keeps its shape, however many requests are in flight.
THEOREM TypeCorrect == Spec => []TypeOK
  <1>1. TypeOK /\ [Next]_vars => TypeOK'
    <2> SUFFICES ASSUME TypeOK, [Next]_vars PROVE TypeOK'
      OBVIOUS
    <2>1. CASE UNCHANGED vars
      BY <2>1 DEF TypeOK, vars
    <2>2. CASE Next
      BY <2>2, RegisterType, ReceiveType, GroupStepType, UserStepType, SyncStepType,
         TaskStepType DEF Next, Step
    <2> QED BY <2>1, <2>2
  <1> QED BY InitType, <1>1, PTL DEF Spec

-----------------------------------------------------------------------------
(* Referential integrity, with any number of requests in flight. *)

\* A statement that rewrites the role of rows moves no row.
LEMMA WithRoleMovesNothing ==
  ASSUME TypeOK, NoDanglingRows, NEW read \in Row \cup {NoRow}, NEW role \in GroupRoles
  PROVE  \A x \in WithRole(read, role) : Exists(x.user) /\ group[x.group] = "live"
  BY DEF TypeOK, NoDanglingRows, WithRole, Row

\* Where no row appears and no user or group disappears, no row is left dangling.
LEMMA FewerRowsDangle ==
  ASSUME TypeOK, NoDanglingRows, rows' \subseteq rows, UNCHANGED <<account, group>>
  PROVE  NoDanglingRows'
  BY DEF NoDanglingRows, Exists

LEMMA GroupStepKeepsReferences ==
  ASSUME TypeOK, NoDanglingRows, NEW s \in Slots, GroupStep(s)
  PROVE  NoDanglingRows'
  <1>1. CASE InsertGroup(s)
    BY <1>1 DEF InsertGroup, NoDanglingRows, TypeOK, Row, Exists
  <1>2. CASE LoadGroup(s) \/ FindTarget(s) \/ FindMembership(s) \/ FinishAdd(s)
    BY <1>2, FewerRowsDangle DEF LoadGroup, FindTarget, FindMembership, FinishAdd
  <1>3. CASE RemoveMember(s)
    BY <1>3, FewerRowsDangle DEF RemoveMember
  <1>4. CASE SetMemberRole(s)
    <2>1. req[s].row \in Row \cup {NoRow} /\ req[s].groupRole \in GroupRoles
      BY DEF TypeOK, Request
    <2>2. \A x \in rows' : Exists(x.user) /\ group[x.group] = "live"
      BY <1>4, <2>1, WithRoleMovesNothing DEF SetMemberRole, NoDanglingRows
    <2> QED BY <1>4, <2>2 DEF SetMemberRole, NoDanglingRows, Exists
  <1>5. CASE DestroyGroup(s)
    BY <1>5 DEF DestroyGroup, NoDanglingRows, TypeOK, Row, Exists
  <1> QED BY <1>1, <1>2, <1>3, <1>4, <1>5 DEF GroupStep

LEMMA UserStepKeepsReferences ==
  ASSUME TypeOK, NoDanglingRows, NEW s \in Slots, UserStep(s)
  PROVE  NoDanglingRows'
  <1>1. CASE LoadUser(s) \/ CountAdmins(s) \/ ListGroups(s) \/ Drain(s)
    BY <1>1, FewerRowsDangle DEF LoadUser, CountAdmins, ListGroups, Drain
  <1>2. CASE UpdateUser(s)
    <2>1. req[s].role \in UserRoles
      BY DEF TypeOK, Request
    <2>2. \A u \in Users : Exists(u) => account'[u] \in UserRoles
      BY <1>2, <2>1 DEF UpdateUser, TypeOK, Exists
    <2> QED BY <1>2, <2>2 DEF UpdateUser, NoDanglingRows, Exists
  <1>3. CASE DestroyUser(s)
    <2>1. CASE UNCHANGED <<account, rows, task>>
      BY <1>3, <2>1, FewerRowsDangle DEF DestroyUser
    <2>2. CASE ~UNCHANGED <<account, rows, task>>
      <3>1. /\ account' = [account EXCEPT ![req[s].user] = "gone"]
            /\ rows' = {x \in rows : x.user # req[s].user}
            /\ UNCHANGED group
        BY <1>3, <2>2 DEF DestroyUser
      <3> QED BY <3>1 DEF NoDanglingRows, TypeOK, Row, Exists
    <2> QED BY <2>1, <2>2
  <1> QED BY <1>1, <1>2, <1>3 DEF UserStep

LEMMA SyncStepKeepsReferences ==
  ASSUME TypeOK, NoDanglingRows, NEW s \in Slots, SyncStep(s)
  PROVE  NoDanglingRows'
  BY FewerRowsDangle DEF SyncStep, ReadCurrentGroups, LeaveNext, LeaveGroup, JoinGroups,
     CheckDangling, FinishSync

LEMMA TaskStepKeepsReferences ==
  ASSUME TypeOK, NoDanglingRows, NEW s \in Slots, NEW g \in Groups, TaskStep(s, g)
  PROVE  NoDanglingRows'
  <1>1. CASE \/ ReadOwners(s, g) \/ FindDefaultAdmin(s, g) \/ FindLowestAdmin(s, g)
             \/ FindAdminInGroup(s, g) \/ LookUpRow(s, g)
    BY <1>1, FewerRowsDangle
       DEF ReadOwners, FindDefaultAdmin, FindLowestAdmin, FindAdminInGroup, LookUpRow
  <1>2. CASE PromoteAdmin(s, g)
    <2>1. task[<<s, g>>].row \in Row \cup {NoRow}
      BY DEF TypeOK, Task
    <2>2. \A x \in rows' : Exists(x.user) /\ group[x.group] = "live"
      BY <1>2, <2>1, WithRoleMovesNothing DEF PromoteAdmin, GroupRoles
    <2> QED BY <1>2, <2>2 DEF PromoteAdmin, NoDanglingRows, Exists
  <1>3. CASE InsertRow(s, g)
    <2>1. \A x \in rows' : Exists(x.user) /\ group[x.group] = "live"
      BY <1>3 DEF InsertRow, NoDanglingRows
    <2> QED BY <1>3, <2>1 DEF InsertRow, NoDanglingRows, Exists
  <1>4. CASE UpdateRows(s, g)
    <2>1. \A x \in rows' : Exists(x.user) /\ group[x.group] = "live"
      BY <1>4 DEF UpdateRows, NoDanglingRows, TypeOK, Row
    <2> QED BY <1>4, <2>1 DEF UpdateRows, NoDanglingRows, Exists
  <1> QED BY <1>1, <1>2, <1>3, <1>4 DEF TaskStep

\* However requests interleave, no membership outlives its user or its group.
THEOREM ReferencesHold == Spec => []NoDanglingRows
  <1>1. Init => NoDanglingRows
    BY DEF Init, NoDanglingRows
  <1>2. TypeOK /\ NoDanglingRows /\ [Next]_vars => NoDanglingRows'
    <2> SUFFICES ASSUME TypeOK, NoDanglingRows, [Next]_vars PROVE NoDanglingRows'
      OBVIOUS
    <2>1. CASE UNCHANGED vars
      BY <2>1 DEF NoDanglingRows, Exists, vars
    <2>2. CASE Register
      BY <2>2 DEF Register, NoDanglingRows, TypeOK, Row, Exists, UserRoles
    <2>3. ASSUME NEW s \in Slots, Receive(s) PROVE NoDanglingRows'
      BY <2>3, FewerRowsDangle DEF Receive
    <2> QED BY <2>1, <2>2, <2>3, GroupStepKeepsReferences, UserStepKeepsReferences,
               SyncStepKeepsReferences, TaskStepKeepsReferences DEF Next, Step
  <1> QED BY <1>1, <1>2, TypeCorrect, PTL DEF Spec

-----------------------------------------------------------------------------
(* One request at a time: what a handler read still holds when it writes. *)

OneAtATime == \A s, t \in Slots : s = t

\* An insert is pending only where the pair still has no row.
InsertInv ==
  \A s \in Slots, g \in Groups :
    task[<<s, g>>].ph = "insert" => ~InGroup(g, task[<<s, g>>].user)

LEMMA BeginInsertsNothing ==
  ASSUME NEW s \in Slots, NEW G, NEW t, t.ph # "insert", Begin(s, G, t)
  PROVE  \A g \in Groups : task'[<<s, g>>].ph # "insert"
  BY DEF Begin, Off

LEMMA StepInsertsNothing ==
  ASSUME NEW s \in Slots, Step(s)
  PROVE  \/ UNCHANGED <<task, rows>>
         \/ \A g \in Groups : task'[<<s, g>>].ph # "insert"
  <1>1. /\ Off.ph # "insert"
        /\ \A u : EnsureOwner(u).ph # "insert"
        /\ \A u, role : AddUser(u, role).ph # "insert"
    BY DEF Off, EnsureOwner, AddUser
  <1>2. Reply(s) => \A g \in Groups : task'[<<s, g>>].ph # "insert"
    BY <1>1, BeginInsertsNothing DEF Reply
  <1>3. CASE GroupStep(s)
    <2>1. CASE InsertGroup(s)
      <3>1. \/ Reply(s)
            \/ \E g \in Groups : Begin(s, {g}, AddUser(req[s].by, "owner"))
        BY <2>1 DEF InsertGroup
      <3>2. ASSUME NEW g \in Groups, Begin(s, {g}, AddUser(req[s].by, "owner"))
            PROVE  \A h \in Groups : task'[<<s, h>>].ph # "insert"
        <4>1. AddUser(req[s].by, "owner").ph # "insert"
          BY <1>1
        <4> QED BY <3>2, <4>1, BeginInsertsNothing
      <3> QED BY <1>2, <3>1, <3>2
    <2>3. CASE LoadGroup(s)
      BY <1>2, <2>3 DEF LoadGroup
    <2>4. CASE FindTarget(s)
      BY <1>1, <1>2, <2>4, BeginInsertsNothing DEF FindTarget
    <2>5. CASE FindMembership(s)
      BY <1>1, <1>2, <2>5, BeginInsertsNothing DEF FindMembership
    <2>2. CASE FinishAdd(s) \/ RemoveMember(s) \/ SetMemberRole(s) \/ DestroyGroup(s)
      BY <1>2, <2>2 DEF FinishAdd, RemoveMember, SetMemberRole, DestroyGroup
    <2> QED BY <1>3, <2>1, <2>2, <2>3, <2>4, <2>5 DEF GroupStep
  <1>4. CASE UserStep(s)
    BY <1>1, <1>2, <1>4, BeginInsertsNothing
       DEF UserStep, LoadUser, UpdateUser, CountAdmins, ListGroups, DestroyUser, Drain
  <1>5. CASE SyncStep(s)
    <2>1. CASE ReadCurrentGroups(s) \/ FinishSync(s)
      BY <1>2, <2>1 DEF ReadCurrentGroups, FinishSync
    <2>2. CASE LeaveNext(s)
      BY <1>1, <2>2, BeginInsertsNothing DEF LeaveNext
    <2>3. CASE LeaveGroup(s)
      BY <1>1, <2>3, BeginInsertsNothing DEF LeaveGroup
    <2>4. CASE JoinGroups(s)
      BY <1>1, <2>4, BeginInsertsNothing DEF JoinGroups
    <2>5. CASE CheckDangling(s)
      BY <1>1, <2>5, BeginInsertsNothing DEF CheckDangling
    <2> QED BY <1>5, <2>1, <2>2, <2>3, <2>4, <2>5 DEF SyncStep
  <1> QED BY <1>3, <1>4, <1>5 DEF Step

\* Another role is no other membership.
LEMMA OtherRoles ==
  ASSUME TypeOK, OneRowPerMember, NEW C, NEW r,
         rows' = {IF x \in C THEN [x EXCEPT !.role = r] ELSE x : x \in rows}
  PROVE  OneRowPerMember'
  <1> SUFFICES ASSUME NEW x \in rows', NEW y \in rows', x.group = y.group, x.user = y.user
               PROVE  x = y
    BY DEF OneRowPerMember
  <1>1. PICK v \in rows : x = IF v \in C THEN [v EXCEPT !.role = r] ELSE v
    OBVIOUS
  <1>2. PICK w \in rows : y = IF w \in C THEN [w EXCEPT !.role = r] ELSE w
    OBVIOUS
  <1>3. v \in Row /\ w \in Row
    BY DEF TypeOK
  <1>4. v.group = x.group /\ v.user = x.user
    BY <1>1, <1>3 DEF Row
  <1>5. w.group = y.group /\ w.user = y.user
    BY <1>2, <1>3 DEF Row
  <1>6. v = w
    BY <1>4, <1>5 DEF OneRowPerMember
  <1> QED BY <1>1, <1>2, <1>6

\* A membership has one row as long as requests do not overlap.
THEOREM SerialOneRow ==
  ASSUME OneAtATime
  PROVE  Spec => []OneRowPerMember
  <1> DEFINE Inv == OneRowPerMember /\ InsertInv
  <1>1. Init => Inv
    BY DEF Init, OneRowPerMember, InsertInv, Off
  <1>2. TypeOK /\ Inv /\ [Next]_vars => Inv'
    <2> SUFFICES ASSUME TypeOK, Inv, [Next]_vars PROVE Inv'
      OBVIOUS
    <2>1. CASE UNCHANGED vars
      BY <2>1 DEF OneRowPerMember, InsertInv, InGroup, RowsOf, vars
    <2>2. CASE Register
      BY <2>2 DEF Register, OneRowPerMember, InsertInv, InGroup, RowsOf
    <2>3. ASSUME NEW s \in Slots, Receive(s) PROVE Inv'
      BY <2>3 DEF Receive, OneRowPerMember, InsertInv, InGroup, RowsOf
    <2>4. ASSUME NEW s \in Slots, Step(s) PROVE Inv'
      <3>1. \/ rows' \subseteq rows
            \/ rows' = WithRole(req[s].row, req[s].groupRole)
        BY <2>4 DEF Step, GroupStep, UserStep, SyncStep, InsertGroup, LoadGroup, FindTarget,
           FindMembership, FinishAdd, RemoveMember, SetMemberRole, DestroyGroup, LoadUser,
           UpdateUser, CountAdmins, ListGroups, DestroyUser, Drain, ReadCurrentGroups,
           LeaveNext, LeaveGroup, JoinGroups, CheckDangling, FinishSync
      <3>2. OneRowPerMember'
        BY <3>1 DEF OneRowPerMember, WithRole, TypeOK, Row
      <3>3. InsertInv'
        <4>1. CASE UNCHANGED <<task, rows>>
          BY <4>1 DEF InsertInv, InGroup, RowsOf
        <4>2. CASE \A g \in Groups : task'[<<s, g>>].ph # "insert"
          BY <4>2 DEF OneAtATime, InsertInv
        <4> QED BY <2>4, <4>1, <4>2, StepInsertsNothing
      <3> QED BY <3>2, <3>3
    <2>5. ASSUME NEW s \in Slots, NEW g \in Groups, TaskStep(s, g) PROVE Inv'
      <3> DEFINE t == task[<<s, g>>]
      <3>0. t.user \in Users \cup {NoUser} /\ t.row \in Row \cup {NoRow}
        BY DEF TypeOK, Task
      <3>1. CASE \/ ReadOwners(s, g) \/ FindDefaultAdmin(s, g) \/ FindLowestAdmin(s, g)
                 \/ FindAdminInGroup(s, g) \/ LookUpRow(s, g)
        <4>1. UNCHANGED rows
          BY <3>1 DEF ReadOwners, FindDefaultAdmin, FindLowestAdmin, FindAdminInGroup, LookUpRow
        <4>2. \A h \in Groups : h # g => task'[<<s, h>>] = task[<<s, h>>]
          BY <3>1 DEF ReadOwners, FindDefaultAdmin, FindLowestAdmin, FindAdminInGroup,
             LookUpRow, Advance, TypeOK
        <4>3. task'[<<s, g>>].ph = "insert" => ~InGroup(g, task'[<<s, g>>].user)
          <5>1. CASE LookUpRow(s, g)
            <6>1. task'[<<s, g>>] = [t EXCEPT !.ph = IF InGroup(g, t.user) THEN "update"
                                                     ELSE "insert"]
              BY <5>1 DEF LookUpRow, Advance, TypeOK
            <6>2. task'[<<s, g>>].user = t.user
              BY <6>1
            <6>3. t \in Task
              BY DEF TypeOK
            <6>4. InGroup(g, t.user) => task'[<<s, g>>].ph = "update"
              BY <6>1, <6>3 DEF Task
            <6> QED BY <6>2, <6>4
          <5>2. CASE ~LookUpRow(s, g)
            <6>0. t \in Task
              BY DEF TypeOK
            <6>1. CASE ReadOwners(s, g)
              BY <6>1, AdvancePhase DEF ReadOwners
            <6>2. CASE FindDefaultAdmin(s, g)
              <7>1. CASE DefaultAdmin \in Admins
                BY <6>0, <6>2, <7>1 DEF FindDefaultAdmin, TypeOK, Task
              <7>2. CASE DefaultAdmin \notin Admins
                BY <6>2, <7>2, AdvancePhase DEF FindDefaultAdmin
              <7> QED BY <7>1, <7>2
            <6>3. CASE FindLowestAdmin(s, g)
              <7>1. CASE Advance(s, g, "failed")
                BY <7>1, AdvancePhase
              <7>2. CASE ~Advance(s, g, "failed")
                BY <6>0, <6>3, <7>2 DEF FindLowestAdmin, TypeOK, Task
              <7> QED BY <7>1, <7>2
            <6>4. CASE FindAdminInGroup(s, g)
              <7>1. CASE Advance(s, g, "look")
                BY <7>1, AdvancePhase
              <7>2. CASE ~Advance(s, g, "look")
                <8>1. PICK x \in RowsOf(g, t.user) :
                        task' = [task EXCEPT ![<<s, g>>].ph = "promote", ![<<s, g>>].row = x]
                  BY <6>4, <7>2 DEF FindAdminInGroup
                <8> QED BY <6>0, <8>1 DEF TypeOK, Task
              <7> QED BY <7>1, <7>2
            <6> QED BY <3>1, <5>2, <6>1, <6>2, <6>3, <6>4
          <5> QED BY <5>1, <5>2
        <4> QED BY <4>1, <4>2, <4>3 DEF OneAtATime, OneRowPerMember, InsertInv, InGroup, RowsOf
      <3>2. CASE PromoteAdmin(s, g) \/ UpdateRows(s, g)
        <4>1. OneRowPerMember'
          <5>1. CASE PromoteAdmin(s, g)
            <6>1. \/ rows' = rows
                  \/ rows' = {IF x.id = t.row.id THEN [x EXCEPT !.role = "owner"] ELSE x : x \in rows}
              BY <5>1 DEF PromoteAdmin, WithRole
            <6>2. CASE rows' = rows
              BY <6>2 DEF OneRowPerMember
            <6>3. CASE rows' # rows
              <7> DEFINE C == {x \in rows : x.id = t.row.id}
              <7>1. rows' = {IF x \in C THEN [x EXCEPT !.role = "owner"] ELSE x : x \in rows}
                BY <6>1, <6>3
              <7> HIDE DEF C
              <7> QED BY <7>1, OtherRoles
            <6> QED BY <6>2, <6>3
          <5>2. CASE UpdateRows(s, g)
            <6>1. rows' = {IF x \in RowsOf(g, t.user) THEN [x EXCEPT !.role = t.role] ELSE x : x \in rows}
              BY <5>2 DEF UpdateRows
            <6> QED BY <6>1, OtherRoles
          <5> QED BY <3>2, <5>1, <5>2
        <4>2. \A h \in Groups : \A u : InGroup(h, u)' => InGroup(h, u)
          BY <3>2 DEF PromoteAdmin, UpdateRows, WithRole, InGroup, RowsOf, TypeOK, Row
        <4>3. \A h \in Groups : task'[<<s, h>>].ph = "insert" =>
                 task'[<<s, h>>] = task[<<s, h>>]
          BY <3>2 DEF PromoteAdmin, UpdateRows, Advance, TypeOK, Task
        <4>4. InsertInv'
          BY <4>2, <4>3 DEF OneAtATime, InsertInv
        <4> QED BY <4>1, <4>4
      <3>3. CASE InsertRow(s, g)
        <4>1. \A h \in Groups : task'[<<s, h>>].ph = "insert" =>
                 task'[<<s, h>>] = task[<<s, h>>] /\ h # g
          <5>1. task'[<<s, g>>].ph \in {"done", "failed"}
            BY <3>3 DEF InsertRow, Advance, TypeOK, Task
          <5>2. \A h \in Groups : h # g => task'[<<s, h>>] = task[<<s, h>>]
            BY <3>3 DEF InsertRow, Advance, TypeOK
          <5> QED BY <5>1, <5>2
        <4>2. \/ rows' = rows
              \/ \E i \in RowIds :
                   rows' = rows \cup {[id |-> i, group |-> g, user |-> t.user, role |-> t.role]}
          BY <3>3 DEF InsertRow
        <4>3. ~InGroup(g, t.user)
          BY <3>3 DEF InsertInv, InsertRow
        <4>4. OneRowPerMember'
          BY <4>2, <4>3 DEF OneRowPerMember, InGroup, RowsOf
        <4>5. \A h \in Groups : \A u : h # g /\ InGroup(h, u)' => InGroup(h, u)
          BY <4>2 DEF InGroup, RowsOf
        <4>6. InsertInv'
          BY <4>1, <4>5 DEF OneAtATime, InsertInv
        <4> QED BY <4>4, <4>6
      <3> QED BY <2>5, <3>1, <3>2, <3>3 DEF TaskStep
    <2> QED BY <2>1, <2>2, <2>3, <2>4, <2>5 DEF Next
  <1>3. Inv => OneRowPerMember
    OBVIOUS
  <1> QED BY <1>1, <1>2, <1>3, TypeCorrect, PTL DEF Spec

-----------------------------------------------------------------------------
(* The last administrator, with one request at a time. *)

LEMMA TwoAdmins ==
  ASSUME TypeOK, Cardinality(Admins) >= 2, NEW u
  PROVE  \E v \in Admins : v # u
  <1> SUFFICES ASSUME \A v \in Admins : v = u PROVE FALSE
    OBVIOUS
  <1>1. Admins = {} \/ Admins = {u}
    OBVIOUS
  <1>2. Cardinality({}) = 0 /\ Cardinality({u}) = 1
    BY FS_EmptySet, FS_Singleton
  <1> QED BY <1>1, <1>2

\* What the handlers of users know, from the token to the last statement.
CallerInv(s) ==
  req[s].at # "idle" => req[s].by \in Users /\ account[req[s].by] = req[s].byRole

CountInv(s) ==
  req[s].at = "count" => req[s].user \in Users /\ account[req[s].user] = req[s].seen

SpareInv(s) ==
  req[s].at \in {"groups", "cleaning"} => \E v \in Admins : v # req[s].user

AdminInv == \A s \in Slots : CallerInv(s) /\ CountInv(s) /\ SpareInv(s)

\* A step that writes no account and does not move a deletion on.
Quiet(s) ==
  /\ UNCHANGED account
  /\ req'[s].at \notin {"count", "groups", "cleaning"}
  /\ \/ req'[s].at = "idle"
     \/ /\ req[s].at # "idle"
        /\ req'[s].by = req[s].by /\ req'[s].byRole = req[s].byRole

LEMMA QuietKeepsAdmins ==
  ASSUME OneAtATime, AdminInv, AdminRemains, NEW s \in Slots, Quiet(s)
  PROVE  AdminInv' /\ AdminRemains'
  BY DEF OneAtATime, AdminInv, AdminRemains, Admins, CallerInv, CountInv, SpareInv, Quiet

LEMMA ReplyQuiet ==
  ASSUME TypeOK, NEW s \in Slots, Reply(s)
  PROVE  req'[s].at = "idle"
  BY DEF TypeOK, Reply, Idle, NewRequest

LEMMA GotoQuiet ==
  ASSUME TypeOK, NEW s \in Slots, NEW stage, Goto(s, stage)
  PROVE  req'[s].at = stage /\ req'[s].by = req[s].by /\ req'[s].byRole = req[s].byRole
  <1>1. req[s] \in Request
    BY DEF TypeOK
  <1>2. req'[s] = [req[s] EXCEPT !.at = stage]
    BY DEF Goto, TypeOK
  <1> QED BY <1>1, <1>2 DEF Request

LEMMA GroupStepQuiet ==
  ASSUME TypeOK, NEW s \in Slots, GroupStep(s)
  PROVE  Quiet(s)
  <1>0. req[s] \in Request
    BY DEF TypeOK
  <1>1. CASE InsertGroup(s)
    <2>1. CASE Reply(s)
      BY <1>1, <2>1, ReplyQuiet DEF InsertGroup, Quiet
    <2>2. CASE ~Reply(s)
      <3>1. PICK g \in Groups : req' = [req EXCEPT ![s].at = "adding", ![s].group = g]
        BY <1>1, <2>2 DEF InsertGroup
      <3>2. req'[s] = [req[s] EXCEPT !.at = "adding", !.group = g]
        BY <3>1 DEF TypeOK
      <3> QED BY <1>0, <1>1, <3>2 DEF InsertGroup, Quiet, Request
    <2> QED BY <2>1, <2>2
  <1>2. CASE LoadGroup(s)
    <2>1. AfterLoad(req[s].op) \in {"row", "save", "target"}
      BY DEF AfterLoad
    <2> QED BY <1>2, <2>1, ReplyQuiet, GotoQuiet DEF LoadGroup, Quiet
  <1>3. CASE FindTarget(s)
    BY <1>3, ReplyQuiet, GotoQuiet DEF FindTarget, Quiet
  <1>4. CASE FindMembership(s)
    <2>1. CASE Reply(s)
      BY <1>4, <2>1, ReplyQuiet DEF FindMembership, Quiet
    <2>2. CASE ~Reply(s)
      <3>1. PICK x \in rows : req' = [req EXCEPT ![s].at = "demoting", ![s].row = x]
        BY <1>4, <2>2 DEF FindMembership, RowsOf
      <3>2. req'[s] = [req[s] EXCEPT !.at = "demoting", !.row = x]
        BY <3>1 DEF TypeOK
      <3> QED BY <1>0, <1>4, <3>2 DEF FindMembership, Quiet, Request
    <2> QED BY <2>1, <2>2
  <1>5. CASE FinishAdd(s) \/ RemoveMember(s) \/ SetMemberRole(s) \/ DestroyGroup(s)
    BY <1>5, ReplyQuiet DEF FinishAdd, RemoveMember, SetMemberRole, DestroyGroup, Quiet
  <1> QED BY <1>1, <1>2, <1>3, <1>4, <1>5 DEF GroupStep

LEMMA SyncStepQuiet ==
  ASSUME TypeOK, NEW s \in Slots, SyncStep(s)
  PROVE  Quiet(s)
  <1>0. req[s] \in Request
    BY DEF TypeOK
  <1>1. CASE ReadCurrentGroups(s)
    <2> DEFINE joined == {g \in Groups : InGroup(g, req[s].user)}
    <2>1. req'[s] = [req[s] EXCEPT !.at = "leave", !.joined = joined,
                                   !.leave = joined \ req[s].names]
      BY <1>1 DEF ReadCurrentGroups, TypeOK
    <2> HIDE DEF joined
    <2>2. /\ req'[s].at = "leave" /\ req'[s].by = req[s].by
          /\ req'[s].byRole = req[s].byRole
      BY <1>0, <2>1 DEF Request
    <2> QED BY <1>1, <2>2 DEF ReadCurrentGroups, Quiet
  <1>2. CASE LeaveNext(s)
    <2>1. PICK g \in req[s].leave :
            req' = [req EXCEPT ![s].at = "leaving", ![s].group = g, ![s].leave = @ \ {g}]
      BY <1>2 DEF LeaveNext
    <2>2. req'[s] = [req[s] EXCEPT !.at = "leaving", !.group = g, !.leave = @ \ {g}]
      BY <2>1 DEF TypeOK
    <2>3. /\ req'[s].at = "leaving" /\ req'[s].by = req[s].by
          /\ req'[s].byRole = req[s].byRole
      BY <1>0, <2>2 DEF Request
    <2> QED BY <1>2, <2>3 DEF LeaveNext, Quiet
  <1>3. CASE LeaveGroup(s)
    <2>1. req'[s] = [req[s] EXCEPT !.at = "leave", !.group = NoGroup]
      BY <1>3 DEF LeaveGroup, TypeOK
    <2>2. /\ req'[s].at = "leave" /\ req'[s].by = req[s].by
          /\ req'[s].byRole = req[s].byRole
      BY <1>0, <2>1 DEF Request
    <2> QED BY <1>3, <2>2 DEF LeaveGroup, Quiet
  <1>4. CASE JoinGroups(s) \/ CheckDangling(s) \/ FinishSync(s)
    BY <1>4, GotoQuiet, ReplyQuiet DEF JoinGroups, CheckDangling, FinishSync, Quiet
  <1> QED BY <1>1, <1>2, <1>3, <1>4 DEF SyncStep

LEMMA UserStepKeepsAdmins ==
  ASSUME OneAtATime, TypeOK, AdminInv, AdminRemains, NEW s \in Slots, UserStep(s)
  PROVE  AdminInv' /\ AdminRemains'
  <1>0. req[s] \in Request /\ CallerInv(s) /\ CountInv(s) /\ SpareInv(s)
    BY DEF TypeOK, AdminInv
  <1>i. ASSUME Reply(s), AdminRemains'
        PROVE  AdminInv' /\ AdminRemains'
    <2>1. req'[s].at = "idle"
      BY <1>i, ReplyQuiet
    <2> QED BY <1>i, <2>1 DEF OneAtATime, AdminInv, CallerInv, CountInv, SpareInv
  <1>1. CASE LoadUser(s)
    <2>1. CASE Reply(s)
      BY <1>1, <2>1, <1>i DEF LoadUser, AdminRemains, Admins
    <2>2. CASE ~Reply(s)
      <3> DEFINE stage == IF req[s].op = "updateUser" THEN "save" ELSE "count"
      <3>1. /\ req[s].user \in Users
            /\ req' = [req EXCEPT ![s].at = stage, ![s].seen = account[req[s].user]]
        BY <1>1, <2>2 DEF LoadUser, Exists
      <3>2. req'[s] = [req[s] EXCEPT !.at = stage, !.seen = account[req[s].user]]
        BY <3>1 DEF TypeOK
      <3>3. /\ req'[s].at \in {"save", "count"} /\ req'[s].seen = account[req'[s].user]
            /\ req'[s].user = req[s].user /\ req'[s].by = req[s].by
            /\ req'[s].byRole = req[s].byRole
        BY <1>0, <3>2 DEF Request
      <3>4. UNCHANGED account /\ req[s].at # "idle"
        BY <1>1 DEF LoadUser
      <3>5. CallerInv(s)' /\ CountInv(s)' /\ SpareInv(s)'
        BY <1>0, <3>1, <3>3, <3>4 DEF CallerInv, CountInv, SpareInv
      <3> QED BY <3>4, <3>5 DEF OneAtATime, AdminInv, AdminRemains, Admins
    <2> QED BY <2>1, <2>2
  <1>2. CASE UpdateUser(s)
    <2>1. CASE account' = account
      BY <1>2, <2>1, <1>i DEF UpdateUser, AdminRemains, Admins
    <2>2. CASE account' # account
      <3>1. /\ req[s].byRole = "admin" /\ req[s].by # req[s].user
            /\ account' = [account EXCEPT ![req[s].user] = req[s].role]
            /\ req[s].at = "save"
        BY <1>2, <2>2 DEF UpdateUser, CanManageUser
      <3>2. req[s].by \in Users /\ account[req[s].by] = "admin"
        BY <1>0, <3>1 DEF CallerInv
      <3>3. account'[req[s].by] = "admin"
        BY <3>1, <3>2 DEF TypeOK
      <3> QED BY <1>2, <3>2, <3>3, <1>i DEF UpdateUser, AdminRemains, Admins
    <2> QED BY <2>1, <2>2
  <1>3. CASE CountAdmins(s)
    <2>1. UNCHANGED account /\ req[s].at = "count"
      BY <1>3 DEF CountAdmins
    <2>2. CASE req[s].seen = "admin" /\ Cardinality(Admins) < 2
      BY <1>3, <2>1, <2>2, <1>i DEF CountAdmins, AdminRemains, Admins
    <2>3. CASE ~(req[s].seen = "admin" /\ Cardinality(Admins) < 2)
      <3>1. Goto(s, "groups")
        BY <1>3, <2>3 DEF CountAdmins
      <3>2. req'[s] = [req[s] EXCEPT !.at = "groups"]
        BY <3>1 DEF Goto, TypeOK
      <3>3. /\ req'[s].at = "groups" /\ req'[s].user = req[s].user
            /\ req'[s].by = req[s].by /\ req'[s].byRole = req[s].byRole
        BY <1>0, <3>2 DEF Request
      <3>4. \E v \in Admins : v # req[s].user
        <4>1. CASE req[s].seen # "admin"
          BY <1>0, <2>1, <4>1 DEF CountInv, AdminRemains, Admins
        <4>2. CASE ~(Cardinality(Admins) < 2)
          <5>1. IsFiniteSet(Admins)
            BY UsersAssumption, FS_Subset DEF Admins
          <5>2. Cardinality(Admins) \in Nat
            BY <5>1, FS_CardinalityType
          <5>3. Cardinality(Admins) >= 2
            BY <4>2, <5>2
          <5> QED BY <5>3, TwoAdmins
        <4> QED BY <2>3, <4>1, <4>2
      <3>5. CallerInv(s)' /\ CountInv(s)' /\ SpareInv(s)'
        BY <1>0, <2>1, <3>3, <3>4 DEF CallerInv, CountInv, SpareInv, Admins
      <3> QED BY <2>1, <3>5 DEF OneAtATime, AdminInv, AdminRemains, Admins
    <2> QED BY <2>2, <2>3
  <1>4. CASE ListGroups(s)
    <2>1. /\ req'[s] = [req[s] EXCEPT !.at = "cleaning"]
          /\ UNCHANGED account /\ req[s].at = "groups"
      BY <1>4 DEF ListGroups, Goto, TypeOK
    <2>2. /\ req'[s].at = "cleaning" /\ req'[s].user = req[s].user
          /\ req'[s].by = req[s].by /\ req'[s].byRole = req[s].byRole
      BY <1>0, <2>1 DEF Request
    <2>3. CallerInv(s)' /\ CountInv(s)' /\ SpareInv(s)'
      BY <1>0, <2>1, <2>2 DEF CallerInv, CountInv, SpareInv, Admins
    <2> QED BY <2>1, <2>3 DEF OneAtATime, AdminInv, AdminRemains, Admins
  <1>5. CASE DestroyUser(s)
    <2>1. CASE Goto(s, "drain") /\ UNCHANGED account
      <3>1. Quiet(s)
        BY <1>5, <2>1, GotoQuiet DEF DestroyUser, Quiet
      <3> QED BY <3>1, QuietKeepsAdmins
    <2>2. CASE ~(Goto(s, "drain") /\ UNCHANGED account)
      <3>1. /\ account' = [account EXCEPT ![req[s].user] = "gone"]
            /\ Reply(s) /\ req[s].at = "cleaning"
        BY <1>5, <2>2 DEF DestroyUser
      <3>2. PICK v \in Admins : v # req[s].user
        BY <1>0, <3>1 DEF SpareInv
      <3>3. account'[v] = "admin"
        BY <3>1, <3>2 DEF TypeOK, Admins
      <3> QED BY <3>1, <3>3, <1>i DEF AdminRemains, Admins
    <2> QED BY <2>1, <2>2
  <1>6. CASE Drain(s)
    BY <1>6, <1>i DEF Drain, AdminRemains, Admins
  <1> QED BY <1>1, <1>2, <1>3, <1>4, <1>5, <1>6 DEF UserStep

\* Requests that do not overlap never leave the deployment without an administrator.
THEOREM SerialAdminRemains ==
  ASSUME OneAtATime, InitialAdmins # {}
  PROVE  Spec => []AdminRemains
  <1> DEFINE Inv == AdminInv /\ AdminRemains
  <1>1. Init => Inv
    BY InitialAssumption DEF Init, AdminInv, AdminRemains, Admins, CallerInv, CountInv, SpareInv,
       Idle, NewRequest
  <1>2. TypeOK /\ Inv /\ [Next]_vars => Inv'
    <2> SUFFICES ASSUME TypeOK, Inv, [Next]_vars PROVE Inv'
      OBVIOUS
    <2>1. CASE UNCHANGED vars
      BY <2>1 DEF AdminInv, AdminRemains, Admins, CallerInv, CountInv, SpareInv, vars
    <2>2. CASE Register
      <3>1. \A u \in Users : account[u] \in UserRoles => account'[u] = account[u]
        BY <2>2 DEF Register, UserRoles, TypeOK
      <3>2. \A s \in Slots : req[s].byRole \in UserRoles /\ req[s].seen \in UserRoles
        BY DEF TypeOK, Request
      <3>3. Admins \subseteq Admins' /\ UNCHANGED req
        BY <2>2, <3>1 DEF Admins, UserRoles, Register
      <3> QED BY <3>1, <3>2, <3>3 DEF AdminInv, AdminRemains, CallerInv, CountInv, SpareInv
    <2>3. ASSUME NEW s \in Slots, Receive(s) PROVE Inv'
      <3>1. PICK op \in Ops, by \in Users :
              \E q \in ParamsOf(op) :
                req' = [req EXCEPT ![s] = NewRequest(FirstStage(op), op, by, account[by], q)]
        BY <2>3 DEF Receive
      <3>2. PICK q \in ParamsOf(op) :
              req' = [req EXCEPT ![s] = NewRequest(FirstStage(op), op, by, account[by], q)]
        BY <3>1
      <3>3. /\ req'[s].at = FirstStage(op) /\ req'[s].by = by
            /\ req'[s].byRole = account[by] /\ UNCHANGED account
        BY <2>3, <3>2 DEF NewRequest, TypeOK, Receive
      <3>4. FirstStage(op) \in {"insert", "load", "user", "current"}
        BY OpsAssumption DEF FirstStage, AllOps
      <3>5. CallerInv(s)' /\ CountInv(s)' /\ SpareInv(s)'
        BY <3>3, <3>4 DEF CallerInv, CountInv, SpareInv
      <3> QED BY <3>3, <3>5 DEF OneAtATime, AdminInv, AdminRemains, Admins
    <2>4. ASSUME NEW s \in Slots, Step(s) PROVE Inv'
      BY <2>4, GroupStepQuiet, SyncStepQuiet, QuietKeepsAdmins, UserStepKeepsAdmins DEF Step
    <2>5. ASSUME NEW s \in Slots, NEW g \in Groups, TaskStep(s, g) PROVE Inv'
      <3>1. UNCHANGED <<account, req>>
        BY <2>5 DEF TaskStep, ReadOwners, FindDefaultAdmin, FindLowestAdmin, FindAdminInGroup,
           PromoteAdmin, LookUpRow, InsertRow, UpdateRows
      <3> QED BY <3>1 DEF AdminInv, AdminRemains, Admins, CallerInv, CountInv, SpareInv
    <2> QED BY <2>1, <2>2, <2>3, <2>4, <2>5 DEF Next
  <1>3. Inv => AdminRemains
    OBVIOUS
  <1> QED BY <1>1, <1>2, <1>3, TypeCorrect, PTL DEF Spec

-----------------------------------------------------------------------------
(* The rules of CaslAbilityFactory. *)

R == INSTANCE AbilityRulesProofs WITH Ids <- Users, NoId <- NoUser

LEMMA SameRules ==
  ASSUME NEW u, NEW action, NEW x
  PROVE  R!Can(u, action, x) <=> Rules!Can(u, action, x)
  <1>1. \A rule : R!Matches(rule, u, action, x) <=> Rules!Matches(rule, u, action, x)
    BY DEF R!Matches, Rules!Matches
  <1>2. R!RulesOfUser(u, x) = Rules!RulesOfUser(u, x)
    BY DEF R!RulesOfUser, Rules!RulesOfUser, R!OfAdmin, Rules!OfAdmin, R!Allow, Rules!Allow,
           R!Forbid, Rules!Forbid, R!Readers, Rules!Readers
  <1> QED BY <1>1, <1>2 DEF R!Can, Rules!Can

LEMMA AskerTyped ==
  ASSUME NEW u \in Users
  PROVE  /\ AskerOf(u) \in R!Asker
         /\ AskerOf(u).id = u
         /\ AskerOf(u).admin <=> account[u] = "admin"
  <1>1. CASE account[u] = "admin"
    <2>1. AskerOf(u) = [id |-> u, admin |-> TRUE]
      BY <1>1 DEF AskerOf
    <2> QED BY <1>1, <2>1 DEF R!Asker
  <1>2. CASE account[u] # "admin"
    <2>1. (account[u] = "admin") = FALSE
      BY <1>2
    <2>2. AskerOf(u) = [id |-> u, admin |-> FALSE]
      BY <2>1, Zenon DEF AskerOf
    <2> QED BY <1>2, <2>2 DEF R!Asker
  <1> QED BY <1>1, <1>2

LEMMA UserSubjectRights ==
  ASSUME NEW u \in Users, NEW v \in Users
  PROVE  /\ Rules!Can(AskerOf(u), "update", UserSubject(v)) <=> CanEditUser(account[u], u, v)
         /\ Rules!Can(AskerOf(u), "update-no-password", UserSubject(v))
              <=> CanManageUser(account[u], u, v)
  <1> DEFINE a == AskerOf(u)
             x == UserSubject(v)
  <1>1. a \in R!Asker /\ a.id = u /\ (a.admin <=> account[u] = "admin")
    BY AskerTyped
  <1>2. x \in R!Subject /\ x.row /\ x.type = "User" /\ x.user = v
    BY DEF UserSubject, R!Subject
  <1> HIDE DEF a, x
  <1>3. /\ R!Can(a, "update", x) <=> a.admin \/ x.user = a.id
        /\ R!Can(a, "update-no-password", x) <=> a.admin /\ x.user # a.id
    BY <1>1, <1>2, R!UserRights
  <1> QED BY <1>1, <1>2, <1>3, SameRules DEF a, x, CanEditUser, CanManageUser

\* Where a membership has one row, the role seen is whether it owns the group.
LEMMA GroupSubjectRights ==
  ASSUME TypeOK, OneRowPerMember, NEW u \in Users, NEW g \in Groups, NEW role \in SeenRoles(g, u)
  PROVE  Rules!Can(AskerOf(u), "update", GroupSubject(g)) <=> CanManageGroup(account[u], role)
  <1> DEFINE a == AskerOf(u)
             x == GroupSubject(g)
             owners == {y.user : y \in OwnerRows(g)}
  <1>1. a \in R!Asker /\ a.id = u /\ (a.admin <=> account[u] = "admin")
    BY AskerTyped
  <1>2. owners \subseteq Users
    BY DEF TypeOK, Row, OwnerRows
  <1>3. u \in owners <=> role = "owner"
    <2>1. u \in owners <=> \E y \in rows : y.group = g /\ y.user = u /\ y.role = "owner"
      BY DEF OwnerRows
    <2>2. CASE InGroup(g, u)
      <3>1. PICK y \in rows : y.group = g /\ y.user = u /\ role = y.role
        BY <2>2 DEF SeenRoles, RowsOf
      <3>2. \A z \in rows : z.group = g /\ z.user = u => z = y
        BY <3>1 DEF OneRowPerMember
      <3> QED BY <2>1, <3>1, <3>2
    <2>3. CASE ~InGroup(g, u)
      BY <2>1, <2>3 DEF SeenRoles, InGroup, RowsOf
    <2> QED BY <2>2, <2>3
  <1>4. x \in R!Subject /\ x.row /\ x.type = "Group" /\ x.owners = owners
    BY <1>2 DEF GroupSubject, R!Subject
  <1> HIDE DEF a, x, owners
  <1>5. R!Can(a, "update", x) <=> a.admin \/ a.id \in x.owners
    BY <1>1, <1>4, R!GroupRights
  <1> QED BY <1>1, <1>3, <1>4, <1>5, SameRules DEF a, x, CanManageGroup

\* With one request at a time, what Accounts asks of a caller is what the rules
\* of createForUser answer, whoever is in which group with which role.
THEOREM SerialRulesHold ==
  ASSUME OneAtATime
  PROVE  Spec => []RulesAgree
  <1>1. TypeOK /\ OneRowPerMember => RulesAgree
    BY UserSubjectRights, GroupSubjectRights DEF RulesAgree, Exists
  <1> QED BY <1>1, TypeCorrect, SerialOneRow, PTL

-----------------------------------------------------------------------------
(* What a step leaves of a request and its tasks. *)

SamePair(x, y) == x.group = y.group /\ x.user = y.user

\* The request goes on to a stage, for the same caller and with the same parameters.
Goes(s, stage) ==
  /\ req'[s].at = stage /\ req'[s].op = req[s].op
  /\ req'[s].by = req[s].by /\ req'[s].byRole = req[s].byRole
  /\ req'[s].user = req[s].user /\ req'[s].names = req[s].names
  /\ UNCHANGED account

SameGroup(s)  == req'[s].group = req[s].group
SameJoined(s) == req'[s].joined = req[s].joined
SameLeave(s)  == req'[s].leave = req[s].leave
SameRow(s)    == req'[s].row = req[s].row

LEMMA GotoFields ==
  ASSUME TypeOK, NEW s \in Slots, NEW stage, Goto(s, stage), UNCHANGED account
  PROVE  Goes(s, stage) /\ SameGroup(s) /\ SameJoined(s) /\ SameLeave(s) /\ SameRow(s)
  <1>1. req[s] \in Request
    BY DEF TypeOK
  <1>2. req'[s] = [req[s] EXCEPT !.at = stage]
    BY DEF Goto, TypeOK
  <1> QED BY <1>1, <1>2 DEF Request, Goes, SameGroup, SameJoined, SameLeave, SameRow

LEMMA InsertGroupGoes ==
  ASSUME TypeOK, NEW s \in Slots, InsertGroup(s), ~Reply(s)
  PROVE  /\ Goes(s, "adding") /\ SameJoined(s) /\ SameLeave(s) /\ SameRow(s)
         /\ req'[s].group \in Groups /\ group[req'[s].group] = "new"
         /\ Begin(s, {req'[s].group}, AddUser(req[s].by, "owner"))
  <1>1. PICK g \in Groups : /\ group[g] = "new"
                            /\ req' = [req EXCEPT ![s].at = "adding", ![s].group = g]
                            /\ Begin(s, {g}, AddUser(req[s].by, "owner"))
    BY DEF InsertGroup
  <1>2. req'[s] = [req[s] EXCEPT !.at = "adding", !.group = g]
    BY <1>1 DEF TypeOK
  <1>3. req[s] \in Request
    BY DEF TypeOK
  <1>4. UNCHANGED account
    BY DEF InsertGroup
  <1>5. Goes(s, "adding") /\ SameJoined(s) /\ SameLeave(s) /\ SameRow(s) /\ req'[s].group = g
    BY <1>2, <1>3, <1>4 DEF Request, Goes, SameJoined, SameLeave, SameRow
  <1> QED BY <1>1, <1>5

LEMMA FindMembershipGoes ==
  ASSUME TypeOK, NEW s \in Slots, FindMembership(s), ~Reply(s)
  PROVE  /\ Goes(s, "demoting") /\ SameGroup(s) /\ SameJoined(s) /\ SameLeave(s)
         /\ req'[s].row \in RowsOf(req[s].group, req[s].user)
         /\ Begin(s, {req[s].group}, EnsureOwner(req[s].user))
  <1>1. PICK x \in RowsOf(req[s].group, req[s].user) :
          /\ req' = [req EXCEPT ![s].at = "demoting", ![s].row = x]
          /\ Begin(s, {req[s].group}, EnsureOwner(req[s].user))
    BY DEF FindMembership
  <1>2. req'[s] = [req[s] EXCEPT !.at = "demoting", !.row = x]
    BY <1>1 DEF TypeOK
  <1>3. req[s] \in Request
    BY DEF TypeOK
  <1>4. UNCHANGED account
    BY DEF FindMembership
  <1>5. /\ Goes(s, "demoting") /\ SameGroup(s) /\ SameJoined(s) /\ SameLeave(s)
        /\ req'[s].row = x
    BY <1>2, <1>3, <1>4 DEF Request, Goes, SameGroup, SameJoined, SameLeave
  <1> QED BY <1>1, <1>5

LEMMA LoadUserGoes ==
  ASSUME TypeOK, NEW s \in Slots, LoadUser(s), ~Reply(s)
  PROVE  /\ Goes(s, IF req[s].op = "updateUser" THEN "save" ELSE "count")
         /\ SameGroup(s) /\ SameJoined(s) /\ SameLeave(s) /\ SameRow(s)
         /\ CanEditUser(req[s].byRole, req[s].by, req[s].user)
  <1> DEFINE stage == IF req[s].op = "updateUser" THEN "save" ELSE "count"
             read  == account[req[s].user]
  <1>1. req' = [req EXCEPT ![s].at = stage, ![s].seen = read]
    BY DEF LoadUser
  <1> HIDE DEF stage, read
  <1>2. req'[s] = [req[s] EXCEPT !.at = stage, !.seen = read]
    BY <1>1 DEF TypeOK
  <1>3. req[s] \in Request
    BY DEF TypeOK
  <1>4. Goes(s, stage) /\ SameGroup(s) /\ SameJoined(s) /\ SameLeave(s) /\ SameRow(s)
    BY <1>2, <1>3 DEF Request, Goes, SameGroup, SameJoined, SameLeave, SameRow, LoadUser
  <1> QED BY <1>4 DEF stage, LoadUser

LEMMA ReadCurrentGroupsGoes ==
  ASSUME TypeOK, NEW s \in Slots, ReadCurrentGroups(s)
  PROVE  /\ Goes(s, "leave") /\ SameGroup(s) /\ SameRow(s)
         /\ req'[s].joined = {g \in Groups : InGroup(g, req[s].user)}
         /\ req'[s].leave = req'[s].joined \ req[s].names
  <1> DEFINE now  == {g \in Groups : InGroup(g, req[s].user)}
             more == now \ req[s].names
  <1>1. req' = [req EXCEPT ![s].at = "leave", ![s].joined = now, ![s].leave = more]
    BY DEF ReadCurrentGroups
  <1>2. UNCHANGED account
    BY DEF ReadCurrentGroups
  <1> HIDE DEF now, more
  <1>3. req'[s] = [req[s] EXCEPT !.at = "leave", !.joined = now, !.leave = more]
    BY <1>1 DEF TypeOK
  <1>4. req[s] \in Request
    BY DEF TypeOK
  <1>5. /\ Goes(s, "leave") /\ SameGroup(s) /\ SameRow(s)
        /\ req'[s].joined = now /\ req'[s].leave = more
    BY <1>2, <1>3, <1>4 DEF Request, Goes, SameGroup, SameRow
  <1> QED BY <1>5 DEF now, more

LEMMA LeaveNextGoes ==
  ASSUME TypeOK, NEW s \in Slots, LeaveNext(s)
  PROVE  /\ Goes(s, "leaving") /\ SameJoined(s) /\ SameRow(s)
         /\ req'[s].group \in req[s].leave
         /\ req'[s].leave = req[s].leave \ {req'[s].group}
         /\ Begin(s, {req'[s].group}, EnsureOwner(req[s].user))
  <1>1. PICK g \in req[s].leave :
          /\ req' = [req EXCEPT ![s].at = "leaving", ![s].group = g, ![s].leave = @ \ {g}]
          /\ Begin(s, {g}, EnsureOwner(req[s].user))
    BY DEF LeaveNext
  <1>2. req'[s] = [req[s] EXCEPT !.at = "leaving", !.group = g, !.leave = @ \ {g}]
    BY <1>1 DEF TypeOK
  <1>3. req[s] \in Request
    BY DEF TypeOK
  <1>4. UNCHANGED account
    BY DEF LeaveNext
  <1>5. /\ Goes(s, "leaving") /\ SameJoined(s) /\ SameRow(s)
        /\ req'[s].group = g /\ req'[s].leave = req[s].leave \ {g}
    BY <1>2, <1>3, <1>4 DEF Request, Goes, SameJoined, SameRow
  <1> QED BY <1>1, <1>5

LEMMA LeaveGroupGoes ==
  ASSUME TypeOK, NEW s \in Slots, LeaveGroup(s)
  PROVE  Goes(s, "leave") /\ SameJoined(s) /\ SameLeave(s) /\ SameRow(s) /\ Begin(s, {}, Off)
  <1>1. req'[s] = [req[s] EXCEPT !.at = "leave", !.group = NoGroup]
    BY DEF LeaveGroup, TypeOK
  <1>2. req[s] \in Request
    BY DEF TypeOK
  <1>3. UNCHANGED account /\ Begin(s, {}, Off)
    BY DEF LeaveGroup
  <1> QED BY <1>1, <1>2, <1>3 DEF Request, Goes, SameJoined, SameLeave, SameRow

\* Where a request begins tasks, and what its old ones become.
LEMMA Begun ==
  ASSUME NEW s \in Slots, NEW G, NEW t, Begin(s, G, t)
  PROVE  /\ \A g \in Groups : task'[<<s, g>>] = IF g \in G THEN t ELSE Off
         /\ \A p \in Slots \X Groups : p[1] # s => task'[p] = task[p]
  BY DEF Begin

LEMMA Replied ==
  ASSUME TypeOK, NEW s \in Slots, Reply(s)
  PROVE  /\ req'[s] = Idle
         /\ \A g \in Groups : task'[<<s, g>>] = Off
  BY Begun DEF Reply, TypeOK

LEMMA OthersWait ==
  ASSUME TypeOK, NEW s \in Slots, Step(s), NEW z \in Slots, z # s
  PROVE  req'[z] = req[z]
  <1>1. Reply(s) => req'[z] = req[z]
    BY DEF Reply, TypeOK
  <1>2. \A stage : Goto(s, stage) => req'[z] = req[z]
    BY DEF Goto, TypeOK
  <1>3. CASE GroupStep(s)
    BY <1>1, <1>2, <1>3 DEF GroupStep, InsertGroup, LoadGroup, FindTarget, FindMembership,
       FinishAdd, RemoveMember, SetMemberRole, DestroyGroup, TypeOK
  <1>4. CASE UserStep(s)
    BY <1>1, <1>2, <1>4 DEF UserStep, LoadUser, UpdateUser, CountAdmins, ListGroups,
       DestroyUser, Drain, TypeOK
  <1>5. CASE SyncStep(s)
    BY <1>1, <1>2, <1>5 DEF SyncStep, ReadCurrentGroups, LeaveNext, LeaveGroup, JoinGroups,
       CheckDangling, FinishSync, TypeOK
  <1> QED BY <1>3, <1>4, <1>5 DEF Step

-----------------------------------------------------------------------------
(* What one statement of a task does. *)

\* The owner check of a departure of u goes on to find the group a new owner.
Sole(g, u) ==
  \/ OwnerRows(g) = {}
  \/ Cardinality(OwnerRows(g)) < 2 /\ \E x \in OwnerRows(g) : x.user = u

\* The task of s on g goes from one phase to another and keeps its other fields.
Moves(s, g, from, to) ==
  /\ task[<<s, g>>].ph = from /\ task'[<<s, g>>].ph = to
  /\ task'[<<s, g>>].user = task[<<s, g>>].user
  /\ task'[<<s, g>>].role = task[<<s, g>>].role
  /\ task'[<<s, g>>].row = task[<<s, g>>].row

LEMMA TaskFrame ==
  ASSUME TypeOK, NEW s \in Slots, NEW g \in Groups, TaskStep(s, g)
  PROVE  /\ UNCHANGED <<account, group, req>>
         /\ \A p \in Slots \X Groups : p # <<s, g>> => task'[p] = task[p]
  <1> USE DEF TypeOK, Advance
  <1>1. CASE ReadOwners(s, g) \/ FindDefaultAdmin(s, g) \/ FindLowestAdmin(s, g)
    BY <1>1 DEF ReadOwners, FindDefaultAdmin, FindLowestAdmin
  <1>2. CASE FindAdminInGroup(s, g) \/ PromoteAdmin(s, g)
    BY <1>2 DEF FindAdminInGroup, PromoteAdmin
  <1>3. CASE LookUpRow(s, g) \/ InsertRow(s, g) \/ UpdateRows(s, g)
    BY <1>3 DEF LookUpRow, InsertRow, UpdateRows
  <1> QED BY <1>1, <1>2, <1>3 DEF TaskStep

LEMMA AdvanceMoves ==
  ASSUME TypeOK, NEW s \in Slots, NEW g \in Groups, NEW ph, Advance(s, g, ph)
  PROVE  Moves(s, g, task[<<s, g>>].ph, ph)
  <1>1. task[<<s, g>>] \in Task
    BY DEF TypeOK
  <1>2. task'[<<s, g>>] = [task[<<s, g>>] EXCEPT !.ph = ph]
    BY DEF Advance, TypeOK
  <1> QED BY <1>1, <1>2 DEF Task, Moves

LEMMA ReadOwnersMoves ==
  ASSUME TypeOK, NEW s \in Slots, NEW g \in Groups, ReadOwners(s, g)
  PROVE  /\ rows' = rows
         /\ \/ Moves(s, g, "owners", "default") /\ Sole(g, task[<<s, g>>].user)
            \/ Moves(s, g, "owners", "done") /\ ~Sole(g, task[<<s, g>>].user)
  <1>1. /\ Advance(s, g, IF Sole(g, task[<<s, g>>].user) THEN "default" ELSE "done")
        /\ task[<<s, g>>].ph = "owners" /\ rows' = rows
    BY DEF ReadOwners, Sole
  <1> QED BY <1>1, AdvanceMoves

LEMMA FindDefaultAdminMoves ==
  ASSUME TypeOK, NEW s \in Slots, NEW g \in Groups, FindDefaultAdmin(s, g)
  PROVE  /\ rows' = rows /\ task[<<s, g>>].ph = "default"
         /\ \/ /\ DefaultAdmin \in Admins
               /\ task'[<<s, g>>].ph = "within" /\ task'[<<s, g>>].user = DefaultAdmin
               /\ task'[<<s, g>>].role = task[<<s, g>>].role
               /\ task'[<<s, g>>].row = task[<<s, g>>].row
            \/ DefaultAdmin \notin Admins /\ Moves(s, g, "default", "lowest")
  <1>1. task[<<s, g>>] \in Task
    BY DEF TypeOK
  <1>2. CASE DefaultAdmin \in Admins
    <2>1. task'[<<s, g>>] = [task[<<s, g>>] EXCEPT !.ph = "within", !.user = DefaultAdmin]
      BY <1>2 DEF FindDefaultAdmin, TypeOK
    <2>2. /\ task'[<<s, g>>].ph = "within" /\ task'[<<s, g>>].user = DefaultAdmin
          /\ task'[<<s, g>>].role = task[<<s, g>>].role
          /\ task'[<<s, g>>].row = task[<<s, g>>].row
      BY <1>1, <2>1 DEF Task
    <2> QED BY <1>2, <2>2 DEF FindDefaultAdmin
  <1>3. CASE DefaultAdmin \notin Admins
    BY <1>3, AdvanceMoves DEF FindDefaultAdmin
  <1> QED BY <1>2, <1>3

LEMMA FindLowestAdminMoves ==
  ASSUME TypeOK, NEW s \in Slots, NEW g \in Groups, FindLowestAdmin(s, g)
  PROVE  /\ rows' = rows /\ task[<<s, g>>].ph = "lowest"
         /\ \/ /\ task'[<<s, g>>].user \in Admins
               /\ \A b \in Admins : task'[<<s, g>>].user <= b
               /\ task'[<<s, g>>].ph = "within"
               /\ task'[<<s, g>>].role = task[<<s, g>>].role
               /\ task'[<<s, g>>].row = task[<<s, g>>].row
            \/ Admins = {} /\ Moves(s, g, "lowest", "failed")
  <1>1. task[<<s, g>>] \in Task
    BY DEF TypeOK
  <1>2. CASE Admins = {} /\ Advance(s, g, "failed")
    BY <1>2, AdvanceMoves DEF FindLowestAdmin
  <1>3. ASSUME NEW a \in Admins, \A b \in Admins : a <= b,
               task' = [task EXCEPT ![<<s, g>>].ph = "within", ![<<s, g>>].user = a]
        PROVE  /\ task'[<<s, g>>].ph = "within" /\ task'[<<s, g>>].user = a
               /\ task'[<<s, g>>].role = task[<<s, g>>].role
               /\ task'[<<s, g>>].row = task[<<s, g>>].row
    <2>1. task'[<<s, g>>] = [task[<<s, g>>] EXCEPT !.ph = "within", !.user = a]
      BY <1>3 DEF TypeOK
    <2> QED BY <1>1, <2>1 DEF Task
  <1> QED BY <1>2, <1>3 DEF FindLowestAdmin

LEMMA FindAdminInGroupMoves ==
  ASSUME TypeOK, NEW s \in Slots, NEW g \in Groups, FindAdminInGroup(s, g)
  PROVE  /\ rows' = rows /\ task[<<s, g>>].ph = "within"
         /\ \/ /\ task'[<<s, g>>].row \in RowsOf(g, task[<<s, g>>].user)
               /\ task'[<<s, g>>].ph = "promote"
               /\ task'[<<s, g>>].role = task[<<s, g>>].role
               /\ task'[<<s, g>>].user = task[<<s, g>>].user
            \/ ~InGroup(g, task[<<s, g>>].user) /\ Moves(s, g, "within", "look")
  <1>1. task[<<s, g>>] \in Task
    BY DEF TypeOK
  <1>2. CASE ~InGroup(g, task[<<s, g>>].user) /\ Advance(s, g, "look")
    BY <1>2, AdvanceMoves DEF FindAdminInGroup
  <1>3. ASSUME NEW x \in RowsOf(g, task[<<s, g>>].user),
               task' = [task EXCEPT ![<<s, g>>].ph = "promote", ![<<s, g>>].row = x]
        PROVE  /\ task'[<<s, g>>].row = x
               /\ task'[<<s, g>>].ph = "promote"
               /\ task'[<<s, g>>].role = task[<<s, g>>].role
               /\ task'[<<s, g>>].user = task[<<s, g>>].user
    <2>1. task'[<<s, g>>] = [task[<<s, g>>] EXCEPT !.ph = "promote", !.row = x]
      BY <1>3 DEF TypeOK
    <2> QED BY <1>1, <2>1 DEF Task
  <1> QED BY <1>2, <1>3 DEF FindAdminInGroup

LEMMA PromoteAdminMoves ==
  ASSUME TypeOK, NEW s \in Slots, NEW g \in Groups, PromoteAdmin(s, g)
  PROVE  /\ rows' = WithRole(task[<<s, g>>].row, "owner") /\ task[<<s, g>>].ph = "promote"
         /\ task'[<<s, g>>].ph = "done" /\ task'[<<s, g>>].row = NoRow
         /\ task'[<<s, g>>].role = task[<<s, g>>].role
         /\ task'[<<s, g>>].user = task[<<s, g>>].user
  <1>1. task[<<s, g>>] \in Task
    BY DEF TypeOK
  <1>2. task'[<<s, g>>] = [task[<<s, g>>] EXCEPT !.ph = "done", !.row = NoRow]
    BY DEF PromoteAdmin, TypeOK
  <1>3. rows' = WithRole(task[<<s, g>>].row, "owner") /\ task[<<s, g>>].ph = "promote"
    BY DEF PromoteAdmin
  <1>4. /\ task'[<<s, g>>].ph = "done" /\ task'[<<s, g>>].row = NoRow
        /\ task'[<<s, g>>].role = task[<<s, g>>].role
        /\ task'[<<s, g>>].user = task[<<s, g>>].user
    BY <1>1, <1>2 DEF Task
  <1> QED BY <1>3, <1>4

LEMMA LookUpRowMoves ==
  ASSUME TypeOK, NEW s \in Slots, NEW g \in Groups, LookUpRow(s, g)
  PROVE  /\ rows' = rows
         /\ \/ InGroup(g, task[<<s, g>>].user) /\ Moves(s, g, "look", "update")
            \/ ~InGroup(g, task[<<s, g>>].user) /\ Moves(s, g, "look", "insert")
  BY AdvanceMoves DEF LookUpRow

LEMMA InsertRowMoves ==
  ASSUME TypeOK, NEW s \in Slots, NEW g \in Groups, InsertRow(s, g)
  PROVE  \/ /\ Exists(task[<<s, g>>].user) /\ group[g] = "live"
            /\ Moves(s, g, "insert", "done")
            /\ \E i \in RowIds : /\ IsNextId(i)
                                 /\ rows' = rows \cup {[id |-> i, group |-> g,
                                                        user |-> task[<<s, g>>].user,
                                                        role |-> task[<<s, g>>].role]}
         \/ /\ ~(Exists(task[<<s, g>>].user) /\ group[g] = "live")
            /\ Moves(s, g, "insert", "failed") /\ rows' = rows
  BY AdvanceMoves DEF InsertRow

LEMMA UpdateRowsMoves ==
  ASSUME TypeOK, NEW s \in Slots, NEW g \in Groups, UpdateRows(s, g)
  PROVE  /\ Moves(s, g, "update", "done")
         /\ rows' = {IF x \in RowsOf(g, task[<<s, g>>].user)
                     THEN [x EXCEPT !.role = task[<<s, g>>].role] ELSE x : x \in rows}
  BY AdvanceMoves DEF UpdateRows

-----------------------------------------------------------------------------
(* Row ids: what a handler read of a row stays true of its id. *)

\* No id is used twice, and the row a request or a task remembers, if it is still
\* there, is of the user and the group it was of.
IdsName ==
  \A x \in rows :
    /\ \A y \in rows : x.id = y.id => x = y
    /\ \A s \in Slots : x.id = req[s].row.id => SamePair(x, req[s].row)
    /\ \A t \in Slots \X Groups : x.id = task[t].row.id => SamePair(x, task[t].row)

\* Statements that insert nothing.
LEMMA IdsStay ==
  ASSUME TypeOK, IdsName,
         \/ rows' \subseteq rows
         \/ \E read, role : rows' = WithRole(read, role)
         \/ \E g, u, role : rows' = {IF x \in RowsOf(g, u) THEN [x EXCEPT !.role = role] ELSE x
                                      : x \in rows},
         \A s \in Slots : req'[s].row \in rows \cup {req[s].row, NoRow},
         \A t \in Slots \X Groups : task'[t].row \in rows \cup {task[t].row, NoRow}
  PROVE  IdsName'
  <1>1. ASSUME NEW x \in rows'
        PROVE  \E y \in rows : x.id = y.id /\ SamePair(x, y)
    <2>1. \A y \in rows : y \in Row
      BY DEF TypeOK
    <2>2. CASE rows' \subseteq rows
      BY <1>1, <2>2 DEF SamePair
    <2>3. CASE \E read, role : rows' = WithRole(read, role)
      <3>1. PICK read, role : rows' = WithRole(read, role)
        BY <2>3
      <3>2. x \in rows \/ \E y \in rows : x = [y EXCEPT !.role = role]
        BY <1>1, <3>1 DEF WithRole
      <3> QED BY <2>1, <3>2 DEF SamePair, Row
    <2>4. CASE \E g, u, role : rows' = {IF z \in RowsOf(g, u) THEN [z EXCEPT !.role = role] ELSE z
                                         : z \in rows}
      <3>1. PICK role : x \in rows \/ \E y \in rows : x = [y EXCEPT !.role = role]
        BY <1>1, <2>4
      <3> QED BY <2>1, <3>1 DEF SamePair, Row
    <2> QED BY <2>2, <2>3, <2>4
  <1>2. ASSUME NEW x \in rows', NEW y \in rows', x.id = y.id
        PROVE  x = y
    <2>1. \A z \in rows : z \in Row
      BY DEF TypeOK
    <2>2. CASE rows' \subseteq rows
      BY <1>2, <2>2 DEF IdsName
    <2>3. CASE \E read, role : rows' = WithRole(read, role)
      <3>1. PICK read, role : rows' = WithRole(read, role)
        BY <2>3
      <3>2. CASE read.role = role
        BY <1>2, <3>1, <3>2 DEF IdsName, WithRole
      <3>3. CASE read.role # role
        <4>1. rows' = {IF z.id = read.id THEN [z EXCEPT !.role = role] ELSE z : z \in rows}
          BY <3>1, <3>3 DEF WithRole
        <4>2. PICK a \in rows : x = IF a.id = read.id THEN [a EXCEPT !.role = role] ELSE a
          BY <4>1
        <4>3. PICK b \in rows : y = IF b.id = read.id THEN [b EXCEPT !.role = role] ELSE b
          BY <4>1
        <4>4. x.id = a.id /\ y.id = b.id
          BY <2>1, <4>2, <4>3 DEF Row
        <4> QED BY <1>2, <4>2, <4>3, <4>4 DEF IdsName
      <3> QED BY <3>2, <3>3
    <2>4. CASE \E g, u, role : rows' = {IF z \in RowsOf(g, u) THEN [z EXCEPT !.role = role] ELSE z
                                         : z \in rows}
      <3>1. PICK g, u, role : rows' = {IF z \in RowsOf(g, u) THEN [z EXCEPT !.role = role] ELSE z
                                         : z \in rows}
        BY <2>4
      <3>2. PICK a \in rows : x = IF a \in RowsOf(g, u) THEN [a EXCEPT !.role = role] ELSE a
        BY <3>1
      <3>3. PICK b \in rows : y = IF b \in RowsOf(g, u) THEN [b EXCEPT !.role = role] ELSE b
        BY <3>1
      <3>4. x.id = a.id /\ y.id = b.id
        BY <2>1, <3>2, <3>3 DEF Row
      <3> QED BY <1>2, <3>2, <3>3, <3>4 DEF IdsName
    <2> QED BY <2>2, <2>3, <2>4
  <1>3. \A x \in rows' : x.id # NoRow.id
    BY <1>1, RowIdsAssumption DEF TypeOK, Row, NoRow
  <1>4. ASSUME NEW x \in rows', NEW old, NEW new \in rows \cup {old, NoRow}, x.id = new.id,
               \A y \in rows : y.id = old.id => SamePair(y, old)
        PROVE  SamePair(x, new)
    <2>1. PICK y \in rows : x.id = y.id /\ SamePair(x, y)
      BY <1>1
    <2>2. CASE new = NoRow
      BY <1>3, <1>4, <2>2
    <2>3. CASE new = old
      BY <1>4, <2>1, <2>3 DEF SamePair
    <2>4. CASE new \in rows
      BY <1>4, <2>1, <2>4 DEF IdsName, SamePair
    <2> QED BY <2>2, <2>3, <2>4
  <1>5. \A x \in rows', s \in Slots : x.id = req'[s].row.id => SamePair(x, req'[s].row)
    BY <1>4 DEF IdsName
  <1>6. \A x \in rows', t \in Slots \X Groups : x.id = task'[t].row.id => SamePair(x, task'[t].row)
    BY <1>4 DEF IdsName
  <1> QED BY <1>2, <1>5, <1>6 DEF IdsName, SamePair

\* What a request remembers after a step, and what its tasks are.
LEMMA StepRemembers ==
  ASSUME TypeOK, NEW s \in Slots, Step(s)
  PROVE  /\ rows' \subseteq rows \/ \E read, role : rows' = WithRole(read, role)
         /\ req'[s].row \in rows \cup {req[s].row, NoRow}
         /\ \A t \in Slots \X Groups : task'[t].row \in rows \cup {task[t].row, NoRow}
  <1>1. rows' \subseteq rows \/ \E read, role : rows' = WithRole(read, role)
    BY DEF Step, GroupStep, UserStep, SyncStep, InsertGroup, LoadGroup, FindTarget,
       FindMembership, FinishAdd, RemoveMember, SetMemberRole, DestroyGroup, LoadUser,
       UpdateUser, CountAdmins, ListGroups, DestroyUser, Drain, ReadCurrentGroups,
       LeaveNext, LeaveGroup, JoinGroups, CheckDangling, FinishSync
  <1>2. /\ Off.row = NoRow
        /\ \A u : EnsureOwner(u).row = NoRow
        /\ \A u, role : AddUser(u, role).row = NoRow
    BY DEF Off, EnsureOwner, AddUser
  <1>3. ASSUME NEW G, NEW t, t.row = NoRow, Begin(s, G, t)
        PROVE  \A p \in Slots \X Groups : task'[p].row \in {task[p].row, NoRow}
    BY <1>2, <1>3 DEF Begin
  <1>4. \/ UNCHANGED task
        \/ \E G : \/ Begin(s, G, Off)
                  \/ \E u : Begin(s, G, EnsureOwner(u)) \/ \E role : Begin(s, G, AddUser(u, role))
    <2>1. CASE GroupStep(s)
      BY <2>1 DEF GroupStep, InsertGroup, LoadGroup, FindTarget, FindMembership, FinishAdd,
         RemoveMember, SetMemberRole, DestroyGroup, Reply
    <2>2. CASE UserStep(s)
      BY <2>2 DEF UserStep, LoadUser, UpdateUser, CountAdmins, ListGroups, DestroyUser, Drain, Reply
    <2>3. CASE SyncStep(s)
      BY <2>3 DEF SyncStep, ReadCurrentGroups, LeaveNext, LeaveGroup, JoinGroups, CheckDangling,
         FinishSync, Reply
    <2> QED BY <2>1, <2>2, <2>3 DEF Step
  <1>5. \A p \in Slots \X Groups : task'[p].row \in {task[p].row, NoRow}
    BY <1>2, <1>3, <1>4
  <1>6. req'[s].row \in rows \cup {req[s].row, NoRow}
    <2>1. CASE Reply(s)
      BY <2>1, Replied DEF Idle, NewRequest
    <2>2. CASE ~Reply(s)
      <3>1. \A stage : Goto(s, stage) /\ UNCHANGED account => SameRow(s)
        BY GotoFields
      <3>2. CASE InsertGroup(s) \/ FindMembership(s)
        BY <2>2, <3>2, InsertGroupGoes, FindMembershipGoes DEF SameRow, RowsOf
      <3>3. CASE LoadUser(s) \/ ReadCurrentGroups(s) \/ LeaveNext(s) \/ LeaveGroup(s)
        BY <2>2, <3>3, LoadUserGoes, ReadCurrentGroupsGoes, LeaveNextGoes, LeaveGroupGoes
           DEF SameRow
      <3>4. CASE LoadGroup(s) \/ FindTarget(s) \/ FinishAdd(s) \/ RemoveMember(s)
                 \/ SetMemberRole(s) \/ DestroyGroup(s)
        BY <2>2, <3>1, <3>4 DEF LoadGroup, FindTarget, FinishAdd, RemoveMember, SetMemberRole,
           DestroyGroup, SameRow
      <3>5. CASE UpdateUser(s) \/ CountAdmins(s) \/ ListGroups(s) \/ DestroyUser(s) \/ Drain(s)
        BY <2>2, <3>1, <3>5 DEF UpdateUser, CountAdmins, ListGroups, DestroyUser, Drain, SameRow
      <3>6. CASE JoinGroups(s) \/ CheckDangling(s) \/ FinishSync(s)
        BY <2>2, <3>1, <3>6 DEF JoinGroups, CheckDangling, FinishSync, SameRow
      <3> QED BY <3>2, <3>3, <3>4, <3>5, <3>6 DEF Step, GroupStep, UserStep, SyncStep
    <2> QED BY <2>1, <2>2
  <1> QED BY <1>1, <1>5, <1>6

LEMMA TaskIds ==
  ASSUME TypeOK, IdsName, NEW s \in Slots, NEW g \in Groups, TaskStep(s, g)
  PROVE  IdsName'
  <1> DEFINE t == task[<<s, g>>]
             n == task'[<<s, g>>]
  <1>0. req' = req /\ \A p \in Slots \X Groups : p # <<s, g>> => task'[p] = task[p]
    BY TaskFrame
  <1>s. ASSUME \/ rows' \subseteq rows
               \/ \E read, role : rows' = WithRole(read, role)
               \/ \E h, u, role : rows' = {IF x \in RowsOf(h, u) THEN [x EXCEPT !.role = role]
                                            ELSE x : x \in rows},
               n.row \in rows \cup {t.row, NoRow}
        PROVE  IdsName'
    <2>1. \A p \in Slots \X Groups : task'[p].row \in rows \cup {task[p].row, NoRow}
      BY <1>0, <1>s
    <2> HIDE DEF t, n
    <2> QED BY <1>0, <1>s, <2>1, IdsStay
  <1>1. CASE ReadOwners(s, g) \/ LookUpRow(s, g)
    BY <1>1, <1>s, ReadOwnersMoves, LookUpRowMoves DEF Moves
  <1>2. CASE FindDefaultAdmin(s, g) \/ FindLowestAdmin(s, g)
    BY <1>2, <1>s, FindDefaultAdminMoves, FindLowestAdminMoves DEF Moves
  <1>3. CASE FindAdminInGroup(s, g)
    BY <1>3, <1>s, FindAdminInGroupMoves DEF Moves, RowsOf
  <1>4. CASE PromoteAdmin(s, g)
    BY <1>4, <1>s, PromoteAdminMoves
  <1>5. CASE UpdateRows(s, g)
    <2>1. n.row = t.row
      BY <1>5, UpdateRowsMoves DEF Moves
    <2>2. \E h, u, role : rows' = {IF x \in RowsOf(h, u) THEN [x EXCEPT !.role = role]
                                   ELSE x : x \in rows}
      <3>1. \E u, role : rows' = {IF x \in RowsOf(g, u) THEN [x EXCEPT !.role = role]
                                 ELSE x : x \in rows}
        <4>1. rows' = {IF x \in RowsOf(g, t.user) THEN [x EXCEPT !.role = t.role] ELSE x : x \in rows}
          BY <1>5, UpdateRowsMoves
        <4> WITNESS t.user, t.role
        <4> QED BY <4>1
      <3> QED BY <3>1
    <2> QED BY <1>s, <2>1, <2>2
  <1>6. CASE InsertRow(s, g)
    <2>1. CASE rows' = rows
      BY <1>6, <2>1, <1>s, InsertRowMoves DEF Moves
    <2>2. CASE rows' # rows
      <3>1. PICK i \in RowIds : /\ IsNextId(i)
                                /\ rows' = rows \cup {[id |-> i, group |-> g, user |-> t.user,
                                                       role |-> t.role]}
        BY <1>6, <2>2, InsertRowMoves
      <3> DEFINE new == [id |-> i, group |-> g, user |-> t.user, role |-> t.role]
      <3>2. new.id = i /\ rows' = rows \cup {new}
        BY <3>1
      <3> HIDE DEF new
      <3>3. /\ \A x \in rows : x.id # i
            /\ \A z \in Slots : req[z].row.id # i
            /\ \A p \in Slots \X Groups : task[p].row.id # i
        BY <3>1 DEF IsNextId, UsedIds
      <3>4. \A p \in Slots \X Groups : task'[p].row = task[p].row
        <4>1. n.row = t.row
          BY <1>6, InsertRowMoves DEF Moves
        <4> QED BY <1>0, <4>1
      <3> HIDE DEF t, n
      <3>5. ASSUME NEW x \in rows', NEW y \in rows', x.id = y.id
            PROVE  x = y
        BY <3>2, <3>3, <3>5 DEF IdsName
      <3>6. \A x \in rows', z \in Slots : x.id = req'[z].row.id => SamePair(x, req'[z].row)
        BY <1>0, <3>2, <3>3 DEF IdsName
      <3>7. \A x \in rows', p \in Slots \X Groups :
              x.id = task'[p].row.id => SamePair(x, task'[p].row)
        BY <3>2, <3>3, <3>4 DEF IdsName
      <3> QED BY <3>5, <3>6, <3>7 DEF IdsName, SamePair
    <2> QED BY <2>1, <2>2
  <1> QED BY <1>1, <1>2, <1>3, <1>4, <1>5, <1>6 DEF TaskStep

\* However requests interleave, an id names the membership it named when it was read.
THEOREM IdsKept == Spec => []IdsName
  <1>1. Init => IdsName
    BY DEF Init, IdsName
  <1>2. TypeOK /\ IdsName /\ [Next]_vars => IdsName'
    <2> SUFFICES ASSUME TypeOK, IdsName, [Next]_vars PROVE IdsName'
      OBVIOUS
    <2>1. CASE UNCHANGED vars
      BY <2>1 DEF IdsName, SamePair, vars
    <2>2. CASE Register
      BY <2>2 DEF IdsName, SamePair, Register
    <2>3. ASSUME NEW s \in Slots, Receive(s) PROVE IdsName'
      <3>1. \A z \in Slots : req'[z].row \in rows \cup {req[z].row, NoRow}
        BY <2>3 DEF Receive, NewRequest, TypeOK
      <3> QED BY <2>3, <3>1, IdsStay DEF Receive
    <2>4. ASSUME NEW s \in Slots, Step(s) PROVE IdsName'
      <3>1. \A z \in Slots : req'[z].row \in rows \cup {req[z].row, NoRow}
        BY <2>4, OthersWait, StepRemembers
      <3> QED BY <2>4, <3>1, IdsStay, StepRemembers
    <2> QED BY <2>1, <2>2, <2>3, <2>4, TaskIds DEF Next
  <1> QED BY <1>1, <1>2, TypeCorrect, PTL DEF Spec

-----------------------------------------------------------------------------
(* The stages of a request and the tasks it runs at each. *)

OpsAt(stage) ==
  CASE stage = "idle" -> {"none"}
    [] stage = "insert" -> {"createGroup"}
    [] stage = "load" -> {"removeGroup", "addUser", "removeUser", "setRole"}
    [] stage = "target" -> {"addUser", "removeUser"}
    [] stage \in {"row", "demoting"} -> {"setRole"}
    [] stage = "adding" -> {"createGroup", "addUser"}
    [] stage = "removing" -> {"removeUser"}
    [] stage = "user" -> {"updateUser", "deleteUser"}
    [] stage = "save" -> {"updateUser", "removeGroup"}
    [] stage \in {"count", "groups", "cleaning"} -> {"deleteUser"}
    [] stage \in {"current", "leave", "leaving", "joining", "dangling"} -> {"sync"}
    [] stage = "drain" -> {"deleteUser", "sync"}

\* The stages at which owner checks run, for the request's group or for several groups.
OneCheck    == {"removing", "demoting", "leaving"}
CheckStages == OneCheck \cup {"cleaning", "dangling"}

StageInv(s) ==
  /\ req[s].op \in OpsAt(req[s].at)
  /\ req[s].at = "demoting" => req[s].row.group = req[s].group /\ req[s].row.user = req[s].user
  /\ \A g \in Groups : task[<<s, g>>].ph # "off" =>
       /\ \/ req[s].at \in OneCheck \cup {"adding"} /\ g = req[s].group
          \/ req[s].at \in {"cleaning", "joining", "dangling", "drain"}
       /\ req[s].at \in CheckStages => task[<<s, g>>].role = "owner"
  /\ \A g \in Groups : task[<<s, g>>].ph = "promote" =>
       task[<<s, g>>].row.group = g /\ task[<<s, g>>].row.user = task[<<s, g>>].user

\* A request that goes on without tasks, or with tasks that it begins.
LEMMA StageGoes ==
  ASSUME TypeOK, NEW s \in Slots, StageInv(s), NEW stage, Goes(s, stage),
         req[s].op \in OpsAt(stage),
         stage = "demoting" => /\ req'[s].row.group = req'[s].group
                               /\ req'[s].row.user = req[s].user,
         \/ \A g \in Groups : task'[<<s, g>>].ph = "off"
         \/ \E G, t :
              /\ Begin(s, G, t) /\ t.ph # "promote"
              /\ stage \in CheckStages => t.role = "owner"
              /\ \/ stage \in OneCheck \cup {"adding"} /\ G = {req'[s].group}
                 \/ stage \in {"cleaning", "joining", "dangling", "drain"}
  PROVE  StageInv(s)'
  <1>1. req'[s].at = stage /\ req'[s].op = req[s].op /\ req'[s].user = req[s].user
    BY DEF Goes
  <1>2. CASE \A g \in Groups : task'[<<s, g>>].ph = "off"
    BY <1>1, <1>2 DEF StageInv
  <1>3. ASSUME NEW G, NEW t, Begin(s, G, t), t.ph # "promote",
               stage \in CheckStages => t.role = "owner",
               \/ stage \in OneCheck \cup {"adding"} /\ G = {req'[s].group}
               \/ stage \in {"cleaning", "joining", "dangling", "drain"}
        PROVE  StageInv(s)'
    <2>1. \A g \in Groups : task'[<<s, g>>] = IF g \in G THEN t ELSE Off
      BY <1>3, Begun
    <2>2. Off.ph = "off"
      BY DEF Off
    <2>3. \A g \in Groups : task'[<<s, g>>].ph # "off" => g \in G /\ task'[<<s, g>>] = t
      BY <2>1, <2>2
    <2>4. \A g \in Groups : task'[<<s, g>>].ph # "promote"
      BY <1>3, <2>1, <2>2
    <2> QED BY <1>1, <1>3, <2>3, <2>4 DEF StageInv
  <1> QED BY <1>2, <1>3

LEMMA StageReplied ==
  ASSUME TypeOK, NEW s \in Slots, Reply(s)
  PROVE  StageInv(s)'
  <1>1. req'[s].at = "idle" /\ req'[s].op = "none" /\ \A g \in Groups : task'[<<s, g>>].ph = "off"
    BY Replied DEF Idle, NewRequest, Off
  <1> QED BY <1>1 DEF StageInv, OpsAt

\* The request stays at a stage where its tasks may run on.
LEMMA StageDrains ==
  ASSUME TypeOK, NEW s \in Slots, StageInv(s), Goto(s, "drain"), UNCHANGED account, UNCHANGED task,
         req[s].op \in {"deleteUser", "sync"}
  PROVE  StageInv(s)'
  <1>1. req'[s].at = "drain" /\ req'[s].op = req[s].op
    BY GotoFields DEF Goes
  <1> QED BY <1>1 DEF StageInv, OpsAt, CheckStages, OneCheck

LEMMA BegunShapes ==
  /\ \A u : EnsureOwner(u).ph = "owners" /\ EnsureOwner(u).user = u /\ EnsureOwner(u).role = "owner"
  /\ \A u, role : /\ AddUser(u, role).ph = "look" /\ AddUser(u, role).user = u
                  /\ AddUser(u, role).role = role
  /\ Off.ph = "off"
  BY DEF EnsureOwner, AddUser, Off

LEMMA NoTasks ==
  ASSUME NEW s \in Slots, StageInv(s),
         req[s].at \notin OneCheck \cup {"adding", "cleaning", "joining", "dangling", "drain"}
  PROVE  \A g \in Groups : task[<<s, g>>].ph = "off"
  BY DEF StageInv

LEMMA StageKept ==
  ASSUME TypeOK, NEW s \in Slots, StageInv(s), Step(s)
  PROVE  StageInv(s)'
  <1> USE DEF OneCheck, CheckStages
  <1>t. req[s].group \in Groups \cup {NoGroup} /\ req[s].leave \subseteq Groups
        /\ req[s].joined \subseteq Groups /\ req[s].op \in OpsAt(req[s].at)
    BY DEF TypeOK, Request, StageInv
  <1>r. Reply(s) => StageInv(s)'
    BY StageReplied
  <1>1. CASE InsertGroup(s) /\ ~Reply(s)
    <2>1. req[s].op \in OpsAt("adding")
      BY <1>1, <1>t DEF OpsAt, InsertGroup
    <2> QED BY <1>1, <2>1, InsertGroupGoes, BegunShapes, StageGoes
  <1>2. CASE LoadGroup(s) /\ ~Reply(s)
    <2>1. /\ req[s].op \in OpsAt("load") /\ req[s].at = "load"
          /\ Goto(s, AfterLoad(req[s].op)) /\ UNCHANGED <<account, task>>
      BY <1>2, <1>t DEF LoadGroup
    <2>2. Goes(s, AfterLoad(req[s].op)) /\ \A g \in Groups : task'[<<s, g>>].ph = "off"
      BY <2>1, NoTasks, GotoFields
    <2>3. req[s].op \in OpsAt(AfterLoad(req[s].op)) /\ AfterLoad(req[s].op) # "demoting"
      BY <2>1 DEF OpsAt, AfterLoad
    <2> QED BY <2>2, <2>3, StageGoes
  <1>3. CASE FindTarget(s) /\ ~Reply(s)
    <2>1. CASE req[s].op = "addUser"
      BY <1>3, <2>1, <1>t, GotoFields, BegunShapes, StageGoes DEF FindTarget, OpsAt, SameGroup
    <2>2. CASE req[s].op = "removeUser"
      BY <1>3, <2>2, <1>t, GotoFields, BegunShapes, StageGoes DEF FindTarget, OpsAt, SameGroup
    <2> QED BY <1>3, <2>1, <2>2 DEF FindTarget
  <1>4. CASE FindMembership(s) /\ ~Reply(s)
    BY <1>4, <1>t, FindMembershipGoes, BegunShapes, StageGoes
       DEF FindMembership, OpsAt, SameGroup, RowsOf
  <1>5. CASE LoadUser(s) /\ ~Reply(s)
    BY <1>5, <1>t, LoadUserGoes, NoTasks, StageGoes DEF LoadUser, OpsAt
  <1>6. CASE CountAdmins(s) /\ ~Reply(s)
    BY <1>6, <1>t, GotoFields, NoTasks, StageGoes DEF CountAdmins, OpsAt
  <1>7. CASE ListGroups(s)
    BY <1>7, <1>t, GotoFields, BegunShapes, StageGoes DEF ListGroups, OpsAt
  <1>8. CASE (DestroyUser(s) \/ CheckDangling(s) \/ FinishSync(s)) /\ Goto(s, "drain")
              /\ UNCHANGED <<account, task>>
    BY <1>8, <1>t, StageDrains DEF DestroyUser, CheckDangling, FinishSync, OpsAt
  <1>9. CASE ReadCurrentGroups(s)
    BY <1>9, <1>t, ReadCurrentGroupsGoes, NoTasks, StageGoes DEF ReadCurrentGroups, OpsAt
  <1>10. CASE LeaveNext(s)
    BY <1>10, <1>t, LeaveNextGoes, BegunShapes, StageGoes DEF LeaveNext, OpsAt
  <1>11. CASE LeaveGroup(s)
    <2>1. \A g \in Groups : task'[<<s, g>>].ph = "off"
      BY <1>11, LeaveGroupGoes, Begun, BegunShapes
    <2> QED BY <1>11, <2>1, <1>t, LeaveGroupGoes, StageGoes DEF LeaveGroup, OpsAt
  <1>12. CASE JoinGroups(s)
    BY <1>12, <1>t, GotoFields, BegunShapes, StageGoes DEF JoinGroups, OpsAt
  <1>13. CASE CheckDangling(s) /\ Goto(s, "dangling")
              /\ Begin(s, req[s].joined \ req[s].names, EnsureOwner(req[s].user))
    BY <1>13, <1>t, GotoFields, BegunShapes, StageGoes DEF CheckDangling, OpsAt
  <1>14. CASE FinishAdd(s) \/ RemoveMember(s) \/ SetMemberRole(s) \/ DestroyGroup(s)
              \/ UpdateUser(s) \/ Drain(s)
    BY <1>14, <1>r DEF FinishAdd, RemoveMember, SetMemberRole, DestroyGroup, UpdateUser, Drain
  <1> QED BY <1>r, <1>1, <1>2, <1>3, <1>4, <1>5, <1>6, <1>7, <1>8, <1>9, <1>10, <1>11, <1>12,
             <1>13, <1>14
          DEF Step, GroupStep, UserStep, SyncStep, DestroyUser, CheckDangling, FinishSync

LEMMA StageTask ==
  ASSUME TypeOK, NEW s \in Slots, StageInv(s), NEW g \in Groups, TaskStep(s, g)
  PROVE  StageInv(s)' /\ task[<<s, g>>].ph # "off"
  <1>1. /\ task[<<s, g>>].ph # "off"
        /\ task'[<<s, g>>].role = task[<<s, g>>].role
        /\ task'[<<s, g>>].ph = "promote" =>
             task'[<<s, g>>].row.group = g /\ task'[<<s, g>>].row.user = task'[<<s, g>>].user
    <2>1. CASE ReadOwners(s, g) \/ LookUpRow(s, g) \/ InsertRow(s, g) \/ UpdateRows(s, g)
      BY <2>1, ReadOwnersMoves, LookUpRowMoves, InsertRowMoves, UpdateRowsMoves DEF Moves
    <2>2. CASE FindDefaultAdmin(s, g)
      BY <2>2, FindDefaultAdminMoves DEF Moves
    <2>3. CASE FindLowestAdmin(s, g)
      BY <2>3, FindLowestAdminMoves DEF Moves
    <2>4. CASE FindAdminInGroup(s, g)
      BY <2>4, FindAdminInGroupMoves DEF Moves, RowsOf
    <2>5. CASE PromoteAdmin(s, g)
      BY <2>5, PromoteAdminMoves
    <2> QED BY <2>1, <2>2, <2>3, <2>4, <2>5 DEF TaskStep
  <1>2. req' = req /\ \A h \in Groups : h # g => task'[<<s, h>>] = task[<<s, h>>]
    BY TaskFrame
  <1> QED BY <1>1, <1>2 DEF StageInv

LEMMA StageReceived ==
  ASSUME TypeOK, NEW s \in Slots, StageInv(s), Receive(s)
  PROVE  /\ StageInv(s)' /\ UNCHANGED <<account, group, rows, task>>
         /\ \E op \in Ops, by \in Users : \E q \in ParamsOf(op) :
              /\ req'[s] = NewRequest(FirstStage(op), op, by, account[by], q)
              /\ op = "sync" => q.user = by
         /\ req[s].at = "idle"
         /\ req'[s].at \in {"insert", "load", "user", "current"}
         /\ req'[s].op = "sync" => req'[s].user = req'[s].by
         /\ req'[s].by \in Users /\ account[req'[s].by] = req'[s].byRole
  <1>1. PICK op \in Ops, by \in Users :
          \E q \in ParamsOf(op) :
            /\ op = "sync" => q.user = by
            /\ req' = [req EXCEPT ![s] = NewRequest(FirstStage(op), op, by, account[by], q)]
    BY DEF Receive
  <1>2. PICK q \in ParamsOf(op) :
          /\ op = "sync" => q.user = by
          /\ req' = [req EXCEPT ![s] = NewRequest(FirstStage(op), op, by, account[by], q)]
    BY <1>1
  <1>3. req'[s] = NewRequest(FirstStage(op), op, by, account[by], q)
    BY <1>2 DEF TypeOK
  <1>4. /\ req'[s].at = FirstStage(op) /\ req'[s].op = op /\ req'[s].by = by
        /\ req'[s].byRole = account[by] /\ req'[s].user = q.user
    BY <1>3 DEF NewRequest
  <1>5. /\ FirstStage(op) \in {"insert", "load", "user", "current"}
        /\ op \in OpsAt(FirstStage(op))
    BY OpsAssumption DEF FirstStage, AllOps, OpsAt
  <1>6. \A g \in Groups : task[<<s, g>>].ph = "off"
    BY NoTasks DEF Receive, OneCheck
  <1>7. StageInv(s)'
    BY <1>4, <1>5, <1>6 DEF Receive, StageInv
  <1> QED BY <1>2, <1>3, <1>4, <1>5, <1>7 DEF Receive

\* A request that is not answered keeps the accounts, its caller and its parameters.
LEMMA StepGoes ==
  ASSUME TypeOK, NEW s \in Slots, Step(s)
  PROVE  Reply(s) \/ Goes(s, req'[s].at)
  <1>1. \A stage : Goes(s, stage) => Goes(s, req'[s].at)
    BY DEF Goes
  <1>2. \A stage : Goto(s, stage) /\ UNCHANGED account => Goes(s, stage)
    BY GotoFields
  <1>3. CASE GroupStep(s)
    BY <1>1, <1>2, <1>3, InsertGroupGoes, FindMembershipGoes
       DEF GroupStep, LoadGroup, FindTarget, FinishAdd, RemoveMember, SetMemberRole, DestroyGroup
  <1>4. CASE UserStep(s)
    BY <1>1, <1>2, <1>4, LoadUserGoes
       DEF UserStep, UpdateUser, CountAdmins, ListGroups, DestroyUser, Drain
  <1>5. CASE SyncStep(s)
    BY <1>1, <1>2, <1>5, ReadCurrentGroupsGoes, LeaveNextGoes, LeaveGroupGoes
       DEF SyncStep, JoinGroups, CheckDangling, FinishSync
  <1> QED BY <1>3, <1>4, <1>5 DEF Step

-----------------------------------------------------------------------------
(* What a task does to memberships. *)

LEMMA OtherGroupsKept ==
  ASSUME TypeOK, IdsName, NEW s \in Slots, StageInv(s), NEW g \in Groups, TaskStep(s, g),
         NEW h \in Groups, h # g
  PROVE  {x \in rows : x.group = h} = {x \in rows' : x.group = h}
  <1>0. \A x \in rows : x \in Row
    BY DEF TypeOK
  <1>1. CASE \/ ReadOwners(s, g) \/ FindDefaultAdmin(s, g) \/ FindLowestAdmin(s, g)
             \/ FindAdminInGroup(s, g) \/ LookUpRow(s, g)
    BY <1>1 DEF ReadOwners, FindDefaultAdmin, FindLowestAdmin, FindAdminInGroup, LookUpRow
  <1>2. CASE InsertRow(s, g)
    BY <1>2 DEF InsertRow
  <1>3. CASE UpdateRows(s, g)
    <2>1. rows' = {IF x \in RowsOf(g, task[<<s, g>>].user)
                   THEN [x EXCEPT !.role = task[<<s, g>>].role] ELSE x : x \in rows}
      BY <1>3, UpdateRowsMoves
    <2> QED BY <1>0, <2>1 DEF RowsOf, Row
  <1>4. CASE PromoteAdmin(s, g)
    <2> DEFINE read == task[<<s, g>>].row
    <2>1. rows' = WithRole(read, "owner") /\ read.group = g
      BY <1>4, PromoteAdminMoves DEF StageInv
    <2>2. \A x \in rows : x.id = read.id => x.group = g
      BY <2>1 DEF IdsName, SamePair
    <2> HIDE DEF read
    <2> QED BY <1>0, <2>1, <2>2 DEF WithRole, Row
  <1> QED BY <1>1, <1>2, <1>3, <1>4 DEF TaskStep

LEMMA OwnersKept ==
  ASSUME TypeOK, NEW s \in Slots, NEW g \in Groups, TaskStep(s, g),
         task[<<s, g>>].ph = "update" => task[<<s, g>>].role = "owner",
         NEW x \in rows, x.role = "owner"
  PROVE  \E y \in rows' : SamePair(x, y) /\ y.role = "owner"
  <1>0. x \in Row
    BY DEF TypeOK
  <1>1. CASE \/ ReadOwners(s, g) \/ FindDefaultAdmin(s, g) \/ FindLowestAdmin(s, g)
             \/ FindAdminInGroup(s, g) \/ LookUpRow(s, g)
    BY <1>1 DEF ReadOwners, FindDefaultAdmin, FindLowestAdmin, FindAdminInGroup, LookUpRow, SamePair
  <1>2. CASE InsertRow(s, g)
    BY <1>2 DEF InsertRow, SamePair
  <1>3. CASE UpdateRows(s, g)
    <2>1. /\ rows' = {IF z \in RowsOf(g, task[<<s, g>>].user)
                      THEN [z EXCEPT !.role = task[<<s, g>>].role] ELSE z : z \in rows}
          /\ task[<<s, g>>].role = "owner"
      BY <1>3, UpdateRowsMoves DEF Moves
    <2>2. x \in rows' \/ [x EXCEPT !.role = "owner"] \in rows'
      BY <2>1
    <2> QED BY <1>0, <2>2 DEF SamePair, Row
  <1>4. CASE PromoteAdmin(s, g)
    <2>1. rows' = WithRole(task[<<s, g>>].row, "owner")
      BY <1>4, PromoteAdminMoves
    <2>2. x \in rows' \/ [x EXCEPT !.role = "owner"] \in rows'
      BY <2>1 DEF WithRole
    <2> QED BY <1>0, <2>2 DEF SamePair, Row
  <1> QED BY <1>1, <1>2, <1>3, <1>4 DEF TaskStep

-----------------------------------------------------------------------------
(* Who may change a membership, with one request at a time. *)

OwnsGroup(u, g) == \E x \in RowsOf(g, u) : x.role = "owner"

GroupOps == {"removeGroup", "addUser", "removeUser", "setRole"}

\* What the caller was allowed at the start, it is still allowed when the tables
\* are written.
RightInv(s) ==
  /\ req[s].op \in GroupOps /\ req[s].at # "load" =>
       \/ req[s].byRole = "admin"
       \/ OwnsGroup(req[s].by, req[s].group)
       \/ req[s].at = "adding" /\ task[<<s, req[s].group>>].ph = "done"
  /\ req[s].at = "adding" /\ req[s].op = "createGroup" =>
       /\ task[<<s, req[s].group>>].ph \in {"look", "insert", "done", "failed"}
       /\ task[<<s, req[s].group>>].ph \in {"look", "insert"} =>
            \A x \in rows : x.group # req[s].group
  /\ req[s].op = "deleteUser" /\ req[s].at # "user" => req[s].byRole = "admin" \/ req[s].user = req[s].by
  /\ req[s].op = "sync" => req[s].user = req[s].by

LEMMA RightReplied ==
  ASSUME TypeOK, NEW s \in Slots, Reply(s)
  PROVE  RightInv(s)' /\ CallerInv(s)'
  BY Replied DEF Idle, NewRequest, RightInv, CallerInv, GroupOps

LEMMA CallerKept ==
  ASSUME TypeOK, NEW s \in Slots, StageInv(s), CallerInv(s), Step(s)
  PROVE  CallerInv(s)'
  <1>1. req[s].at # "idle"
    BY DEF Step, GroupStep, UserStep, SyncStep, InsertGroup, LoadGroup, FindTarget,
       FindMembership, FinishAdd, RemoveMember, SetMemberRole, DestroyGroup, LoadUser,
       UpdateUser, CountAdmins, ListGroups, DestroyUser, Drain, ReadCurrentGroups,
       LeaveNext, LeaveGroup, JoinGroups, CheckDangling, FinishSync
  <1> QED BY <1>1, StepGoes, RightReplied DEF Goes, CallerInv

LEMMA RightKept ==
  ASSUME TypeOK, NoDanglingRows, NEW s \in Slots, StageInv(s), RightInv(s), Step(s)
  PROVE  RightInv(s)'
  <1>o. req[s].op \in OpsAt(req[s].at)
    BY DEF StageInv
  <1>r. Reply(s) => RightInv(s)'
    BY RightReplied
  <1>1. CASE InsertGroup(s) /\ ~Reply(s)
    <2>1. req[s].op = "createGroup" /\ rows' = rows /\ Goes(s, "adding")
      <3>1. req[s].at = "insert" /\ rows' = rows
        BY <1>1 DEF InsertGroup
      <3> QED BY <1>1, <1>o, <3>1, InsertGroupGoes DEF OpsAt
    <2>2. PICK g \in Groups : /\ req'[s].group = g /\ group[g] = "new"
                              /\ task'[<<s, g>>].ph = "look"
      <3>1. /\ req'[s].group \in Groups /\ group[req'[s].group] = "new"
            /\ Begin(s, {req'[s].group}, AddUser(req[s].by, "owner"))
        BY <1>1, InsertGroupGoes
      <3>2. task'[<<s, req'[s].group>>] = AddUser(req[s].by, "owner")
        BY <3>1, Begun
      <3> QED BY <3>1, <3>2, BegunShapes
    <2>3. \A x \in rows : x.group # g
      BY <2>2 DEF NoDanglingRows
    <2> QED BY <2>1, <2>2, <2>3 DEF RightInv, Goes, GroupOps
  <1>2. CASE LoadGroup(s) /\ ~Reply(s)
    <2>1. /\ req[s].op \in GroupOps /\ rows' = rows
          /\ Goes(s, AfterLoad(req[s].op)) /\ SameGroup(s)
          /\ \E seen \in SeenRoles(req[s].group, req[s].by) : CanManageGroup(req[s].byRole, seen)
      BY <1>2, <1>o, GotoFields DEF LoadGroup, OpsAt, GroupOps
    <2>2. req[s].byRole = "admin" \/ OwnsGroup(req[s].by, req[s].group)
      BY <2>1 DEF CanManageGroup, SeenRoles, OwnsGroup
    <2> QED BY <2>1, <2>2 DEF RightInv, Goes, SameGroup, OwnsGroup, RowsOf, GroupOps
  <1>3. CASE (FindTarget(s) \/ FindMembership(s)) /\ ~Reply(s)
    <2>1. /\ req[s].op \in GroupOps /\ req[s].op # "createGroup" /\ rows' = rows
          /\ req[s].at \notin {"load", "adding"}
      BY <1>3, <1>o DEF FindTarget, FindMembership, OpsAt, GroupOps
    <2>2. \E stage : Goes(s, stage) /\ SameGroup(s)
      BY <1>3, FindMembershipGoes, GotoFields DEF FindTarget
    <2> QED BY <2>1, <2>2 DEF RightInv, Goes, SameGroup, OwnsGroup, RowsOf, GroupOps
  <1>4. CASE LoadUser(s) /\ ~Reply(s)
    <2>1. \E stage : Goes(s, stage) /\ req[s].op \in {"updateUser", "deleteUser"}
      BY <1>4, <1>o, LoadUserGoes DEF LoadUser, OpsAt
    <2>2. req[s].byRole = "admin" \/ req[s].user = req[s].by
      BY <1>4, LoadUserGoes DEF CanEditUser
    <2> QED BY <2>1, <2>2 DEF RightInv, Goes, GroupOps
  <1>5. CASE (CountAdmins(s) \/ ListGroups(s) \/ DestroyUser(s)) /\ ~Reply(s)
    <2>1. req[s].op = "deleteUser" /\ req[s].at # "user" /\ \E stage : Goes(s, stage)
      BY <1>5, <1>o, GotoFields DEF CountAdmins, ListGroups, DestroyUser, OpsAt
    <2> QED BY <2>1 DEF RightInv, Goes, GroupOps
  <1>6. CASE SyncStep(s) /\ ~Reply(s)
    <2>1. req[s].op = "sync"
      BY <1>6, <1>o DEF SyncStep, ReadCurrentGroups, LeaveNext, LeaveGroup, JoinGroups,
         CheckDangling, FinishSync, OpsAt
    <2>2. Goes(s, req'[s].at)
      BY <1>6, StepGoes DEF Step
    <2> QED BY <2>1, <2>2 DEF RightInv, Goes, GroupOps
  <1>7. CASE FinishAdd(s) \/ RemoveMember(s) \/ SetMemberRole(s) \/ DestroyGroup(s)
              \/ UpdateUser(s) \/ Drain(s)
    BY <1>7, <1>r DEF FinishAdd, RemoveMember, SetMemberRole, DestroyGroup, UpdateUser, Drain
  <1> QED BY <1>r, <1>1, <1>2, <1>3, <1>4, <1>5, <1>6, <1>7 DEF Step, GroupStep, UserStep

LEMMA RightTask ==
  ASSUME TypeOK, NEW s \in Slots, StageInv(s), RightInv(s), NEW g \in Groups, TaskStep(s, g)
  PROVE  RightInv(s)'
  <1> DEFINE q == req[s]
  <1>0. /\ req' = req /\ \A h \in Groups : h # g => task'[<<s, h>>] = task[<<s, h>>]
        /\ task[<<s, g>>].ph # "off"
    BY TaskFrame, StageTask
  <1>1. ASSUME q.op \in GroupOps, q.at # "load"
        PROVE  \/ q.byRole = "admin"
               \/ OwnsGroup(q.by, q.group)'
               \/ q.at = "adding" /\ task'[<<s, q.group>>].ph = "done"
    <2>1. /\ q.at \in OneCheck \cup {"adding"} /\ g = q.group
          /\ q.at \in CheckStages => task[<<s, g>>].role = "owner"
      <3>1. q.op \in OpsAt(q.at)
        BY DEF StageInv
      <3>2. q.at \notin {"cleaning", "joining", "dangling", "drain"}
        BY <1>1, <3>1 DEF OpsAt, GroupOps
      <3> QED BY <1>0, <3>2 DEF StageInv
    <2>2. task[<<s, g>>].ph = "done" => FALSE
      BY DEF TaskStep, ReadOwners, FindDefaultAdmin, FindLowestAdmin, FindAdminInGroup,
         PromoteAdmin, LookUpRow, InsertRow, UpdateRows
    <2>3. CASE task[<<s, g>>].ph = "update" /\ task[<<s, g>>].role # "owner"
      <3>1. q.at = "adding"
        BY <2>1, <2>3 DEF CheckStages
      <3>2. task'[<<s, g>>].ph = "done"
        BY <2>3, UpdateRowsMoves DEF Moves, TaskStep, ReadOwners, FindDefaultAdmin,
           FindLowestAdmin, FindAdminInGroup, PromoteAdmin, LookUpRow, InsertRow
      <3> QED BY <2>1, <3>1, <3>2
    <2>4. CASE task[<<s, g>>].ph = "update" => task[<<s, g>>].role = "owner"
      <3>1. q.byRole = "admin" \/ OwnsGroup(q.by, q.group)
        BY <1>1, <2>1, <2>2 DEF RightInv
      <3>2. OwnsGroup(q.by, q.group) => OwnsGroup(q.by, q.group)'
        <4>1. ASSUME NEW x \in rows, x.group = q.group, x.user = q.by, x.role = "owner"
              PROVE  \E y \in rows' : y.group = q.group /\ y.user = q.by /\ y.role = "owner"
          BY <2>4, <4>1, OwnersKept DEF SamePair
        <4> QED BY <1>0, <4>1 DEF OwnsGroup, RowsOf
      <3> QED BY <3>1, <3>2
    <2> QED BY <2>3, <2>4
  <1>2. ASSUME q.at = "adding", q.op = "createGroup"
        PROVE  /\ task'[<<s, q.group>>].ph \in {"look", "insert", "done", "failed"}
               /\ task'[<<s, q.group>>].ph \in {"look", "insert"} =>
                    \A x \in rows' : x.group # q.group
    <2>1. g = q.group
      BY <1>0, <1>2 DEF StageInv
    <2>2. /\ task[<<s, g>>].ph \in {"look", "insert", "done", "failed"}
          /\ task[<<s, g>>].ph \in {"look", "insert"} => \A x \in rows : x.group # g
      BY <1>2, <2>1 DEF RightInv
    <2>3. LookUpRow(s, g) \/ InsertRow(s, g)
      BY <2>2 DEF TaskStep, ReadOwners, FindDefaultAdmin, FindLowestAdmin, FindAdminInGroup,
         PromoteAdmin, UpdateRows
    <2>4. CASE LookUpRow(s, g)
      <3>1. ~InGroup(g, task[<<s, g>>].user)
        BY <2>2, <2>4 DEF LookUpRow, InGroup, RowsOf
      <3> QED BY <2>1, <2>2, <2>4, <3>1, LookUpRowMoves DEF Moves
    <2>5. CASE InsertRow(s, g)
      BY <2>1, <2>5, InsertRowMoves DEF Moves
    <2> QED BY <2>3, <2>4, <2>5
  <1> QED BY <1>0, <1>1, <1>2 DEF RightInv, OwnsGroup, RowsOf

AuthorityInv == \A s \in Slots : StageInv(s) /\ CallerInv(s) /\ RightInv(s)

LEMMA AuthorityNext ==
  OneAtATime /\ TypeOK /\ NoDanglingRows /\ AuthorityInv /\ [Next]_vars => AuthorityInv'
  <1> SUFFICES ASSUME OneAtATime, TypeOK, NoDanglingRows, AuthorityInv, [Next]_vars
               PROVE  AuthorityInv'
    OBVIOUS
  <1>1. CASE UNCHANGED vars
    BY <1>1 DEF AuthorityInv, StageInv, CallerInv, RightInv, OwnsGroup, RowsOf, vars
  <1>2. CASE Register
    <2>1. \A u \in Users : account[u] \in UserRoles => account'[u] = account[u]
      BY <1>2 DEF Register, UserRoles, TypeOK
    <2>2. \A s \in Slots : req[s].byRole \in UserRoles
      BY DEF TypeOK, Request
    <2>3. \A s \in Slots : CallerInv(s)'
      BY <1>2, <2>1, <2>2 DEF AuthorityInv, CallerInv, Register
    <2> QED BY <1>2, <2>3 DEF AuthorityInv, StageInv, RightInv, OwnsGroup, RowsOf, Register
  <1>3. ASSUME NEW s \in Slots, Receive(s)
        PROVE  AuthorityInv'
    <2>1. StageInv(s)' /\ CallerInv(s)'
      BY <1>3, StageReceived DEF AuthorityInv, CallerInv
    <2>2. /\ req'[s].op \in OpsAt(req'[s].at)
          /\ req'[s].at \in {"insert", "load", "user", "current"}
          /\ req'[s].op = "sync" => req'[s].user = req'[s].by
      BY <1>3, <2>1, StageReceived DEF AuthorityInv, StageInv
    <2>3. RightInv(s)'
      BY <2>2 DEF RightInv, OpsAt, GroupOps
    <2> QED BY <2>1, <2>3 DEF OneAtATime, AuthorityInv
  <1>4. ASSUME NEW s \in Slots, Step(s)
        PROVE  AuthorityInv'
    <2>1. StageInv(s)' /\ CallerInv(s)' /\ RightInv(s)'
      BY <1>4, StageKept, CallerKept, RightKept DEF AuthorityInv
    <2> QED BY <2>1 DEF OneAtATime, AuthorityInv
  <1>5. ASSUME NEW s \in Slots, NEW g \in Groups, TaskStep(s, g)
        PROVE  AuthorityInv'
    <2>1. StageInv(s)' /\ RightInv(s)'
      BY <1>5, StageTask, RightTask DEF AuthorityInv
    <2>2. CallerInv(s)'
      BY <1>5, TaskFrame DEF AuthorityInv, CallerInv
    <2> QED BY <2>1, <2>2 DEF OneAtATime, AuthorityInv
  <1> QED BY <1>1, <1>2, <1>3, <1>4, <1>5 DEF Next

LEMMA AuthorityInit == Init => AuthorityInv
  BY DEF Init, AuthorityInv, StageInv, CallerInv, RightInv, OpsAt, GroupOps, Idle, NewRequest, Off

Authority(s, g) ==
  \/ account[req[s].by] = "admin"
  \/ \E x \in RowsOf(g, req[s].by) : x.role = "owner"
  \/ req[s].op = "createGroup" /\ \A x \in rows : x.group # g
  \/ req[s].op \in {"sync", "deleteUser"} /\ req[s].user = req[s].by

MembersOf(g) == {x \in rows : x.group = g}

LEMMA StepManaged ==
  ASSUME TypeOK, IdsName, AuthorityInv, NEW s \in Slots, Step(s), NEW g \in Groups,
         MembersOf(g) # MembersOf(g)'
  PROVE  Authority(s, g)
  <1>0. StageInv(s) /\ CallerInv(s) /\ RightInv(s) /\ req[s].op \in OpsAt(req[s].at)
    BY DEF AuthorityInv, StageInv
  <1>1. \A h : h # g => MembersOf(g) \cap MembersOf(h) = {}
    BY DEF MembersOf
  <1>2. ASSUME req[s].op \in GroupOps, req[s].at \notin {"load", "adding", "idle"}, req[s].group = g
        PROVE  Authority(s, g)
    BY <1>0, <1>2 DEF CallerInv, RightInv, Authority, OwnsGroup
  <1>3. CASE RemoveMember(s)
    <2>1. rows' = rows \/ rows' = rows \ RowsOf(req[s].group, req[s].user)
      BY <1>3 DEF RemoveMember
    <2>2. req[s].group = g
      BY <2>1 DEF MembersOf, RowsOf
    <2> QED BY <1>0, <1>2, <1>3, <2>2 DEF RemoveMember, OpsAt, GroupOps
  <1>4. CASE SetMemberRole(s)
    <2> DEFINE read == req[s].row
    <2>1. /\ rows' = rows \/ rows' = WithRole(read, req[s].groupRole)
          /\ read.group = req[s].group
      BY <1>0, <1>4 DEF SetMemberRole, StageInv
    <2>2. \A x \in rows : x \in Row /\ (x.id = read.id => x.group = read.group)
      BY DEF TypeOK, IdsName, SamePair
    <2> HIDE DEF read
    <2>3. req[s].group = g
      BY <2>1, <2>2 DEF MembersOf, WithRole, Row
    <2> QED BY <1>0, <1>2, <1>4, <2>3 DEF SetMemberRole, OpsAt, GroupOps
  <1>5. CASE DestroyGroup(s)
    <2>1. rows' = {x \in rows : x.group # req[s].group}
      BY <1>5 DEF DestroyGroup
    <2>2. req[s].group = g
      BY <2>1 DEF MembersOf
    <2> QED BY <1>2, <1>5, <2>2 DEF DestroyGroup, GroupOps
  <1>6. CASE DestroyUser(s)
    BY <1>0, <1>6 DEF DestroyUser, OpsAt, CallerInv, RightInv, Authority
  <1>7. CASE LeaveGroup(s)
    BY <1>0, <1>7 DEF LeaveGroup, OpsAt, RightInv, Authority
  <1>8. CASE UNCHANGED rows
    BY <1>8 DEF MembersOf
  <1> QED BY <1>3, <1>4, <1>5, <1>6, <1>7, <1>8
          DEF Step, GroupStep, UserStep, SyncStep, InsertGroup, LoadGroup, FindTarget,
              FindMembership, FinishAdd, LoadUser, UpdateUser, CountAdmins, ListGroups, Drain,
              ReadCurrentGroups, LeaveNext, JoinGroups, CheckDangling, FinishSync

LEMMA TaskManaged ==
  ASSUME TypeOK, IdsName, AuthorityInv, NEW s \in Slots, NEW g \in Groups, TaskStep(s, g),
         NEW h \in Groups, MembersOf(h) # MembersOf(h)'
  PROVE  Authority(s, h)
  <1>0. /\ StageInv(s) /\ CallerInv(s) /\ RightInv(s) /\ req[s].op \in OpsAt(req[s].at)
        /\ task[<<s, g>>].ph # "off"
    BY StageTask DEF AuthorityInv, StageInv
  <1>1. h = g
    BY <1>0, OtherGroupsKept DEF MembersOf
  <1>2. task[<<s, g>>].ph \in {"promote", "insert", "update"}
    BY DEF TaskStep, ReadOwners, FindDefaultAdmin, FindLowestAdmin, FindAdminInGroup,
       PromoteAdmin, LookUpRow, InsertRow, UpdateRows, MembersOf
  <1>3. CASE req[s].op \in GroupOps
    <2>1. req[s].group = g /\ req[s].at # "load" /\ req[s].at # "idle"
      BY <1>0, <1>3 DEF StageInv, OpsAt, GroupOps, OneCheck
    <2> QED BY <1>0, <1>1, <1>2, <1>3, <2>1 DEF CallerInv, RightInv, Authority, OwnsGroup
  <1>4. CASE req[s].op = "createGroup"
    <2>1. req[s].group = g /\ req[s].at = "adding"
      BY <1>0, <1>4 DEF StageInv, OpsAt, OneCheck
    <2> QED BY <1>0, <1>1, <1>2, <1>4, <2>1 DEF RightInv, Authority
  <1>5. CASE req[s].op \in {"sync", "deleteUser"}
    <2>1. req[s].at \notin {"user", "idle"}
      BY <1>0 DEF StageInv, OneCheck, OpsAt
    <2> QED BY <1>0, <1>5, <2>1 DEF CallerInv, RightInv, Authority
  <1>6. req[s].op \in GroupOps \cup {"createGroup", "sync", "deleteUser"}
    BY <1>0 DEF StageInv, OpsAt, GroupOps, OneCheck
  <1> QED BY <1>3, <1>4, <1>5, <1>6

\* With one request at a time, nobody changes the memberships of a group without the
\* right to: not through a caller demoted meanwhile, nor through a group made anew.
THEOREM SerialManaged ==
  ASSUME OneAtATime
  PROVE  Spec => ManagedMembership
  <1>1. TypeOK /\ IdsName /\ AuthorityInv /\ [Next]_vars =>
          [\A g \in Groups :
             {x \in rows : x.group = g} # {x \in rows' : x.group = g} =>
               \E s \in Slots :
                 LET q == req[s] IN
                 \/ account[q.by] = "admin"
                 \/ \E x \in RowsOf(g, q.by) : x.role = "owner"
                 \/ q.op = "createGroup" /\ \A x \in rows : x.group # g
                 \/ q.op \in {"sync", "deleteUser"} /\ q.user = q.by]_vars
    <2> SUFFICES ASSUME TypeOK, IdsName, AuthorityInv, Next, NEW g \in Groups,
                        MembersOf(g) # MembersOf(g)'
                 PROVE  \E s \in Slots : Authority(s, g)
      BY DEF MembersOf, Authority
    <2>1. ~Register /\ \A s \in Slots : ~Receive(s)
      BY DEF Register, Receive, MembersOf
    <2> QED BY <2>1, StepManaged, TaskManaged DEF Next
  <1> QED BY <1>1, AuthorityInit, AuthorityNext, TypeCorrect, ReferencesHold, IdsKept, PTL
          DEF Spec, ManagedMembership

-----------------------------------------------------------------------------
(* Owners, with one request at a time. *)

\* The administrator to whom an ownerless group falls, where there is one.
IsFallback(u) ==
  /\ u \in Admins
  /\ IF DefaultAdmin \in Admins THEN u = DefaultAdmin ELSE \A b \in Admins : u <= b

LEMMA FallbackIs ==
  ASSUME NEW u, IsFallback(u)
  PROVE  u = Fallback /\ Admins # {}
  <1>1. CASE DefaultAdmin \in Admins
    BY <1>1 DEF IsFallback, Fallback
  <1>2. CASE DefaultAdmin \notin Admins
    <2>1. Admins \subseteq Nat
      BY UsersAssumption DEF Admins
    <2>2. \A v \in Admins : (\A b \in Admins : v <= b) => v = u
      BY <1>2, <2>1 DEF IsFallback
    <2>3. u \in Admins /\ \A b \in Admins : u <= b
      BY <1>2 DEF IsFallback
    <2> HIDE DEF Admins
    <2>4. u = CHOOSE a \in Admins : \A b \in Admins : a <= b
      BY <2>2, <2>3
    <2> QED BY <1>2, <2>3, <2>4 DEF Fallback
  <1> QED BY <1>1, <1>2

LEMMA AdminsKept ==
  ASSUME TypeOK, Register \/ UNCHANGED account
  PROVE  Admins' = Admins /\ \A u : IsFallback(u)' <=> IsFallback(u)
  <1>1. Admins' = Admins
    BY DEF Admins, Register, TypeOK, UserRoles
  <1> QED BY <1>1 DEF IsFallback

OtherOwner(g, u) == \E x \in OwnerRows(g) : x.user # u

\* An owner check of the departure of the request's user runs on the group.
Ensuring(s, g) ==
  \/ req[s].at = "cleaning"
  \/ req[s].at \in OneCheck /\ g = req[s].group

TaskInv(s, g) ==
  LET t == task[<<s, g>>]
      u == req[s].user IN
  /\ t.ph \in {"owners", "default", "lowest"} => t.user = u /\ t.role = "owner"
  /\ t.ph = "lowest" => DefaultAdmin \notin Admins
  /\ t.ph \in {"within", "promote"} => IsFallback(t.user) /\ t.role = "owner"
  /\ t.ph = "promote" => t.row \in rows
  /\ req[s].op # "addUser" /\ t.role = "member" =>
       t.ph # "update" /\ (t.ph = "look" => ~InGroup(g, t.user))
  /\ Ensuring(s, g) =>
       /\ t.ph \in {"look", "insert", "update"} => IsFallback(t.user)
       /\ t.ph = "update" => InGroup(g, t.user)
       /\ t.ph = "done" => OtherOwner(g, u) \/ IsFallback(u)
       /\ t.ph = "off" => ~InGroup(g, u)

\* A synchronisation knows all groups of its user until it joins new ones.
JoinedInv(s) ==
  req[s].at \in {"leave", "leaving"} =>
    /\ \A g \in Groups : InGroup(g, req[s].user) => g \in req[s].joined
    /\ req[s].leave \subseteq req[s].joined \ req[s].names
    /\ req[s].at = "leaving" => req[s].group \in (req[s].joined \ req[s].names) \ req[s].leave

OwnersInv(s) == JoinedInv(s) /\ \A g \in Groups : TaskInv(s, g)

\* A request that goes on: without tasks ...
LEMMA TasksOff ==
  ASSUME NEW s \in Slots, \A g \in Groups : task'[<<s, g>>].ph = "off",
         req'[s].at \notin OneCheck \cup {"cleaning"}
  PROVE  \A g \in Groups : TaskInv(s, g)'
  BY DEF TaskInv, Ensuring

\* ... with owner checks ...
LEMMA ChecksBegin ==
  ASSUME TypeOK, NEW s \in Slots, NEW G, Begin(s, G, EnsureOwner(req'[s].user)),
         \A g \in Groups : Ensuring(s, g)' /\ InGroup(g, req[s].user)' => g \in G
  PROVE  \A g \in Groups : TaskInv(s, g)'
  <1> SUFFICES ASSUME NEW g \in Groups PROVE TaskInv(s, g)'
    OBVIOUS
  <1>1. \/ g \in G /\ task'[<<s, g>>] = EnsureOwner(req'[s].user)
        \/ g \notin G /\ task'[<<s, g>>] = Off
    BY Begun
  <1>2. CASE g \in G
    <2>1. /\ task'[<<s, g>>].ph = "owners" /\ task'[<<s, g>>].user = req'[s].user
          /\ task'[<<s, g>>].role = "owner"
      BY <1>1, <1>2, BegunShapes
    <2> QED BY <2>1 DEF TaskInv
  <1>3. CASE g \notin G
    <2>1. task'[<<s, g>>].ph = "off"
      BY <1>1, <1>3, BegunShapes
    <2> QED BY <1>3, <2>1 DEF TaskInv
  <1> QED BY <1>2, <1>3

\* ... or with additions of a user.
LEMMA AdditionsBegin ==
  ASSUME TypeOK, NEW s \in Slots, NEW G, NEW u, NEW role, Begin(s, G, AddUser(u, role)),
         req'[s].at \notin OneCheck \cup {"cleaning"},
         role = "member" => \/ req'[s].op = "addUser"
                            \/ \A g \in Groups \cap G : ~InGroup(g, u)'
  PROVE  \A g \in Groups : TaskInv(s, g)'
  <1> SUFFICES ASSUME NEW g \in Groups PROVE TaskInv(s, g)'
    OBVIOUS
  <1>1. \/ g \in G /\ task'[<<s, g>>] = AddUser(u, role)
        \/ g \notin G /\ task'[<<s, g>>] = Off
    BY Begun
  <1>2. ~Ensuring(s, g)'
    BY DEF Ensuring
  <1> QED BY <1>1, <1>2, BegunShapes DEF TaskInv

LEMMA OwnersReplied ==
  ASSUME TypeOK, NEW s \in Slots, Reply(s)
  PROVE  OwnersInv(s)'
  <1>1. req'[s].at = "idle" /\ \A g \in Groups : task'[<<s, g>>].ph = "off"
    BY Replied DEF Idle, NewRequest, Off
  <1> QED BY <1>1, TasksOff DEF OwnersInv, JoinedInv, OneCheck

\* Tasks that go on at a stage without checks.
LEMMA TasksGoOn ==
  ASSUME TypeOK, NEW s \in Slots, OwnersInv(s), NEW stage, Goes(s, stage),
         UNCHANGED <<task, rows>>, stage \notin OneCheck \cup {"cleaning"}
  PROVE  \A g \in Groups : TaskInv(s, g)'
  <1> SUFFICES ASSUME NEW g \in Groups PROVE TaskInv(s, g)'
    OBVIOUS
  <1>1. /\ Admins' = Admins /\ \A u : IsFallback(u)' <=> IsFallback(u)
        /\ \A u : InGroup(g, u)' <=> InGroup(g, u)
    BY AdminsKept DEF Goes, InGroup, RowsOf
  <1>2. ~Ensuring(s, g)'
    BY DEF Ensuring, Goes
  <1>3. task' = task /\ rows' = rows /\ req'[s].op = req[s].op /\ req'[s].user = req[s].user
    BY DEF Goes
  <1>4. TaskInv(s, g)
    BY DEF OwnersInv
  <1> QED BY <1>1, <1>2, <1>3, <1>4 DEF TaskInv

LEMMA OwnersStep ==
  ASSUME TypeOK, NEW s \in Slots, StageInv(s), OwnersInv(s), Step(s)
  PROVE  OwnersInv(s)'
  <1> USE DEF OneCheck, OwnersInv
  <1>r. Reply(s) => OwnersInv(s)'
    BY OwnersReplied
  <1>o. req[s].op \in OpsAt(req[s].at)
    BY DEF StageInv
  <1>j. \A stage : Goes(s, stage) /\ stage \notin {"leave", "leaving"} => JoinedInv(s)'
    BY DEF Goes, JoinedInv
  <1>1. CASE InsertGroup(s) /\ ~Reply(s)
    BY <1>1, <1>j, InsertGroupGoes, AdditionsBegin DEF Goes
  <1>2. CASE (LoadGroup(s) \/ CountAdmins(s)) /\ ~Reply(s)
    <2>1. \E stage \in {"row", "save", "target", "groups"} : Goto(s, stage) /\ UNCHANGED <<account, task, rows>>
      BY <1>2 DEF LoadGroup, CountAdmins, AfterLoad
    <2> QED BY <2>1, <1>j, GotoFields, TasksGoOn
  <1>3. CASE FindTarget(s) /\ ~Reply(s)
    <2>0. UNCHANGED account
      BY <1>3 DEF FindTarget
    <2>1. CASE req[s].op = "addUser"
      <3>1. /\ Goes(s, "adding")
            /\ Begin(s, {req[s].group}, AddUser(req[s].user, req[s].groupRole))
        BY <1>3, <2>0, <2>1, GotoFields DEF FindTarget
      <3> QED BY <2>1, <3>1, <1>j, AdditionsBegin DEF Goes
    <2>2. CASE req[s].op = "removeUser"
      <3>1. /\ Goes(s, "removing") /\ SameGroup(s)
            /\ Begin(s, {req[s].group}, EnsureOwner(req[s].user))
        BY <1>3, <2>0, <2>2, GotoFields DEF FindTarget
      <3> QED BY <3>1, <1>j, ChecksBegin DEF Goes, SameGroup, Ensuring
    <2> QED BY <1>3, <2>1, <2>2 DEF FindTarget
  <1>4. CASE FindMembership(s) /\ ~Reply(s)
    BY <1>4, <1>j, FindMembershipGoes, ChecksBegin DEF Goes, SameGroup, Ensuring
  <1>5. CASE LoadUser(s) /\ ~Reply(s)
    BY <1>5, <1>j, LoadUserGoes, TasksGoOn DEF LoadUser
  <1>6. CASE ListGroups(s)
    <2>1. /\ Goes(s, "cleaning") /\ rows' = rows
          /\ Begin(s, {g \in Groups : InGroup(g, req[s].user)}, EnsureOwner(req[s].user))
      BY <1>6, GotoFields DEF ListGroups
    <2>2. /\ req'[s].user = req[s].user
          /\ \A g \in Groups : \A u : InGroup(g, u)' <=> InGroup(g, u)
      BY <2>1 DEF Goes, InGroup, RowsOf
    <2>3. \A g \in Groups : InGroup(g, req[s].user)' => InGroup(g, req[s].user)
      BY <2>2
    <2> QED BY <2>1, <2>2, <2>3, <1>j, ChecksBegin
  <1>7. CASE (DestroyUser(s) \/ CheckDangling(s) \/ FinishSync(s)) /\ Goto(s, "drain")
             /\ UNCHANGED <<account, task, rows>>
    BY <1>7, <1>j, GotoFields, TasksGoOn
  <1>8. CASE ReadCurrentGroups(s)
    <2>1. UNCHANGED <<task, rows>>
      BY <1>8 DEF ReadCurrentGroups
    <2>2. JoinedInv(s)'
      BY <1>8, <2>1, ReadCurrentGroupsGoes DEF Goes, JoinedInv, InGroup, RowsOf
    <2> QED BY <1>8, <2>1, <2>2, ReadCurrentGroupsGoes, TasksGoOn
  <1>9. CASE LeaveNext(s)
    <2>0. rows' = rows /\ req[s].at = "leave"
      BY <1>9 DEF LeaveNext
    <2>1. JoinedInv(s)'
      <3>1. \A g \in Groups : \A u : InGroup(g, u)' => InGroup(g, u)
        BY <2>0 DEF InGroup, RowsOf
      <3> QED BY <1>9, <2>0, <3>1, LeaveNextGoes DEF Goes, SameJoined, JoinedInv
    <2> QED BY <1>9, <2>1, LeaveNextGoes, ChecksBegin DEF Goes, Ensuring
  <1>10. CASE LeaveGroup(s)
    <2>1. rows' \subseteq rows /\ req[s].at = "leaving"
      BY <1>10 DEF LeaveGroup
    <2>2. /\ Goes(s, "leave") /\ SameJoined(s) /\ SameLeave(s)
          /\ \A g \in Groups : task'[<<s, g>>].ph = "off"
      BY <1>10, LeaveGroupGoes, Begun, BegunShapes
    <2>3. JoinedInv(s)'
      BY <2>1, <2>2 DEF Goes, SameJoined, SameLeave, JoinedInv, InGroup, RowsOf
    <2> QED BY <2>2, <2>3, TasksOff DEF Goes
  <1>11. CASE JoinGroups(s)
    <2> DEFINE found == {g \in req[s].names : group[g] = "live"}
    <2>1. /\ Goes(s, "joining") /\ rows' = rows /\ req[s].at = "leave"
          /\ Begin(s, found \ req[s].joined, AddUser(req[s].user, "member"))
      BY <1>11, GotoFields DEF JoinGroups
    <2>2. \A g \in Groups \cap (found \ req[s].joined) : ~InGroup(g, req[s].user)'
      <3>1. \A g \in Groups : \A u : InGroup(g, u)' => InGroup(g, u)
        BY <2>1 DEF InGroup, RowsOf
      <3> QED BY <2>1, <3>1 DEF JoinedInv, Goes
    <2> HIDE DEF found
    <2> QED BY <2>1, <2>2, <1>j, AdditionsBegin DEF Goes
  <1>12. CASE CheckDangling(s) /\ Goto(s, "dangling")
              /\ Begin(s, req[s].joined \ req[s].names, EnsureOwner(req[s].user))
    BY <1>12, <1>j, GotoFields, ChecksBegin DEF CheckDangling, Goes, Ensuring
  <1>13. CASE FinishAdd(s) \/ RemoveMember(s) \/ SetMemberRole(s) \/ DestroyGroup(s)
              \/ UpdateUser(s) \/ Drain(s)
    BY <1>13, <1>r DEF FinishAdd, RemoveMember, SetMemberRole, DestroyGroup, UpdateUser, Drain
  <1> QED BY <1>r, <1>1, <1>2, <1>3, <1>4, <1>5, <1>6, <1>7, <1>8, <1>9, <1>10, <1>11, <1>12, <1>13
          DEF Step, GroupStep, UserStep, SyncStep, DestroyUser, CheckDangling, FinishSync

\* Whoever could leave without the group losing its last owner leaves another one.
LEMMA NotSole ==
  ASSUME OneRowPerMember, NEW g, NEW u, ~Sole(g, u)
  PROVE  OtherOwner(g, u)
  <1> SUFFICES ASSUME ~OtherOwner(g, u) PROVE FALSE
    OBVIOUS
  <1>1. PICK x \in OwnerRows(g) : TRUE
    BY DEF Sole
  <1>2. \A y \in OwnerRows(g) : y.user = u /\ y.group = g /\ y \in rows
    BY DEF OtherOwner, OwnerRows
  <1>3. OwnerRows(g) = {x}
    BY <1>1, <1>2 DEF OneRowPerMember
  <1>4. Cardinality(OwnerRows(g)) = 1
    BY <1>3, FS_Singleton
  <1> QED BY <1>1, <1>2, <1>4 DEF Sole

\* A group that a step leaves alone looks the same to everybody.
LEMMA SameMembers ==
  ASSUME NEW g, MembersOf(g)' = MembersOf(g)
  PROVE  /\ OwnerRows(g)' = OwnerRows(g)
         /\ \A u : RowsOf(g, u)' = RowsOf(g, u) /\ (InGroup(g, u)' <=> InGroup(g, u))
  BY DEF MembersOf, OwnerRows, RowsOf, InGroup

\* The group in which a task brings in or promotes an administrator has an owner then.
LEMMA OwnerAfter ==
  ASSUME TypeOK, NEW s \in Slots, StageInv(s), NEW g \in Groups, TaskInv(s, g),
         Ensuring(s, g),
         PromoteAdmin(s, g) \/ InsertRow(s, g) \/ UpdateRows(s, g),
         task'[<<s, g>>].ph = "done"
  PROVE  /\ IsFallback(task[<<s, g>>].user)
         /\ \E x \in OwnerRows(g)' : x.user = task[<<s, g>>].user
  <1> DEFINE t == task[<<s, g>>]
  <1>0. t.role = "owner" /\ \A x \in rows : x \in Row
    <2>1. t.ph # "off" /\ req[s].at \in CheckStages
      BY DEF PromoteAdmin, InsertRow, UpdateRows, Ensuring, CheckStages
    <2> QED BY <2>1 DEF StageInv, TypeOK
  <1>1. CASE PromoteAdmin(s, g)
    <2>1. /\ rows' = WithRole(t.row, "owner") /\ t.row \in rows /\ IsFallback(t.user)
          /\ t.row.group = g /\ t.row.user = t.user
      BY <1>1, PromoteAdminMoves DEF TaskInv, StageInv
    <2>2. CASE t.row.role = "owner"
      BY <2>1, <2>2 DEF WithRole, OwnerRows
    <2>3. CASE t.row.role # "owner"
      <3>1. [t.row EXCEPT !.role = "owner"] \in rows'
        BY <2>1, <2>3 DEF WithRole
      <3> QED BY <1>0, <2>1, <3>1 DEF OwnerRows, Row
    <2> QED BY <2>1, <2>2, <2>3
  <1>2. CASE InsertRow(s, g)
    <2>1. t.ph = "insert" /\ IsFallback(t.user)
      BY <1>2 DEF InsertRow, TaskInv
    <2>2. \E i : [id |-> i, group |-> g, user |-> t.user, role |-> t.role] \in rows'
      BY <1>2, InsertRowMoves DEF Moves
    <2> HIDE DEF t
    <2> QED BY <1>0, <2>1, <2>2 DEF OwnerRows, t
  <1>3. CASE UpdateRows(s, g)
    <2>1. t.ph = "update" /\ IsFallback(t.user) /\ InGroup(g, t.user)
      BY <1>3 DEF UpdateRows, TaskInv
    <2>2. PICK x \in RowsOf(g, t.user) : TRUE
      BY <2>1 DEF InGroup
    <2>3. x \in Row /\ x.group = g /\ x.user = t.user
      BY <1>0, <2>2 DEF RowsOf
    <2>4. [x EXCEPT !.role = "owner"] \in rows'
      <3>1. rows' = {IF z \in RowsOf(g, t.user) THEN [z EXCEPT !.role = t.role] ELSE z : z \in rows}
        BY <1>3, UpdateRowsMoves
      <3> QED BY <1>0, <2>2, <3>1 DEF RowsOf
    <2> QED BY <2>1, <2>3, <2>4 DEF OwnerRows, Row
  <1> QED BY <1>1, <1>2, <1>3

LEMMA OwnersTask ==
  ASSUME TypeOK, OneRowPerMember, IdsName, NEW s \in Slots, StageInv(s), OwnersInv(s),
         NEW g \in Groups, TaskStep(s, g)
  PROVE  OwnersInv(s)'
  <1> DEFINE t == task[<<s, g>>]
             n == task'[<<s, g>>]
             u == req[s].user
  <1>0. /\ req' = req /\ account' = account
        /\ \A h \in Groups : h # g => task'[<<s, h>>] = task[<<s, h>>]
        /\ t.ph # "off"
    BY TaskFrame, StageTask
  <1>a. Admins' = Admins /\ \A v : IsFallback(v)' <=> IsFallback(v)
    BY <1>0, AdminsKept
  <1>e. \A h \in Groups : Ensuring(s, h)' <=> Ensuring(s, h)
    BY <1>0 DEF Ensuring
  <1>1. ASSUME NEW h \in Groups, h # g
        PROVE  TaskInv(s, h)'
    <2>1. MembersOf(h)' = MembersOf(h)
      BY <1>1, OtherGroupsKept DEF MembersOf
    <2>2. OwnerRows(h)' = OwnerRows(h) /\ \A v : InGroup(h, v)' <=> InGroup(h, v)
      BY <2>1, SameMembers
    <2>3. \A x \in MembersOf(h) : x \in rows'
      BY <2>1 DEF MembersOf
    <2>4. task[<<s, h>>].ph = "promote" /\ task[<<s, h>>].row \in rows => task[<<s, h>>].row \in rows'
      BY <2>3 DEF StageInv, MembersOf
    <2>5. TaskInv(s, h)
      BY DEF OwnersInv
    <2> QED BY <1>0, <1>1, <1>a, <1>e, <2>2, <2>4, <2>5 DEF TaskInv, OtherOwner
  <1>2. TaskInv(s, g)
    BY DEF OwnersInv
  <1>3. TaskInv(s, g)'
    <2>1. CASE ReadOwners(s, g)
      <3>1. /\ t.ph = "owners" /\ n.user = t.user /\ n.role = t.role /\ n.ph \in {"default", "done"}
            /\ n.ph = "done" => ~Sole(g, t.user)
            /\ rows' = rows
        BY <2>1, ReadOwnersMoves DEF Moves
      <3>2. t.user = u /\ t.role = "owner"
        BY <1>2, <3>1 DEF TaskInv
      <3>3. n.ph = "done" => OtherOwner(g, u)'
        BY <3>1, <3>2, NotSole, <1>0 DEF OtherOwner, OwnerRows
      <3> QED BY <1>0, <3>1, <3>2, <3>3 DEF TaskInv
    <2>2. CASE FindDefaultAdmin(s, g)
      <3>1. /\ t.ph = "default" /\ n.role = t.role
            /\ \/ DefaultAdmin \in Admins /\ n.ph = "within" /\ n.user = DefaultAdmin
               \/ DefaultAdmin \notin Admins /\ n.ph = "lowest" /\ n.user = t.user
        BY <2>2, FindDefaultAdminMoves DEF Moves
      <3>2. t.user = u /\ t.role = "owner"
        BY <1>2, <3>1 DEF TaskInv
      <3>3. DefaultAdmin \in Admins => IsFallback(DefaultAdmin)
        BY DEF IsFallback
      <3> QED BY <1>0, <1>a, <3>1, <3>2, <3>3 DEF TaskInv
    <2>3. CASE FindLowestAdmin(s, g)
      <3>1. /\ t.ph = "lowest" /\ n.role = t.role
            /\ \/ n.user \in Admins /\ n.ph = "within" /\ \A b \in Admins : n.user <= b
               \/ n.ph = "failed"
        BY <2>3, FindLowestAdminMoves DEF Moves
      <3>2. t.role = "owner" /\ DefaultAdmin \notin Admins
        BY <1>2, <3>1 DEF TaskInv
      <3>3. n.ph = "within" => IsFallback(n.user)
        BY <3>1, <3>2 DEF IsFallback
      <3> QED BY <1>0, <1>a, <3>1, <3>2, <3>3 DEF TaskInv
    <2>4. CASE FindAdminInGroup(s, g)
      <3>1. /\ t.ph = "within" /\ n.role = t.role /\ n.user = t.user /\ rows' = rows
            /\ \/ n.ph = "promote" /\ n.row \in rows
               \/ n.ph = "look" /\ ~InGroup(g, t.user)
        BY <2>4, FindAdminInGroupMoves DEF Moves, RowsOf
      <3>2. t.role = "owner" /\ IsFallback(t.user)
        BY <1>2, <3>1 DEF TaskInv
      <3> QED BY <1>0, <1>a, <3>1, <3>2 DEF TaskInv
    <2>5. CASE LookUpRow(s, g)
      <3>1. /\ t.ph = "look" /\ n.role = t.role /\ n.user = t.user /\ rows' = rows
            /\ \/ n.ph = "update" /\ InGroup(g, t.user)
               \/ n.ph = "insert"
        BY <2>5, LookUpRowMoves DEF Moves
      <3>2. \A v : InGroup(g, v)' <=> InGroup(g, v)
        BY <3>1 DEF InGroup, RowsOf
      <3> QED BY <1>0, <1>2, <1>a, <1>e, <3>1, <3>2 DEF TaskInv
    <2>6. CASE PromoteAdmin(s, g) \/ InsertRow(s, g) \/ UpdateRows(s, g)
      <3>1. n.ph \in {"done", "failed"}
        BY <2>6, PromoteAdminMoves, InsertRowMoves, UpdateRowsMoves DEF Moves
      <3>2. CASE Ensuring(s, g) /\ n.ph = "done"
        <4>1. IsFallback(t.user) /\ \E x \in OwnerRows(g)' : x.user = t.user
          BY <1>2, <2>6, <3>2, OwnerAfter
        <4>2. OtherOwner(g, u)' \/ IsFallback(u)
          BY <1>0, <4>1 DEF OtherOwner
        <4> QED BY <1>0, <1>a, <3>1, <4>2 DEF TaskInv
      <3>3. CASE ~(Ensuring(s, g) /\ n.ph = "done")
        BY <1>e, <3>1, <3>3 DEF TaskInv
      <3> QED BY <3>2, <3>3
    <2> QED BY <2>1, <2>2, <2>3, <2>4, <2>5, <2>6 DEF TaskStep
  <1>4. JoinedInv(s)'
    <2>1. req[s].at \in {"leave", "leaving"} => req[s].at = "leaving" /\ g = req[s].group
      BY <1>0 DEF StageInv, OneCheck
    <2>2. \A h \in Groups : h # g => \A v : InGroup(h, v)' <=> InGroup(h, v)
      BY OtherGroupsKept, SameMembers DEF MembersOf
    <2> QED BY <1>0, <2>1, <2>2 DEF OwnersInv, JoinedInv
  <1> QED BY <1>1, <1>3, <1>4 DEF OwnersInv

SerialInv == AuthorityInv /\ \A s \in Slots : OwnersInv(s)

LEMMA SerialInit == Init => SerialInv
  <1>1. Init => \A s \in Slots : OwnersInv(s)
    BY DEF Init, OwnersInv, JoinedInv, TaskInv, Ensuring, OneCheck, Idle, NewRequest, Off
  <1> QED BY <1>1, AuthorityInit DEF SerialInv

LEMMA SerialNext ==
  /\ OneAtATime /\ TypeOK /\ NoDanglingRows /\ OneRowPerMember /\ IdsName
  /\ SerialInv /\ [Next]_vars
  => SerialInv'
  <1> SUFFICES ASSUME OneAtATime, TypeOK, NoDanglingRows, OneRowPerMember, IdsName,
                      SerialInv, [Next]_vars
               PROVE  \A s \in Slots : OwnersInv(s)'
    BY AuthorityNext DEF SerialInv
  <1>1. CASE UNCHANGED vars
    <2>1. Admins' = Admins /\ \A u : IsFallback(u)' <=> IsFallback(u)
      BY <1>1, AdminsKept DEF vars
    <2> QED BY <1>1, <2>1 DEF SerialInv, OwnersInv, JoinedInv, TaskInv, Ensuring, OtherOwner,
               OwnerRows, InGroup, RowsOf, vars
  <1>2. CASE Register
    <2>1. Admins' = Admins /\ \A u : IsFallback(u)' <=> IsFallback(u)
      BY <1>2, AdminsKept
    <2>2. UNCHANGED <<rows, req, task>>
      BY <1>2 DEF Register
    <2> QED BY <2>1, <2>2 DEF SerialInv, OwnersInv, JoinedInv, TaskInv, Ensuring, OtherOwner,
               OwnerRows, InGroup, RowsOf
  <1>3. ASSUME NEW s \in Slots, Receive(s)
        PROVE  OwnersInv(s)'
    <2>1. /\ StageInv(s) /\ task' = task /\ req[s].at = "idle"
          /\ req'[s].at \in {"insert", "load", "user", "current"}
      BY <1>3, StageReceived DEF SerialInv, AuthorityInv
    <2>2. \A g \in Groups : task'[<<s, g>>].ph = "off"
      BY <2>1, NoTasks DEF OneCheck
    <2> QED BY <2>1, <2>2, TasksOff DEF OwnersInv, JoinedInv, OneCheck
  <1>4. ASSUME NEW s \in Slots, Step(s)
        PROVE  OwnersInv(s)'
    BY <1>4, OwnersStep DEF SerialInv, AuthorityInv
  <1>5. ASSUME NEW s \in Slots, NEW g \in Groups, TaskStep(s, g)
        PROVE  OwnersInv(s)'
    BY <1>5, OwnersTask DEF SerialInv, AuthorityInv
  <1> QED BY <1>1, <1>2, <1>3, <1>4, <1>5 DEF Next, OneAtATime

\* Whoever leaves, leaves another owner, unless it is whom the group falls to.
LEMMA LeaverReplaced ==
  ASSUME NEW s \in Slots, NEW g \in Groups, TaskInv(s, g), Ensuring(s, g),
         task[<<s, g>>].ph \in {"off", "done"}, InGroup(g, req[s].user)
  PROVE  OtherOwner(g, req[s].user) \/ IsFallback(req[s].user)
  BY DEF TaskInv

LEMMA StepKeepsOwner ==
  ASSUME TypeOK, IdsName, SerialInv, NEW s \in Slots, Step(s), NEW g \in Groups, LosesOwners(g)
  PROVE  IsFallback(req[s].user)
  <1>0. StageInv(s) /\ \A h \in Groups : TaskInv(s, h)
    BY DEF SerialInv, AuthorityInv, OwnersInv
  <1>l. group'[g] = "live" /\ OwnerRows(g) # {} /\ OwnerRows(g)' = {}
    BY DEF LosesOwners
  <1>1. CASE RemoveMember(s) \/ LeaveGroup(s)
    <2>1. /\ AllDone(s) /\ rows' = rows \ RowsOf(req[s].group, req[s].user)
          /\ req[s].at \in OneCheck
      BY <1>1, <1>l DEF RemoveMember, LeaveGroup, OwnerRows, OneCheck
    <2>2. req[s].group = g /\ InGroup(g, req[s].user) /\ ~OtherOwner(g, req[s].user)
      BY <1>l, <2>1 DEF OwnerRows, RowsOf, InGroup, OtherOwner
    <2> QED BY <1>0, <2>1, <2>2, LeaverReplaced DEF AllDone, Ensuring
  <1>2. CASE SetMemberRole(s)
    <2> DEFINE read == req[s].row
    <2>1. /\ AllDone(s) /\ rows' = WithRole(read, req[s].groupRole)
          /\ req[s].at \in OneCheck
      BY <1>2, <1>l DEF SetMemberRole, OwnerRows, OneCheck
    <2>2. \A x \in rows : x \in Row /\ (x.id = read.id => x.group = req[s].group /\ x.user = req[s].user)
      BY <1>0, <1>2 DEF TypeOK, IdsName, SamePair, StageInv, SetMemberRole
    <2> HIDE DEF read
    <2>3. \A x \in OwnerRows(g) : x.id = read.id
      BY <1>l, <2>1, <2>2 DEF OwnerRows, WithRole
    <2>4. req[s].group = g /\ InGroup(g, req[s].user) /\ ~OtherOwner(g, req[s].user)
      BY <1>l, <2>2, <2>3 DEF OwnerRows, RowsOf, InGroup, OtherOwner
    <2> QED BY <1>0, <2>1, <2>4, LeaverReplaced DEF AllDone, Ensuring
  <1>3. CASE DestroyUser(s)
    <2>1. /\ AllDone(s) /\ rows' = {x \in rows : x.user # req[s].user}
          /\ req[s].at = "cleaning"
      BY <1>3, <1>l DEF DestroyUser, OwnerRows
    <2>2. InGroup(g, req[s].user) /\ ~OtherOwner(g, req[s].user)
      BY <1>l, <2>1 DEF OwnerRows, RowsOf, InGroup, OtherOwner
    <2> QED BY <1>0, <2>1, <2>2, LeaverReplaced DEF AllDone, Ensuring
  <1>4. CASE DestroyGroup(s)
    <2>1. /\ rows' = {x \in rows : x.group # req[s].group}
          /\ group' = [group EXCEPT ![req[s].group] = "gone"]
      BY <1>4 DEF DestroyGroup
    <2>2. req[s].group = g
      BY <1>l, <2>1 DEF OwnerRows
    <2> QED BY <1>l, <2>1, <2>2 DEF TypeOK
  <1>5. CASE UNCHANGED rows
    BY <1>5, <1>l DEF OwnerRows
  <1> QED BY <1>1, <1>2, <1>3, <1>4, <1>5
          DEF Step, GroupStep, UserStep, SyncStep, InsertGroup, LoadGroup, FindTarget,
              FindMembership, FinishAdd, LoadUser, UpdateUser, CountAdmins, ListGroups, Drain,
              ReadCurrentGroups, LeaveNext, JoinGroups, CheckDangling, FinishSync

LEMMA TaskKeepsOwner ==
  ASSUME TypeOK, IdsName, SerialInv, NEW s \in Slots, NEW g \in Groups, TaskStep(s, g),
         NEW h \in Groups, LosesOwners(h)
  PROVE  req[s].op = "addUser"
  <1> SUFFICES ASSUME req[s].op # "addUser" PROVE FALSE
    OBVIOUS
  <1>1. TaskInv(s, g) /\ task[<<s, g>>] \in Task
    BY DEF SerialInv, OwnersInv, TypeOK
  <1>2. task[<<s, g>>].ph = "update" => task[<<s, g>>].role = "owner"
    BY <1>1 DEF TaskInv, Task, GroupRoles
  <1>3. PICK x \in rows : x.group = h /\ x.role = "owner"
    BY DEF LosesOwners, OwnerRows
  <1>4. \E y \in rows' : SamePair(x, y) /\ y.role = "owner"
    BY <1>2, <1>3, OwnersKept
  <1> QED BY <1>3, <1>4 DEF LosesOwners, OwnerRows, SamePair

LEMMA OwnerLoss ==
  ASSUME TypeOK, IdsName, SerialInv, Next, NEW g \in Groups, LosesOwners(g)
  PROVE  \E s \in Slots : req[s].op = "addUser" \/ IsFallback(req[s].user)
  <1>1. ~Register /\ \A s \in Slots : ~Receive(s)
    BY DEF Register, Receive, LosesOwners, OwnerRows
  <1> QED BY <1>1, StepKeepsOwner, TaskKeepsOwner DEF Next

LEMMA SerialHolds ==
  ASSUME OneAtATime
  PROVE  Spec => [](TypeOK /\ NoDanglingRows /\ OneRowPerMember /\ IdsName /\ SerialInv)
  BY SerialInit, SerialNext, TypeCorrect, ReferencesHold, SerialOneRow, IdsKept, PTL DEF Spec

\* With one request at a time, a group in use loses its last owner only to a POST of
\* that owner with another role, or when the administrator leaves to whom it falls.
THEOREM SerialOwnerLoss ==
  ASSUME OneAtATime
  PROVE  Spec => OwnerLossExplained
  <1>1. TypeOK /\ IdsName /\ SerialInv /\ [Next]_vars =>
          [\A g \in Groups : LosesOwners(g) =>
             \E s \in Slots : req[s].op = "addUser" \/ req[s].user = Fallback]_vars
    BY OwnerLoss, FallbackIs
  <1> QED BY <1>1, SerialHolds, PTL DEF Spec, OwnerLossExplained

\* Where nobody is an administrator, nobody becomes one.
LEMMA NoAdmins ==
  ASSUME OneAtATime, InitialAdmins = {}
  PROVE  Spec => [](Admins = {})
  <1>1. Init => Admins = {}
    BY DEF Init, Admins
  <1>2. TypeOK /\ SerialInv /\ Admins = {} /\ [Next]_vars => (Admins = {})'
    <2> SUFFICES ASSUME TypeOK, SerialInv, Admins = {}, [Next]_vars
                 PROVE  Admins' = {}
      OBVIOUS
    <2>1. CASE Register \/ UNCHANGED vars
      BY <2>1, AdminsKept DEF vars
    <2>2. ASSUME NEW s \in Slots, UpdateUser(s) PROVE account' = account
      <3>1. CallerInv(s)
        BY DEF SerialInv, AuthorityInv
      <3> QED BY <2>2, <3>1 DEF UpdateUser, CanManageUser, CallerInv, Admins
    <2>3. ASSUME NEW s \in Slots, DestroyUser(s) PROVE Admins' = {}
      BY <2>3 DEF DestroyUser, TypeOK, Admins
    <2>4. CASE UNCHANGED account
      BY <2>4 DEF Admins
    <2>5. ASSUME NEW s \in Slots, Receive(s) PROVE account' = account
      BY <2>5 DEF Receive
    <2>6. ASSUME NEW s \in Slots, NEW g \in Groups, TaskStep(s, g) PROVE account' = account
      BY <2>6, TaskFrame
    <2>7. ASSUME NEW s \in Slots, Step(s), ~UpdateUser(s), ~DestroyUser(s) PROVE account' = account
      BY <2>7 DEF Step, GroupStep, UserStep, SyncStep, InsertGroup, LoadGroup, FindTarget,
         FindMembership, FinishAdd, RemoveMember, SetMemberRole, DestroyGroup, LoadUser,
         CountAdmins, ListGroups, Drain, ReadCurrentGroups, LeaveNext, LeaveGroup, JoinGroups,
         CheckDangling, FinishSync
    <2> QED BY <2>1, <2>2, <2>3, <2>4, <2>5, <2>6, <2>7 DEF Next
  <1> QED BY <1>1, <1>2, SerialHolds, PTL DEF Spec

\* With one request at a time and no administrator to fall to, no departure that goes
\* through ensureGroupHasOwner leaves a group ownerless, however many of the checks fail.
THEOREM EnsuredKeepsOwner ==
  ASSUME OneAtATime, InitialAdmins = {}
  PROVE  Spec => EnsuredGroupKeepsOwner
  <1>1. TypeOK /\ IdsName /\ SerialInv /\ Admins = {} /\ [Next]_vars =>
          [\A g \in Groups : LosesOwners(g) => \E s \in Slots : req[s].op = "addUser"]_vars
    BY OwnerLoss DEF IsFallback
  <1> QED BY <1>1, SerialHolds, NoAdmins, PTL DEF Spec, EnsuredGroupKeepsOwner

-----------------------------------------------------------------------------
(* Synchronised logins, with one request at a time. *)

Named(s) == {g \in req[s].names : group[g] = "live"}

\* Nobody can be found to own the group when u leaves it.
Stuck(g, u) == Admins = {} /\ Sole(g, u)

\* The owner check of a group that is being left, while nothing has changed in it.
Parting(s, g) ==
  /\ task[<<s, g>>].ph \in {"default", "lowest"} => Sole(g, req[s].user)
  /\ task[<<s, g>>].ph = "failed" => Stuck(g, req[s].user)

\* The last owner check of a group that has been left, or could not be.
Checked(s, g) ==
  /\ task[<<s, g>>].ph # "off"
  /\ task[<<s, g>>].ph \in {"look", "insert", "update"} => IsFallback(task[<<s, g>>].user)
  /\ InGroup(g, req[s].user) => task[<<s, g>>].ph \in {"owners", "default", "lowest", "failed"}

Leaves(s, g) ==
  \/ req[s].at \in {"leave", "leaving"} /\ g \in req[s].leave
  \/ req[s].at = "leaving" /\ g = req[s].group /\ Parting(s, g)
  \/ /\ InGroup(g, req[s].user) => Stuck(g, req[s].user)
     /\ req[s].at = "leaving" => g # req[s].group
     /\ req[s].at = "dangling" => Checked(s, g)

\* The addition of the user to a group that the login names.
Joins(s, g) ==
  /\ task[<<s, g>>].user = req[s].user /\ task[<<s, g>>].role = "member"
  /\ task[<<s, g>>].ph \in {"look", "insert", "done", "failed"}
  /\ task[<<s, g>>].ph = "done" => InGroup(g, req[s].user)

SyncStages == {"leave", "leaving", "joining", "dangling"}

\* Where a synchronisation has come with each group.
GroupsSynced(s) ==
  /\ \A g \in Groups : InGroup(g, req[s].user) => g \in req[s].joined \cup Named(s)
  /\ \A g \in req[s].joined \cap req[s].names : InGroup(g, req[s].user)
  /\ \A g \in req[s].joined \ req[s].names : Leaves(s, g)
  /\ req[s].at = "joining" => \A g \in Groups :
       IF g \in Named(s) \ req[s].joined THEN Joins(s, g) ELSE task[<<s, g>>].ph = "off"
  /\ req[s].at = "dangling" => /\ \A g \in Named(s) : InGroup(g, req[s].user)
                               /\ \A g \in Groups \ (req[s].joined \ req[s].names) :
                                    task[<<s, g>>].ph = "off"

SyncInv(s) ==
  req[s].at \in SyncStages =>
    /\ \A g \in req[s].joined : group[g] = "live"
    /\ IsFallback(req[s].user) \/ GroupsSynced(s)

LEMMA SyncStepKeeps ==
  ASSUME TypeOK, NoDanglingRows, NEW s \in Slots, StageInv(s), JoinedInv(s), SyncInv(s), SyncStep(s)
  PROVE  SyncInv(s)'
  <1> USE DEF SyncStages
  <1>t. req[s].joined \subseteq Groups /\ req[s].names \subseteq Groups /\ req[s].leave \subseteq Groups
    BY DEF TypeOK, Request
  <1>o. Goes(s, req'[s].at) \/ Reply(s)
    BY StepGoes DEF Step
  <1>g. UNCHANGED group
    BY DEF SyncStep, ReadCurrentGroups, LeaveNext, LeaveGroup, JoinGroups, CheckDangling, FinishSync
  <1>r. Reply(s) => SyncInv(s)'
    BY Replied DEF Idle, NewRequest, SyncInv
  <1>f. Goes(s, req'[s].at) => (IsFallback(req[s].user)' <=> IsFallback(req[s].user))
    <2>1. Goes(s, req'[s].at) => req'[s].user = req[s].user /\ \A u : IsFallback(u)' <=> IsFallback(u)
      BY AdminsKept DEF Goes
    <2> QED BY <2>1
  <1>s. ASSUME UNCHANGED rows, Goes(s, req'[s].at)
        PROVE  /\ \A g, u : InGroup(g, u)' <=> InGroup(g, u)
               /\ \A g, u : Sole(g, u)' <=> Sole(g, u)
               /\ \A g, u : Stuck(g, u)' <=> Stuck(g, u)
    <2>1. \A g, u : InGroup(g, u)' <=> InGroup(g, u)
      BY <1>s DEF InGroup, RowsOf
    <2>2. \A g, u : Sole(g, u)' <=> Sole(g, u)
      BY <1>s DEF Sole, OwnerRows
    <2> QED BY <1>s, <2>1, <2>2, AdminsKept DEF Stuck, Goes
  <1>1. CASE ReadCurrentGroups(s)
    <2>1. /\ Goes(s, "leave") /\ rows' = rows
          /\ req'[s].joined = {g \in Groups : InGroup(g, req[s].user)}
          /\ req'[s].leave = req'[s].joined \ req[s].names
      BY <1>1, ReadCurrentGroupsGoes DEF ReadCurrentGroups
    <2>2. \A g \in Groups : InGroup(g, req[s].user) => group[g] = "live"
      BY DEF InGroup, RowsOf, NoDanglingRows
    <2>3. req'[s].at = "leave" /\ req'[s].user = req[s].user /\ req'[s].names = req[s].names
      BY <2>1 DEF Goes
    <2>4. \A g, u : InGroup(g, u)' <=> InGroup(g, u)
      BY <2>1, <2>3, <1>s
    <2> QED BY <1>g, <1>t, <2>1, <2>2, <2>3, <2>4 DEF SyncInv, GroupsSynced, Leaves
  <1>2. CASE LeaveNext(s)
    <2>1. /\ Goes(s, "leaving") /\ rows' = rows /\ req[s].at = "leave" /\ SameJoined(s)
          /\ req'[s].group \in req[s].leave /\ req'[s].leave = req[s].leave \ {req'[s].group}
          /\ Begin(s, {req'[s].group}, EnsureOwner(req[s].user))
      BY <1>2, LeaveNextGoes DEF LeaveNext
    <2>2. /\ req'[s].at = "leaving" /\ req'[s].user = req[s].user /\ req'[s].names = req[s].names
          /\ req'[s].joined = req[s].joined
      BY <2>1 DEF Goes, SameJoined
    <2>3. /\ \A g, u : InGroup(g, u)' <=> InGroup(g, u)
          /\ \A g, u : Stuck(g, u)' <=> Stuck(g, u)
      BY <2>1, <2>2, <1>s
    <2>4. req'[s].group \in Groups => task'[<<s, req'[s].group>>].ph = "owners"
      BY <2>1, Begun, BegunShapes
    <2>5. ASSUME NEW g \in req[s].joined \ req[s].names, Leaves(s, g)
          PROVE  Leaves(s, g)'
      <3>1. CASE g = req'[s].group
        BY <1>t, <2>2, <2>4, <3>1 DEF Leaves, Parting
      <3>2. CASE g # req'[s].group
        BY <2>1, <2>2, <2>3, <2>5, <3>2 DEF Leaves
      <3> QED BY <3>1, <3>2
    <2>6. Named(s)' = Named(s)
      BY <1>g, <2>2 DEF Named
    <2>7. GroupsSynced(s) => GroupsSynced(s)'
      BY <2>2, <2>3, <2>5, <2>6 DEF GroupsSynced
    <2> QED BY <1>f, <1>g, <2>1, <2>2, <2>7 DEF SyncInv
  <1>3. CASE LeaveGroup(s)
    <2>1. /\ Goes(s, "leave") /\ SameJoined(s) /\ SameLeave(s) /\ req[s].at = "leaving" /\ Settled(s)
          /\ rows' = IF AllDone(s) THEN rows \ RowsOf(req[s].group, req[s].user) ELSE rows
      BY <1>3, LeaveGroupGoes DEF LeaveGroup
    <2>2. /\ req'[s].at = "leave" /\ req'[s].user = req[s].user /\ req'[s].names = req[s].names
          /\ req'[s].joined = req[s].joined /\ req'[s].leave = req[s].leave
          /\ Admins' = Admins
      BY <2>1, AdminsKept DEF Goes, SameJoined, SameLeave
    <2>3. req[s].group \in (req[s].joined \ req[s].names) \ req[s].leave
      BY <2>1 DEF JoinedInv
    <2> PICK h \in Groups : h = req[s].group
      BY <1>t, <2>3
    <2> PICK w : w = req[s].user
      OBVIOUS
    <2>l. rows' = IF AllDone(s) THEN rows \ RowsOf(h, w) ELSE rows
      BY <2>1
    <2>4. \A g : g # h => MembersOf(g)' = MembersOf(g)
      BY <2>l DEF MembersOf, RowsOf
    <2>5. ASSUME NEW g, g # h
          PROVE  /\ InGroup(g, w)' <=> InGroup(g, w)
                 /\ Stuck(g, w)' <=> Stuck(g, w)
      <3>1. MembersOf(g)' = MembersOf(g)
        BY <2>4, <2>5
      <3>2. (InGroup(g, w)' <=> InGroup(g, w)) /\ (Sole(g, w)' <=> Sole(g, w))
        BY <3>1, SameMembers DEF Sole
      <3> QED BY <2>2, <3>2 DEF Stuck
    <2>6. ASSUME Leaves(s, h)
          PROVE  InGroup(h, w)' => Stuck(h, w)'
      <3>1. CASE AllDone(s)
        BY <2>l, <3>1 DEF InGroup, RowsOf
      <3>2. CASE ~AllDone(s)
        <4>1. task[<<s, h>>].ph = "failed"
          BY <2>1, <3>2 DEF AllDone, Settled, StageInv, OneCheck
        <4>2. Parting(s, h)
          BY <2>1, <2>3, <2>6 DEF Leaves
        <4>3. Stuck(h, w) /\ rows' = rows
          BY <2>l, <3>2, <4>1, <4>2 DEF Parting
        <4> QED BY <2>2, <4>3 DEF Stuck, Sole, OwnerRows
      <3> QED BY <3>1, <3>2
    <2>7. ASSUME NEW g \in req[s].joined \ req[s].names, Leaves(s, g)
          PROVE  Leaves(s, g)'
      <3>1. CASE g = h
        BY <2>2, <2>6, <2>7, <3>1 DEF Leaves
      <3>2. CASE g # h
        BY <2>1, <2>2, <2>5, <2>7, <3>2 DEF Leaves
      <3> QED BY <3>1, <3>2
    <2>8. Named(s)' = Named(s)
      BY <1>g, <2>2 DEF Named
    <2>9. \A g \in Groups : InGroup(g, w)' => InGroup(g, w)
      BY <2>l DEF InGroup, RowsOf
    <2>10. GroupsSynced(s) => GroupsSynced(s)'
      BY <2>2, <2>3, <2>5, <2>7, <2>8, <2>9 DEF GroupsSynced
    <2> QED BY <1>f, <1>g, <2>1, <2>2, <2>10 DEF SyncInv
  <1>4. CASE JoinGroups(s)
    <2>1. /\ Goes(s, "joining") /\ rows' = rows /\ req[s].at = "leave" /\ req[s].leave = {}
          /\ SameJoined(s)
          /\ Begin(s, Named(s) \ req[s].joined, AddUser(req[s].user, "member"))
      BY <1>4, GotoFields DEF JoinGroups, Named
    <2>2. /\ req'[s].at = "joining" /\ req'[s].user = req[s].user /\ req'[s].names = req[s].names
          /\ req'[s].joined = req[s].joined
      BY <2>1 DEF Goes, SameJoined
    <2>3. /\ \A g, u : InGroup(g, u)' <=> InGroup(g, u)
          /\ \A g, u : Stuck(g, u)' <=> Stuck(g, u)
      BY <2>1, <2>2, <1>s
    <2>4. Named(s)' = Named(s)
      BY <1>g, <2>2 DEF Named
    <2>5. ASSUME NEW g \in Groups
          PROVE  IF g \in Named(s) \ req[s].joined THEN Joins(s, g)' ELSE task'[<<s, g>>].ph = "off"
      <3>1. task'[<<s, g>>] = IF g \in Named(s) \ req[s].joined THEN AddUser(req[s].user, "member")
                              ELSE Off
        BY <2>1, Begun
      <3> QED BY <2>2, <3>1, BegunShapes DEF Joins
    <2>6. \A g \in req[s].joined \ req[s].names : Leaves(s, g) => Leaves(s, g)'
      BY <2>1, <2>2, <2>3 DEF Leaves
    <2>7. GroupsSynced(s) => GroupsSynced(s)'
      BY <2>2, <2>3, <2>4, <2>5, <2>6 DEF GroupsSynced
    <2> QED BY <1>f, <1>g, <2>1, <2>2, <2>7 DEF SyncInv
  <1>5. CASE /\ CheckDangling(s) /\ AllDone(s) /\ Goto(s, "dangling")
             /\ Begin(s, req[s].joined \ req[s].names, EnsureOwner(req[s].user))
    <2>1. Goes(s, "dangling") /\ rows' = rows /\ req[s].at = "joining" /\ SameJoined(s)
      BY <1>5, GotoFields DEF CheckDangling
    <2>2. /\ req'[s].at = "dangling" /\ req'[s].user = req[s].user /\ req'[s].names = req[s].names
          /\ req'[s].joined = req[s].joined
      BY <2>1 DEF Goes, SameJoined
    <2>3. /\ \A g, u : InGroup(g, u)' <=> InGroup(g, u)
          /\ \A g, u : Stuck(g, u)' <=> Stuck(g, u)
      BY <2>1, <2>2, <1>s
    <2>4. Named(s)' = Named(s)
      BY <1>g, <2>2 DEF Named
    <2>5. \A g \in Groups : /\ g \in req[s].joined \ req[s].names => task'[<<s, g>>].ph = "owners"
                            /\ g \notin req[s].joined \ req[s].names => task'[<<s, g>>].ph = "off"
      BY <1>5, Begun, BegunShapes
    <2>6. \A g \in req[s].joined \ req[s].names : Leaves(s, g) => Leaves(s, g)'
      BY <1>t, <2>1, <2>2, <2>3, <2>5 DEF Leaves, Checked
    <2>7. GroupsSynced(s) => \A g \in Named(s) : InGroup(g, req[s].user)
      <3>1. ASSUME GroupsSynced(s), NEW g \in Named(s), g \notin req[s].joined
            PROVE  InGroup(g, req[s].user)
        <4>1. g \in Groups /\ Joins(s, g)
          BY <1>t, <2>1, <3>1 DEF GroupsSynced, Named
        <4> QED BY <1>5, <4>1 DEF AllDone, Joins
      <3> QED BY <3>1 DEF GroupsSynced, Named
    <2>8. GroupsSynced(s) => GroupsSynced(s)'
      BY <2>2, <2>3, <2>4, <2>5, <2>6, <2>7 DEF GroupsSynced
    <2> QED BY <1>f, <1>g, <2>1, <2>2, <2>8 DEF SyncInv
  <1>6. CASE Goto(s, "drain") /\ UNCHANGED account
    BY <1>6, GotoFields DEF Goes, SyncInv
  <1> QED BY <1>r, <1>1, <1>2, <1>3, <1>4, <1>5, <1>6 DEF SyncStep, CheckDangling, FinishSync

-----------------------------------------------------------------------------

\* Only an insertion brings anybody into a group, and only its own user.
LEMMA NobodyElseJoins ==
  ASSUME TypeOK, NEW s \in Slots, NEW g \in Groups, TaskStep(s, g), NEW v,
         task[<<s, g>>].ph = "insert" => v # task[<<s, g>>].user,
         InGroup(g, v)'
  PROVE  InGroup(g, v)
  <1> SUFFICES \A x \in rows' : x.group = g /\ x.user = v =>
                 \E y \in rows : y.group = g /\ y.user = v
    BY DEF InGroup, RowsOf
  <1>0. \A x \in rows : x \in Row
    BY DEF TypeOK
  <1>1. CASE InsertRow(s, g)
    <2>1. task[<<s, g>>].ph = "insert"
      BY <1>1 DEF InsertRow
    <2> QED BY <1>1, <2>1, InsertRowMoves
  <1>2. CASE PromoteAdmin(s, g)
    BY <1>0, <1>2, PromoteAdminMoves DEF WithRole, Row
  <1>3. CASE UpdateRows(s, g)
    BY <1>0, <1>3, UpdateRowsMoves DEF Row
  <1> QED BY <1>1, <1>2, <1>3 DEF TaskStep, ReadOwners, FindDefaultAdmin, FindLowestAdmin,
             FindAdminInGroup, LookUpRow

\* While a group is being left, its owner check fails only where nobody can be found.
LEMMA PartingKept ==
  ASSUME TypeOK, NEW s \in Slots, NEW g \in Groups, TaskInv(s, g), TaskStep(s, g),
         req[s].at = "leaving", g = req[s].group, group[g] = "live", Parting(s, g)
  PROVE  Parting(s, g)'
  <1> DEFINE t == task[<<s, g>>]
             n == task'[<<s, g>>]
  <1> PICK u : u = req[s].user
    OBVIOUS
  <1>0. req' = req /\ Admins' = Admins
    BY TaskFrame, AdminsKept
  <1>s. rows' = rows => (Sole(g, u)' <=> Sole(g, u)) /\ (Stuck(g, u)' <=> Stuck(g, u))
    BY <1>0 DEF Stuck, Sole, OwnerRows
  <1>p. /\ n.ph \in {"default", "lowest"} => Sole(g, u)'
        /\ n.ph = "failed" => Stuck(g, u)'
    <2>1. CASE ReadOwners(s, g)
      BY <2>1, <1>s, ReadOwnersMoves DEF Moves, TaskInv
    <2>2. CASE FindDefaultAdmin(s, g)
      BY <2>2, <1>s, FindDefaultAdminMoves DEF Moves, Parting
    <2>3. CASE FindLowestAdmin(s, g)
      BY <2>3, <1>s, FindLowestAdminMoves DEF Moves, Parting, Stuck
    <2>4. CASE InsertRow(s, g)
      <3>1. t.ph = "insert" /\ IsFallback(t.user)
        BY <2>4 DEF InsertRow, TaskInv, Ensuring, OneCheck
      <3>2. Exists(t.user)
        BY <3>1 DEF IsFallback, Admins, Exists, UserRoles
      <3> QED BY <2>4, <3>2, InsertRowMoves DEF Moves
    <2>5. CASE FindAdminInGroup(s, g) \/ PromoteAdmin(s, g) \/ LookUpRow(s, g) \/ UpdateRows(s, g)
      BY <2>5, FindAdminInGroupMoves, PromoteAdminMoves, LookUpRowMoves, UpdateRowsMoves DEF Moves
    <2> QED BY <2>1, <2>2, <2>3, <2>4, <2>5 DEF TaskStep
  <1> QED BY <1>0, <1>p DEF Parting

\* The last owner checks of a synchronisation bring in nobody but the administrator
\* to whom the group falls.
LEMMA CheckedKept ==
  ASSUME TypeOK, NEW s \in Slots, NEW g \in Groups, TaskInv(s, g), TaskStep(s, g),
         ~IsFallback(req[s].user), Checked(s, g), InGroup(g, req[s].user) => Stuck(g, req[s].user)
  PROVE  Checked(s, g)' /\ (InGroup(g, req[s].user)' => Stuck(g, req[s].user)')
  <1> DEFINE t == task[<<s, g>>]
             n == task'[<<s, g>>]
  <1> PICK u : u = req[s].user
    OBVIOUS
  <1>0. /\ req' = req /\ Admins' = Admins
        /\ \A v : IsFallback(v)' <=> IsFallback(v)
    BY TaskFrame, AdminsKept
  <1>s. rows' = rows => (InGroup(g, u)' <=> InGroup(g, u)) /\ (Stuck(g, u)' <=> Stuck(g, u))
    BY <1>0 DEF Stuck, Sole, OwnerRows, InGroup, RowsOf
  <1>c. /\ t.ph \in {"look", "insert", "update"} => IsFallback(t.user)
        /\ InGroup(g, u) => t.ph \in {"owners", "default", "lowest", "failed"} /\ Stuck(g, u)
        /\ ~IsFallback(u)
    BY DEF Checked
  <1>p. /\ n.ph # "off"
        /\ n.ph \in {"look", "insert", "update"} => IsFallback(n.user)
        /\ InGroup(g, u)' => Stuck(g, u)' /\ n.ph \in {"owners", "default", "lowest", "failed"}
    <2>1. CASE ReadOwners(s, g)
      BY <2>1, <1>s, <1>c, ReadOwnersMoves DEF Moves, TaskInv, Stuck
    <2>2. CASE FindDefaultAdmin(s, g)
      BY <2>2, <1>s, <1>c, FindDefaultAdminMoves DEF Moves, Stuck
    <2>3. CASE FindLowestAdmin(s, g)
      BY <2>3, <1>s, <1>c, FindLowestAdminMoves DEF Moves, Stuck
    <2>4. CASE FindAdminInGroup(s, g)
      BY <2>4, <1>s, <1>c, FindAdminInGroupMoves DEF Moves, TaskInv
    <2>5. CASE LookUpRow(s, g)
      BY <2>5, <1>s, <1>c, LookUpRowMoves DEF Moves
    <2>6. CASE PromoteAdmin(s, g) \/ InsertRow(s, g) \/ UpdateRows(s, g)
      <3>1. /\ t.ph \in {"promote", "insert", "update"} /\ n.ph \in {"done", "failed"}
        BY <2>6, PromoteAdminMoves, InsertRowMoves, UpdateRowsMoves DEF Moves
      <3>2. InGroup(g, u)' => InGroup(g, u)
        BY <1>c, NobodyElseJoins
      <3> QED BY <1>c, <3>1, <3>2
    <2> QED BY <2>1, <2>2, <2>3, <2>4, <2>5, <2>6 DEF TaskStep
  <1> QED BY <1>0, <1>p DEF Checked

\* The addition of the user to a named group.
LEMMA JoinsKept ==
  ASSUME TypeOK, NEW s \in Slots, NEW g \in Groups, TaskInv(s, g), TaskStep(s, g),
         req[s].op # "addUser", Joins(s, g)
  PROVE  Joins(s, g)'
  <1> DEFINE t == task[<<s, g>>]
             n == task'[<<s, g>>]
  <1> PICK u : u = req[s].user
    OBVIOUS
  <1>0. req' = req
    BY TaskFrame
  <1>1. t.user = u /\ t.role = "member" /\ t.ph \in {"look", "insert", "done", "failed"}
    BY DEF Joins
  <1>2. LookUpRow(s, g) \/ InsertRow(s, g)
    BY <1>1 DEF TaskStep, ReadOwners, FindDefaultAdmin, FindLowestAdmin, FindAdminInGroup,
       PromoteAdmin, UpdateRows
  <1>3. CASE LookUpRow(s, g)
    BY <1>0, <1>1, <1>3, LookUpRowMoves DEF Moves, TaskInv, Joins
  <1>4. CASE InsertRow(s, g)
    <2>1. /\ n.ph \in {"done", "failed"} /\ n.user = u /\ n.role = "member"
          /\ n.ph = "done" => InGroup(g, u)'
      <3>1. CASE Moves(s, g, "insert", "done")
        <4>1. \E x \in rows' : x.group = g /\ x.user = u
          <5>1. \E i : [id |-> i, group |-> g, user |-> t.user, role |-> t.role] \in rows'
            BY <1>4, <3>1, InsertRowMoves DEF Moves
          <5> HIDE DEF t
          <5> QED BY <1>1, <5>1
        <4> QED BY <1>1, <3>1, <4>1 DEF Moves, InGroup, RowsOf
      <3>2. CASE Moves(s, g, "insert", "failed")
        BY <1>1, <3>2 DEF Moves
      <3> QED BY <1>4, <3>1, <3>2, InsertRowMoves
    <2> QED BY <1>0, <2>1 DEF Joins
  <1> QED BY <1>2, <1>3, <1>4

-----------------------------------------------------------------------------

LEMMA SyncTaskKeeps ==
  ASSUME TypeOK, IdsName, NEW s \in Slots, StageInv(s), OwnersInv(s), SyncInv(s),
         NEW g \in Groups, TaskStep(s, g)
  PROVE  SyncInv(s)'
  <1> PICK u : u = req[s].user
    OBVIOUS
  <1>0. /\ req' = req /\ group' = group /\ Admins' = Admins
        /\ \A v : IsFallback(v)' <=> IsFallback(v)
        /\ \A h \in Groups : h # g => task'[<<s, h>>] = task[<<s, h>>]
        /\ task[<<s, g>>].ph # "off"
        /\ TaskInv(s, g)
    BY TaskFrame, AdminsKept, StageTask DEF OwnersInv
  <1>n. Named(s)' = Named(s)
    BY <1>0 DEF Named
  <1>h. ASSUME NEW h \in Groups, h # g
        PROVE  /\ InGroup(h, u)' <=> InGroup(h, u)
               /\ Stuck(h, u)' <=> Stuck(h, u)
    <2>1. MembersOf(h)' = MembersOf(h)
      BY <1>h, OtherGroupsKept DEF MembersOf
    <2>2. (InGroup(h, u)' <=> InGroup(h, u)) /\ (Sole(h, u)' <=> Sole(h, u))
      BY <2>1, SameMembers DEF Sole
    <2> QED BY <1>0, <2>2 DEF Stuck
  <1>l. ASSUME NEW h \in Groups, h # g, Leaves(s, h)
        PROVE  Leaves(s, h)'
    <2>1. /\ Parting(s, h)' <=> Parting(s, h)
          /\ Checked(s, h)' <=> Checked(s, h)
      <3>1. MembersOf(h)' = MembersOf(h)
        BY <1>l, OtherGroupsKept DEF MembersOf
      <3>2. Sole(h, u)' <=> Sole(h, u)
        BY <3>1, SameMembers DEF Sole
      <3> QED BY <1>0, <1>h, <1>l, <3>2 DEF Parting, Checked
    <2> QED BY <1>0, <1>h, <1>l, <2>1 DEF Leaves
  <1> SUFFICES ASSUME req[s].at \in SyncStages, ~IsFallback(req[s].user)
               PROVE  GroupsSynced(s)'
    BY <1>0 DEF SyncInv
  <1>g. GroupsSynced(s) /\ \A h \in req[s].joined : group[h] = "live"
    BY DEF SyncInv
  <1>a. req[s].op = "sync" /\ req[s].at \in {"leaving", "joining", "dangling"}
    BY <1>0, NoTasks DEF SyncStages, StageInv, OpsAt, OneCheck
  \* What is to be shown of the groups, for the user u.
  <1>s. ASSUME \A h \in Groups : InGroup(h, u)' => h \in req[s].joined \cup Named(s),
               \A h \in req[s].joined \cap req[s].names : InGroup(h, u)',
               \A h \in req[s].joined \ req[s].names : Leaves(s, h)',
               req[s].at = "joining" => \A h \in Groups :
                 IF h \in Named(s) \ req[s].joined THEN Joins(s, h)' ELSE task'[<<s, h>>].ph = "off",
               req[s].at = "dangling" =>
                 /\ \A h \in Named(s) : InGroup(h, u)'
                 /\ \A h \in Groups \ (req[s].joined \ req[s].names) : task'[<<s, h>>].ph = "off"
        PROVE  GroupsSynced(s)'
    BY <1>0, <1>n, <1>s DEF GroupsSynced
  <1>k. /\ \A h \in Groups : InGroup(h, u) => h \in req[s].joined \cup Named(s)
        /\ \A h \in req[s].joined \cap req[s].names : InGroup(h, u)
        /\ req[s].at = "dangling" =>
             /\ \A h \in Named(s) : InGroup(h, u)
             /\ \A h \in Groups \ (req[s].joined \ req[s].names) : task[<<s, h>>].ph = "off"
    BY <1>g DEF GroupsSynced
  <1>t. req[s].joined \subseteq Groups /\ req[s].names \subseteq Groups /\ Named(s) \subseteq req[s].names
    BY DEF TypeOK, Request, Named
  <1>1. CASE req[s].at = "leaving"
    <2>1. g = req[s].group /\ g \in (req[s].joined \ req[s].names) \ req[s].leave
      BY <1>0, <1>1 DEF StageInv, OneCheck, JoinedInv, OwnersInv
    <2>2. Parting(s, g)'
      <3>1. Parting(s, g)
        BY <1>g, <1>1, <2>1 DEF GroupsSynced, Leaves
      <3> QED BY <1>0, <1>g, <1>1, <2>1, <3>1, PartingKept
    <2>3. Leaves(s, g)'
      BY <1>0, <1>1, <2>1, <2>2 DEF Leaves
    <2>4. \A h \in req[s].joined \ req[s].names : Leaves(s, h)'
      BY <1>g, <1>l, <2>3 DEF GroupsSynced, TypeOK, Request
    <2> QED BY <1>s, <1>k, <1>t, <1>h, <1>1, <2>1, <2>4
  <1>2. CASE req[s].at = "joining"
    <2>1. g \in (Named(s) \cap req[s].names) \ req[s].joined /\ Joins(s, g)
      BY <1>0, <1>g, <1>t, <1>2 DEF GroupsSynced
    <2>2. Joins(s, g)'
      BY <1>0, <1>a, <2>1, JoinsKept
    <2>3. ASSUME NEW h \in Groups, h # g, Joins(s, h)
          PROVE  Joins(s, h)'
      BY <1>0, <1>h, <2>3 DEF Joins
    <2>4. \A h \in req[s].joined \ req[s].names : Leaves(s, h)'
      BY <1>g, <1>l, <2>1 DEF GroupsSynced, TypeOK, Request, Named
    <2>5. \A h \in Groups :
            IF h \in Named(s) \ req[s].joined THEN Joins(s, h)' ELSE task'[<<s, h>>].ph = "off"
      <3>1. \A h \in Groups :
              IF h \in Named(s) \ req[s].joined THEN Joins(s, h) ELSE task[<<s, h>>].ph = "off"
        BY <1>g, <1>2 DEF GroupsSynced
      <3> QED BY <1>0, <2>1, <2>2, <2>3, <3>1
    <2> QED BY <1>s, <1>k, <1>t, <1>h, <1>2, <2>1, <2>4, <2>5
  <1>3. CASE req[s].at = "dangling"
    <2>1. g \in req[s].joined \ req[s].names
      BY <1>0, <1>g, <1>3 DEF GroupsSynced
    <2>2. Checked(s, g) /\ (InGroup(g, req[s].user) => Stuck(g, req[s].user))
      BY <1>g, <1>3, <2>1 DEF GroupsSynced, Leaves
    <2>3. Checked(s, g)' /\ (InGroup(g, u)' => Stuck(g, u)')
      BY <1>0, <2>2, CheckedKept
    <2>4. Leaves(s, g)'
      BY <1>0, <1>3, <2>3 DEF Leaves
    <2>5. \A h \in req[s].joined \ req[s].names : Leaves(s, h)'
      BY <1>g, <1>l, <2>4 DEF GroupsSynced, TypeOK, Request
    <2> QED BY <1>0, <1>s, <1>k, <1>t, <1>h, <1>3, <2>1, <2>5
  <1> QED BY <1>a, <1>1, <1>2, <1>3

AllSynced == \A s \in Slots : SyncInv(s)

LEMMA SyncNext ==
  /\ OneAtATime /\ TypeOK /\ NoDanglingRows /\ IdsName /\ SerialInv
  /\ AllSynced /\ [Next]_vars
  => AllSynced'
  <1> SUFFICES ASSUME OneAtATime, TypeOK, NoDanglingRows, IdsName, SerialInv, [Next]_vars,
                      NEW s \in Slots, SyncInv(s)
               PROVE  SyncInv(s)'
    BY DEF AllSynced
  <1>i. StageInv(s) /\ OwnersInv(s) /\ JoinedInv(s)
    BY DEF SerialInv, AuthorityInv, OwnersInv
  <1>1. CASE Register \/ UNCHANGED vars
    <2>1. /\ UNCHANGED <<group, rows, req, task>>
          /\ Admins' = Admins /\ \A v : IsFallback(v)' <=> IsFallback(v)
      BY <1>1, AdminsKept DEF Register, vars
    <2>2. /\ \A g, u : InGroup(g, u)' <=> InGroup(g, u)
          /\ \A g, u : Sole(g, u)' <=> Sole(g, u)
      BY <2>1 DEF InGroup, RowsOf, Sole, OwnerRows
    <2>3. /\ \A g : Leaves(s, g)' <=> Leaves(s, g)
          /\ \A g : Joins(s, g)' <=> Joins(s, g)
      BY <2>1, <2>2 DEF Leaves, Joins, Parting, Checked, Stuck
    <2>4. GroupsSynced(s)' <=> GroupsSynced(s)
      BY <2>1, <2>2, <2>3 DEF GroupsSynced, Named
    <2> QED BY <2>1, <2>4 DEF SyncInv
  <1>2. CASE Receive(s)
    <2>1. req'[s].at \in {"insert", "load", "user", "current"}
      BY <1>i, <1>2, StageReceived
    <2> QED BY <2>1 DEF SyncInv, SyncStages
  <1>3. CASE SyncStep(s)
    BY <1>i, <1>3, SyncStepKeeps
  <1>4. CASE GroupStep(s) \/ UserStep(s)
    <2>1. req'[s].at \notin SyncStages
      <3>1. Reply(s) => req'[s].at = "idle"
        BY Replied DEF Idle, NewRequest
      <3>2. \A stage : Goto(s, stage) /\ UNCHANGED account => req'[s].at = stage
        BY GotoFields DEF Goes
      <3>3. CASE GroupStep(s)
        BY <3>1, <3>2, <3>3, InsertGroupGoes, FindMembershipGoes
           DEF GroupStep, LoadGroup, FindTarget, FinishAdd, RemoveMember, SetMemberRole,
               DestroyGroup, Goes, SyncStages, AfterLoad
      <3>4. CASE UserStep(s)
        BY <3>1, <3>2, <3>4, LoadUserGoes
           DEF UserStep, LoadUser, UpdateUser, CountAdmins, ListGroups, DestroyUser, Drain,
               Goes, SyncStages
      <3> QED BY <1>4, <3>3, <3>4
    <2> QED BY <2>1 DEF SyncInv
  <1>5. ASSUME NEW g \in Groups, TaskStep(s, g)
        PROVE  SyncInv(s)'
    BY <1>i, <1>5, SyncTaskKeeps
  <1> QED BY <1>1, <1>2, <1>3, <1>4, <1>5 DEF Next, Step, OneAtATime

\* With one request at a time, a login that ends its synchronisation has left its user in
\* exactly the named groups that exist, or the user is the one to whom groups fall.
THEOREM SerialSync ==
  ASSUME OneAtATime
  PROVE  Spec => SyncMatchesNamesUnlessFallback
  <1>1. Init => AllSynced
    BY DEF Init, AllSynced, SyncInv, SyncStages, Idle, NewRequest
  <1>2. TypeOK /\ AllSynced /\ [Next]_vars =>
          [\A s \in Slots : SyncEnds(s) => SyncedTo(s) \/ req[s].user = Fallback]_vars
    <2> SUFFICES ASSUME TypeOK, NEW s \in Slots, SyncInv(s), SyncEnds(s), req[s].user # Fallback
                 PROVE  SyncedTo(s)
      BY DEF AllSynced
    <2>1. /\ req[s].at = "dangling" /\ AllDone(s) /\ GroupsSynced(s)
          /\ \A g \in req[s].joined : group[g] = "live"
      BY FallbackIs DEF SyncInv, SyncEnds, SyncStages
    <2>2. ASSUME NEW g \in req[s].joined \ req[s].names
          PROVE  ~InGroup(g, req[s].user)
      <3>1. Leaves(s, g) /\ task[<<s, g>>].ph \in {"off", "done"}
        BY <2>1, <2>2 DEF GroupsSynced, AllDone, TypeOK, Request
      <3> QED BY <2>1, <3>1 DEF Leaves, Checked
    <2>3. \A g \in Groups : InGroup(g, req[s].user) <=> g \in Named(s)
      <3>1. \A g \in Named(s) : InGroup(g, req[s].user)
        BY <2>1 DEF GroupsSynced
      <3>2. ASSUME NEW g \in Groups, InGroup(g, req[s].user) PROVE g \in Named(s)
        <4>1. g \in req[s].joined \cup Named(s) /\ g \notin req[s].joined \ req[s].names
          BY <2>1, <2>2, <3>2 DEF GroupsSynced
        <4> QED BY <2>1, <4>1 DEF Named
      <3> QED BY <3>1, <3>2
    <2> QED BY <2>3 DEF SyncedTo, Named, TypeOK, Request
  <1> QED BY <1>1, <1>2, SyncNext, SerialHolds, PTL DEF Spec, SyncMatchesNamesUnlessFallback

=============================================================================
