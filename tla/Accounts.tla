------------------------------ MODULE Accounts ------------------------------
(***************************************************************************)
(* The accounts, groups and group memberships of the Heimdall backend      *)
(* (apps/backend/src/users, groups, group-users, casl), at the grain of    *)
(* one database statement per action: the handlers of NestJS interleave    *)
(* wherever they await, so every statement of one request may run between  *)
(* two statements of another.                                              *)
(*                                                                         *)
(* A slot of Slots is a request in flight.  Request records hold what the  *)
(* handler has read and still uses; they go stale as other requests write. *)
(* ensureGroupHasOwner and Sequelize's $add take several statements and    *)
(* run in parallel inside one request (Promise.all), so each is a task of  *)
(* its own, indexed by the request and the group it works on.              *)
(***************************************************************************)
EXTENDS Integers, FiniteSets

CONSTANTS
  Users,          \* the ids of the Users table, in order of creation
  Groups,         \* the ids of the Groups table
  Slots,          \* the requests that may be in flight at once
  Ops,            \* the operations clients ask for
  RowIds,         \* the ids of the GroupUsers table
  DefaultAdmin,   \* the user whose email is ADMIN_EMAIL, or NoUser
  InitialAdmins,  \* the users the deployment starts with ...
  InitialUsers,   \* ... by role
  NoGroup         \* not a group

NoUser == 0

AllOps == {"createGroup", "removeGroup", "addUser", "removeUser", "setRole",
           "updateUser", "deleteUser", "sync"}

ASSUME UsersAssumption   == Users \subseteq Nat \ {NoUser} /\ IsFiniteSet(Users)
ASSUME RowIdsAssumption  == RowIds \subseteq Nat \ {0}
ASSUME GroupsAssumption  == NoGroup \notin Groups
ASSUME OpsAssumption     == Ops \subseteq AllOps
ASSUME AdminAssumption   == DefaultAdmin \in Users \cup {NoUser}
ASSUME InitialAssumption == /\ InitialAdmins \subseteq Users
                            /\ InitialUsers \subseteq Users \ InitialAdmins

VARIABLES
  account,  \* Users.role of each user, "new" before registration, "gone" after deletion
  group,    \* whether each group exists: "new", "live" or "gone"
  rows,     \* the GroupUsers table
  req,      \* the requests in flight
  task      \* their ensureGroupHasOwner and addUserToGroup calls, by group

vars == <<account, group, rows, req, task>>

-----------------------------------------------------------------------------
(* The tables. *)

UserRoles  == {"user", "admin"}
GroupRoles == {"member", "owner"}

Row   == [id : RowIds, group : Groups, user : Users, role : GroupRoles]
NoRow == [id |-> 0, group |-> NoGroup, user |-> NoUser, role |-> "member"]

Exists(u) == u \in Users /\ account[u] \in UserRoles
Admins    == {u \in Users : account[u] = "admin"}

RowsOf(g, u) == {x \in rows : x.group = g /\ x.user = u}
InGroup(g, u) == RowsOf(g, u) # {}
OwnerRows(g) == {x \in rows : x.group = g /\ x.role = "owner"}

\* Where a user is in a group twice, an eager load keeps one of the two rows.
SeenRoles(g, u) == IF InGroup(g, u) THEN {x.role : x \in RowsOf(g, u)} ELSE {"none"}

\* Row ids are never reused while anybody remembers them.
UsedIds == {x.id : x \in rows} \cup {req[s].row.id : s \in Slots}
             \cup {task[t].row.id : t \in Slots \X Groups}
IsNextId(i) == i \notin UsedIds /\ \A j \in RowIds : j < i => j \in UsedIds

\* An instance's update({role}): no statement when the role it read is the new one.
WithRole(read, role) ==
  IF read.role = role THEN rows
  ELSE {IF x.id = read.id THEN [x EXCEPT !.role = role] ELSE x : x \in rows}

-----------------------------------------------------------------------------
(* What the CASL ability of a caller allows, by the role read with its token. *)

\* Slip: any member manages the group.
CanManageGroupAsMember(byRole, seenRole) == byRole = "admin" \/ seenRole # "none"

\* Action.Update and Action.Delete of a group.
CanManageGroup(byRole, seenRole) == byRole = "admin" \/ seenRole = "owner"

\* Action.Update and Action.Delete of a user.
CanEditUser(byRole, by, u) == byRole = "admin" \/ by = u

\* Slip: the ability of an administrator is not withdrawn from the own account.
CanManageUserOrSelf(byRole, by, u) == byRole = "admin"

\* update-no-password, update-role, skip-force-password-change, delete-no-password.
CanManageUser(byRole, by, u) == byRole = "admin" /\ by # u

-----------------------------------------------------------------------------
(* Requests and tasks. *)

Stages == {"idle", "load", "target", "row", "insert", "user", "save", "count",
           "groups", "adding", "removing", "demoting", "cleaning", "current",
           "leave", "leaving", "joining", "dangling", "drain"}

FirstStage(op) ==
  CASE op = "createGroup" -> "insert"
    [] op \in {"removeGroup", "addUser", "removeUser", "setRole"} -> "load"
    [] op \in {"updateUser", "deleteUser"} -> "user"
    [] op = "sync" -> "current"

\* What a client may send; the fields an operation does not read are fixed.
Params == [user : Users \cup {NoUser}, group : Groups \cup {NoGroup},
           groupRole : GroupRoles, role : UserRoles, names : SUBSET Groups]

SomeParams(users, groups, groupRoles, roles, names) ==
  [user : users, group : groups, groupRole : groupRoles, role : roles, names : names]

ParamsOf(op) ==
  CASE op = "createGroup" -> SomeParams({NoUser}, {NoGroup}, {"owner"}, {"user"}, {{}})
    [] op = "removeGroup" -> SomeParams({NoUser}, Groups, {"member"}, {"user"}, {{}})
    [] op = "removeUser"  -> SomeParams(Users, Groups, {"member"}, {"user"}, {{}})
    [] op \in {"addUser", "setRole"} -> SomeParams(Users, Groups, GroupRoles, {"user"}, {{}})
    [] op = "updateUser"  -> SomeParams(Users, {NoGroup}, {"member"}, UserRoles, {{}})
    [] op = "deleteUser"  -> SomeParams(Users, {NoGroup}, {"member"}, {"user"}, {{}})
    [] op = "sync" -> SomeParams(Users, {NoGroup}, {"member"}, {"user"}, SUBSET Groups)

Request == [at : Stages, op : AllOps \cup {"none"}, by : Users \cup {NoUser},
            user : Users \cup {NoUser}, group : Groups \cup {NoGroup},
            groupRole : GroupRoles, role : UserRoles, names : SUBSET Groups,
            byRole : UserRoles, seen : UserRoles, row : Row \cup {NoRow},
            joined : SUBSET Groups, leave : SUBSET Groups]

\* A request let in with parameters q; what it will read is blank.
NewRequest(stage, op, by, byRole, q) ==
  [at |-> stage, op |-> op, by |-> by, user |-> q.user, group |-> q.group,
   groupRole |-> q.groupRole, role |-> q.role, names |-> q.names,
   byRole |-> byRole, seen |-> "user", row |-> NoRow, joined |-> {}, leave |-> {}]

NoParams == [user |-> NoUser, group |-> NoGroup, groupRole |-> "member",
             role |-> "user", names |-> {}]
Idle == NewRequest("idle", "none", NoUser, "user", NoParams)

Phases == {"off", "owners", "default", "lowest", "within", "promote",
           "look", "insert", "update", "done", "failed"}

Task == [ph : Phases, user : Users \cup {NoUser}, role : GroupRoles, row : Row \cup {NoRow}]
Off  == [ph |-> "off", user |-> NoUser, role |-> "member", row |-> NoRow]

\* Slip: the role of the account is written as the role in the group.
EnsureOwnerAsAdmin(u) == [ph |-> "owners", user |-> u, role |-> "admin", row |-> NoRow]

EnsureOwner(u)   == [ph |-> "owners", user |-> u, role |-> "owner", row |-> NoRow]
AddUser(u, role) == [ph |-> "look", user |-> u, role |-> role, row |-> NoRow]

\* Slot s begins task t on every group of G and forgets the ones before.
Begin(s, G, t) ==
  task' = [p \in Slots \X Groups |->
             IF p[1] # s THEN task[p] ELSE IF p[2] \in G THEN t ELSE Off]

AllDone(s)   == \A g \in Groups : task[<<s, g>>].ph \in {"off", "done"}
AnyFailed(s) == \E g \in Groups : task[<<s, g>>].ph = "failed"
Settled(s)   == \A g \in Groups : task[<<s, g>>].ph \in {"off", "done", "failed"}

Goto(s, stage) == req' = [req EXCEPT ![s].at = stage]

\* The response is sent; Begin(s, {}, Off) forgets the settled tasks.
Reply(s) == req' = [req EXCEPT ![s] = Idle] /\ Begin(s, {}, Off)

-----------------------------------------------------------------------------
Init ==
  /\ account = [u \in Users |-> IF u \in InitialAdmins THEN "admin"
                                ELSE IF u \in InitialUsers THEN "user" ELSE "new"]
  /\ group = [g \in Groups |-> "new"]
  /\ rows = {}
  /\ req = [s \in Slots |-> Idle]
  /\ task = [p \in Slots \X Groups |-> Off]

(***************************************************************************)
(* Accounts appear by registration, always with role "user".               *)
(***************************************************************************)
Register ==
  /\ \E u \in Users :
       /\ account[u] = "new"
       /\ \A v \in Users : v < u => account[v] # "new"
       /\ account' = [account EXCEPT ![u] = "user"]
  /\ UNCHANGED <<group, rows, req, task>>

\* A guard has let the request in and read request.user; a sync acts for the
\* user who logs in.
Receive(s) ==
  /\ req[s].at = "idle"
  /\ \E op \in Ops, by \in Users :
       /\ Exists(by)
       /\ \E q \in ParamsOf(op) :
            /\ op = "sync" => q.user = by
            /\ req' = [req EXCEPT ![s] = NewRequest(FirstStage(op), op, by, account[by], q)]
  /\ UNCHANGED <<account, group, rows, task>>

-----------------------------------------------------------------------------
(* Handlers of GroupsController and GroupsService. *)

\* create: the name is free and the row is saved, or the request is refused.
InsertGroup(s) ==
  /\ req[s].at = "insert"
  /\ \/ \E g \in Groups :
          /\ group[g] = "new"
          /\ group' = [group EXCEPT ![g] = "live"]
          /\ req' = [req EXCEPT ![s].at = "adding", ![s].group = g]
          /\ Begin(s, {g}, AddUser(req[s].by, "owner"))
     \/ Reply(s) /\ UNCHANGED group
  /\ UNCHANGED <<account, rows>>

AfterLoad(op) ==
  CASE op = "setRole" -> "row" [] op = "removeGroup" -> "save" [] OTHER -> "target"

\* findByPkBang and throwUnlessCan, on the users the group had at the read.
LoadGroup(s) ==
  LET g == req[s].group IN
  /\ req[s].at = "load"
  /\ \/ /\ group[g] = "live"
        /\ \E seen \in SeenRoles(g, req[s].by) : CanManageGroup(req[s].byRole, seen)
        /\ Goto(s, AfterLoad(req[s].op))
        /\ UNCHANGED task
     \/ /\ \/ group[g] # "live"
           \/ \E seen \in SeenRoles(g, req[s].by) : ~CanManageGroup(req[s].byRole, seen)
        /\ Reply(s)
  /\ UNCHANGED <<account, group, rows>>

\* usersService.findById of the user to add or to remove.
FindTarget(s) ==
  LET g == req[s].group
      u == req[s].user IN
  /\ req[s].at = "target"
  /\ \/ /\ Exists(u) /\ req[s].op = "addUser"
        /\ Goto(s, "adding") /\ Begin(s, {g}, AddUser(u, req[s].groupRole))
     \/ /\ Exists(u) /\ req[s].op = "removeUser"
        /\ Goto(s, "removing") /\ Begin(s, {g}, EnsureOwner(u))
     \/ ~Exists(u) /\ Reply(s)
  /\ UNCHANGED <<account, group, rows>>

\* updateGroupUserRole reads the membership first; without one it has nothing to do.
FindMembership(s) ==
  LET g == req[s].group
      u == req[s].user IN
  /\ req[s].at = "row"
  /\ \/ \E x \in RowsOf(g, u) :
          /\ req' = [req EXCEPT ![s].at = "demoting", ![s].row = x]
          /\ Begin(s, {g}, EnsureOwner(u))
     \/ ~InGroup(g, u) /\ Reply(s)
  /\ UNCHANGED <<account, group, rows>>

\* create and addUserToGroup answer when $add has returned or thrown.
FinishAdd(s) ==
  /\ req[s].at = "adding" /\ Settled(s)
  /\ Reply(s)
  /\ UNCHANGED <<account, group, rows>>

\* removeUserFromGroup: $remove deletes every row of the pair.
RemoveMember(s) ==
  /\ req[s].at = "removing" /\ Settled(s)
  /\ rows' = IF AllDone(s) THEN rows \ RowsOf(req[s].group, req[s].user) ELSE rows
  /\ Reply(s)
  /\ UNCHANGED <<account, group>>

\* updateGroupUserRole writes the row it read before the owner check.
SetMemberRole(s) ==
  /\ req[s].at = "demoting" /\ Settled(s)
  /\ rows' = IF AllDone(s) THEN WithRole(req[s].row, req[s].groupRole) ELSE rows
  /\ Reply(s)
  /\ UNCHANGED <<account, group>>

\* remove: the foreign keys of the memberships are set to NULL.
DestroyGroup(s) ==
  /\ req[s].at = "save" /\ req[s].op = "removeGroup"
  /\ group' = [group EXCEPT ![req[s].group] = "gone"]
  /\ rows' = {x \in rows : x.group # req[s].group}
  /\ Reply(s)
  /\ UNCHANGED account

-----------------------------------------------------------------------------
(* Handlers of UsersController and UsersService. *)

\* findByPkBang, throwUnlessCan and the password of those who cannot do without.
LoadUser(s) ==
  LET u == req[s].user
      q == req[s] IN
  /\ q.at = "user"
  /\ \/ /\ Exists(u) /\ CanEditUser(q.byRole, q.by, u)
        /\ req' = [req EXCEPT ![s].at = IF q.op = "updateUser" THEN "save" ELSE "count",
                              ![s].seen = account[u]]
        /\ UNCHANGED task
     \/ /\ ~Exists(u) \/ ~CanManageUser(q.byRole, q.by, u)
        /\ Reply(s)
  /\ UNCHANGED <<account, group, rows>>

\* update: save() writes the role if it differs from the one read, and nothing
\* if the row is gone.
UpdateUser(s) ==
  LET u == req[s].user
      q == req[s] IN
  /\ q.at = "save" /\ q.op = "updateUser"
  /\ account' = IF CanManageUser(q.byRole, q.by, u) /\ q.role # q.seen /\ Exists(u)
                THEN [account EXCEPT ![u] = q.role] ELSE account
  /\ Reply(s)
  /\ UNCHANGED <<group, rows>>

\* remove: the only administrator may not go.
CountAdmins(s) ==
  /\ req[s].at = "count"
  /\ IF req[s].seen = "admin" /\ Cardinality(Admins) < 2
     THEN Reply(s)
     ELSE Goto(s, "groups") /\ UNCHANGED task
  /\ UNCHANGED <<account, group, rows>>

\* remove: an owner is ensured in all of the user's groups in parallel.
ListGroups(s) ==
  /\ req[s].at = "groups"
  /\ Goto(s, "cleaning")
  /\ Begin(s, {g \in Groups : InGroup(g, req[s].user)}, EnsureOwner(req[s].user))
  /\ UNCHANGED <<account, group, rows>>

\* Slip: a rejection of the owner checks is not handled.
DestroyUserWhenAllDone(s) ==
  /\ req[s].at = "cleaning" /\ AllDone(s)
  /\ account' = [account EXCEPT ![req[s].user] = "gone"]
  /\ rows' = {x \in rows : x.user # req[s].user}
  /\ Reply(s)
  /\ UNCHANGED group

\* remove: one rejection rejects Promise.all and the user stays.
DestroyUser(s) ==
  LET u == req[s].user IN
  /\ req[s].at = "cleaning"
  /\ \/ /\ AllDone(s)
        /\ account' = [account EXCEPT ![u] = "gone"]
        /\ rows' = {x \in rows : x.user # u}
        /\ Reply(s)
     \/ /\ AnyFailed(s)
        /\ Goto(s, "drain")
        /\ UNCHANGED <<account, rows, task>>
  /\ UNCHANGED group

\* The response is sent; what Promise.all left running still runs.
Drain(s) ==
  /\ req[s].at = "drain" /\ Settled(s)
  /\ Reply(s)
  /\ UNCHANGED <<account, group, rows>>

-----------------------------------------------------------------------------
(* syncUserGroups, from the OIDC login.  A group stands for its name. *)

\* Slip: the difference between current and named groups is taken the wrong way.
ReadCurrentGroupsSwapped(s) ==
  LET joined == {g \in Groups : InGroup(g, req[s].user)} IN
  /\ req[s].at = "current"
  /\ req' = [req EXCEPT ![s].at = "leave", ![s].joined = joined,
                        ![s].leave = req[s].names \ joined]
  /\ UNCHANGED <<account, group, rows, task>>

ReadCurrentGroups(s) ==
  LET joined == {g \in Groups : InGroup(g, req[s].user)} IN
  /\ req[s].at = "current"
  /\ req' = [req EXCEPT ![s].at = "leave", ![s].joined = joined,
                        ![s].leave = joined \ req[s].names]
  /\ UNCHANGED <<account, group, rows, task>>

\* The groups to leave are left one after the other ...
LeaveNext(s) ==
  /\ req[s].at = "leave"
  /\ \E g \in req[s].leave :
       /\ req' = [req EXCEPT ![s].at = "leaving", ![s].group = g, ![s].leave = @ \ {g}]
       /\ Begin(s, {g}, EnsureOwner(req[s].user))
  /\ UNCHANGED <<account, group, rows>>

\* ... and a failure to leave one is logged.
LeaveGroup(s) ==
  /\ req[s].at = "leaving" /\ Settled(s)
  /\ rows' = IF AllDone(s) THEN rows \ RowsOf(req[s].group, req[s].user) ELSE rows
  /\ req' = [req EXCEPT ![s].at = "leave", ![s].group = NoGroup]
  /\ Begin(s, {}, Off)
  /\ UNCHANGED <<account, group>>

\* The named groups that exist are joined in parallel.
JoinGroups(s) ==
  LET found == {g \in req[s].names : group[g] = "live"} IN
  /\ req[s].at = "leave" /\ req[s].leave = {}
  /\ Goto(s, "joining")
  /\ Begin(s, found \ req[s].joined, AddUser(req[s].user, "member"))
  /\ UNCHANGED <<account, group, rows>>

\* The groups left are checked again, in parallel.
CheckDangling(s) ==
  /\ req[s].at = "joining"
  /\ \/ /\ AllDone(s)
        /\ Goto(s, "dangling")
        /\ Begin(s, req[s].joined \ req[s].names, EnsureOwner(req[s].user))
     \/ /\ AnyFailed(s)
        /\ Goto(s, "drain")
        /\ UNCHANGED task
  /\ UNCHANGED <<account, group, rows>>

FinishSync(s) ==
  /\ req[s].at = "dangling"
  /\ \/ AllDone(s) /\ Reply(s)
     \/ AnyFailed(s) /\ Goto(s, "drain") /\ UNCHANGED task
  /\ UNCHANGED <<account, group, rows>>

-----------------------------------------------------------------------------
(* ensureGroupHasOwner and addUserToGroup, one statement at a time. *)

Advance(s, g, phase) == task' = [task EXCEPT ![<<s, g>>].ph = phase]

\* Slip: owners.length < 1.
ReadOwnersOffByOne(s, g) ==
  LET u == task[<<s, g>>].user IN
  /\ task[<<s, g>>].ph = "owners"
  /\ Advance(s, g,
       IF \/ OwnerRows(g) = {}
          \/ Cardinality(OwnerRows(g)) < 1 /\ \E x \in OwnerRows(g) : x.user = u
       THEN "default" ELSE "done")
  /\ UNCHANGED <<account, group, rows, req>>

\* Whoever leaves must not be the only owner row, nor may there be none.
ReadOwners(s, g) ==
  LET u == task[<<s, g>>].user IN
  /\ task[<<s, g>>].ph = "owners"
  /\ Advance(s, g,
       IF \/ OwnerRows(g) = {}
          \/ Cardinality(OwnerRows(g)) < 2 /\ \E x \in OwnerRows(g) : x.user = u
       THEN "default" ELSE "done")
  /\ UNCHANGED <<account, group, rows, req>>

FindDefaultAdmin(s, g) ==
  /\ task[<<s, g>>].ph = "default"
  /\ IF DefaultAdmin \in Admins
     THEN task' = [task EXCEPT ![<<s, g>>].ph = "within", ![<<s, g>>].user = DefaultAdmin]
     ELSE Advance(s, g, "lowest")
  /\ UNCHANGED <<account, group, rows, req>>

FindLowestAdmin(s, g) ==
  /\ task[<<s, g>>].ph = "lowest"
  /\ \/ \E a \in Admins :
          /\ \A b \in Admins : a <= b
          /\ task' = [task EXCEPT ![<<s, g>>].ph = "within", ![<<s, g>>].user = a]
     \/ Admins = {} /\ Advance(s, g, "failed")
  /\ UNCHANGED <<account, group, rows, req>>

FindAdminInGroup(s, g) ==
  LET a == task[<<s, g>>].user IN
  /\ task[<<s, g>>].ph = "within"
  /\ \/ \E x \in RowsOf(g, a) :
          task' = [task EXCEPT ![<<s, g>>].ph = "promote", ![<<s, g>>].row = x]
     \/ ~InGroup(g, a) /\ Advance(s, g, "look")
  /\ UNCHANGED <<account, group, rows, req>>

PromoteAdmin(s, g) ==
  /\ task[<<s, g>>].ph = "promote"
  /\ rows' = WithRole(task[<<s, g>>].row, "owner")
  /\ task' = [task EXCEPT ![<<s, g>>].ph = "done", ![<<s, g>>].row = NoRow]
  /\ UNCHANGED <<account, group, req>>

\* Slip: bulkCreate without looking for existing rows.
LookUpRowNever(s, g) ==
  /\ task[<<s, g>>].ph = "look"
  /\ Advance(s, g, "insert")
  /\ UNCHANGED <<account, group, rows, req>>

\* $add inserts a row when it sees none, and otherwise updates those of the pair.
LookUpRow(s, g) ==
  /\ task[<<s, g>>].ph = "look"
  /\ Advance(s, g, IF InGroup(g, task[<<s, g>>].user) THEN "update" ELSE "insert")
  /\ UNCHANGED <<account, group, rows, req>>

\* Slip: no foreign key from GroupUsers to Users.
InsertRowUnchecked(s, g) ==
  /\ task[<<s, g>>].ph = "insert"
  /\ \E i \in RowIds :
       /\ IsNextId(i)
       /\ rows' = rows \cup {[id |-> i, group |-> g, user |-> task[<<s, g>>].user,
                             role |-> task[<<s, g>>].role]}
  /\ Advance(s, g, "done")
  /\ UNCHANGED <<account, group, req>>

\* The foreign keys refuse a user or a group that is gone.
InsertRow(s, g) ==
  LET u == task[<<s, g>>].user IN
  /\ task[<<s, g>>].ph = "insert"
  /\ \/ /\ Exists(u) /\ group[g] = "live"
        /\ \E i \in RowIds :
             /\ IsNextId(i)
             /\ rows' = rows \cup {[id |-> i, group |-> g, user |-> u, role |-> task[<<s, g>>].role]}
        /\ Advance(s, g, "done")
     \/ /\ ~(Exists(u) /\ group[g] = "live")
        /\ Advance(s, g, "failed")
        /\ UNCHANGED rows
  /\ UNCHANGED <<account, group, req>>

UpdateRows(s, g) ==
  /\ task[<<s, g>>].ph = "update"
  /\ rows' = {IF x \in RowsOf(g, task[<<s, g>>].user) THEN [x EXCEPT !.role = task[<<s, g>>].role]
              ELSE x : x \in rows}
  /\ Advance(s, g, "done")
  /\ UNCHANGED <<account, group, req>>

-----------------------------------------------------------------------------
GroupStep(s) ==
  \/ InsertGroup(s) \/ LoadGroup(s) \/ FindTarget(s) \/ FindMembership(s)
  \/ FinishAdd(s) \/ RemoveMember(s) \/ SetMemberRole(s) \/ DestroyGroup(s)

UserStep(s) ==
  \/ LoadUser(s) \/ UpdateUser(s) \/ CountAdmins(s) \/ ListGroups(s)
  \/ DestroyUser(s) \/ Drain(s)

SyncStep(s) ==
  \/ ReadCurrentGroups(s) \/ LeaveNext(s) \/ LeaveGroup(s) \/ JoinGroups(s)
  \/ CheckDangling(s) \/ FinishSync(s)

TaskStep(s, g) ==
  \/ ReadOwners(s, g) \/ FindDefaultAdmin(s, g) \/ FindLowestAdmin(s, g)
  \/ FindAdminInGroup(s, g) \/ PromoteAdmin(s, g)
  \/ LookUpRow(s, g) \/ InsertRow(s, g) \/ UpdateRows(s, g)

Step(s) == GroupStep(s) \/ UserStep(s) \/ SyncStep(s)

Next ==
  \/ Register
  \/ \E s \in Slots :
       \/ Receive(s)
       \/ Step(s)
       \/ \E g \in Groups : TaskStep(s, g)

Spec == Init /\ [][Next]_vars

\* Node's event loop and the connection pool serve every statement some day.
FairSpec ==
  /\ Spec
  /\ \A s \in Slots : WF_vars(Step(s))
  /\ \A s \in Slots, g \in Groups : WF_vars(TaskStep(s, g))

-----------------------------------------------------------------------------
\* Every table, request and task holds values of its shape.
TypeOK ==
  /\ account \in [Users -> UserRoles \cup {"new", "gone"}]
  /\ group \in [Groups -> {"new", "live", "gone"}]
  /\ rows \subseteq Row
  /\ req \in [Slots -> Request]
  /\ task \in [Slots \X Groups -> Task]

\* Every membership joins a user and a group that exist: no insert that was
\* decided before a deletion brings a deleted user or group back into a join.
NoDanglingRows ==
  \A x \in rows : Exists(x.user) /\ group[x.group] = "live"

\* A membership never has two rows (GroupUsers has no unique key, and both
\* $add and the count of owners rely on there being one).
OneRowPerMember ==
  \A x, y \in rows : x.group = y.group /\ x.user = y.user => x = y

\* UsersService.remove refuses to delete, and the abilities refuse to demote,
\* the last administrator.
AdminRemains == Admins # {}

\* The administrator that ensureGroupHasOwner would choose now.
Fallback ==
  IF DefaultAdmin \in Admins THEN DefaultAdmin
  ELSE CHOOSE a \in Admins : \A b \in Admins : a <= b

LosesOwners(g) == group'[g] = "live" /\ OwnerRows(g) # {} /\ OwnerRows(g)' = {}

\* A group in use loses its last owner only to a POST of that owner with another
\* role, or when the one who leaves is the very administrator that would be
\* promoted: every other departure has found the group a new owner before.
OwnerLossExplained ==
  [][\A g \in Groups : LosesOwners(g) =>
       \E s \in Slots : req[s].op = "addUser" \/ req[s].user = Fallback]_vars

\* No departure that goes through ensureGroupHasOwner leaves a group ownerless.
EnsuredGroupKeepsOwner ==
  [][\A g \in Groups : LosesOwners(g) => \E s \in Slots : req[s].op = "addUser"]_vars

\* The user of the login is in exactly the named groups that exist.
SyncedTo(s) ==
  {g \in Groups : InGroup(g, req[s].user)} = {g \in req[s].names : group[g] = "live"}

SyncEnds(s) == req[s].at = "dangling" /\ AllDone(s) /\ req'[s].at = "idle"

\* When a login has synchronised the groups of its user, the user is in exactly the
\* named groups that exist, unless it is the administrator to whom ownerless groups
\* fall: the last owner checks of a synchronisation may add it back.
SyncMatchesNamesUnlessFallback ==
  [][\A s \in Slots : SyncEnds(s) => SyncedTo(s) \/ req[s].user = Fallback]_vars

\* The memberships of a group change only at the request of an administrator or
\* of an owner of the group, of the creator of a group nobody is in yet, or
\* of the user who logs in or leaves.
ManagedMembership ==
  [][\A g \in Groups :
       {x \in rows : x.group = g} # {x \in rows' : x.group = g} =>
         \E s \in Slots :
           LET q == req[s] IN
           \/ account[q.by] = "admin"
           \/ \E x \in RowsOf(g, q.by) : x.role = "owner"
           \/ q.op = "createGroup" /\ \A x \in rows : x.group # g
           \/ q.op \in {"sync", "deleteUser"} /\ q.user = q.by]_vars

\* Every request is answered, and all it started ends.
RequestsAnswered == \A s \in Slots : req[s].at # "idle" ~> req[s].at = "idle"
=============================================================================
