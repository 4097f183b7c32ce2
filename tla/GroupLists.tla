----------------------------- MODULE GroupLists -----------------------------
(***************************************************************************)
(* The groups a browser shows (apps/frontend/src/store/groups.ts) and the  *)
(* views that change them (GroupModal.vue, GroupManagement.vue).           *)
(*                                                                         *)
(* allGroups holds what GET /groups returns, myGroups what GET /groups/my  *)
(* returns; an entry is an id and the revision of the group's fields that  *)
(* the answer carried.  Requests are answered by the backend at one moment *)
(* and land in the store at a later one, or fail before or after the       *)
(* backend has done what they ask.  A group the user is in is one the user *)
(* owns.                                                                   *)
(***************************************************************************)
EXTENDS Naturals, Sequences, FiniteSets, SequencesExt

CONSTANTS
  Groups,     \* ids of the Groups table
  NoGroup,    \* not the id of a group
  Calls,      \* the requests that may be in flight at once
  Admin,      \* whether the user is an administrator
  Existing,   \* the groups there are at first: where each stands
  MaxClicks   \* bound on clicks and on what other people change

Standing == {"absent", "mine", "public", "hidden", "gone"}

\* What the constants are, assumed where they get their values.
ConstantsRight ==
  /\ NoGroup \notin Groups /\ IsFiniteSet(Groups) /\ Existing \in [Groups -> Standing]
  /\ Admin \in BOOLEAN /\ MaxClicks \in Nat

VARIABLES
  group,      \* the Groups table: where a group stands for the user, and its revision
  allGroups,  \* the entries of allGroups, in order
  myGroups,   \* the entries of myGroups, in order
  calls,      \* the requests in flight
  doubtful,   \* whether something that can leave the lists wrong came in between
  clicks      \* the number of clicks so far

vars == <<group, allGroups, myGroups, calls, doubtful, clicks>>

-----------------------------------------------------------------------------
Entry == [id : Groups, rev : 0 .. MaxClicks]

\* findAll with the rule list of the user, and findForUser.
Readable == {g \in Groups : group[g].at \in {"mine", "public"} \cup IF Admin THEN {"hidden"} ELSE {}}
Mine     == {g \in Groups : group[g].at \in {"mine", "public"}}

\* Who may change a group: its owners and administrators.
Manages(g) == group[g].at = "mine" \/ (Admin /\ g \in Readable)

EntryOf(g) == [id |-> g, rev |-> group[g].rev]

Shown(list) == {list[i] : i \in DOMAIN list}
IdsIn(list) == {list[i].id : i \in DOMAIN list}

\* A request: what of, for which kind of save, and the entries of its answer.
Call == [kind : {"idle", "create", "update", "get", "sync", "delete", "all", "my"},
         stage : {"sent", "done"}, id : Groups \cup {NoGroup}, by : {"create", "update"},
         answer : Seq(Entry)]
Ask(k, g, b) == [kind |-> k, stage |-> "sent", id |-> g, by |-> b, answer |-> <<>>]
Idle == Ask("idle", NoGroup, "update")

Quiet == \A c \in Calls : calls[c] = Idle

Init ==
  /\ group = [g \in Groups |-> [at |-> Existing[g], rev |-> 0]]
  /\ allGroups = <<>> /\ myGroups = <<>>
  /\ calls = [c \in Calls |-> Idle]
  /\ doubtful = TRUE
  /\ clicks = 0

-----------------------------------------------------------------------------
(* Clicks. *)

\* Nothing was in flight: what begins now ends with lists that are right.
Begin(c, r) == calls[c] = Idle /\ calls' = [calls EXCEPT ![c] = r]
Alone == doubtful' = ~ Quiet

\* FetchGroupData sends both requests and waits for neither.
Fetched(c, d) == [calls EXCEPT ![c] = Ask("all", NoGroup, "update"),
                               ![d] = Ask("my", NoGroup, "update")]

\* GetUserInfo, which runs when a page is opened.
FetchGroupData ==
  /\ \E c, d \in Calls :
       c # d /\ calls[c] = Idle /\ calls[d] = Idle /\ calls' = Fetched(c, d)
  /\ Alone
  /\ UNCHANGED <<group, allGroups, myGroups>>

\* GroupModal.save of a new group, or of one the table offers for editing.
Save(c) ==
  /\ \/ Begin(c, Ask("create", NoGroup, "create"))
     \/ \E g \in IdsIn(myGroups) \cup IF Admin THEN IdsIn(allGroups) ELSE {} :
          Begin(c, Ask("update", g, "update"))
  /\ Alone
  /\ UNCHANGED <<group, allGroups, myGroups>>

\* deleteGroupConfirm.
DeleteGroup(c) ==
  /\ \E g \in IdsIn(myGroups) \cup IF Admin THEN IdsIn(allGroups) ELSE {} :
       Begin(c, Ask("delete", g, "update"))
  /\ doubtful' = TRUE
  /\ UNCHANGED <<group, allGroups, myGroups>>

\* Other people create, change and delete groups.
Elsewhere ==
  /\ \E g \in Groups, a \in Standing :
       /\ a = "absent" => group[g].at = "absent"
       /\ group[g].at = "gone" => a = "gone"
       /\ group[g].at = "absent" => a # "gone"
       /\ group' = [group EXCEPT ![g] = [at |-> a, rev |-> clicks + 1]]
  /\ doubtful' = TRUE
  /\ UNCHANGED <<allGroups, myGroups, calls>>

Click ==
  /\ clicks < MaxClicks /\ clicks' = clicks + 1
  /\ FetchGroupData \/ Elsewhere \/ \E c \in Calls : Save(c) \/ DeleteGroup(c)

-----------------------------------------------------------------------------
(* The backend. *)

Sent(c, k) == calls[c].kind = k /\ calls[c].stage = "sent"
Done(c, g, answer) ==
  calls' = [calls EXCEPT ![c].stage = "done", ![c].id = g, ![c].answer = answer]

ServeCreate(c) ==
  /\ Sent(c, "create")
  /\ \E g \in Groups : /\ group[g].at = "absent"
                       /\ group' = [group EXCEPT ![g] = [at |-> "mine", rev |-> clicks]]
                       /\ Done(c, g, <<>>)

\* The name and, of groups of others, whether they are public.
ServeUpdate(c) ==
  LET g == calls[c].id IN
  /\ Sent(c, "update") /\ Manages(g)
  /\ \E a \in IF group[g].at = "mine" THEN {"mine"} ELSE {"public", "hidden"} :
       group' = [group EXCEPT ![g] = [at |-> a, rev |-> clicks]]
  /\ Done(c, g, <<>>)

ServeGet(c) ==
  /\ Sent(c, "get") /\ calls[c].id \in Readable
  /\ Done(c, calls[c].id, <<EntryOf(calls[c].id)>>)
  /\ UNCHANGED group

\* syncUsersWithGroup: users are added, updated and then removed, perhaps the user.
ServeSync(c) ==
  LET g == calls[c].id IN
  /\ Sent(c, "sync") /\ Manages(g)
  /\ \E a \in IF calls[c].by = "create" THEN {group[g].at} ELSE {"mine", "public", "hidden"} :
       group' = [group EXCEPT ![g].at = a]
  /\ Done(c, g, <<>>)

ServeDelete(c) ==
  /\ Sent(c, "delete") /\ Manages(calls[c].id)
  /\ group' = [group EXCEPT ![calls[c].id].at = "gone"]
  /\ Done(c, calls[c].id, <<>>)

\* The rows come in any order.
ServeLists(c) ==
  /\ \/ Sent(c, "all") /\ \E q \in SetToSeqs({EntryOf(g) : g \in Readable}) : Done(c, NoGroup, q)
     \/ Sent(c, "my") /\ \E q \in SetToSeqs({EntryOf(g) : g \in Mine}) : Done(c, NoGroup, q)
  /\ UNCHANGED group

Serve(c) ==
  /\ \/ ServeCreate(c) \/ ServeUpdate(c) \/ ServeGet(c)
     \/ ServeSync(c) \/ ServeDelete(c) \/ ServeLists(c)
  /\ UNCHANGED <<allGroups, myGroups, doubtful, clicks>>

-----------------------------------------------------------------------------
(* The answers. *)

Answered(c, k) == calls[c].kind = k /\ calls[c].stage = "done"
Follow(c, r) == calls' = [calls EXCEPT ![c] = r]

\* save tells the user and does no more; nothing waits for the other requests.
LandFailure(c) ==
  /\ calls[c] # Idle
  /\ Follow(c, Idle)
  /\ doubtful' = TRUE
  /\ UNCHANGED <<group, allGroups, myGroups>>

LandSaved(c) ==
  /\ Answered(c, "create") \/ Answered(c, "update")
  /\ Follow(c, Ask("get", calls[c].id, calls[c].by))
  /\ UNCHANGED <<group, allGroups, myGroups, doubtful>>

\* A slip: an entry is added without looking for one.
UpdatedAlways(list, e) == Append(list, e)

\* UPDATE_MY_GROUPS or ADD_TO_MY_GROUPS, and the same of allGroups.
Updated(list, e) ==
  IF e.id \in IdsIn(list)
  THEN [i \in DOMAIN list |-> IF list[i].id = e.id THEN e ELSE list[i]]
  ELSE Append(list, e)

\* UpdateGroup.
LandGet(c) ==
  /\ Answered(c, "get")
  /\ allGroups' = Updated(allGroups, calls[c].answer[1])
  /\ myGroups' = Updated(myGroups, calls[c].answer[1])
  /\ Follow(c, Ask("sync", calls[c].id, calls[c].by))
  /\ UNCHANGED <<group, doubtful>>

\* A slip: the lists are not fetched again.
LandSyncOnly(c) ==
  /\ Answered(c, "sync")
  /\ Follow(c, Idle)
  /\ UNCHANGED <<group, allGroups, myGroups, doubtful>>

\* The end of save; a free request is a bound.
LandSync(c) ==
  /\ Answered(c, "sync")
  /\ \E d \in Calls : calls[d] = Idle /\ calls' = Fetched(c, d)
  /\ UNCHANGED <<group, allGroups, myGroups, doubtful>>

LandAll(c) ==
  /\ Answered(c, "all") /\ allGroups' = calls[c].answer
  /\ Follow(c, Idle)
  /\ UNCHANGED <<group, myGroups, doubtful>>

LandMy(c) ==
  /\ Answered(c, "my") /\ myGroups' = calls[c].answer
  /\ Follow(c, Idle)
  /\ UNCHANGED <<group, allGroups, doubtful>>

\* splice(-1, 1): the table hands over a copy of the entry, which indexOf never finds.
WithoutLast(list) == SubSeq(list, 1, Len(list) - 1)

\* DELETE_FROM_ALL_GROUPS and DELETE_FROM_MY_GROUPS.
LandDelete(c) ==
  /\ Answered(c, "delete")
  /\ allGroups' = WithoutLast(allGroups) /\ myGroups' = WithoutLast(myGroups)
  /\ Follow(c, Idle)
  /\ UNCHANGED <<group, doubtful>>

Land(c) ==
  /\ \/ LandFailure(c) \/ LandSaved(c) \/ LandGet(c) \/ LandSync(c)
     \/ LandAll(c) \/ LandMy(c) \/ LandDelete(c)
  /\ UNCHANGED clicks

-----------------------------------------------------------------------------
Next == Click \/ \E c \in Calls : Serve(c) \/ Land(c)

Spec == Init /\ [][Next]_vars

-----------------------------------------------------------------------------
(* Properties. *)

\* Every variable has its type, and a group has one entry in each list: UpdateGroup
\* looks for the group by id before it adds one, whatever else is in flight.
TypeOK ==
  /\ group \in [Groups -> [at : Standing, rev : 0 .. MaxClicks]]
  /\ \A list \in {allGroups, myGroups} :
       list \in Seq(Entry) /\ Cardinality(IdsIn(list)) = Len(list)
  /\ calls \in [Calls -> Call]
  /\ doubtful \in BOOLEAN /\ clicks \in 0 .. MaxClicks

\* What began with nothing in flight, a fetch or a whole save with its change of the
\* members, leaves both lists as the server has them ("This updates the store after
\* the change propagates through the database", GroupModal.vue:213), unless something
\* overlapped it or failed, a group was deleted, or somebody else changed groups.
ListsRight ==
  Quiet /\ ~ doubtful =>
    /\ Shown(allGroups) = {EntryOf(g) : g \in Readable}
    /\ Shown(myGroups) = {EntryOf(g) : g \in Mine}

\* When the deletion of a group is answered, the group is in neither list
\* (groups.ts DeleteGroup).
DeletedGroupLeaves ==
  [][\A c \in Calls : LandDelete(c) =>
       calls[c].id \notin IdsIn(allGroups') \cup IdsIn(myGroups')]_vars

=============================================================================
