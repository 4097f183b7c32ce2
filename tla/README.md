# Heimdall: a verification development

Heimdall collects the results of security scans, converts them to one format
(HDF), stores them in a database and shows, filters and compares them.  This
directory holds TLA+ models of the parts of it that change state or compute
something that is easy to get wrong, the TLC runs that check them and the
proofs, checked by TLAPS, of what holds at any size.

## 1. Inventory

### Backend (`apps/backend`, NestJS, Sequelize, PostgreSQL)

| component | state | operations | what makes it correct |
|---|---|---|---|
| accounts (`users/`) | table Users: role, password, JWT secret, login metadata | register, update, delete, sign out | there always is an administrator; a deleted account is nowhere a member |
| groups (`groups/`, `group-users/`) | tables Groups and GroupUsers (no unique key on the pair) | create, rename, remove, add and remove members, change a member's role, owner fallback, synchronisation with an identity provider | no membership of nobody, one row per membership, a used group keeps an owner, only those who may change a membership |
| authorization (`casl/`, `authz/`) | none; rules built from the user read with the token | `createForUser`, `createForAnonymous` | the last matching rule decides; the closed forms used by the models agree with the rule list |
| authentication (`authn/`) | the JWT secret of each user, the tokens handed out | local and external login, sign-out, the two reads of the JWT guard | a revoked token stays revoked; a login is usable; one session where asked for |
| API keys (`apikeys/`) | table ApiKeys: owner, hash | create, rename, remove, validate | a key that was handed out comes to work, works until removed and never after |
| evaluations (`evaluations/`, `evaluation-tags/`, `group-evaluations/`) | tables Evaluations, EvaluationTags, GroupEvaluations | upload by a user or by a group key, update, delete with tags, share, pages and search | nothing shared by who may not; no tag of nothing; a page holds the evaluations that belong on it |
| configuration, statistics, pipes, filters | environment only | reads | pure |

Requests interact through the database only.  A handler is an `async`
function: between two of its statements any statement of another request may
run, no handler uses a transaction except the deletion of an evaluation, and
some writes are not awaited.  That is where the hard behaviours are: counts and
checks that are stale when used, look-up-then-insert on a table without a
unique key, work that goes on after `Promise.all` has rejected.

### Frontend (`apps/frontend`, Vue and Vuex)

| component | state | operations | what makes it correct |
|---|---|---|---|
| file store (`report_intake.ts`, `data_store.ts`, `evaluations.ts`, `LoadFileList.vue`, `SidebarFileList.vue`, `Sidebar.vue`) | open files, two lists of evaluations, an active item | open, load, save, edit, close, delete | an evaluation is open once, a file keeps its entry, what is deleted is closed |
| selection, filters and counts (`data_filters.ts`, `status_counts.ts`, `severity_counts.ts`, `search.ts`) | the selected files; caches of lists and of counts | select, filter, count | only open files are selected; no cached answer is stale |
| groups and session (`groups.ts`, `server.ts`, `GroupModal.vue`, `GroupManagement.vue`) | `allGroups`, `myGroups` | fetch, save, synchronise, delete | the lists are what the server has |
| views | layout | charts, comparison | - |

One thread runs clicks and answers to requests one after the other; requests
overlap, and their answers come in any order, late, or never.

### Libraries

| component | state | operations | what makes it correct |
|---|---|---|---|
| `inspecjs` | a file, read once | link profiles and controls, derive status and severity | the results of a control are counted once |
| `hdf-converters`: Splunk | a search job, two timers | log in, query, track | the results are those of a finished job; the tracker stops |
| `hdf-converters`: attestations | the file, changed in place | add results to skipped controls | the outcome does not depend on the order |
| `hdf-converters`: mappers | none | translate the output of some thirty tools field by field | data |
| `password-complexity` | none | test a string | data |

## 2. The modules

| module | models | proofs | checked in |
|---|---|---|---|
| `Accounts` | accounts, groups and memberships at the grain of database statements | `AccountsProofs` | `accounts_*` |
| `Sessions` | login, sign-out and the guard | `SessionsProofs`, `CredentialsProofs` | `sessions_one_per_user`, `credentials` |
| `ApiKeys` | keys, the hash that is saved later, and who may change a key | `CredentialsProofs` | `credentials` |
| `Evaluations` | uploads, tags, sharing and deletion | `EvaluationsProofs` | `evaluations_*` |
| `AbilityRules` | the CASL rule list, against the closed forms the others use | `AbilityRulesProofs` | `accounts_serial`, `evaluations_serial` |
| `Listing` | a page of the list of evaluations | `DocumentsProofs` | `documents` |
| `Files` | what a browser has open and what it asks for | `FrontendProofs` | `frontend` |
| `Panel` | the promise of the sidebar, implemented by `Files` twice | `FrontendProofs` | `frontend` |
| `GroupLists` | the lists of groups in a browser | `FrontendProofs` | `frontend`, `groups_delete` |
| `Filters` | filtered lists, counts and their caches | `DocumentsProofs` | `documents` |
| `Overlays` | the links between the controls of a file | `DocumentsProofs` | `documents` |
| `Attestations` | attestations, and the status of a control | `AttestationsProofs` | `documents` |
| `Splunk` | a query to Splunk | `DocumentsProofs` | `documents`, `splunk_bad_state` |

`MCAccounts`, `MCSessions`, `MCEvaluations`, `MCCredentials`, `MCFrontend` and
`MCDocuments` give the constants their values.  The last three hold several
components that share no variable: `focus` says which of them a behaviour is
about, and the others stand still.  Nothing is lost by it, since no property
relates two of them and no action of one reads the other.  The `MC` modules leave
their constants to the `.cfg` files, so a module of proofs extends one and proves the
properties that its runs check, for all values of the constants.  `BrowserStores` and
`DocumentsParts` say that a behaviour with a focus is one of each component, so that
a theorem about a component holds of it.

The state machines of the backend are composed through what each takes as fixed:
`Sessions` and `ApiKeys` own the users that `Accounts` registers and deletes
(each has a removal of its own), and `Evaluations` takes the memberships of
`Accounts` as constants.  `AbilityRules` is instantiated beside `Accounts` and
`Evaluations`.  `Files` and `GroupLists` have a backend of their own, at the grain
of a request: a request takes effect at one moment (`Serve...`) and its answer
lands in the store at a later one (`Land...`) or is lost (`LandFailure`).

What a continuation would take up: abstract specifications of the backend (a
directory of groups in which a membership is a function from users to roles, and
a user who is signed in or not) with their refinements; the comparison of two runs
(`delta_util.ts`).

## 3. `Accounts`

### State and actions

`account` is `Users.role` (with "new" before registration and "gone" after
deletion), `group` tells whether each group exists, `rows` is the table
GroupUsers.  A group stands for its name, which is unique.  Rows whose foreign
key was set to NULL take part in no join, so they leave `rows`.

`req[s]` is a request in flight: the stage its handler is at, the caller and
the caller's role as read by the JWT guard (`byRole`), the parameters, and what
the handler has read and still uses (`seen`, `row`, `joined`, `leave`).  Each
action performs one awaited database statement and the synchronous code up to
the next `await`.  `ensureGroupHasOwner` and `$add` run several at a time inside
`Promise.all`; each such call is a task `task[<<s, g>>]` that advances one
statement at a time (`ReadOwners` ... `PromoteAdmin`, `LookUpRow`, `InsertRow`,
`UpdateRows`).  A `Promise.all` goes on when all tasks are done, or rejects when
one has failed; what it leaves running still runs (`Drain`).

| code | actions |
|---|---|
| `GroupsController.create` | `InsertGroup`, a task, `FinishAdd` |
| `addUserToGroup` | `LoadGroup`, `FindTarget`, a task, `FinishAdd` |
| `removeUserFromGroup` | `LoadGroup`, `FindTarget`, a task, `RemoveMember` |
| `updateGroupUserRole` | `LoadGroup`, `FindMembership`, a task, `SetMemberRole` |
| `remove` of a group | `LoadGroup`, `DestroyGroup` |
| `UsersController.update` (role) | `LoadUser`, `UpdateUser` |
| `UsersController.remove` | `LoadUser`, `CountAdmins`, `ListGroups`, tasks, `DestroyUser`, `Drain` |
| `syncUserGroups` | `ReadCurrentGroups`, `LeaveNext`, `LeaveGroup`, `JoinGroups`, tasks, `CheckDangling`, tasks, `FinishSync` |

Abstractions: passwords are right or wrong by choice; an eager load of a user
that is in a group twice shows one of the two rows; `JoinGroups` finds all named
groups in one step (the loop of `findByName`); the foreign keys refuse an insert
whose user or group is gone; two requests never create a group of one name.

### Runs

| run | instance | shows |
|---|---|---|
| `accounts_serial` | one request at a time, all operations, 3 users, 1 group, `ADMIN_EMAIL` names a user who is no administrator at first | `TypeOK`, `OneRowPerMember`, `AdminRemains`, `OwnerLossExplained`, `SyncMatchesNamesUnlessFallback`, `ManagedMembership`, `RulesAgree` (section 7) |
| `accounts_no_admin` | one request at a time, 2 users, 2 groups, nobody is an administrator | `EnsuredGroupKeepsOwner` |
| `accounts_concurrent` | two requests in flight: synchronising logins, creations of groups and deletions of accounts, nobody is an administrator | `NoDanglingRows`, `RequestsAnswered` |
| `accounts_two_deletions` | two deletions at the same time | violates `AdminRemains` |

The exact sets are in the `.cfg` files.  Two users make a caller and a target, a
third is an administrator beside both, which the choice between `ADMIN_EMAIL` and
the oldest administrator needs.  Two groups make the owner checks of one deletion
run in parallel and fail one by one.  Two requests suffice for a window between
a check and an act, which has one reader and one writer.  `RowIds` exceeds the
rows that exist together with the ones a request still remembers, so no insert is
lost to the bound (`accounts_two_deletions` inserts none).  Where the last account
may be deleted the system stops, and those runs do not check for deadlock;
`accounts_serial` does.

`EnsuredGroupKeepsOwner` says that a departure that went through
`ensureGroupHasOwner` leaves an owner.  It holds where nobody is an administrator:
without one to fall back to, `ensureGroupHasOwner` throws and the departure fails.
With one it does not hold: `ensureGroupHasOwner` may choose the administrator who is
leaving, who is promoted and then removed.  `OwnerLossExplained` is the form that holds with
administrators and one request at a time: a group loses its last owner only in this
way, or when that owner is added again with another role.  Two requests break
it: two owners who leave at the same time each find the other.

What `accounts_serial` shows is about requests that follow each other.  The windows
between the statements of two requests (a count, a look-up, the owners or the rights
that were read before the write) are open in the code, so `OneRowPerMember`,
`AdminRemains`, `OwnerLossExplained` and `ManagedMembership` are not claimed for
them; `accounts_two_deletions` shows one of them.

Fairness: weak fairness of each request's next step and of each task's, which is
what the event loop and the connection pool give.  Clients owe nothing, so no
fairness on `Register` and `Receive`.

### Proofs (`AccountsProofs`)

For any users, groups, row ids and operations, from the named assumptions of
`Accounts` only, and for any number of concurrent requests:

* `TypeCorrect`: `Spec => []TypeOK`.
* `ReferencesHold`: `Spec => []NoDanglingRows`.  The invariant is inductive with
  `TypeOK`: rows are only inserted by `InsertRow`, whose foreign keys look at the
  tables at that moment, and every deletion removes the rows of what it deletes.
* `IdsKept`: `Spec => []IdsName`.  No two rows share an id, and the id of a row that a
  handler has read names, while there is such a row, the same user and group.  It is what
  lets a later statement be judged by an earlier read.

The rest needs the hypothesis `OneAtATime`, one slot, since two requests refute it:

* `SerialOneRow` (`OneRowPerMember`).  The strengthening says that a task that is
  about to insert works for a pair without rows, which only holds because nobody
  else writes between its look-up and its insert.
* `SerialAdminRemains` (`AdminRemains`), with an initial administrator.  The
  strengthening ties what a deletion has counted (`seen` and the stage) to the
  accounts as they are.
* `SerialRulesHold` (`RulesAgree`): the closed forms answer what the rule list
  answers.  It rests on `OneRowPerMember`: with two rows of a member the rules and
  the code may read different ones.
* `SerialManaged` (`ManagedMembership`): a membership changes only at the request of
  somebody who may change it.  `CallerInv` says what a caller was when checked and
  still is, `RightInv` that the right it was granted still holds, and `StageInv` which
  tasks a stage may have running and for which group.
* `SerialOwnerLoss` (`OwnerLossExplained`).  `SerialInv` (with `TaskInv`
  and `JoinedInv`) says at every stage what is true of the owners of the groups that
  the request is about: an owner check that has passed has found, or made, an owner
  who is not the one to go, unless that is the administrator to whom ownerless
  groups fall.
* `EnsuredKeepsOwner` (`EnsuredGroupKeepsOwner`), where nobody is an administrator to
  begin with: the same invariant, and that nobody ever becomes one.
* `SerialSync` (`SyncMatchesNamesUnlessFallback`).  `SyncInv` follows a login through
  its three loops: which groups are left, which joined and which are still to come.

Liveness (`RequestsAnswered`) is checked by TLC only.

## 4. `Sessions`

### State and actions

A token is signed with `JWT_SECRET` and the `jwtSecret` of its user; the guard
verifies it with the secret it finds in the database, so a sign-out writes another
secret.  `row` is the table Users (email, secret, login count; an id is never
given out twice: `spent`), `tokens` the tokens handed out, `req` the requests in
flight.  `pending` holds the UPDATE statements that a login starts and does not
wait for; they land in any order, each writing the column its instance changed.  A
save also tells the secret its instance was found with.
`serial` numbers the requests, and the fresh `v4()` of a request is its number.

| code | actions |
|---|---|
| `AuthnController.login`, `validateUser` | `AskLogin`, `FindUser` |
| the callbacks of identity providers, `validateOrCreateUser` | `AskLogin`, `FindUser`, `CreateUser`, `FindCreated` |
| `updateLoginMetadata` and `AuthnService.login` | `Login`, then `Land` for each save |
| `secretOrKeyProvider`, `JwtStrategy.validate` | `VerifyToken`, `LoadCaller` |
| `UsersController.logOut`, `updateUserSecret` | `AskSignOut`, `SignOut` |
| `UsersService.remove` | `RemoveUser` |

Abstractions: the password is right or wrong by choice; names, creation method
and the expiry of tokens are left out (a token that expires is a client that
stops presenting it).  A token remembers whether its user has signed out since it was
handed out, before or after its secret was saved (`TokensOut`), and a save the secret
that was found; only the properties look at either.

### Runs

| run | instance | shows |
|---|---|---|
| `sessions_one_per_user` | `ONE_SESSION_PER_USER`, accounts appear with their first login, two requests in flight | `TypeOK`, `OneAccountPerMail`, `OneSession`, `SignedOutStaysOut`, `RevokedStaysRevoked`, `LoginTakesEffect` |
| `credentials` (section 5) | a user who may have several sessions and has not logged in yet, two requests in flight | `SessionEndsBySignOut` |

A login that needs a secret (a first login, and every login where users have one
session) starts to save it without waiting.  So a sign-out may come first: the save
lands after it, replaces the secret of the sign-out, and the token of that login is
accepted again.  Both runs reach this.  `SignedOutStaysOut` says that nothing else
brings a token back.  Every token whose secret was saved when its user signed out is
refused from then on, whatever saves are still on their way; and a late save brings
back one token only, that of the login that made the secret.  What keeps it so is
that `save()` writes changed columns only: the mutant writes the whole instance, and
the late count of a login then puts an old secret back.

`SessionEndsBySignOut` is the other direction, for overlapping first logins: each of
them makes a secret, the last one to land counts, and it may end a session that works,
even one that began after a sign-out.  A login that finds a secret ends nobody's.

One email suffices: users do not share rows.  `MaxSerial` bounds the requests of
a behaviour, counting from 1: 4 admits two logins that overlap and a sign-out or
a third login between their saves.  Since it is a bound the runs end and do not check for
deadlock.

Fairness (`LoginTakesEffect` only): a statement that was sent is executed
(`Land`), and a handler goes on after each of its statements (`Step`).  Nobody
has to log in, sign out or delete anything.

### Proofs (`SessionsProofs`)

For any ids, emails, slots, established users and both settings:

* `TypeCorrect`: `Spec => []TypeOK`, from `Typed`, which adds that a request that
  has found its user knows the id.
* `OneAccount`: `Spec => []OneAccountPerMail`, for any number of overlapping first
  logins.
* `OneSessionAlways`: `Spec => []OneSession`.
* `RevokedStays`: `Spec => RevokedStaysRevoked`, a temporal property proved from
  a step that only an invariant makes true.

The invariant of `OneSessionAlways` and `RevokedStays` is `Fresh`: every secret is the serial of the request
that made it (`FreshTokens`, `FreshSaves`), requests in flight have different serials
(`FreshRequests`), and the secret in a row is in no save still on its way and in no
request that may still write it (`WrittenSecrets`).  Hence a secret is written
once, and once it is replaced nothing can write it again; and two tokens of a user
that are both accepted carry one secret, so they are one token.

* `SignedOut`: `Spec => []SignedOutStaysOut`.  The invariant is `Tokens`, on top of
  `Fresh`: a token is signed with the secret its own login made or with one that was
  in a row already (`SignedTokens`), so at a sign-out its secret is either in a save
  of that very login, or written and replaced for good (`OutTokens`).
* `EndsBySignOut`: `Spec => SessionEndsBySignOut`.  A secret is saved only for a user
  who was found without one, or where the setting asks for it (`NeededSaves`), and a
  new row takes the place of no other (`RowsGiven`).

Neither leaves out any login: first logins, late saves, external accounts and both
settings are covered.

`LoginTakesEffect` is checked by TLC only.

## 5. `ApiKeys`

### State and actions

`row` is the table ApiKeys: whose a key is, whether its hash is there, whether it was
renamed.  `hashing` holds the keys whose hash is on its way: `create` inserts the
row, signs the key with the id it got, starts a second save with the hash, and
answers the key without waiting.  `handed` are the keys somebody holds, `spent` the
ids given out, `alive` the users and groups that exist.

| code | actions |
|---|---|
| `ApiKeyController.createAPIKey`, `ApiKeyService.create` | `AskCreate`, `FindTarget`, `InsertKey`, `HandOut`, then `LandHash` |
| `updateAPIKey`, `deleteAPIKey` and the service | `AskChange`, `FindKey`, `FindGroup`, `FindAgain`, `Rename` or `Remove` |
| `APIKeyStrategy`, `validateApiKey` | `AskOpen`, `FindOpened`, `Compare`, `Act` |
| the migration's `ON DELETE SET NULL` | `RemoveSubject` |

Whoever may update the owner of a key may change the key.  When the owner is gone,
the user of the key is `null`, about which CASL answers as about the type: only
administrators may.  The group of a key without one is looked up by `null` and not
found, so such a key can be changed by nobody (`FindGroup`).  It opens nothing:
`validateApiKey` answers the owner it found, none.

A password that is asked for is right or wrong by choice, the signature of a key is
right, and expiry is left out.  A restart before the hash lands is not modelled: the
row stays without a hash, as after a save that fails.

### Run `credentials`

Two users, one of them an administrator, the other the owner of a group, one key,
two requests.  One key suffices, since no statement is about two.  Two requests make a
change that found the key before another change or before its hash landed.

* `HashStays`: a key that works is not made useless by a change that read the row
  before the hash was there.  This is due to `save()` writing changed columns only;
  the mutant saves all of them.
* `RemovedStaysRemoved`: neither the late hash nor a change in flight brings a key
  back.
* `HashLands`: who was handed a key can use it in the end.  Fairness: `LandHash`, a
  statement that was sent is executed.

### Proofs (`CredentialsProofs`)

For any users, groups, administrators, keys and requests: `TypeCorrect`,
`HashKept` (`Spec => HashStays`) and `RemovedStays` (`Spec =>
RemovedStaysRemoved`).  The invariant is `TypeOK`, that a request that changes or
opens something knows its key (`Known`), and that a row was given out
(`RowsGiven`), without which an insert might reuse the id of a removed key.

`EndsBySignOut` is the theorem of section 4 about the instance of `Sessions` that
`credentials` checks.  Liveness (`HashLands`) is
checked by TLC only.

## 6. `Evaluations`

### State and actions

`eval` is the table Evaluations (owner and visibility), `tag` the evaluation of
each row of EvaluationTags (`NoEval` for a NULL left by the foreign key), `share`
the table GroupEvaluations up to rows of the same pair, `group` the groups that
exist.  `adding` holds the additions to groups that an upload starts and does not
wait for.  An addition whose evaluation or group is gone is a rejection nobody
handles, which ends the Node process: `down`, with every request and every
addition in flight lost, until `Restart` (the containers of `docker-compose.yml`
run with `restart: unless-stopped`).

| code | actions |
|---|---|
| `EvaluationsController.create`, by a user | `AskUpload`, `FindGroups`, `InsertEvaluation`, `InsertTags`, `Offer`, `Land` |
| `EvaluationsController.create`, by the key of a group | `AskKeyUpload`, `InsertEvaluation`, `InsertTags`, `Offer`, `Land` |
| `update`, `remove` of an evaluation | `AskChange`, `Load`, `Reload`, then `Write` or `Destroy` |
| `EvaluationTagsController.create`, `remove` | `AskChange`, `Load`, `InsertTag`; `AskRemoveTag`, `LoadTag`, `ReloadTag`, `DestroyTag` |
| `addEvaluationToGroup`, `removeEvaluationFromGroup` | `AskGroup`, `LoadGroup`, `Load`, `Add` or `Drop` |
| `remove` of a group | `AskGroup`, `LoadGroup`, `DestroyGroup` |

Abstractions: `$add` of a pair is one step, since what its look-up and its insert
leave differs only in rows of the same pair; an update sends the visibility if it
differs from what was read last, as `save()` does; the transaction of a deletion
is one step, since its statements share one connection.  The memberships are
constants: who joins and leaves is in `Accounts`.

### Runs

| run | instance | shows |
|---|---|---|
| `evaluations_serial` | one request at a time, all operations, additions of earlier uploads still on their way; 2 users, 2 groups, 2 tags | `TypeOK`, `TagsHaveEvaluation`, `ReadersAdmitReaders`, `RulesAgree` (section 7) |
| `evaluations_concurrent` | two requests in flight, 1 group, 1 tag | `NoDanglingShares`, `UploadReachesGroups` |

One evaluation suffices: a handler works on one, and the tables relate rows of
one evaluation with groups and tags.  Two groups with an owner and different
members tell apart who may do what; the second tag is one that a deletion has
not seen.

`TagsHaveEvaluation` is about requests that follow each other: a tag that is added while
a deletion is between its read and its transaction keeps a NULL.

Fairness (`UploadReachesGroups` only): statements that were sent are executed and
handlers go on.  `Restart` has no fairness, and the property does not need one.

### Proofs (`EvaluationsProofs`)

For any users, groups, evaluations, tags, memberships and requests:

* `TypeCorrect`: `Spec => []TypeOK`, in two halves, the tables (`TablesOK`) and the
  requests (`GoodRequests`: what a stage uses has been read).
* `SharesHold`: `Spec => []NoDanglingShares`, for any number of requests in flight
  and of additions nobody waits for.  It is inductive with `TypeOK`: an insert is
  refused unless both rows exist at that moment, and deletions take the shares
  along.
* `SerialTagsGo`: with one slot, `Spec => []TagsHaveEvaluation`.  The strengthening
  `SeenTags` says that a deletion that is about to be executed has seen all tags
  of its evaluation, which only holds while nobody else can add one.  With two
  requests, a tag that is added after the tags were read and before the transaction
  outlives its evaluation, with NULL in its place.

* `RulesHold`: `Spec => []RulesAgree`, for any number of requests (section 7).
* `SerialReaders`: with one slot, `Spec => ReadersAdmitReaders`.  `Allowed` says
  that a request past a check still has the right it was granted, since the only
  request that could take it away is itself.

Liveness (`UploadReachesGroups`) is checked by TLC only.

## 7. `AbilityRules`

`RulesOfUser` lists the rules of `createForUser` in the order in which they are
added; `Can` reads them as CASL does (the last rule that matches decides, nothing
matching means no; asked about a type instead of a row, a rule that allows ignores
its conditions and one that forbids must have none).  CASL itself is external.

`Accounts` and `Evaluations` do not carry the list: they use the closed forms
`CanEditUser`, `CanManageUser`, `CanManageGroup`, `MayManage`, `MayRead`,
`MayShareIn` and `MayRemove`.  `RulesAgree`, in `MCAccounts` and `MCEvaluations`,
compares each with the rules in all reachable states of `accounts_serial` and
`evaluations_serial`; `SerialRulesHold` and `RulesHold` prove it for every size.

### Proofs (`AbilityRulesProofs`)

For every asker and every row, whatever its members, owners and visibility:

* `GroupRights`: owners and administrators change a group; its members also add
  and remove evaluations.
* `EvaluationRights`: the owner, the owners of its groups and administrators
  change an evaluation; readers are these, the members of its groups, and
  everybody if it is public.
* `UserRights`: everybody edits the own account, with the password, administrators
  included; administrators do the rest to all accounts but their own.

The argument: `HitAt` says when each of the rules matches, `CanByHits` that the last
hit decides, and only the third rule forbids.

## 8. `Files`, `Panel` and `GroupLists`: a browser

### `Files`

`files` are the open files by id, each with its kind and its `database_id`;
`allEvaluations` and `pagedEvaluations` are the two lists of `evaluations.ts`, of
which some entries are one object (`same`), and `dialog` is the dialog that deletes,
with its `activeItem`.  `row` is the table of the server.  What an evaluation holds is
one of `Data`: an execution, a profile, something that is converted into `Parts`
files, or nothing that can be read; only an execution keeps its `database_id` on
the way in.

| code | actions |
|---|---|
| `loadFile`, `loadText`, `loadExecJson` | `Open`, and `Intake` in `LandLoad` |
| `toggle_*`, `select_exclusive_*`, `toggle_all_*` | `ToggleFile`, `SelectExclusive`, `ToggleAll` |
| `removeFile`, `removeEvaluation` | `Remove` |
| `load_results` | `LoadResults`, `LandLoad` |
| `EditEvaluationModal.update`, `TagRow` | `Edit`, `LandUpdate`, `LandRefresh` |
| `getAllEvaluations` | `FetchList`, `LandList` |
| `save_to_database` | `SaveFile`, `LandSave` |
| `deleteItem`, `deleteItemConfirm`, `deleteEvaluation` | `OpenDialog`, `CancelDialog`, `ConfirmDialog`, `LandDelete` |

`REMOVE_EVALUATION` is `splice(indexOf(evaluation), 1)`.  The dialog holds an entry of
`pagedEvaluations`; where it is not the object of `allEvaluations`, `indexOf` gives -1
and the last entry goes (`Spliced`).  Hence the exceptions in `FileLosesEvaluation`.

The store implements `Panel` twice, for evaluation files and for profile files:
`PanelsKept` is the refinement, with `shown`, `chosen` and `taken` as the files of
the kind, the selected ones and the ids given out.

Abstractions: names and file names; a load of several ids is several loads; the
lists of the administrator's view; errors shown to the user.

### `GroupLists`

An entry of `allGroups` and `myGroups` is an id and the revision of the fields its
answer carried.  A save is up to four requests in a row: create or update, get,
synchronise the members, and both lists at once (`Save`, `LandSaved`, `LandGet`,
`LandSync`, `LandAll`, `LandMy`).  `Elsewhere` is what other people do meanwhile.
`doubtful` records that something came in between, and `ListsRight` is stated for
what was not disturbed.

`DeleteGroup` hands over a copy of the entry, which `indexOf` never finds, so the last
group of each list goes (`WithoutLast`); `groups_delete` shows it.

### Runs

| run | instance | shows |
|---|---|---|
| `frontend` | 3 evaluations (an execution, a foreign file of two parts, one that is not uploaded yet), 2 requests in flight, up to 6 clicks and 4 files; 3 groups, 2 requests, 2 clicks, an administrator | `TypeOK`, `AllSelectedRight`, `OneFilePerEvaluation`, `FileLosesEvaluation`, `DeletedLeavesPanel`, `PanelsKept`, `GroupsTyped`, `ListsRight` |
| `groups_delete` | the groups only, 3 clicks | violates `DeletedGroupLeaves` |

Two requests are what a race of answers needs.  Four files let a foreign file and two
others be open together.  Six clicks suffice for fetching the list, opening the
dialog, confirming, opening it for another evaluation, and two more.  Clicks are
bounded, so the browser comes to rest and deadlock is not checked.  The types of
`GroupLists` include that no group is listed twice, which depends on the order of
answers.

### Proofs (`FrontendProofs`)

For any evaluations, contents, requests and bounds, with any number of requests in
flight:

* `TypeCorrect`: `Spec => []TypeOK`, with `AllTyped`: the lists, the requests and the
  room that is left for files (`Room`: every load in flight may still open as many
  files as its evaluation has).
* `BoxesRight`: `Spec => []AllSelectedRight`.
* `Implements`: `Spec => PanelsKept`, both refinements.  Both rest on `StoreInv`: the
  selection of each kind is a set of open files of that kind, and every id was
  given out.
* `OneFile`: `Spec => []OneFilePerEvaluation`.  `LoadInv` says that, unless it is in
  `overlapped`, an evaluation has a file, or one request that will open it, and not
  both.
* `EntriesLost` and `DeletionClosesFile`: `Spec => FileLosesEvaluation` and `Spec =>
  DeletedLeavesPanel`, action properties that hold of the steps that start where
  these invariants hold.
* `GroupsTypeCorrect`: `G!Spec => []GroupsTyped`.  `AllListed` says of both lists that
  they list no group twice, and what an answer carries.
* `ListsAsServed`: `G!Spec => []ListsRight`.  While nothing is doubtful, either nobody
  changes anything (`Fetching`: a list is right unless its answer is on its way, and
  that answer is right) or one save runs alone (`SaveAlone`) and ends by fetching
  both.
* `BrowserStores`: a behaviour of a browser is one of the files and one of the groups.

What a recursive function computes along a list (`Without`) is proved by a least
counterexample (`LeastNat`): there is no first prefix at which it is wrong.

## 9. `Listing`, `Filters`, `Overlays`, `Attestations` and `Splunk`

### `Listing`

`getAllEvaluations` reads evaluations joined with tags, groups and users, so LIMIT and
OFFSET count joined rows; it multiplies the limit by the number of all group members
and cuts the page out of what it got: a page that seems to be the last from the
back, any other from the front.  The evaluations are counted by another statement,
before which the table may change (`Change`).  `table` is the list the query selects,
with the joined rows of each evaluation; `ReadWindow` and `Count` are the two
statements.

`PageRight` is the promise as far as it goes: the first page, the last page, and every
page of a table without joins are right if the padded limit reaches far enough, and
no page is longer than asked for.  The pages in between are not: the offset counts
rows, so where evaluations have several rows such a page begins too early, repeats
evaluations of earlier pages, and some evaluations are on no page.

### `Filters`

`controls` and `hash` keep what they computed in LRU caches under a text made of the
filter, and the caches are never emptied.  Nothing in them is stale (`AnswersFresh`)
because ids are not reused, files do not change, and the key names the selected
files.  The mutant makes the key from the trimmed search term, as `filter_cache_key`
seems to intend: its spread of the filter comes last and overrides what it has just
cleaned up.  For the same reason `count_statuses`, which means to remove the status of
a filter, counts with it.  "Waived" besides other statuses means both.

### `Overlays`

`contextualizeEvaluation` visits the profiles (`LinkProfile`) and then the controls
(`LinkControl`) in the order of the file.  Views show a control that no other extends,
with the results of its root.  `CountedOnce`: the results of every root are shown, and
in an orderly file only once.  They are shown twice where a profile that is tied to
none stands beside tied ones or there are more than two such profiles, and where
an id is twice in a profile; `Orderly` names these.  `Acyclic` is assumed of the files,
or `root` would run in circles; it looks only at the first profile of a name, as the
search for a parent does.

### `Attestations`

`addAttestationToHDF` adds a result to every control of the id whose first result was
skipped; `Status` is `compute_status` of inspecjs.  `OrderDoesNotMatter`: the status
depends on the set of attestations only.  Not so simple, since each attestation
adds to the results that tell whether the next one applies; that new results go to
the end makes it right, and the mutant puts them first.  An attestation
that has expired adds a skipped result.  An unknown frequency or a control without
results throws, and what was added before stays.

### `Splunk`

`queryData` logs in, creates a job, awaits `trackJob` and reads the results.
`trackJob` returns at once; its interval sends status requests (`Ping`, `ServePing`,
`LandPing`) that overlap each other and the timeout (`QueryTimeout`), and what the
callbacks throw is recorded in `thrown` and reaches nobody.  The results are those of
a finished job all the same (`ResultsOfEndedJob`), because the job is created in
blocking mode, as `blocking` tells; the instances without it show what the
tracker is worth alone.  `PingsEnd`: the interval stops, whatever Splunk answers.

### Runs

| run | instance | shows |
|---|---|---|
| `documents` | up to 2 status requests; lists of up to 5 evaluations with up to 3 rows, pages of 1 to 3, one change in between; files of up to 2 controls, up to 2 attestations; files of up to 3 profiles of up to 2 controls; 2 files under caches of one entry | `ResultsOfEndedJob`, `PingsEnd`, `PageRight`, `OrderDoesNotMatter`, `CountedOnce`, `AnswersFresh` |
| `splunk_bad_state` | one status request | violates `BadStateFailsQuery` |

The last page, a middle page and a first page of different tables need five
evaluations and pages of up to three.  Two attestations give an order.  Three profiles
give a chain, two overlays of one profile, and two profiles of one name; a profile is
never its own ancestor, for which `root` would not end.  A cache of one entry evicts
at every miss, the size matters no further.  A query, a page and a file come to an
end, so deadlock is not checked.

### Proofs (`AttestationsProofs`, `DocumentsProofs`)

* `AnyOrder`: `Spec => []OrderDoesNotMatter` for every list of attestations and every
  file that is one (`ReportsAssumption`).  The
  invariant says that the first result of a control is still the one it was read with
  (`SameHead`) and that its results are its own and those of its attestations
  (`Gathered`).  The second needs the first: whether the next attestation applies is
  told by the first result, so it is told from the file and not from the attestations
  before.
* `EndedJob`: `S!Spec => []ResultsOfEndedJob` for any number of status requests.  The
  strengthening `AskedWhenEnded` says that the results of a blocking job are asked for
  after it has ended; whatever the tracker does plays no part in it.
  `QueryTypeCorrect` is the type invariant of `Splunk`.
* `CachesFresh`: `F!Spec => []AnswersFresh` for any files, filters and sizes of the
  caches, if every text contains the empty one (`EmptyIsFound`).  `CacheInv` says more
  than that an entry is right now: that it is what its key says of all the files the
  key names, loaded or not (`Answer`).  What is loaded drops out of it, so a file that
  comes or goes disturbs nothing.
* `PageAsAsked`: `L!Spec => []PageRight` for any list whose evaluations have at least one
  joined row, any limits and any padding (`ListingRight`).  The joined rows of the first
  n evaluations grow with n (`RowsOrdered`), so the evaluations with a row in the
  window are consecutive (`WindowBounds`) and what is read is a slice of the list
  (`WindowIs`).  A page that ends the list is cut from the back, so it is right wherever
  the slice begins; any other is cut from the front, so the slice must begin where
  the page does, which the first page and a list without joins guarantee (`CutSlice`).
* `LinkedOnce`: `O!Spec => []CountedOnce` for any files whose profiles are not their own
  ancestors (`FilesRight`; `root` would not end).  `ProfilesInv` and `ControlsInv` say
  what is tied to what while the links are made: a control that has been visited
  extends `From` it, and what extends a control are the visited ones that it is `From`.
  At the end the links descend (`LinksAreChains`): from an overlay to a profile
  of lower rank, or to an original, which in profiles tied to none extends
  nothing and in tied ones has a rank of its own.  So `root` ends (`ChainsEnd`), and the
  control of the highest rank with a given root is shown (`SomeLast`).  If every
  profile is tied, no two controls extend the same one, and two shown controls of one
  root would be at the same distance from it or one beyond the other (`OneLast`); if
  none is, two profiles have room for a root and one more control.
* `DocumentsParts`: a behaviour of `MCDocuments` is one of the query, of the list, of the
  attestations, of the links and of the caches.

Liveness, `PingsEnd`, is checked by TLC only.

Fairness (`PingsEnd`): the timers fire and status requests are answered or fail.
Whether a job ends is up to Splunk and has none.

## 10. Findings

| run | source | what the code does |
|---|---|---|
| `accounts_two_deletions` | `users.service.ts:133` | two deletions at the same time remove the last two administrators |
| `groups_delete` | `groups.ts:70` | the deletion of a group removes the last one of each list |
| `splunk_bad_state` | `splunk-mapper.ts:265` | a query whose job failed is answered all the same |

`PROJECT.json` quotes the comment or the test that each contradicts.

## 11. What is proved and what is not

All invariants and action properties of the runs are theorems, with the hypotheses
the sections name.  `OneAtATime` and `InitialAdmins = {}`
are not for the prover's convenience: without them the property is false, as the
sections say, and each is what the run that checks the property is set to.

Liveness under fairness (`RequestsAnswered`, `LoginTakesEffect`,
`UploadReachesGroups`, `HashLands`, `PingsEnd`) is checked by TLC only: the prover
reasons neither about fairness nor about what is enabled.  The violated properties are
false in general; where one request at a time makes them true, that is proved.

## 12. Not modelled

* What changes no state and has no order of steps: the statistics and the
  configuration, the pipes, filters and interceptors, the password rules, the
  adapters of the identity providers, the anonymous abilities (one rule that forbids
  everything).
* Data that no property tells apart: names, passwords, wording of errors, logging,
  the expiry of tokens, the parsing of the search bar, NIST tags, layouts and
  charts.
* The mappers of `hdf-converters`: each describes where the fields of a tool's output
  go, and a model would repeat the table.  Most lines of the repository are tables
  of this kind (`CCI_List.ts`, `cci_util.ts`, the mappings to NIST controls), which
  hold data and no behaviour; that is why the share of lines the project maps is
  small.
* Of the modelled components: the check of a group's new name, the WHERE clauses of
  a search, and the listing of keys.
