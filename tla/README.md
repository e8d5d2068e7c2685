# A formal model of permissions-api

permissions-api decides whether a subject may perform an action on a resource. It keeps
roles, role bindings and the relationships of resources in two databases, CockroachDB (SQL)
and SpiceDB, that no transaction spans; it learns of relationships from messages; it makes
checks with bounded staleness; and it ships a client library that chooses among the hosts
that serve it. This directory holds TLA+ modules that model those parts, TLC configurations
that check them on small instances, and proofs, checked by TLAPS, that hold for instances
of any size. `PROJECT.json` says which lines of the source each definition stands for.

## 1. The system

| Component | State it keeps | Operations | Interacts with |
|---|---|---|---|
| RBAC V2 roles (`internal/query/roles_v2.go`) | a row of `roles`; tuples action, owner, member_role | create, update, delete, list | SQL transaction, SpiceDB |
| Role bindings (`internal/query/rolebindings.go`) | a row of `rolebindings`; tuples role, subject, grant; zedtokens | create, update, delete, list, get | roles, SQL transaction, SpiceDB, `rollbackUpdates` |
| RBAC V1 roles and assignments (`internal/query/relations.go`) | a row of `roles`; tuples of actions and of assignments | create, update, delete, assign, unassign | as above |
| Storage (`internal/storage`) | tables `roles`, `rolebindings`, `zedtokens`; a transaction carried by a request's context | begin, commit, roll back, lock a row, read and write rows | called by the engine |
| Relationship updates (`internal/pubsub`, `CreateRelationships`, `DeleteRelationships`) | messages in NATS JetStream | write, delete; reply, ack, nak | SpiceDB, zedtokens |
| ZedTokens (`internal/query/zedtokens.go`) | table `zedtokens`: the revision of the last write to each resource | store, read, expire | updates write them, checks read them |
| Permission checks (`SubjectHasPermission`, `internal/api/permissions.go`) | a pool of goroutines, two channels and a context per request | allow one, allow all, allow in bulk | zedtokens, SpiceDB |
| Host selection (`pkg/permissions/internal/selecthost`) | hosts discovered, their errors, the selected one | start, discover, check, select, report an error | DNS, the API's `/readyz`, HTTP requests of the client |
| Policy (`internal/iapl`, `internal/spicedbx`, `cmd/schema.go`) | the files of the policy directory; the schema SpiceDB has; the policy a running server has read | add a file, merge, expand, validate; write the schema; start a server | the engine's tables of types and relations, SpiceDB |
| Resources and relationships (`internal/query/service.go`, `relations.go`) | SpiceDB's relationships; the map of ID prefixes to types | type of an identifier, validate, create, delete, list from, list to | policy, SpiceDB |
| API handlers, client library, commands | none that is shared | parsing, authorization, formatting, wiring | the engine |

What is hard to get right, and hard to test:

* **Two stores.** A role or a binding is a row and some tuples. Each operation writes the
  row in a transaction, the tuples in one or two calls, and then commits. Every call may
  fail, or succeed with its answer lost, and the caller may go away in the middle.
* **Interleaving.** Requests run at the same time, in one replica or several. Rows are
  locked by `SELECT ... FOR UPDATE`, but listings, checks and the look at the role that
  `CreateRoleBinding` takes use no transaction at all.
* **Repair.** A failure after the SpiceDB write is answered by writing the inverse updates,
  when the lock that protected the binding is gone already.
* **Staleness.** Tokens are stored after the write they stand for, in an order of their
  own, by a transaction that may fail or deadlock without the request failing; messages
  are redelivered; checks read whatever token there is.
* **Goroutines and deadlines.** A check of many actions uses goroutines, a channel with
  exactly one slot for each action, and a `select` that picks at random.
* **One policy, three readings.** The documents are expanded into a schema for SpiceDB, into a
  table of types for the server and into the relations that role operations write. The three
  must fit, although the schema command and the server read the directory at different times,
  files are merged in an order nobody chose, and validation leaves much to the authors.
* **A list under one's feet.** Hosts are discovered, checked, selected and reported as bad
  by different goroutines; discovery replaces the list and selects nothing.

The full list, with the lines, is `hazards` in `PROJECT.json`.

## 2. The modules

| Module | Models | Used by |
|---|---|---|
| `RBACStore` | the SQL tables, transactions, row locks, SpiceDB's tuples, the requests and the steps all of them take | everything of RBAC |
| `RolesV2` | `CreateRoleV2`, `UpdateRoleV2`, `DeleteRoleV2` | `RBAC` |
| `RoleBindings` | `CreateRoleBinding`, `UpdateRoleBinding`, `DeleteRoleBinding`, `applyUpdates`, `rollbackUpdates` | `RBAC` |
| `RBAC` | the two together, with the properties and the refinement mapping | `MCRBAC`, `RBACReaders`, `RBAC_proofs` |
| `BindingLedger` | abstract: a binding is one record, created, changed and deleted as a whole, once | instantiated by `RBAC` |
| `RolesV1` | the V1 operations `CreateRole`, `UpdateRole`, `DeleteRole`, `AssignSubjectRole`, `UnassignSubjectRole` on the same stores | `RolesV1Readers` |
| `RolesV1Readers` | `ListRoles` and `GetRole` beside them | `MCRolesV1`, `RolesV1_proofs` |
| `RBACReaders` | `listRoleBindings` with `GetRoleBinding`, and `ListRolesV2`, beside the writers | `MCRBACReaders`, `RBACLedger_proofs` |
| `ZedTokens` | the subscriber, relationship writes, tokens, the consistency of checks | `MCZedTokens` |
| `CheckAll` | `checkAllActions` | TLC directly, `CheckAll_proofs` |
| `Selector` | the selector and the transport of the client library | `MCSelector`, `Selector_proofs` |
| `Policy` | policy documents: merge, expansion, `Validate`, `Schema` | `Authorization`, `Policy_proofs` |
| `SpiceDB` | external: which schemas and relationships SpiceDB takes, and who holds a permission | `Authorization`, `Policy_proofs` |
| `Authorization` | the policy directory, the schema command, the server's start, and requests under the policy that was read | `MCAuthorization`, `Policy_proofs` |
| `RBAC_proofs`, `RBACAgree_proofs`, `RBACLedger_proofs`, `RolesV1_proofs`, `CheckAll_proofs`, `ZedTokens_proofs`, `Selector_proofs`, `Policy_proofs` | theorems | TLAPS |

### RBACStore, RolesV2, RoleBindings, RBAC

One action is one call to one of the stores, with the branch the code takes on its result;
`pc[p]` names the next call of the request `p`. `roleRow` and `rbRow` are the committed
rows; `pend[p]` is the one row that p's open transaction has written, `lock` and `zlock`
the rows it holds, `tx` the open transactions. A COMMIT applies `pend` and releases the
locks, a ROLLBACK only releases them. `tuples` is SpiceDB, each write atomic. An early
return in the code that forgets the rollback (`FailOpen`) leaves the transaction open until
the server ends the request's context (`RequestEnd`), when `database/sql` rolls it back. A
client that goes away ends the context at any moment (`Cancel`): then every later call
fails, and the transaction is rolled back by another goroutine at any time (`AbortTx`).

The constant `Failures` says which calls may fail; `FailureKinds` lists the fourteen kinds,
among them a write or COMMIT that is applied and whose answer is lost. `issued` and `born`
remember the identifiers handed out (`gidx.NewID` never repeats one) and those whose row was
ever committed.

Abstracted: names (a request says whether it changes the name; a taken name is a failure of
the row), managers, timestamps and authors; the tuples that one action needs, one for each
subject type, are one tuple, as they are written together. `Above` replaces SpiceDB's
`avail_role` permission: the resources whose roles are available on a resource.

A call in flight when its context ends is applied before that or not at all; a call that was
applied and whose answer was lost is a failure kind of its own. One fact of the database is
assumed: a plain read waits for an uncommitted write of its row (`Readable`). A request upserts
its zedtokens in the order of its updates, those of the binding before that of the resource
(`UpsertZedToken`).

### BindingLedger and the refinement

What callers are promised: a binding comes into being with its role, resource and subjects,
changes its subjects as a whole, keeps role and resource, disappears as a whole and never
comes back. `RBAC!Ledger` maps the two stores to it: the binding shown is the committed row
with the tuples as they would be without the writes of requests not yet committed
(`Visible`). `LedgerImplemented` is checked by TLC under failures the code repairs, and proved
under the failures of `Benign` (`RBACLedger_proofs`).

### RolesV1

The V1 operations use the stores and the steps of `RBACStore` with tuples of their own: one for
each action on the owner (`OnOwner`), one for each assignment on the role (`Assignment`). The
name of a relation is a record, so that `actionToRelation` and `relationToAction` are what
they are in the code, and a filter that names the action matches no relation. The handlers
read the role's row without a lock before the operation (`GetRoleResource`). What V1 does with a
V2 role's identifier is not modelled: the two kinds of roles have models of their own.

`RolesV1Readers` adds the reads: rows first, then one read of SpiceDB. `plain` remembers the
roles created without any action, which alone may be shown without one.

### RBACReaders

A listing reads the grants, then each binding's row, then its tuples, without a transaction.
`calm` remembers the identifiers that have been settled since the listing began; the properties
say that the answer is exact for those, whatever happens to the others.

### ZedTokens

A token is the number of the SpiceDB revision it was issued at; SpiceDB is its latest
revision `rev` and the oldest revision `low` that it may use for an answer when no token asks
for better. Listeners receive a request, write, begin a transaction of their own, upsert a
token for the resource and each subject in any order (the code ranges over a map), commit,
and reply. Row locks are modelled, and transactions that wait for each other are aborted one
by one, as the database does. A permission check changes nothing, so it is an expression:
`CheckPermission(x)` is the set of revisions a check of x may be answered from.

### CheckAll

The handler, its goroutines, the closed `requestsCh`, the buffered `resultsCh` and the
context. What the engine says of a check is nondeterministic and remembered in `asked`.

### Selector

The list of hosts, those with an error, the selected host; the first discovery, the
goroutine that repeats it, the rounds of checks, and the callers of `RoundTrip`. `startOnce`
and `checkOnce` are modelled with the waiting they cause. A host that leaves the list and
comes back is another object: whoever held the old one holds nothing that matters (`Gone`,
`old`). The order of the list, by durations and priorities, is a nondeterministic choice
among the good hosts.

### Policy, SpiceDB, Authorization

`Policy` is the algorithm: documents as records, `MergeWithPolicyDocument`, `NewPolicy` (the
types with those of roles and role bindings added, the unions expanded, the bindings of each
action), `Validate` and `Schema`. It is made of functions and sets, without recursion, so that it
can be proved about. A name of an action is the sequence of its words, because
`relationToAction` cuts a name at the suffix it finds first. Lists are sets where the code
ignores order and repetition. Where an entry may be repeated with an effect, the document has the
list: of types and unions with one name the last counts; members of a union, targets of a relation,
owners and subjects of RBAC keep their repetitions through the expansion, so that a subject which a
relation has twice is known to the schema (`once`) and a union that names a member twice binds an
action twice. What is made of a list carries its place in the document (`at`); a condition that
repeats another carries how many there were before it (`nth`).

`Validate` does not check all that a usable schema needs. Two of the things it lets pass are stated
by the property itself: SpiceDB refuses a relation that has a subject twice, directly or through
unions, and a relation whose subjects are the holders of one with a wildcard; `AcceptedSchemaTaken`
says that the schema of an accepted policy is taken if and only if it has neither (`PlainTargets`).
Others are that a relation is declared once and
has a target, that no action has the name of a relation, that a `rolebinding_v2` condition is used
only on types with role bindings, that a grant can be inherited along a relation, and so on. `Careful`
lists these rules; properties that need them say so. `CarefulUse` adds what requests rely on: prefixes
that differ, a type `role` that is neither RBAC's role nor its role binding, grants that are to role
bindings and nothing else, subjects that are no unions. Both are satisfied by the repository's
default policy, after which the files of `MCAuthorization` are modelled, and the run reaches states in
which they hold and others in which only part of the files is there and they do not. Several of the
rules (a relation without targets, the type `role`, the target of grants) were found by attempts to
prove the properties without them.

Two more rules relate policies that are in use at different times, since SpiceDB keeps what was
written under earlier ones. `SteadyFiles`: adding files leaves a type its prefix and RBAC its settings.
`OwnEvents`: owners of resources announce relationships among their own resources, not those of roles and
role bindings. Nothing in the code enforces them; `MCAssumption` has TLC evaluate both for the files
of the run, and the theorems that need them have them as hypotheses.

`SpiceDB` is external. `Holds` computes who holds a permission, by as many steps as the
constant `Depth` allows; `SchemaTaken` and `Admits` say what is refused: among schemas, those with
names that clash, subjects that are not defined or listed twice, subject relations that everyone may
have, and arrows that lead nowhere or along a relation with a wildcard.

`Authorization` composes the three. `AddFile` puts a file into the directory; `WriteSchema` is the
schema command (nothing is written when the policy is not valid, or when SpiceDB refuses the
schema); `StartServer` reads the directory again. Requests then work with what the server has read,
against the schema SpiceDB has. Their calls are single steps here, since their interleavings and
failures are the subject of the other modules: `CreateRelationships`, `DeleteRelationships`,
`CreateRoleV2`, `CreateRoleBinding`, `CreateRole`, `AssignSubjectRole`, with the listings
`ListRelationshipsFrom` and `ListRelationshipsTo` as expressions. A role binding has one
subject. `Drafts` are documents that an author may try beside those of the directory; no step adds
them. The state keeps the policy of the directory next to the directory (`policy`), and the
policy of the schema next to the schema (`applied`), for the properties.

## 3. The runs

| Run | Instance | Shows |
|---|---|---|
| `rbac_concurrent` | 2 requests, 1 role, 2 bindings, 1 subject, 1 action; failing writes of rows and of SpiceDB | rows and tuples agree on whatever is settled (`BindingsAgree`, `RolesAgree`); the ledger is implemented; no deadlock among rows of the three tables: each request ends |
| `rbac_abandoned` | 2 requests, 1 role, 1 binding, 2 subjects, 1 action; every failure after which nobody writes again, contexts cancelled at any moment, lost answers of SpiceDB and half-way deletions of roles included | no update is lost (`UpdateTakesEffect`, `RoleUpdateTakesEffect`); no binding names a role that was never committed; a deleted role has left nothing in SpiceDB, whichever of its two deletions there, or its COMMIT, fails |
| `lists` | 1 writer, 1 listing, 2 resources, 1 role, 2 bindings; failures of COMMIT and of the last row write too | `rollbackUpdates` restores exactly what was there; listings are exact for what nobody touched |
| `roles_v1` | 2 requests, 1 read, 1 role, 2 actions, every failure | nobody is assigned a role that was never committed; no update outlives a deletion; no update is lost; a listing beside them is exact for roles nobody touched and never shows a role without the actions it was created with |
| `check_all` | 3 checks, 2 goroutines | 200 only if all were allowed; the right error otherwise; an answer in any case; what may keep a goroutine |
| `zedtokens` | 2 listeners, 2 writes, two resources below one parent; every failure but an unreadable token | updates that did not overlap and whose tokens were stored are visible to checks; every request is answered |
| `selector` | 2 hosts, one preferred, the fallback, 2 callers, Quick or not | a good host is used while one is known; `GetHost` always has one; a removed host is left |
| `policy` | 3 files, 4 drafts, 2 tenants, 1 load balancer, 1 group, 1 user, 1 role of each kind, 1 binding | whatever files are there, alone or with a draft, the schema of a policy that `Validate` takes and whose authors were careful is taken by SpiceDB if and only if no relation has a subject twice or a subject relation that everyone may have, and the order of the files does not matter; permissions are what the roles and the documents say, no more and no less, and the roles available on a resource are those above it; bindings that the code takes for possible are not refused; listings are complete |

Four runs show a statement of the repository's own that the code does not keep
(`findings`):

| Run | Statement | What happens |
|---|---|---|
| `rbac_delete_race` | "reject delete if role is in use" (`DeleteRoleV2`) | the role is deleted between the look that `CreateRoleBinding` takes at it and the write of the binding |
| `roles_v1_delete` | "DeleteRole removes all role actions from the assigned resource" | the filters name actions where the tuples name relations: nothing is removed, without any failure |
| `zedtokens_stale` | "Permissions checks made on a resource after it is updated must use data at least as fresh as the last update to that resource" (`docs/20240515-zedtokens.md`) | two updates lock the rows of their tokens in opposite orders; the one that is aborted is answered as a success |
| `policy_duplicates` | "If duplicate objects (named objects with the same name, ...) are detected in the final merged document, an error is thrown during the validation phase" (`docs/iapl.md`) | two files define a type of one name; `Validate` accepts the merge, and the definition of the last file replaces the other |

### Why the bounds are enough

* Two requests: every property of RBAC relates two requests at most, one that holds or has
  read something and one that changes it; a third only waits for the same rows. The theorems
  of section 5 do without this bound. One role and one binding are enough for two requests
  to meet; `lists` and `rbac_concurrent` have two bindings, so that a repair or a lock of
  one could touch the other.
* Two subjects in `rbac_abandoned`: an update may add one and remove the other.
* `policy`: each file has what the others lack, so that every subset of them is another policy, some
  of them not valid. A parent, a child and a resource owned by the child make grants inherit
  over two steps, and over one step only where the policy says so; the group makes a subject
  of subjects. The searches of the run settle within 7 steps; `Depth = 8`.
  The drafts are no document, one whose relation has a tenant by name and
  through the union, and two that differ in whether the holders of a relation are listed or everyone:
  with the files they give schemas that SpiceDB takes and schemas that it refuses.
* `MaxRev = 2` in `zedtokens` allows a write and its redelivery, two writes that overlap, and
  a write whose token was lost followed by one whose token was kept. A redelivery after another
  request was served needs three writes, which with the liveness property are more than TLC does in
  minutes: that case rests on the theorem `ChecksSeeUpdates`, which has no such bound. `zedtokens_stale`
  has 3.
  The bound stops the listeners from accepting valid requests; they still get invalid ones,
  so nothing stops.
* Three checks and two goroutines: at least one goroutine handles two checks, results
  arrive out of order, and the buffer is shared by results and notices.
* Two hosts: one may be good while the other is bad or gone, and the fallback is the third.

`SYMMETRY` permutes the requests in runs without liveness properties. `CHECK_DEADLOCK FALSE`
is set for `CheckAll`, where the request is over when it is answered, and for `policy`, where the
files and identifiers run out.

### Fairness

* `RBAC`: weak fairness of each request's steps, as goroutines are scheduled and calls to the
  databases return; strong fairness of the steps that wait for a row, as CockroachDB queues
  the transactions waiting for one. None for `Start` and `Cancel`. Writes may fail
  in the run, but nothing makes them, so that nothing ends thanks to a failure.
* `CheckAll`: the handler, the timer and the goroutines run; the engine need not answer a check
  (`Check` is not fair). `select` is not assumed to be fair: `WorkersEnd` counts a goroutine that the
  full buffer keeps among those that end. Such goroutines are a leak the code has: with its
  context done, a goroutine may send more notices than the buffer holds and wait for ever.
* `ZedTokens`: each listener's calls return, waiting for a row is strongly fair, a transaction
  in a deadlock is aborted. No other failure is assumed to happen.
* `Selector`: lookups and checks end, since each has a timeout, and the ticker ticks. Nothing is
  assumed of the callers, of repeated discoveries, or of `Stop`.

## 4. Properties, by what they protect

* *Agreement of the stores.* `BindingsAgree` and `RolesAgree` speak of every row that no
  transaction holds and no rollback is pending for. They hold with the failures in `Benign`;
  with those in `Repaired`, `BindingsAgree` holds for one request at a time. Beyond that the
  code does not repair (a zedtoken that cannot be stored, a lost answer, a cancelled request
  that cannot write its own rollback), and nothing is claimed. Nor is anything claimed of two requests
  on one binding, one of whose COMMIT or last row write fails: its transaction is over, and the row free,
  before `rollbackUpdates` writes, so that the late rollback may undo part of what the other wrote, or
  bring back tuples of a binding it deleted.
* *No lost update.* Both update operations compute a difference from what they read; the
  property is about the moment they answer. `UpdateTakesEffectV1` says it of V1, and
  `GivenToTheLiving` that an update which waited for the row of a deleted role gives up.
* *What survives everything.* `DiscardedRoleUnused` holds with every failure, because
  `CreateRoleBinding` insists on a committed row, and `DiscardedUnassigned`, because the handler does
  before it assigns a V1 role. `DeletedRoleGone` holds though `DeleteRoleV2` cannot undo its deletions
  in SpiceDB: if one of them or the COMMIT fails the row stays, and a role without a row has no tuple
  left, whoever waited for it. The role that stays has lost tuples, as the code's comment says; of
  those nothing is claimed.
* *Freshness.* `FreshUnlessSpoiled` says when the document's promise is kept; `spoiled`
  remembers the resources of which the last updates overlapped or whose token was lost, until an
  update alone stores its token again.
* *Policy.* `PermissionsOnlyAsGranted` and `PermissionsAsGranted` compare what SpiceDB computes from the
  generated schema with a reference definition that knows only the documents as they were written and
  the rows of roles and bindings: a subject may do what a role grants it on the resource or on one above,
  along the relations that the documents name; the first says that it may do no more, the second no
  less. `AvailableOnlyAbove` and `AvailableAsAbove` do the same for the roles that can be
  bound. What is above a resource is the least set that is closed under the relations (`Above`), so that
  a cycle of parents needs no bound. `BindableIsWritable` relates what `CreateRoleBinding` checks to what SpiceDB takes.
  `OrderInconsequential` says when the order of files has no effect: when no name is defined
  twice and one file has RBAC. `docs/iapl.md` (line 17) says that the order of files is
  inconsequential because duplicates are an error (`DuplicatesRefused`, which the run `policy_duplicates`
  refutes): `NewPolicy` fills maps from the lists before anything is validated, so that of types
  or unions with one name the last silently stays, and only those of `ActionBindings` are refused.
  `RolesShowTheirActions`, which is proved but in no run, is about policies whose actions do not contain
  the suffix `_rel` (`CarefulUse`): one that does reads back shorter, and nothing in the code excludes it.
* *Selection.* `SelectedWell` names the windows in which a bad host may be in use: between
  discovery and the next selection, during a round of checks, and while a caller is about to
  select. `RemovedHostAbandoned` closes the first of them in time.

Each property comes with a mutant of the code that it catches (`mutants`).

## 5. The proofs

All of them hold for every value of the constants allowed by the modules' assumptions.

* `RBAC_proofs`: `RBACTypes` (`Spec => []TypeOK`) and `DiscardedNeverBound`
  (`Spec => []DiscardedRoleUnused`), for any number of requests and any set of failures. The
  invariant `IInv` adds to the types: `OpAt`, which operation may be at which label;
  `BindingUpdates`, that between reading and writing, the updates of a binding are tuples of
  a binding or of its resource; and `RolesBorn`, that a role that has a row, that a tuple
  names, that a pending update names, or that a `CreateBinding` is about to name was committed
  at some time. `DiscardedRoleUnused` alone is not inductive: a rollback puts back tuples
  that were deleted, so what `upd` holds must be bounded too.
  There is one lemma for each action, and lemmas for the helpers that actions share.
* `RBACAgree_proofs`: `BindingHalvesAgree` (`[]BindingsAgree`) and `RoleHalvesAgree`
  (`[]RolesAgree`), of `Spec` for any number of requests and identifiers, under the
  assumption that only calls in `Benign` fail (`Failures \subseteq Benign`). The invariant `AInv`:
  no context is over and no rollback is pending (`Calm`); who is past its lock holds the row, and
  holds no other (`Locks`); an identifier with a row was issued, to one creation, and has no row
  before that creation commits (`Fresh`); each request is at a stage that says what the row,
  the tuples and its pending updates are at each label (`Stages`, by `Creation`, `Change` and
  `Removal`); what nobody holds is consistent (`Rest`). `StepAgrees` shows once that a step
  which changes only what it holds keeps all of it; each action then supplies its own stage.

  `RoleUpdatesTakeEffect` (`RoleUpdateTakesEffect`) is proved for every set of failures, and
  `BindingUpdatesTakeEffect` (`UpdateTakesEffect`) if no row write after SpiceDB's and no COMMIT
  fails but by the end of the request's context (`Failures \cap Late = {}`); contexts may
  be cancelled and answers lost at any moment, as in the run `rbac_abandoned`. The stores need not
  agree then, so the argument is about ownership alone. The invariant `Own` says of each
  request that while its context lives it holds the row of its identifier from its lock to its end,
  that what it has pending is a write of a row it holds, and that its updates are of its own
  identifier; after its transaction only a rollback writes. So `Deed(q)`, what a step of `q` may
  do, touches nothing that another living request holds (`HeldAlone`), and what an update has read
  and written stays so until it answers (`Due`, `Unanswered`). A rollback writes tuples of a binding
  whose lock is gone. Roles have none, hence no hypothesis; for bindings, without `Late`, a rollback
  is pending only for a request whose context is over, which writes nothing (`UndoneOver`,
  `UndoQuiet`).
* `RBACLedger_proofs`: `BindingsAreALedger` (`Spec => LedgerImplemented`), for any number of
  requests and identifiers, under `Failures \subseteq Benign`. Callers see `Visible`, from which
  the writes of requests not yet committed are subtracted, so each write must be what it
  can be read back from. `AInv` gives the stages; `LInv` adds that rows are of bindings that were
  born, at a commit (`Births`), that an update about to be written adds no tuple that is there and
  deletes none that is not (`Differences`), and that what is written and uncommitted
  is of its own binding, for an update a subject (`Uncommitted`). Then every step before a COMMIT
  shows the same to all (`ApplyShows` for the SpiceDB write itself), the COMMIT is one step of
  the ledger (`CommitIsLedgerStep`), and role operations change nothing shown.

  The module also has the listings: `BindingsListed` (`ListSpec => ListedExactly`), for every set of
  failures, and `RolesListed` (`ListSpec => RolesListedExactly`), for every set without `"stream"`: a
  stream that breaks off loses roles. Neither needs the stores to agree. By `Own`, of
  `RBACAgree_proofs`, whoever may write a binding keeps it from being settled until it has,
  so `Deed(q)`, what a step of `q` may do, leaves all that is settled as it is (`SettledStays`), and
  each listing keeps what it has to say of calm identifiers (`Placed`: a calm binding is still to
  be looked up, or listed as it is, or not granted, or an error was gathered). A role's row and its
  place in its owner's list name one resource whatever fails, even when the two do not agree on
  its existence (`ListedByOwner`), for an identifier is handed to one creation (`OneCreation`).
* `RolesV1_proofs`: for any number of requests and reads and any set of failures,
  `RolesV1Types`, `NobodyHasADiscardedRole` (`[]DiscardedUnassigned`), `OnlyTheLivingAreGiven`
  (`GivenToTheLiving`) and `UpdatesTakeEffect` (`UpdateTakesEffectV1`); each of `ReadSpec`, by way
  of `ReadersOnlyRead` (`ReadSpec => SpecV1`). The argument is the row's lock, in the manner of
  rely and guarantee: `Mine(p)` says what the request `p` relies on at each label while its
  context lives (it holds the lock of its role, the role has an owner, and its updates are still the
  difference between what SpiceDB holds and what it was asked for), `Rely(q)` bounds what a step
  of `q` does to the others (rows, and tuples on owners, change only for roles that `q` has
  locked). One lemma for each action shows `Good(q)`; `RelyKeeps` shows that the others keep what
  they rely on. The properties alone are not inductive: that an update finds the
  actions it computed its difference from depends on the lock and on what is pending.

  Of the reads, `RolesV1Listed` (`RolesListedExactlyV1`) and `RolesV1NeverShownBare` (`NeverShownBare`).
  The rows that a listing of roles has read are still exact for the roles that nobody has locked
  since (`CalmRows`). A role that was created with actions always has some on its owner, from
  before its row is committed (`Dressed`): only `WriteRole` takes an action from a role
  (`WhoTakes`; a deletion's filters match none), and it leaves it others (`StaysClothed`).
* `CheckAll_proofs`: `CheckAllTypes` and `OnlyAllowedGranted`
  (`Spec => []GrantedOnlyIfAllAllowed`), for any number of checks and goroutines.
  The invariant: what anybody holds was taken (`TakenOnly`), a check is in one place
  (`OnePlace`: a goroutine, the channel, or counted by the handler), the number of results
  counted is the number of allowed ones plus the tallies (`Counted`), and those counted as
  allowed were allowed, all of them when the answer is 200 (`Granted`).
  If all tallies are 0 after N results, N different checks were allowed, hence all.
  `AnswersRight` (`[]AnswerIsRight`) counts in the other direction: while the context lives, every
  result stands for a check, so that the checks that are with
  no goroutine and not in the channel are those the handler has counted, and the tallies tell their
  verdicts (`Truthful`).
* `ZedTokens_proofs`: `ZedTokensTypes`, and `ChecksSeeUpdates`: if `"read"` is not a failure,
  `Spec => []FreshUnlessSpoiled`, for any listeners, resources, requests and number of writes,
  and whatever else fails. The invariant: a request that still has a resource to itself is the
  only one in progress that names it (`AloneIsAlone`); a transaction holds the rows it wrote
  (`HoldsItsRows`); a request in progress is not older than what was answered about the
  resources that may be relied on (`NoneOlder`), so that its commit never makes a token older;
  what was kept alone (`KeptIsVisible`) and what was answered (`AckedIsVisible`) is covered by
  the token or by the revision SpiceDB answers with at once.
* `Selector_proofs`: `SelectorTypes` and `SelectsWell` (`Spec => []SelectedWell`), for any hosts
  and callers. Whoever changes an error or the list is in one of the windows until it has
  selected, and a selection is good by `CandidatesWell`. The start needs `Quiet`: nothing runs
  before it, and there is nothing to check outside a round. `StartsWithHost`
  (`[]StartedHasHost`): the first discovery selects before the start is over.
* `Policy_proofs`: `AcceptedDocumentTaken`, that the schema of any document whose policy passes
  `Validate` and `Careful` is one SpiceDB takes if and only if the policy has `PlainTargets`: names
  differ and each arrow of each permission leads somewhere in any case, and the subjects of the
  relations, those that the schema adds among them (`SchemaRelations`), are defined, listed once and
  without a transitive wildcard exactly when those of the policy's types are (`TargetsDefined`,
  `TargetsPlain`); and `AcceptedTaken`
  (`Spec => []AcceptedSchemaTaken`), for any files and drafts (`FilesAssumption`: they are
  documents) put into the directory in any order. `ByName` takes the last of equal names, whose
  existence is shown by a minimal counterexample (`Smallest`), since the installed provers cannot
  instantiate the induction theorems. `OrderOfFiles` (`Spec => OrderInconsequential`) follows from
  what two documents with different names make of types, unions and bindings when they are merged
  in either order (their places are the only difference).

  The rest of the module is about the whole of `Authorization`. `TypeCorrect` (`[]TypeOK`) needs to know
  of which files each policy is (`Typed`). `BindableWritable` (`[]BindableIsWritable`) adds what SpiceDB
  has (`Served`: the schema is that of the applied policy, and admits every relationship): the
  existence of an answer from `avail_role` shows that the resource's type takes grants.
  `ListedBothWays` (`[]RelationshipsListed`), `RolesShown` (`[]RolesShowTheirActions`),
  `AvailableOnlyFromAbove` (`[]AvailableOnlyAbove`) and `OnlyAsGranted` (`[]PermissionsOnlyAsGranted`) need
  history: a relationship may have been written under a policy that is no longer applied, by a server
  that read yet another. None of the four properties is inductive. Their invariant `Kept` says what a
  server has read is of one policy (`Reading`), that every relationship is of a kind that a request
  writes, for a row that still is there (`Kind`: announced by an owner, an action of a V2 role, its owner,
  an action or an assignment of a V1 role, part of a role binding), that every V2 role has the
  relationships of its actions (`RowShown`) and that an identifier has one row (`Once`). From there
  the state is all that matters. `Holds` is a function of the depth, so what holds at a depth has a
  last step from what holds at a smaller one, and `HoldsInduction` proves a property of all that
  is held, whatever `Depth` is, by the smallest depth at which it fails. The last step to an action on
  a resource is then one of four (`Given`): a V1 role, a role binding, a condition of the documents, or
  inheritance; and because `Above` is a least closed set, a resource that inherits from another has
  above it all that the other has.

  `AvailableFromAbove` and `AllAsGranted` are the other way, nothing withheld, for `AvailableAsAbove` and
  `PermissionsAsGranted`. They need that what a row stands for is still among the relationships
  (`Stored`, an invariant with `Kept`): only owners' deletions take relationships back, and `Lasting` says
  which those cannot touch, those of roles and role bindings among them (`OwnEvents`). And they need
  that the search went far enough: `Holds` takes `Depth` steps, and a grant beyond them is not
  found. The theorems therefore have the premise that the search of the state in question has settled
  (`Settled`: one more step reaches nothing new); from there each relationship and each kind of condition
  gives what it should (`HeldByRelation`, `HeldByRoleBinding`, `HeldByGrant`, `HeldByV1`,
  `HeldByCondition`), and induction along `Above` does the rest (`ReachesBack`). In `policy` the two properties are checked without the
  premise; there the searches settle in 7 steps, and `Depth` is 8.

The assumptions on constants: `StoreAssumption` and `WriteAssumption` of `RBACStore` (roles, bindings
and resources have different identifiers; `None` is no request, no resource and no write),
`ViewAssumption` of `RBAC` (`None` is not a record of a binding),
`FilesAssumption` and `IdsAssumption` of `Authorization` (files are documents; no identifier is the
wildcard, actions are names), `DepthAssumption` of `SpiceDB` (a natural number), `CheckAssumption`,
`ZedTokensAssumption` and `SelectorAssumption`. TLC evaluates them in the runs, and `SteadyFiles` and `OwnEvents`,
the hypotheses of six theorems of `Policy_proofs` (from `ListedBothWays` on), in `policy`.

Model-checked only: liveness (`EveryRequestEnds`, `AlwaysAnswers`, `EveryRequestAnswered`,
`RemovedHostAbandoned`, `WorkersEnd`), which the prover cannot express; the refinement of
`BindingLedger` with the failures of the run `lists`; `BindingsAgree` with a COMMIT that fails (`lists`); and
`PermissionsAsGranted` and `AvailableAsAbove` without their premise that SpiceDB's search has settled; and
`DeletedRoleGone`.

## 6. Not modelled

* The text of SQL statements, migrations and connection settings; the HTTP handlers' parsing,
  pagination and formatting; the format of identifiers and of hosts; tracing and logging; flags and
  wiring of the commands, and the diagrams they draw; the clients' checker, one HTTP request
  for each call. They keep no state that another step could meet.
* Time, other than by the order of events; the YAML decoder; the text of the schema. Subjects whose
  identifier the documents fix (other than the wildcard) are left out.
* `bulkCheckActions` and `checkAction`, which share nothing between goroutines.

Known and not covered by a property: a redelivered message revives a relationship that was
deleted after the first delivery; the V1 route deletes V2 roles and leaves their tuples; a
failed BEGIN in `CreateRoleV2` and others is answered as an empty success; an error in the stream
of `LookupSubjects` is taken for its end; the first discovery of the selector runs with the
context of whoever asked first; a token that cannot be stored makes a request fail after its
SpiceDB write; a listing meets a grant before its row is committed and fails. The models contain most
of these behaviours (as failure kinds, or as what a property excludes), and nothing in the code
or its documentation says what should happen instead.

What would come next: the proofs with a COMMIT that fails, for which `AInv` has to follow the
rollback of `Repaired` for one request at a time; a proof of
`DeletedRoleGone` from `Own`; a bound on the steps after which a search settles; the handlers' authorization around the operations.
