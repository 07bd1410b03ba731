# A TLA+ model of the Cyndi operator

The Cyndi operator reconciles `CyndiPipeline` resources. For each one it keeps a
table in the application's database, a Kafka connector that fills the table with
hosts from the inventory, and a view, `inventory.hosts`, that the application
reads. When something is wrong it builds a second table and connector, waits
until the data is valid, moves the view and drops the first pair.

What is hard about it is not any single function. Two controllers work on the
same resource from cached copies of it, with no transaction around a reconcile:
between any two calls the other controller may write the status, a user may edit
or delete the resource, a table may disappear, a call may fail or the process may
stop. This directory models that, what the validation queries can and cannot tell,
and how a change of configuration reaches what was built from an older one. It
checks the models with TLC on small instances and proves part of it with TLAPS
for all instances.

## The system

| Part | State | Operations |
|---|---|---|
| `CyndiPipeline` resource (`api/v1alpha1/state.go`, `cyndipipeline_types.go`) | spec, status, finalizer, deletion timestamp | `GetState`, `TransitionToNew`, `TransitionToInitialSync`, `SetValid` |
| PipelineController (`controllers/cyndipipeline_controller.go`) | one `ReconcileIteration` while it runs | setup, cleanup, finalizers, creation of table and connector, deviation check, connector state, view, refresh |
| ValidationController (`controllers/validation_controller.go`, `validate.go`) | one `ReconcileIteration` while it runs | deviation check, verdict, event filter |
| `ReconcileIteration` (`controllers/iteration.go`) | the instance, its original status, configuration, connections | error return, `updateStatusAndRequeue` |
| Application database (`controllers/database/app_database.go`) | `hosts_v*` tables, the view and its grant, the role's password | create, drop, list tables; read and replace the view; connect, rotate the password |
| Connectors (`controllers/connect/connect.go`) | `KafkaConnector` resources owned by the pipeline | create, delete, list, pause, failed? |
| Kubernetes (client-go, controller-runtime; external) | the resource, the informer's copy, pending events, work queues | optimistic writes, event delivery, requests and timers |
| Configuration (`controllers/config.go`, `controllers/config/`, `controllers/utils/`) | two merged ConfigMaps, two secrets | precedence, defaults, parsing, hashes |
| Query builder (`controllers/database/database.go`) | none | the counting and listing queries of validation |
| Metrics, probes, `main.go`, generated code | none that matters | |

How they interact:

* Both controllers read the resource through the **informer** and write it with the
  **resourceVersion** they read. A write from an older copy meets a conflict.
* The PipelineController is woken by every event of the resource and of its
  connectors, by changes of the `cyndi` ConfigMap and by its own timer. The
  ValidationController only by events that `eventFilterPredicate` lets through
  and by its own timer, which it does not set in the states New and Removed.
* The status is how the controllers talk to each other: the ValidationController
  writes the verdict and the count of failures, the PipelineController acts on
  them. Both may send the pipeline back to New.
* Database and connectors are read directly, without a cache, and are changed by
  the PipelineController alone, and by the environment.

What must hold:

* the status is always a state of the diagram and nobody overwrites an update he
  has not seen (`StatusCoherent`, `NoLostUpdate`);
* readers never lose the view, and it only moves to data that was complete once
  (`ActiveTableKept`, `ViewOnlyToSeeded`);
* a refresh keeps what is in use (`OldConnectorKept`, `LiveTableKept`,
  `UnmanagedTableStable`) and what is not in use does not pile up
  (`DependenciesBounded`);
* a deleted pipeline leaves nothing behind (`CleanRemoval`), and whoever creates the
  view lets the application read it (`ViewReadable`);
* all in all the controllers implement the state diagram (`FollowsLifecycle`);
* nobody waits for a wake-up that does not come (`NoLostWakeup`), a failed pipeline
  is refreshed (`FailedPipelineRefreshed`), and in the end everything is valid
  again (`Converges`);
* validation compares the hosts that the filters ask for (`FiltersRespected`), and its
  verdict is wrong by no more than what moved meanwhile (`NoFalseAcceptance`,
  `NoFalseAlarm`, `EarlyExitAgrees`);
* a change of configuration reaches connector and table (`RolledOut`), what was built is
  only discarded for a reason (`NoNeedlessRefresh`), and rotation does not let the initial
  password of the database into a connector (`NoInitialPassword`).

## Modules

```
PipelineState   Failures       HostQueries        Config
   |    \          |   \________  |                |
KubeApi  Connect  AppDatabase  Validation        Rollout
      \     |     /                |               |
        Iteration          MCValidation (TLC)  MCRollout (TLC)
        /       \          ValidationProofs    RolloutProofs (TLAPS)
PipelineController  ValidationController
        \       /
      CyndiOperator ---- MCCyndi (TLC)
       /       \
 Lifecycle   CyndiOperatorProofs - CopyProofs - StatusProofs (TLAPS)
                                                 /         \
                                          ViewProofs   WakeupProofs
                                                 \         /
                                                RemovalProofs
```

There are three specifications: `CyndiOperator` (two controllers on one pipeline),
`Validation` (what is behind the verdict that `CyndiOperator` takes as given) and
`Rollout` (what is behind its setup and its hashes).

Modules are connected by `EXTENDS`, except that `CyndiOperator` instantiates
`Lifecycle`; none declares a `RECURSIVE` operator.

**PipelineState** is the resource and the operations on one copy of it, each
named like the method it models. Strings are abstract: a version is a member of
`Versions`, and a name is a tuple of a version and an application's name, which
keeps `TableName` and `ConnectorName` injective as their formats are. `Nil` is the
empty string. The spec is reduced to what the operator tells apart: `app`
(part of names and of the hash), `data` (all other fields the hash covers),
`managed` and `paused` (left out of the hash by `DataSpec`). A ConfigMap is `base`,
the part that enters `ConfigMapHash`, and the two attempts thresholds, which do
not. Hashes do not collide. The `Valid` condition is its status.

**Failures** names the failures a run switches on (`Faults`).

**KubeApi** has the resource at the API server (`api`), the informer's copy
(`cache`) and the versions written since (`watch`). `Deliver(k)` hands the k-th of
them to the informer: the next one, or a later one when the informer lists the
resource again and the events in between are merged. `fresh` is the set of
controllers whose copy carries the current resourceVersion; every write empties
it, except for the writer that goes on (`addFinalizer`). `queue` holds the
controllers with a pending request or timer. Times are left out: a requeue after
an interval, a retry with backoff and a request are all "it will run". A change of
the ConfigMap reaches the informer at once; before that moment the operator
cannot tell that it happened.

**AppDatabase** keeps `tables`, `view`, `granted`, and which tables match the inventory
(`synced`). `UpdateView` is two statements and two actions. `GetCurrentTable` and
`GetCyndiTables` are the sets of answers that the functions may give: with the fault
`query` a failure while rows are read looks like the end of the rows, because
`rows.Err()` is never read. `seeded` is a history variable: the tables that have
matched the inventory since they were created.

**Connect** is a set of connectors. The labels and the rendered template are the
record of the values in which two of them can differ (spec, configuration, table).

**Iteration** is the record a reconcile carries, with a `phase` that names the next
call, and the steps both controllers share. `checkForDeviation` and `validate` are one
action each, since they change nothing and the calls they make are independent
reads; every call that changes something is an action of its own, and so is
every read whose result is used later (`current`).

**PipelineController** and **ValidationController** are the two `Reconcile` functions:

| Code | Actions |
|---|---|
| `setup`, "not found" | `PipelineSetup`, `PipelineSkip`, `ValidationSetup`, `ValidationSkip` |
| `deleteStaleDependencies` | `DeleteStaleConnectors`, `DeleteStaleTables` |
| STATE_REMOVED, error returns | `RemoveFinalizer`, `Abort` |
| STATE_NEW | `StartInitialSync`, `CreateNewTable`, `CreateNewConnector` |
| `checkForDeviation` | `PipelineDeviation`, `ValidationDeviation` |
| `SetConnectorState` | `PipelineSetConnectorState` |
| STATE_VALID, `recreateViewIfNeeded` | `RecreateViewIfNeeded`, `GrantView` |
| attempts used up, `updateViewIfHealthier` | `UpdateViewIfHealthier`, `GrantHealthierView` |
| `validate`, `SetValid` | `Validate` |
| `updateStatusAndRequeue` | `PipelineUpdateStatus`, `ValidationUpdateStatus` |
| any call that returns an error | `PipelineCallFails`, `ValidationCallFails` |

Details that are easy to miss: the cleanup runs after a failed setup too, without a
database connection; the finalizer of a removed pipeline goes in spite of errors
when `EPHEMERAL` is set; `updateViewIfHealthier` swallows its errors; whether the
new table is the healthier one depends on host counts and may go either way. A
loop of the cleanup that fails half way deletes any subset (`Deleted`); a process
that stops in the middle of the loop is that followed by `Crash`.

**CyndiOperator** runs both controllers on one pipeline in an environment that may
disturb it at most `MaxDisturbances` times (edit, delete, reconfigure, drop, break),
seeds tables through connectors that run, delivers events, and restarts the
process. It states the specifications and the properties.

**Lifecycle** is the abstract specification: the state diagram of the repository's
README with its arrows, whether anything of the pipeline exists in database or
Kafka Connect (`footprint`), and whether there is a hosts view (`shown`). The
refinement mapping of `CyndiOperator` (`life`) is `GetState` of the committed resource or
`GONE`, "there are tables or connectors", and "the view exists". A view may only
disappear after the deletion, unless the environment drops tables. Every step of
the two controllers and of the environment is one of its steps or a stutter; that
is `FollowsLifecycle`.

**HostQueries** gives SQL a meaning in sets: a condition is the hosts that satisfy
it, the aliases it mentions and the columns it names without one; a join is its
alias, the columns of its table and the hosts that match. Joins are on the identity
of the host, as the README of the repository asks for, so that they match at most
one row. The server refuses an empty condition, an alias that is introduced twice or
not at all, and a column without an alias that no table or more than one has:
`insights_id`, which `getWhereClause` never qualifies, is ambiguous as soon as a
joined table has it too. A connection that is lost while rows are read ends them
unnoticed. `getJoinClause`, `getWhereClause`, the two queries and the two readers
are operators named like the methods.

**Validation** is `validate()`, one action per query and one for the error return of
any of them, with hosts that come and go in both databases in between. float64 is
modelled by what it does here: quotients of counts are exact enough to be compared
with 0.5, and `m / n * 100 <= t` differs from the exact comparison only where `m /
n` equals `t / 100`, for the five percentages in `RoundedUp` (7, 14, 28, 55, 56),
whose `t / 100 * 100` is greater than `t`. (This was computed for all t up to 100.)
`touched` and `cut` are histories: which hosts moved and which answers were cut off
since `validate()` began.

**Config** are the pure functions behind setup: `Merge`, `Omit`, the two hashes,
`BuildCyndiConfig` with the precedence of spec, ConfigMap and default and with
malformed numbers, secrets, the parameters of the connector's template, labels
and the table's script. A ConfigMap is a function from keys to texts; `Number` says
which texts are numbers, `Mentions` which templates can be rendered and what they
use, `Scripts` what PostgreSQL runs, and `Hash` may collide.

**Rollout** is setup of both controllers call by call (instance and global ConfigMap,
own ConfigMap and secrets, the connection and the three steps of a rotation of
the password), then what Reconcile does with the configuration: `Build` in state New;
afterwards `Check`, which is `checkForDeviation` and, without a deviation, the verdict of
the one controller (`SetTrue` or `SetFalse`, either may come at any time) and the refresh
after too many failed attempts of the other; then `updateStatusAndRequeue` with the
conflict check and the timer. Intervals are multiplied in an int64 whose width is
scaled. `status` also records the connector, the table and (for the properties) what
they were built from; `lost` says that the table, or the connector, is gone or has
failed. `history` is read by no action: it records what `RolledOut` excepts, and whether
a connector was ever created with the initial password, also one whose status was
then refused.

## Runs

Each asks one question. `validation` and `rollout` instantiate `MCValidation` and
`MCRollout`; all others `MCCyndi`, where the constants not named are as small as
possible (one application, one data spec, managed connectors).

| Run | What is switched on | Shows |
|---|---|---|
| `refresh` | every damage to table, connector, configuration, once, and a connector that may never catch up | `TypeOK`, `ViewReadable`, `OldConnectorKept`, `LiveTableKept`, `FailedPipelineRefreshed`, `FollowsLifecycle` |
| `stale_reads` | copies one event behind, failing calls, crashes, a dropped table | `StatusCoherent`, `NoLostUpdate`, `DependenciesBounded`, `ActiveTableKept`, `ViewOnlyToSeeded` |
| `removal` | deletion, failing setup and cleanup, crashes, stale copies | `CleanRemoval`, `NoLostWakeup`, `FollowsLifecycle` |
| `unmanaged` | both values of `managedConnectors`, edits and deletion | `CleanRemoval`, `DependenciesBounded`, `ActiveTableKept`, `UnmanagedTableStable` |
| `converge` | any two disturbances of any kind, fairness | `Converges` |
| `validation` | filters of every shape on three hosts, tables of 20 and 25 hosts around the thresholds, two moves, failing calls, answers cut off | `TypeOK`, `FiltersRespected`, `NoFalseAcceptance`, `NoFalseAlarm`, `EarlyExitAgrees` |
| `rollout` | any two changes of ConfigMaps, spec, secrets and password, losses or interruptions, verdicts at will, colliding hashes, an overflowing interval, `EPHEMERAL`, fairness | `TypeOK`, `NoInitialPassword`, `NoNeedlessRefresh`, `RolledOut` |

Runs that deadlock legitimately (everything is done once the resource is gone)
switch the deadlock check off; so does `rollout`, where an interval that sets no timer
really lets both controllers sleep. `refresh`, `stale_reads` and `validation` keep it.

Some properties are checked where they can hold and refuted where they cannot:
`LiveTableKept` and `OldConnectorKept` in `refresh` have up-to-date copies, one application
and no failing call, and `find_stale_cache` and `find_setup_outage` take these away; likewise
`ActiveTableKept` and `find_failed_query`, `Converges` and `find_managed_again`. In `refresh` the
environment may drop tables, so that `FollowsLifecycle` allows the view to disappear at
any time there; in `removal` it does not. Queries that fail unnoticed break most
promises about tables, and `EPHEMERAL` gives up a clean removal on purpose; what
survives them, `StatusCoherent`, `NoLostUpdate` and `NoLostWakeup`, is proved for any faults
and both values of `EPHEMERAL`.

**Bounds.** `MaxLag` lets a reconcile start with at most that many undelivered
events; 1 is enough to work on a status that was overwritten, and the proofs need no
bound. `MaxFailed` caps the failure count that can still be written and lies at or
above the thresholds, so that a count below, at and beyond each is reached. The cap
also ends the status writes of a ValidationController that fails a pipeline again
and again, see Fairness. (In `converge` the thresholds lie beyond the cap on
purpose: the question there is what happens when validation succeeds before the
attempts are used up.) `Versions` are used again once nothing mentions them: four
(five with stale copies) are enough that `StartInitialSync` never waits for one,
which was checked separately. `CHOOSE` picks the version, and since nothing
distinguishes versions, `Symmetry` (permutations of `Versions`) is sound for the
runs that use it; they check no liveness. `HostCounts` is one value, since a host
count is only passed on.

In `validation` three hosts in every combination of two databases meet each list of
filters: shared joins, an inner join, a join that comes after its use, a clashing
alias, a join that takes the alias of the hosts table, a missing join, a column that
several tables or none have, an empty condition. 20 and 25 hosts make mismatches
that lie exactly at 25, 28, 50 and 55 percent, one host below and one above. Two
moves are enough for one host to leave one database and another, or the same, to
come in the other. In `rollout` each ConfigMap has one key for each way in which a
key can matter (hashed, ignored, an attempts threshold, malformed, colliding,
without a template). `MaxFailed` = 1 saturates there: a failing verdict is a write
even when the count is no longer told apart, and the threshold is at the cap or (30,
the default) beyond it. Two changes are enough for a change to be taken back, to
meet another one half way, or to follow on an interrupted attempt. An int64 is
scaled to 16 bits and a second to 10 nanoseconds: the default intervals fit, and
3277 seconds overflow to a negative delay, which stands for zero and negative
settings as well.

**Fairness.** `LiveSpec` assumes weak fairness of each controller as a whole: a
request or a timer that is pending is eventually served, and a reconcile that runs
goes on, which controller-runtime's workers and queues provide. Events are
eventually delivered (the informer resynchronizes). `FairSpec` adds that a table
with a running connector is seeded, which is the reason for the topic's retention
(repository README, "Typical flow"). No failure is fair, and the liveness runs of
`CyndiOperator` have none: a call that fails for ever prevents any recovery.
`FailedPipelineRefreshed` depends on a further assumption, made by the cap
`MaxFailed`: the ValidationController does not write a failing verdict into every
single attempt of the PipelineController for ever. The attempts are retried after
milliseconds, the verdicts come at an interval of seconds at least, so only a
reconcile that always lasts longer than that interval could be kept from ever
writing. `Rollout` does without the assumption, since there both controllers compare
the configuration. `Rollout!LiveSpec` has the same fairness for the two controllers;
its attempts fail at most `MaxChanges` times without a reason, and as often as
configuration, secrets and password give them one.

### Where the code does something else

Five runs check what a document, a comment or a test says and TLC refutes it.

* `find_stale_cache`: the reconcile after a refresh may start before the informer has
  the status just written. It then sees an empty version, takes the new table
  for a stale one and drops it. The conflict check keeps it from writing the
  status, so the next refresh repairs it; the seeding was for nothing.
* `find_setup_outage`: when setup fails (say the database is down), the cleanup
  still runs, does not know the active table and deletes the connector that
  feeds it.
* `find_failed_query`: when the query of `GetCurrentTable` fails while its rows are
  read, the cleanup drops the active table and with it the view.
* `find_managed_again`: a pipeline created with `managedConnectors: false` and
  switched to `true` has no connector name in its status; reading a connector by
  the empty name is an error, and no reconcile gets beyond it.
* `find_ignored_key`: the comment on `keysIgnoredByRefresh` says that a change of these
  keys triggers no refresh. The attempts thresholds are among them, and Reconcile
  compares the failure count with the threshold it has just read: after one failed
  validation a threshold lowered to 1 discards the pipeline at once. What does hold
  is `NoNeedlessRefresh`, which lists the reasons: another spec, other data in the
  ConfigMaps, another connector, a table or connector that is gone or has failed,
  attempts used up by the threshold in force, and the first or the last key of a
  ConfigMap (below).

Observations made while modelling, without a run of their own:

* After a change of `appName` the old connector is looked for under the new name
  (`cyndipipeline_controller.go:289`) and deleted at the start of the refresh, not at
  its end.
* `LiveTableKept` also fails when a pipeline is refreshed while unmanaged and then
  switched to managed: its status names a table other than the version's, which
  only an unmanaged pipeline keeps.
* The description of state New in the repository's README writes the status first,
  whereas the code writes it last, which is why the cleanup must find tables no
  status mentions.
* A GRANT that fails is not retried: `recreateViewIfNeeded` finds the view in place.
* The README says that validation passes while the ratio is "below this threshold".
  A ratio exactly at the threshold passes too, except for 7, 14, 28, 55 and 56
  percent. A threshold beyond 50 percent is cut by the early exit.
* Two lists of ids that break off at the same place hide every mismatch behind it.
* The README says that `join` is "only used for validation queries"; the default
  template writes it into the connector's transforms, since only `name` and `where`
  are left out (`defaults.go:30`).
* The first ignored key in an otherwise empty ConfigMap, and the removal of the
  last one, do refresh the pipeline, since the hash of an empty map is a constant
  of its own (`utils/k8s.go:47`).
* `spec.refresh` has no effect: `DataSpec` clears it and nothing else reads it.
* The connection after a rotation of the password is tried with the initial
  password. It fails, and the next reconcile succeeds, unless the secret holds the
  initial password or somebody has just given it to the role again; then the initial
  password may get into a connector. If the secret is replaced during the rotation, the role
  keeps a password that no secret has.
* A filter with a join on a table that has an `insights_id` cannot be combined with
  `insightsOnly`: the server refuses the query and no validation ever ends.
* A mixture of two moments of the ConfigMaps may be built and is replaced by a
  further refresh.
* A change of the global ConfigMap or of a secret is noticed only with the timer,
  and never if an interval is zero, negative or too large to be a duration.

## Proofs

The theorems hold for every value of the constants, thus for any number of
versions, applications and disturbances, any lag and (where not said
otherwise) any combination of faults. They use the assumptions of the modules,
which say no more than the types of constants, that the empty string is no name
(`NilAssumption`), that host ids are numbered (`HostsAssumption`), that an absent join or
condition is none (`AbsentAssumption`), that the hosts table has an `insights_id`
(`ColumnsAssumption`), and that the first secret is complete (`SecretsAssumption`). TLC evaluates all of them in the runs.

### The operator

* `TypeCorrect` (**CyndiOperatorProofs**): `Spec => []TypeOK`. `TypeOK` is not inductive.
  `CreateNewTable` and `CreateNewConnector` build names from what the iteration
  carries, so the invariant needs `SyncNames`: in those phases version and table
  are not empty. The proof has one lemma for each building block (`Goto`, `Fail`,
  `WriteApi`, `UpdateStatus`, ...) and one case for each action.
* `CoreInvariant` (**CopyProofs**): adds `CopyInv`, three facts about copies.
  `WatchInv`: the last undelivered event is the resource. `DeletingInv`: no copy is
  ahead of a deletion. `FreshInv`: an iteration that holds the current
  resourceVersion holds the current definition and started from the current
  status. The argument distinguishes steps that read the resource (setup only),
  steps that write it, and all others, which keep what their iteration read
  (`NoneReads`).
* `UpdatesAreNotLost` (**CopyProofs**): `Spec => NoLostUpdate`, from `FreshInv`: only a fresh
  iteration's status update is accepted.
* `StatusIsCoherent` and `UnmanagedTableIsStable` (**StatusProofs**): `[]StatusCoherent` and the
  action property `UnmanagedTableStable`, without any condition. The committed
  status is coherent because every status that some iteration carries is, and
  because what an iteration carries differs from what it read by exactly one
  transition (`StatusInv` relates the phase to the difference).
* `NoWakeupIsLost` (**WakeupProofs**): `[]NoLostWakeup`, without any condition. `ChainInv`
  follows the versions of the resource from the cache over the undelivered ones to
  the API server: nothing follows on a deletion (`GoneInv`); while an iteration is
  fresh nothing but its own finalizer is under way (`SeenInv`); and of any two
  versions, not only of neighbours, the later one wakes a controller that fell
  asleep on the earlier one (`WakesInv`), which is what merged events (`Deliver(k)` with
  k > 1) need.
* `ViewIsKept` and `ViewIsReadable` (**ViewProofs**): `ActiveTableKept`, provided that `query` is
  not among the faults, and `[]ViewReadable`, provided that `call` and `crash` are not.
  For the first, what `GetCurrentTable` answered is still true two calls later
  (`CurrentInv`: nobody else moves the view), and a copy that is being deleted means
  that the resource is. For the second, only the two creations of the view take
  the grant away, and both go on to it. The run `find_failed_query` and the observation
  on GRANT above show that the conditions are needed.
* `RemovalIsClean` (**RemovalProofs**): `CleanRemoval`, provided that `query` is not among the
  faults and `EPHEMERAL` is unset. `RemovalInv`: a pipeline without the finalizer was
  never refreshed and has nothing (`VersionInv`, `FootprintInv`), no stale copy misleads a
  controller about the finalizer (`FinalizedInv`), and the phases of the cleanup say
  what is already gone (`SweptInv`).
* `ImplementsLifecycle` (**RemovalProofs**): `Spec => FollowsLifecycle`, the refinement, under
  the same conditions. The steps that write the status are mapped to arrows of the
  diagram by `StatusInv` and `FreshInv`; for the others it is shown that they change
  neither the state, nor whether anything exists, nor whether there is a view,
  except as the abstract action allows.
* `DependenciesAreBounded` (**RemovalProofs**): `[]DependenciesBounded`, provided that `query` is
  not among the faults. `BoundInv` follows one reconcile: its cleanup leaves at most
  one connector and, besides a table that the next synchronization takes over, at
  most one table; then it creates at most one of each.

### Validation

**ValidationProofs** has no condition on hosts, filters, thresholds or moves.
`ValidationInv` says of each answer what it still tells of the databases now: the
answer of a query is what the table was at that moment, and whatever changed since
is in `touched` (`SeenAs`). From it:

* `FiltersAreRespected`: the query that `getJoinClause` and `getWhereClause` put together
  selects the wanted hosts. The attempt to prove it found a case that the
  property had left out, a join that takes the alias of the hosts table, which the
  server refuses; the property and the run now have it.
* `AcceptanceIsJustified`, `AlarmIsJustified`: the sets compared differ from the databases
  at most in hosts that moved, so the verdict is wrong by no more than that.
* `EarlyExitIsSound`: two sets differ in at least as many elements as their
  cardinalities do (`CountsDiffer`), so a count that is off by more than half exceeds
  any threshold up to half.
* `TypeCorrect`.

### Rollout

**RolloutProofs** holds for any ConfigMaps, specs, secrets and hash function, and both
values of `EPHEMERAL`. `RolloutInv` says what an iteration holds in each phase
(`IterationSound`: beyond parseConfig a configuration that is well formed and belongs to
the spec and the ConfigMaps it read; in the phases of a rotation the initial
password), that a status describes what was built and counts failures exactly while
its verdict is False (`StatusSound`), and that a fresh copy is the current status.

* `TypeCorrect`: `[]TypeOK`.
* `InitialPasswordIsKeptOut`: `[]NoInitialPassword`. `SecretInv` adds that, as long as nobody
  stored the initial password or gave it to the role again, no secret and no
  iteration that connected without a rotation has it, and a role that was altered
  does not have it; so a rotation ends in a failing `Reconnect` and never in a
  connection, and the next attempt reads the secret again.
* `RefreshIsNeeded`: the action property `NoNeedlessRefresh`, with every branch that leads to
  a refresh in `Rollout`: deviations, losses and attempts used up. It needs that a
  fresh copy is the current status, and that the hashes in status and configuration
  are those of what they were built from; equal data have equal hashes
  (`HashIgnores`), whatever collides.

`CopyInv`, `CurrentInv`, `RolloutInv` and `SecretInv` were checked with TLC on the instances of the runs
before they were proved.

### Only model-checked

* `LiveTableKept`, `OldConnectorKept` and `ViewOnlyToSeeded`: they hold only for up-to-date
  copies or without certain faults, see the Plan.
* `FailedPipelineRefreshed`, `Converges` and `RolledOut`: liveness needs fairness and `ENABLED`,
  which are beyond the prover.
* That the five percentages in `RoundedUp` are the ones float64 rounds up.

## Not modelled

* `CyndiOperator` takes the verdict of `validate()` to be whether the table matches the
  inventory now, and setup to succeed or to fail; `Validation` and `Rollout` are where
  these are opened up. A setup of the ValidationController that fails changes
  nothing but the request in the queue, so it is no action of `CyndiOperator`.
* `Rollout` has managed connectors only, reads the resource without a lag (stale
  copies are `CyndiOperator`'s subject), and leaves cleanup, removal, connector state
  and view out, which are `CyndiOperator`'s subject too. Losses of table and connector
  are one flag there, since both have the same consequence.
* In `Iteration`, `updateStatusAndRequeue` reads the current table and writes the status in one
  step. The view may move in between, and `status.active` would then be behind until the
  next reconcile; nothing but the choice of unused versions reads it. In its run
  `EPHEMERAL` is set, since only then do secrets reach the connector.
* A join that matches several rows of one host: the count would exceed the number
  of ids, and the list would hold an id more than once.
* An error of the API server when the resource is read, at which `Reconcile` calls
  `i.error` on an iteration without a logger; the model reads a cache, which does
  not fail.
* Re-creation of a resource under its old name, several pipelines (also two on
  one database), leader election.
* Metrics, events, logs, the wording of differences (`diff.go`), the scheme and generated
  code: nothing the operator does depends on them.

## Plan

What is left is to prove the rest of the action properties of `CyndiOperator`:

1. `LiveTableKept`, for `MaxLag = 0`, managed connectors and without the fault `query`: the
   cleanup knows the version of the status and the table of the view.
2. `OldConnectorKept`, in addition without the fault `setup` and for one application.
3. `ViewOnlyToSeeded`, for managed connectors and without the fault `query`, from an
   invariant on the verdict of a validation and the table it was about.
