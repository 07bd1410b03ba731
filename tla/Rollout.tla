------------------------------ MODULE Rollout ------------------------------
(***************************************************************************)
(* How a change of configuration reaches the connector and the table:      *)
(* setup() of both controllers call by call, with the rotation of the      *)
(* database password, and what Reconcile then does with the configuration: *)
(* build what is missing, compare, refresh after too many failed attempts, *)
(* write the status, set the timer.  The rest of Reconcile (cleanup and    *)
(* removal, the connector's state, the view) is in CyndiOperator, and so   *)
(* are external connectors.  ConfigMaps and secrets are the informers'     *)
(* copies.                                                                 *)
(***************************************************************************)
EXTENDS Config

CONSTANTS
  ConfigMaps,   \* contents of the ConfigMap of each namespace, the empty one for
                \* one that is missing
  InitialMaps,  \* those of the pipeline's namespace that the system may start with
  Specs,        \* specs of the pipeline, ...
  InitialSpec,  \* ... and the first one
  SecretNames,
  Secrets,      \* contents of each secret, ...
  InitialSecret,\* ... and the first one of all
  initialPassword,
  Ephemeral,    \* the EPHEMERAL environment variable
  Second,       \* nanoseconds in a second, and ...
  IntBound,     \* ... the first number beyond an int64, to scale
  MaxFailed,    \* the last status.validationFailedCount that is told apart
  MaxChanges    \* changes and failures in a behaviour

ASSUME EphemeralAssumption == Ephemeral \in BOOLEAN
ASSUME TimeAssumption == Second \in Nat \ {0} /\ IntBound \in Nat \ {0}
ASSUME BoundsAssumption == MaxFailed \in Nat \ {0} /\ MaxChanges \in Nat
ASSUME SecretsAssumption ==
  SecretNames # {} /\ (\A n \in SecretNames : InitialSecret \in Secrets[n]) /\ Complete(InitialSecret)
ASSUME MapsAssumption ==
  <<>> \in ConfigMaps["global"] /\ InitialMaps \subseteq ConfigMaps["own"]
ASSUME SpecsAssumption ==
  /\ InitialSpec \in Specs
  /\ \A s \in Specs : \A f \in {"maxAge", "validationThreshold"} : s[f] = Unset \/ s[f] \in Int

Controllers == {"pipeline", "validation"}

VARIABLES
  maps,     \* the cyndi ConfigMap in the global and in the pipeline's namespace
  spec,     \* the pipeline's spec
  secrets,
  role,     \* the password of the application's database role
  status,   \* the pipeline's status and what it points to
  lost,     \* the table it points to is gone, or its connector is gone or has failed
  fresh,    \* controllers whose copy has the current resourceVersion
  run,      \* the iteration of each controller
  queue,    \* controllers with a pending request or timer
  history,  \* what no code reads: "silent" once something changed that no event
            \* announces, "asleep" once the pipeline controller had no request and
            \* no timer, "given" once a secret had the initial password or somebody
            \* gave it to the role again, "rendered" once a connector was created
            \* with it
  changes

vars == <<maps, spec, secrets, role, status, lost, fresh, run, queue, history, changes>>
envVars == <<maps, spec, secrets, changes>>
----------------------------------------------------------------------------
Idle == [phase |-> "idle", spec |-> Unset, status |-> Unset, cm |-> Unset,
         config |-> Unset, db |-> Unset, newPassword |-> Unset]

\* A pipeline in state New.
Empty == [built |-> FALSE, initsync |-> FALSE, valid |-> "Unknown", failed |-> 0,
          cmver |-> Unset, spechash |-> Unset, table |-> Unset, connector |-> Unset, from |-> Unset]

\* A secret with this content was stored.
SecretMarks(s) ==
  IF s # Unset /\ "db.password" \in DOMAIN s /\ s["db.password"] = initialPassword
  THEN {"given"} ELSE {}

Init ==
  /\ \E m \in InitialMaps : maps = [global |-> <<>>, own |-> m]
  /\ spec = InitialSpec
  /\ secrets = [n \in SecretNames |-> InitialSecret]
  /\ role \in {initialPassword, InitialSecret["db.password"]}
  /\ status = Empty /\ lost = FALSE
  /\ fresh = {}
  /\ run = [c \in Controllers |-> Idle]
  /\ queue = Controllers
  /\ history = SecretMarks(InitialSecret)
  /\ changes = 0
----------------------------------------------------------------------------
Goto(c, it) ==
  /\ run' = [run EXCEPT ![c] = it]
  /\ UNCHANGED <<envVars, status, lost, fresh, queue, history>>

\* Reconcile returns an error, and the request is queued again.
Fail(c) ==
  /\ run' = [run EXCEPT ![c] = Idle]
  /\ queue' = queue \cup {c}
  /\ UNCHANGED <<envVars, status, lost, fresh, history>>

\* setup: the instance and, first of parseConfig, the global ConfigMap.
Begin(c) ==
  /\ run[c].phase = "idle" /\ c \in queue
  /\ run' = [run EXCEPT ![c] = [Idle EXCEPT !.phase = "config", !.spec = spec, !.status = status,
                                            !.cm = maps["global"]]]
  /\ queue' = queue \ {c}
  /\ fresh' = fresh \cup {c}
  /\ UNCHANGED <<envVars, role, status, lost, history>>

\* The name of the inventory's secret is configurable and may be wrong.
FetchSecret(name) == IF name \in SecretNames THEN secrets[name] ELSE Unset

\* The parameters of the application's database, or Unset when the
\* configuration is malformed or one of the two secrets is.
LoadDBSecrets(sp, config) ==
  IF config = Unset THEN Unset
  ELSE IF LoadDBSecret(config, FetchSecret(config.InventoryDbSecret)) = Unset THEN Unset
  ELSE LoadDBSecret(config, FetchSecret(AppDbSecretName(sp)))

\* The rest of parseConfig, with the ConfigMap of the pipeline's namespace as
\* it is now, and the secrets.
LoadConfig(c) ==
  /\ run[c].phase = "config"
  /\ \E cm \in {Merge(run[c].cm, maps["own"])} :
     \E config \in {BuildCyndiConfig(run[c].spec, cm)} :
     \E db \in {LoadDBSecrets(run[c].spec, config)} :
       IF db = Unset THEN Fail(c)
       ELSE Goto(c, [run[c] EXCEPT !.cm = cm, !.config = config, !.db = db, !.phase = "connect"])
  /\ UNCHANGED role

\* AppDatabase.Connect.  A wrong password leads to rotatePassword, which puts
\* the initial one into the parameters and leaves it there.
Connect(c) ==
  /\ run[c].phase = "connect"
  /\ IF run[c].db.Password = role
     THEN Goto(c, [run[c] EXCEPT !.phase = "work"])
     ELSE Goto(c, [run[c] EXCEPT !.newPassword = run[c].db.Password,
                                 !.db.Password = initialPassword, !.phase = "rotate"])
  /\ UNCHANGED role

ConnectInitially(c) ==
  /\ run[c].phase = "rotate"
  /\ IF role = initialPassword THEN Goto(c, [run[c] EXCEPT !.phase = "alter"]) ELSE Fail(c)
  /\ UNCHANGED role

\* Mutant of AlterRole: the connection is used after the rotation.
AlterRoleAndGoOn(c) ==
  /\ run[c].phase = "alter"
  /\ role' = run[c].newPassword
  /\ Goto(c, [run[c] EXCEPT !.phase = "work"])

\* ALTER ROLE, over a connection that a change of the password does not close.
AlterRole(c) ==
  /\ run[c].phase = "alter"
  /\ role' = run[c].newPassword
  /\ Goto(c, [run[c] EXCEPT !.phase = "reconnect"])

Reconnect(c) ==
  /\ run[c].phase = "reconnect"
  /\ IF run[c].db.Password = role THEN Goto(c, [run[c] EXCEPT !.phase = "work"]) ELSE Fail(c)
  /\ UNCHANGED role
----------------------------------------------------------------------------
\* time.Second * time.Duration(interval) in an int64.
Delay(interval) == ((interval * Second + IntBound) % (2 * IntBound)) - IntBound

\* controller-runtime sets a timer only for a positive RequeueAfter.
Requeues(interval) == Delay(interval) > 0

RequeueInterval(c, it, new) ==
  IF c = "pipeline" THEN it.config.StandardInterval
  ELSE IF new.initsync THEN it.config.InitInterval ELSE it.config.Interval

\* Who hears of a new status: eventFilterPredicate lets the validation
\* controller see only the beginning of a synchronization.
StatusEvent(old, new) ==
  {"pipeline"} \cup (IF ~old.initsync /\ new.initsync THEN {"validation"} ELSE {})

\* A failing verdict is a change even when its count is no longer told apart.
Changed(c, new) == new # run[c].status \/ (c = "validation" /\ new.valid = "False")

HoldsInitialPassword(s) ==
  /\ s.built /\ Ephemeral
  /\ "DBPassword" \in DOMAIN s.connector.config /\ s.connector.config["DBPassword"] = initialPassword

\* updateStatusAndRequeue.  A write over another one is refused and the
\* request queued again; the connector that was created before it remains.
UpdateStatusAndRequeue(c, new) ==
  /\ run' = [run EXCEPT ![c] = Idle]
  /\ LET timer == IF Requeues(RequeueInterval(c, run[c], new)) THEN {c} ELSE {} IN
     \/ /\ ~Changed(c, new)
        /\ queue' = queue \cup timer
        /\ UNCHANGED <<status, lost, fresh>>
     \/ /\ Changed(c, new) /\ c \in fresh
        /\ status' = new
        /\ lost' = (lost /\ status.built /\ new.built)
        /\ queue' = queue \cup timer \cup StatusEvent(status, new)
        /\ fresh' = {}
     \/ /\ Changed(c, new) /\ c \notin fresh
        /\ queue' = queue \cup {c}
        /\ UNCHANGED <<status, lost, fresh>>
  /\ history' = history \cup (IF c = "pipeline" /\ c \notin queue' THEN {"asleep"} ELSE {})
                        \cup (IF HoldsInitialPassword(new) THEN {"rendered"} ELSE {})
  /\ UNCHANGED <<envVars, role>>

FailReconcile(c) == Fail(c) /\ UNCHANGED role

\* STATE_NEW: table and connector are created.  What it is built from is
\* recorded (`from`) for the properties.
Build ==
  LET it == run["pipeline"] IN
  /\ it.phase = "work" /\ ~it.status.built
  /\ \E table \in {TableScript(it.config)},
        connector \in {newConnectorResource(it.spec, it.config, it.db, Ephemeral)} :
       IF table = Unset \/ connector = Unset THEN FailReconcile("pipeline")
       ELSE UpdateStatusAndRequeue("pipeline",
              [built |-> TRUE, initsync |-> TRUE, valid |-> "Unknown", failed |-> 0,
               cmver |-> it.config.ConfigMapVersion, spechash |-> it.config.SpecHash,
               table |-> table, connector |-> connector, from |-> [cm |-> it.cm, spec |-> it.spec]])

\* The validation controller has nothing to do in state New and sets no timer.
NothingToValidate ==
  /\ run["validation"].phase = "work" /\ ~run["validation"].status.built
  /\ run' = [run EXCEPT !["validation"] = Idle]
  /\ UNCHANGED <<envVars, role, status, lost, fresh, queue, history>>

\* Whether the table or the connector of c's copy is found missing or failed.
\* Behind a copy that is out of date they may have been replaced.
Missing(c) == {lost} \cup (IF c \in fresh THEN {} ELSE {TRUE})

\* Mutant of checkForDeviation: the connector is not compared.
checkHashes(it, missing) ==
  IF it.status.cmver # it.config.ConfigMapVersion \/ it.status.spechash # it.config.SpecHash \/ missing
  THEN "problem" ELSE "none"

checkForDeviation(it, missing) ==
  LET connector == newConnectorResource(it.spec, it.config, it.db, Ephemeral) IN
  IF it.status.cmver # it.config.ConfigMapVersion \/ it.status.spechash # it.config.SpecHash \/ missing
  THEN "problem"
  ELSE IF connector = Unset THEN "error"
  ELSE IF it.status.connector # connector THEN "problem" ELSE "none"

TransitionToNew(s) ==
  [s EXCEPT !.built = FALSE, !.initsync = FALSE, !.valid = "Unknown", !.failed = 0]

\* SetValid after a successful and after a failed validation.
SetTrue(s) == [s EXCEPT !.valid = "True", !.failed = 0, !.initsync = FALSE]
SetFalse(s) == [s EXCEPT !.valid = "False", !.failed = IF @ < MaxFailed THEN @ + 1 ELSE @]

\* getValidationConfig().AttemptsThreshold
AttemptsThreshold(it) ==
  IF it.status.initsync THEN it.config.InitAttemptsThreshold ELSE it.config.AttemptsThreshold

AttemptsUsedUp(it) == it.status.valid = "False" /\ it.status.failed >= AttemptsThreshold(it)

\* Without a deviation: the validation controller sets its verdict, and the
\* pipeline controller refreshes a pipeline that failed too often.
Verdicts(c) ==
  IF c = "validation" THEN {SetTrue(run[c].status), SetFalse(run[c].status)}
  ELSE IF AttemptsUsedUp(run[c]) THEN {TransitionToNew(run[c].status)} ELSE {run[c].status}

Check(c) ==
  /\ run[c].phase = "work" /\ run[c].status.built
  /\ \E missing \in Missing(c) : \E found \in {checkForDeviation(run[c], missing)} :
     \/ found = "problem" /\ UpdateStatusAndRequeue(c, TransitionToNew(run[c].status))
     \/ found = "error" /\ FailReconcile(c)
     \/ found = "none" /\ \E s \in Verdicts(c) : UpdateStatusAndRequeue(c, s)

Reconcile(c) ==
  \/ Begin(c) \/ LoadConfig(c)
  \/ Connect(c) \/ ConnectInitially(c) \/ AlterRole(c) \/ Reconnect(c)
  \/ Check(c)

PipelineNext == Reconcile("pipeline") \/ Build
ValidationNext == Reconcile("validation") \/ NothingToValidate
----------------------------------------------------------------------------
Changing == changes < MaxChanges /\ changes' = changes + 1

\* The event of a ConfigMap becomes requests in the map's own namespace.
MapEvent(namespace) == IF namespace = "own" THEN {"pipeline"} ELSE {}

ConfigMapChanges(namespace, data) ==
  /\ Changing
  /\ data # maps[namespace]
  /\ maps' = [maps EXCEPT ![namespace] = data]
  /\ queue' = queue \cup MapEvent(namespace)
  /\ history' = IF MapEvent(namespace) = {} THEN history \cup {"silent"} ELSE history
  /\ UNCHANGED <<spec, secrets, role, status, lost, fresh, run>>

SpecChanges(new) ==
  /\ Changing
  /\ new # spec
  /\ spec' = new
  /\ fresh' = {}
  /\ queue' = Controllers
  /\ UNCHANGED <<maps, secrets, role, status, lost, run, history>>

\* Secrets are not watched.
SecretChanges(name, data) ==
  /\ Changing
  /\ data # secrets[name]
  /\ secrets' = [secrets EXCEPT ![name] = data]
  /\ history' = history \cup {"silent"} \cup SecretMarks(data)
  /\ UNCHANGED <<maps, spec, role, status, lost, fresh, run, queue>>

\* An administrator gives the role the password of some secret, or the initial
\* one again.
RoleChanges(password) ==
  /\ Changing
  /\ password # role
  /\ role' = password
  /\ history' = history \cup {"silent"} \cup (IF password = initialPassword THEN {"given"} ELSE {})
  /\ UNCHANGED <<maps, spec, secrets, status, lost, fresh, run, queue>>

\* Somebody drops the table, or the connector is deleted or fails.  Only the
\* connector is watched.
Damaged(what) ==
  /\ Changing
  /\ status.built /\ ~lost
  /\ lost' = TRUE
  /\ queue' = IF what = "connector" THEN queue \cup {"pipeline"} ELSE queue
  /\ history' = IF what = "connector" THEN history ELSE history \cup {"silent"}
  /\ UNCHANGED <<maps, spec, secrets, role, status, fresh, run>>

\* A call fails, or the process restarts and lists all resources.
Interrupted(c) ==
  /\ Changing
  /\ run[c].phase # "idle"
  /\ run' = [run EXCEPT ![c] = Idle]
  /\ queue' = queue \cup {c}
  /\ UNCHANGED <<maps, spec, secrets, role, status, lost, fresh, history>>

AllSecrets == UNION {Secrets[n] : n \in SecretNames}

Passwords == {initialPassword} \cup {s["db.password"] : s \in {s \in AllSecrets : Complete(s)}}

Environment ==
  \/ \E n \in {"global", "own"} : \E m \in ConfigMaps[n] : ConfigMapChanges(n, m)
  \/ \E s \in Specs : SpecChanges(s)
  \/ \E n \in SecretNames : \E s \in Secrets[n] \cup {Unset} : SecretChanges(n, s)
  \/ \E p \in Passwords : RoleChanges(p)
  \/ \E what \in {"table", "connector"} : Damaged(what)
  \/ \E c \in Controllers : Interrupted(c)

Next == PipelineNext \/ ValidationNext \/ Environment

Spec == Init /\ [][Next]_vars

\* A request that is queued is served, and a reconcile goes on.
LiveSpec == Spec /\ WF_vars(PipelineNext) /\ WF_vars(ValidationNext)
----------------------------------------------------------------------------
IterationOK(it) ==
  /\ it.phase \in {"idle", "config", "connect", "rotate", "alter", "reconnect", "work"}
  /\ it.spec \in Specs \cup {Unset}
  /\ it.config # Unset => \A f \in DOMAIN IntKeys : it.config[f] \in Int
  /\ it.phase \in {"connect", "rotate", "alter", "reconnect", "work"} =>
       it.config # Unset /\ it.db.Password \in Passwords
  /\ it.phase = "alter" => it.newPassword \in Passwords

\* Type invariant.  An iteration beyond parseConfig has a number in every
\* numeric field of its configuration, whatever the ConfigMaps say.
TypeOK ==
  /\ \A n \in {"global", "own"} : maps[n] \in ConfigMaps[n]
  /\ spec \in Specs
  /\ secrets \in [SecretNames -> AllSecrets \cup {Unset}]
  /\ role \in Passwords
  /\ status.built \in BOOLEAN /\ status.initsync \in BOOLEAN /\ lost \in BOOLEAN
  /\ status.built => status.table # Unset /\ status.connector # Unset
  /\ status.failed \in 0..MaxFailed /\ (status.valid = "False" <=> status.failed > 0)
  /\ fresh \subseteq Controllers /\ queue \subseteq Controllers
  /\ \A c \in Controllers : IterationOK(run[c])
  /\ history \subseteq {"silent", "asleep", "given", "rendered"} /\ changes \in 0..MaxChanges

\* Rotation puts the initial password into the parameters that a connector is
\* rendered from.  No connector is created with it, whether or not its status
\* is written, unless a secret held that password or somebody gave it to the
\* role again.
NoInitialPassword == "rendered" \in history => "given" \in history

\* The part of the ConfigMaps that enters the hash.
Data(cm) == Omit(cm, keysIgnoredByRefresh)

\* The controller c has read something that the pipeline was not built from.
Deviates(c) ==
  \/ run[c].spec # status.from.spec
  \/ Data(run[c].cm) # Data(status.from.cm)
  \/ newConnectorResource(run[c].spec, run[c].config, run[c].db, Ephemeral) # status.connector

\* A pipeline that was built is discarded by a controller that has read
\* another spec, other data or the first or the last key of any kind in the
\* ConfigMaps, or would render another connector, or found the table or the
\* connector missing, or found the attempts used up, by the threshold it has
\* read.  Intervals and percentages are none of these reasons.
NoNeedlessRefresh ==
  [][status.built /\ ~status'.built =>
       \E c \in Controllers :
         /\ run[c].phase = "work"
         /\ \/ Deviates(c)
            \/ (DOMAIN run[c].cm = {}) # (DOMAIN status.from.cm = {})
            \/ lost
            \/ c = "pipeline" /\ AttemptsUsedUp(run[c])]_vars

\* What the comment on keysIgnoredByRefresh says (controllers/config/config.go,
\* lines 20 and 21): a change of these keys does not trigger a refresh.  A
\* pipeline is only discarded when its own configuration, with those keys as
\* they were when it was built, is a reason as well.
IgnoredKeysDoNotRefresh ==
  [][status.built /\ ~status'.built =>
       \/ lost
       \/ \E c \in Controllers :
            /\ run[c].phase = "work"
            /\ \/ Deviates(c)
               \/ c = "pipeline" /\ AttemptsUsedUp([run[c] EXCEPT
                    !.config = BuildCyndiConfig(status.from.spec, status.from.cm)])]_vars

\* What the present ConfigMaps, spec and secrets say.
Present ==
  LET cm     == Merge(maps["global"], maps["own"])
      config == BuildCyndiConfig(spec, cm)
  IN  [cm |-> cm, config |-> config, db |-> LoadDBSecrets(spec, config)]

\* Nothing can be built from it, or the database is closed to the operator: the
\* role has neither the secret's password nor the initial one.
Unusable(p) ==
  \/ p.db = Unset
  \/ role \notin {initialPassword, p.db.Password}
  \/ TableScript(p.config) = Unset
  \/ p.config.ConnectorTemplate \notin DOMAIN Mentions

\* Two different ConfigMaps or specs have one hash.
Collision(p) ==
  \/ Data(status.from.cm) # Data(p.cm) /\ status.cmver = p.config.ConfigMapVersion
  \/ status.from.spec # spec /\ status.spechash = p.config.SpecHash

\* Connector and table exist and are those of the configuration.
Applied(p) ==
  /\ ~lost
  /\ status.connector = newConnectorResource(spec, p.config, p.db, Ephemeral)
  /\ status.table = TableScript(p.config) \/ Collision(p)

\* A change without an event may be missed when some interval left the timer off.
Missed == {"silent", "asleep"} \subseteq history

Excused(p) == Missed \/ Unusable(p)

\* The configuration is rolled out in the end: a pipeline is built again and
\* again, if not once and for all, and connector and table are in the end
\* always those of the present ConfigMaps, spec and secret, in spite of
\* ConfigMaps that change between the two reads, of conflicts, of hashes that
\* collide (the connector), of a role that still has its initial password, of
\* tables and connectors that get lost and of refreshes that never succeed.
RolledOut ==
  /\ []<>(status.built \/ Excused(Present))
  /\ <>[](status.built => Excused(Present) \/ Applied(Present))
=============================================================================
