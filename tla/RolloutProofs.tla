---------------------------- MODULE RolloutProofs ----------------------------
(***************************************************************************)
(* A configuration on its way to the connector, for any ConfigMaps, specs, *)
(* secrets, hashes and number of changes: what an iteration carries from   *)
(* one call of setup() to the next is well formed, rotation lets no        *)
(* connector be created with the initial password, and a pipeline is only  *)
(* discarded for one of a few reasons.                                     *)
(***************************************************************************)
EXTENDS Rollout, TLAPS

Phases == {"idle", "config", "connect", "rotate", "alter", "reconnect", "work"}

\* The phases after parseConfig, and those with the initial password in the
\* parameters of the database.
Loaded == {"connect", "rotate", "alter", "reconnect", "work"}
Rotating == {"rotate", "alter", "reconnect"}

DBFields == {"Host", "User", "Password", "Name", "Port", "SSLMode", "SSLRootCert"}

IterationFields == {"phase", "spec", "status", "cm", "config", "db", "newPassword"}
StatusFields ==
  {"built", "initsync", "valid", "failed", "cmver", "spechash", "table", "connector", "from"}

\* Validations that failed are counted.
Counted(s) == s.failed \in 0..MaxFailed /\ (s.valid = "False" <=> s.failed > 0)

\* A status that describes what was built from status.from.
StatusSound(s) ==
  /\ DOMAIN s = StatusFields
  /\ s.built \in BOOLEAN /\ s.initsync \in BOOLEAN /\ Counted(s)
  /\ s.built => /\ s.table # Unset /\ s.connector # Unset
                /\ s.cmver = ConfigMapHash(s.from.cm) /\ s.spechash = SpecHash(s.from.spec)

\* A configuration built from a spec and the ConfigMaps.
ConfigSound(config, sp, cm) ==
  /\ config # Unset
  /\ \A f \in DOMAIN IntKeys : config[f] \in Int
  /\ config.ConfigMapVersion = ConfigMapHash(cm) /\ config.SpecHash = SpecHash(sp)

\* What an iteration holds in each phase.
IterationSound(it) ==
  /\ DOMAIN it = IterationFields
  /\ it.phase \in Phases
  /\ it.phase = "idle" => it.spec = Unset
  /\ it.phase # "idle" => it.spec \in Specs /\ StatusSound(it.status)
  /\ it.phase \in {"idle", "config"} => it.config = Unset
  /\ it.phase \in Loaded => DOMAIN it.db = DBFields /\ ConfigSound(it.config, it.spec, it.cm)
  /\ it.phase \in Loaded => it.db.Password \in Passwords
  /\ it.phase \in Rotating => it.db.Password = initialPassword /\ it.newPassword \in Passwords

EnvInv ==
  /\ DOMAIN maps = {"global", "own"}
  /\ maps["global"] \in ConfigMaps["global"] /\ maps["own"] \in ConfigMaps["own"]
  /\ spec \in Specs
  /\ secrets \in [SecretNames -> AllSecrets \cup {Unset}]
  /\ role \in Passwords
  /\ changes \in 0..MaxChanges

QueueInv ==
  /\ fresh \subseteq Controllers /\ queue \subseteq Controllers
  /\ history \subseteq {"silent", "asleep", "given", "rendered"} /\ lost \in BOOLEAN

RunInv ==
  /\ DOMAIN run = Controllers
  /\ \A c \in Controllers : IterationSound(run[c])

\* A copy with the current resourceVersion has the current status.
FreshInv == \A c \in fresh : run[c].phase # "idle" => run[c].status = status

RolloutInv == EnvInv /\ QueueInv /\ StatusSound(status) /\ RunInv /\ FreshInv
----------------------------------------------------------------------------
(***************************************************************************)
(* What the operators of Config return.                                    *)
(***************************************************************************)

\* A numeric field of the spec or of a ConfigMap is a number or an error.
LEMMA IntValueType ==
  ASSUME NEW sp \in Specs, NEW cm, NEW f \in DOMAIN IntKeys
  PROVE  IntValue(sp, cm, f) = Unset \/ IntValue(sp, cm, f) \in Int
<1>1. CASE Overridden(sp, f)
  <2>1. Overrides[f] \in {"maxAge", "validationThreshold"}
    BY <1>1 DEF Overridden, Overrides, IntKeys
  <2> QED
    BY <1>1, <2>1, SpecsAssumption DEF IntValue
<1>2. CASE ~Overridden(sp, f)
  <2>1. IntDefaults[f] \in Int
    BY DEF IntDefaults, IntKeys
  <2> QED
    BY <1>2, <2>1, NumberAssumption DEF IntValue, getIntValue
<1> QED
  BY <1>1, <1>2

\* BuildCyndiConfig returns an error or a configuration of its arguments.
LEMMA ConfigIsSound ==
  ASSUME NEW sp \in Specs, NEW cm, BuildCyndiConfig(sp, cm) # Unset
  PROVE  ConfigSound(BuildCyndiConfig(sp, cm), sp, cm)
<1>1. /\ BuildCyndiConfig(sp, cm) = ConfigValues(sp, cm)
      /\ \A f \in DOMAIN IntKeys : IntValue(sp, cm, f) # Unset
  BY DEF BuildCyndiConfig
<1>2. \A f \in DOMAIN IntKeys :
        /\ f \in ConfigFields /\ f \notin DOMAIN StringKeys
        /\ f \notin {"DBTableIndexSQL", "ConfigMapVersion", "SpecHash"}
  BY DEF IntKeys, StringKeys, ConfigFields
<1>3. \A f \in DOMAIN IntKeys : ConfigValues(sp, cm)[f] = IntValue(sp, cm, f)
  BY <1>2 DEF ConfigValues
<1>4. \A f \in DOMAIN IntKeys : ConfigValues(sp, cm)[f] \in Int
  BY <1>1, <1>3, IntValueType
<1>5. \A f \in {"ConfigMapVersion", "SpecHash"} :
        f \in ConfigFields /\ f \notin DOMAIN StringKeys /\ f \notin DOMAIN IntKeys
  BY DEF IntKeys, StringKeys, ConfigFields
<1>6. /\ ConfigValues(sp, cm).ConfigMapVersion = ConfigMapHash(cm)
      /\ ConfigValues(sp, cm).SpecHash = SpecHash(sp)
  BY <1>5 DEF ConfigValues
<1> QED
  BY <1>1, <1>4, <1>6 DEF ConfigSound

\* Parameters that are loaded hold the password of a complete secret.
LEMMA SecretsLoaded ==
  ASSUME EnvInv, NEW sp, NEW config, LoadDBSecrets(sp, config) # Unset
  PROVE  /\ config # Unset
         /\ DOMAIN LoadDBSecrets(sp, config) = DBFields
         /\ LoadDBSecrets(sp, config).Password \in Passwords
         /\ (\A n \in SecretNames : SecretMarks(secrets[n]) = {}) =>
              LoadDBSecrets(sp, config).Password # initialPassword
<1> DEFINE secret == FetchSecret(AppDbSecretName(sp))
<1>1. config # Unset /\ LoadDBSecrets(sp, config) = LoadDBSecret(config, secret)
  BY DEF LoadDBSecrets
<1>2. /\ secret \in AllSecrets \cup {Unset}
      /\ (\A n \in SecretNames : SecretMarks(secrets[n]) = {}) =>
           secret = Unset \/ SecretMarks(secret) = {}
  BY DEF EnvInv, FetchSecret
<1> HIDE DEF secret
<1>3. secret # Unset /\ Complete(secret)
  BY <1>1 DEF LoadDBSecret
<1>4. LoadDBSecret(config, secret) =
        [Host |-> secret["db.host"], User |-> secret["db.user"], Password |-> secret["db.password"],
         Name |-> secret["db.name"], Port |-> secret["db.port"],
         SSLMode |-> config.SSLMode, SSLRootCert |-> config.SSLRootCert]
  BY <1>3 DEF LoadDBSecret
<1>5. secret["db.password"] \in Passwords
  BY <1>2, <1>3 DEF Passwords
<1>6. SecretMarks(secret) = {} => secret["db.password"] # initialPassword
  BY <1>3 DEF SecretMarks, Complete
<1> QED
  BY <1>1, <1>2, <1>3, <1>4, <1>5, <1>6 DEF DBFields

\* Equal data and the same emptiness make equal hashes.
LEMMA HashIgnores ==
  ASSUME NEW a, NEW b, Data(a) = Data(b), (DOMAIN a = {}) <=> (DOMAIN b = {})
  PROVE  ConfigMapHash(a) = ConfigMapHash(b)
BY DEF ConfigMapHash, Data

----------------------------------------------------------------------------
(***************************************************************************)
(* Each assignment to an iteration leaves it sound.                        *)
(***************************************************************************)

LEMMA IdleIsSound == IterationSound(Idle) /\ Idle.phase = "idle"
BY DEF IterationSound, IterationFields, Idle, Phases, Loaded, Rotating

LEMMA EmptyIsSound == StatusSound(Empty)
BY BoundsAssumption DEF StatusSound, StatusFields, Counted, Empty

\* A phase that leads to another with the same demands.
LEMMA PhaseIsSound ==
  ASSUME NEW it, IterationSound(it), NEW p,
         \/ it.phase = "connect" /\ p = "work"
         \/ it.phase \in Rotating /\ p \in Rotating \cup {"work"}
  PROVE  /\ IterationSound([it EXCEPT !.phase = p])
         /\ [it EXCEPT !.phase = p].phase = p /\ [it EXCEPT !.phase = p].status = it.status
BY DEF IterationSound, IterationFields, Phases, Loaded, Rotating

----------------------------------------------------------------------------
(***************************************************************************)
(* Steps that change one iteration.                                        *)
(***************************************************************************)

\* An iteration is replaced by a sound one that keeps its copy of the status.
LEMMA RunStep ==
  ASSUME RolloutInv, NEW c \in Controllers, NEW it, IterationSound(it),
         run' = [run EXCEPT ![c] = it], fresh' = fresh, status' = status,
         it.phase = "idle" \/ (run[c].phase # "idle" /\ it.status = run[c].status)
  PROVE  /\ RunInv' /\ FreshInv'
         /\ \A d \in Controllers : run'[d] = run[d] \/ (d = c /\ run'[d] = it)
<1>1. DOMAIN run' = Controllers /\ run'[c] = it
  BY DEF RolloutInv, RunInv
<1>2. \A d \in Controllers : d # c => run'[d] = run[d]
  BY DEF RolloutInv, RunInv
<1>3. RunInv'
  BY <1>1, <1>2 DEF RolloutInv, RunInv
<1>4. FreshInv'
  BY <1>1, <1>2 DEF RolloutInv, FreshInv, QueueInv
<1> QED
  BY <1>1, <1>2, <1>3, <1>4

LEMMA GotoStep ==
  ASSUME RolloutInv, NEW c \in Controllers, NEW it, IterationSound(it), Goto(c, it),
         run[c].phase # "idle", it.status = run[c].status, role' \in Passwords
  PROVE  RolloutInv'
<1>1. RunInv' /\ FreshInv'
  BY RunStep DEF Goto
<1>2. (EnvInv /\ QueueInv /\ StatusSound(status))'
  BY DEF RolloutInv, EnvInv, QueueInv, Goto, envVars
<1> QED
  BY <1>1, <1>2 DEF RolloutInv

LEMMA FailStep ==
  ASSUME RolloutInv, NEW c \in Controllers, Fail(c), role' = role
  PROVE  RolloutInv'
<1>1. RunInv' /\ FreshInv'
  BY RunStep, IdleIsSound DEF Fail
<1>2. (EnvInv /\ QueueInv /\ StatusSound(status))'
  BY DEF RolloutInv, EnvInv, QueueInv, Fail, envVars
<1> QED
  BY <1>1, <1>2 DEF RolloutInv

LEMMA BeginStep ==
  ASSUME RolloutInv, NEW c \in Controllers, Begin(c)
  PROVE  RolloutInv'
<1> DEFINE it == [Idle EXCEPT !.phase = "config", !.spec = spec, !.status = status,
                              !.cm = maps["global"]]
<1>1. it = [Idle EXCEPT !.phase = "config", !.spec = spec, !.status = status,
                        !.cm = maps["global"]]
  OBVIOUS
<1>2. /\ run' = [run EXCEPT ![c] = it] /\ queue' = queue \ {c} /\ fresh' = fresh \cup {c}
      /\ UNCHANGED <<envVars, role, status, lost, history>>
  BY DEF Begin
<1> HIDE DEF it
<1>8. IterationSound(it) /\ it.phase = "config" /\ it.status = status
  <2>1. spec \in Specs /\ StatusSound(status)
    BY DEF RolloutInv, EnvInv
  <2> QED
    BY <1>1, <2>1 DEF IterationSound, IterationFields, Idle, Phases, Loaded, Rotating
<1>3. DOMAIN run' = Controllers /\ run'[c] = it /\ \A d \in Controllers : d # c => run'[d] = run[d]
  BY <1>2 DEF RolloutInv, RunInv
<1>4. RunInv'
  BY <1>8, <1>3 DEF RolloutInv, RunInv
<1>6. FreshInv'
  BY <1>8, <1>2, <1>3 DEF RolloutInv, FreshInv, QueueInv
<1>7. (EnvInv /\ QueueInv /\ StatusSound(status))'
  BY <1>2 DEF RolloutInv, EnvInv, QueueInv, envVars
<1> QED
  BY <1>4, <1>6, <1>7 DEF RolloutInv

LEMMA LoadConfigStep ==
  ASSUME RolloutInv, NEW c \in Controllers, LoadConfig(c)
  PROVE  RolloutInv'
<1> DEFINE cm     == Merge(run[c].cm, maps["own"])
           config == BuildCyndiConfig(run[c].spec, cm)
           db     == LoadDBSecrets(run[c].spec, config)
           it     == [run[c] EXCEPT !.cm = cm, !.config = config, !.db = db, !.phase = "connect"]
<1>1. run[c].phase = "config" /\ role' = role
  BY DEF LoadConfig
<1>2. IterationSound(run[c]) /\ run[c].spec \in Specs
  BY <1>1 DEF RolloutInv, RunInv, IterationSound
<1>3. IF db = Unset THEN Fail(c) ELSE Goto(c, it)
  BY DEF LoadConfig
<1>4. CASE db = Unset
  BY <1>1, <1>3, <1>4, FailStep
<1>5. CASE db # Unset
  <2>1. config # Unset /\ DOMAIN db = DBFields /\ db.Password \in Passwords
    BY <1>5, SecretsLoaded DEF RolloutInv
  <2> HIDE DEF cm, db
  <2>2. ConfigSound(config, run[c].spec, cm)
    BY <1>2, <2>1, ConfigIsSound
  <2> HIDE DEF config
  <2>3. it = [run[c] EXCEPT !.cm = cm, !.config = config, !.db = db, !.phase = "connect"]
    OBVIOUS
  <2>4. Goto(c, it)
    BY <1>3, <1>5
  <2> HIDE DEF it
  <2>6. IterationSound(it) /\ it.phase = "connect" /\ it.status = run[c].status
    BY <1>1, <1>2, <2>1, <2>2, <2>3 DEF IterationSound, IterationFields, Phases, Loaded, Rotating
  <2>5. role \in Passwords
    BY DEF RolloutInv, EnvInv
  <2> QED
    BY <1>1, <2>4, <2>5, <2>6, GotoStep
<1> QED
  BY <1>4, <1>5

LEMMA ConnectStep ==
  ASSUME RolloutInv, NEW c \in Controllers, Connect(c)
  PROVE  RolloutInv'
<1> DEFINE working == [run[c] EXCEPT !.phase = "work"]
           rotating == [run[c] EXCEPT !.newPassword = run[c].db.Password,
                                      !.db.Password = initialPassword, !.phase = "rotate"]
<1>1. run[c].phase = "connect" /\ role' = role /\ role \in Passwords
  BY DEF Connect, RolloutInv, EnvInv
<1>2. IterationSound(run[c])
  BY DEF RolloutInv, RunInv
<1>3. Goto(c, working) \/ Goto(c, rotating)
  BY DEF Connect
<1>4. IterationSound(working) /\ working.phase = "work" /\ working.status = run[c].status
  BY <1>1, <1>2, PhaseIsSound
<1>5. IterationSound(rotating) /\ rotating.phase = "rotate" /\ rotating.status = run[c].status
  <2>1. initialPassword \in Passwords
    BY DEF Passwords
  <2> QED
    BY <1>1, <1>2, <2>1 DEF IterationSound, IterationFields, Phases, Loaded, Rotating, DBFields
<1> HIDE DEF working, rotating
<1>6. CASE Goto(c, working)
  BY <1>1, <1>4, <1>6, GotoStep
<1>7. CASE Goto(c, rotating)
  BY <1>1, <1>5, <1>7, GotoStep
<1> QED
  BY <1>3, <1>6, <1>7

LEMMA ConnectInitiallyStep ==
  ASSUME RolloutInv, NEW c \in Controllers, ConnectInitially(c)
  PROVE  RolloutInv'
<1> DEFINE it == [run[c] EXCEPT !.phase = "alter"]
<1>1. run[c].phase = "rotate" /\ role' = role /\ role \in Passwords
  BY DEF ConnectInitially, RolloutInv, EnvInv
<1>2. IterationSound(run[c])
  BY DEF RolloutInv, RunInv
<1>3. Goto(c, it) \/ Fail(c)
  BY DEF ConnectInitially
<1>4. IterationSound(it) /\ it.phase = "alter" /\ it.status = run[c].status
  BY <1>1, <1>2, PhaseIsSound DEF Rotating
<1> HIDE DEF it
<1>5. CASE Goto(c, it)
  BY <1>1, <1>4, <1>5, GotoStep
<1>6. CASE Fail(c)
  BY <1>1, <1>6, FailStep
<1> QED
  BY <1>3, <1>5, <1>6

LEMMA AlterRoleStep ==
  ASSUME RolloutInv, NEW c \in Controllers, AlterRole(c)
  PROVE  RolloutInv'
<1> DEFINE it == [run[c] EXCEPT !.phase = "reconnect"]
<1>1. run[c].phase = "alter" /\ role' = run[c].newPassword /\ Goto(c, it)
  BY DEF AlterRole
<1>2. IterationSound(run[c])
  BY DEF RolloutInv, RunInv
<1>3. role' \in Passwords
  BY <1>1, <1>2 DEF IterationSound, Rotating
<1>4. IterationSound(it) /\ it.phase = "reconnect" /\ it.status = run[c].status
  BY <1>1, <1>2, PhaseIsSound DEF Rotating
<1> HIDE DEF it
<1> QED
  BY <1>1, <1>3, <1>4, GotoStep

LEMMA ReconnectStep ==
  ASSUME RolloutInv, NEW c \in Controllers, Reconnect(c)
  PROVE  RolloutInv'
<1> DEFINE it == [run[c] EXCEPT !.phase = "work"]
<1>1. run[c].phase = "reconnect" /\ role' = role /\ role \in Passwords
  BY DEF Reconnect, RolloutInv, EnvInv
<1>2. IterationSound(run[c])
  BY DEF RolloutInv, RunInv
<1>3. Goto(c, it) \/ Fail(c)
  BY DEF Reconnect
<1>4. IterationSound(it) /\ it.phase = "work" /\ it.status = run[c].status
  BY <1>1, <1>2, PhaseIsSound DEF Rotating
<1> HIDE DEF it
<1>5. CASE Goto(c, it)
  BY <1>1, <1>4, <1>5, GotoStep
<1>6. CASE Fail(c)
  BY <1>1, <1>6, FailStep
<1> QED
  BY <1>3, <1>5, <1>6

----------------------------------------------------------------------------
(***************************************************************************)
(* Steps that end an iteration.                                            *)
(***************************************************************************)

LEMMA UpdateStep ==
  ASSUME RolloutInv, NEW c \in Controllers, NEW new, StatusSound(new),
         UpdateStatusAndRequeue(c, new)
  PROVE  RolloutInv'
<1>1. run' = [run EXCEPT ![c] = Idle] /\ UNCHANGED <<envVars, role>>
  BY DEF UpdateStatusAndRequeue
<1>2. DOMAIN run' = Controllers /\ run'[c] = Idle /\ \A d \in Controllers : d # c => run'[d] = run[d]
  BY <1>1 DEF RolloutInv, RunInv
<1>3. RunInv'
  BY <1>2, IdleIsSound DEF RolloutInv, RunInv
<1>4. EnvInv'
  BY <1>1 DEF RolloutInv, EnvInv, envVars
<1>5. /\ (status' = status /\ fresh' = fresh) \/ (status' = new /\ fresh' = {})
      /\ queue' \subseteq Controllers /\ lost' \in BOOLEAN
  BY DEF UpdateStatusAndRequeue, RolloutInv, QueueInv, StatusEvent, Controllers
<1>6. history' \subseteq {"silent", "asleep", "given", "rendered"}
  BY DEF UpdateStatusAndRequeue, RolloutInv, QueueInv
<1>7. QueueInv' /\ StatusSound(status)'
  BY <1>5, <1>6 DEF RolloutInv, QueueInv
<1>8. FreshInv'
  BY <1>2, <1>5, IdleIsSound DEF RolloutInv, FreshInv, QueueInv
<1> QED
  BY <1>3, <1>4, <1>7, <1>8 DEF RolloutInv

\* STATE_NEW: the status records what it was built from.
LEMMA BuildStep ==
  ASSUME RolloutInv, Build
  PROVE  RolloutInv'
<1> DEFINE it == run["pipeline"]
           table == TableScript(it.config)
           connector == newConnectorResource(it.spec, it.config, it.db, Ephemeral)
           from == [cm |-> it.cm, spec |-> it.spec]
           new == [built |-> TRUE, initsync |-> TRUE, valid |-> "Unknown", failed |-> 0,
                   cmver |-> it.config.ConfigMapVersion, spechash |-> it.config.SpecHash,
                   table |-> table, connector |-> connector, from |-> from]
<1>1. "pipeline" \in Controllers /\ it.phase = "work"
  BY DEF Build, Controllers
<1>2. IF table = Unset \/ connector = Unset THEN FailReconcile("pipeline")
      ELSE UpdateStatusAndRequeue("pipeline", new)
  BY DEF Build
<1>3. CASE table = Unset \/ connector = Unset
  BY <1>1, <1>2, <1>3, FailStep DEF FailReconcile
<1>4. CASE table # Unset /\ connector # Unset
  <2>1. /\ it.config.ConfigMapVersion = ConfigMapHash(it.cm)
        /\ it.config.SpecHash = SpecHash(it.spec)
    BY <1>1 DEF RolloutInv, RunInv, IterationSound, Loaded, ConfigSound
  <2>2. UpdateStatusAndRequeue("pipeline", new)
    BY <1>2, <1>4
  <2>3. from.cm = it.cm /\ from.spec = it.spec
    OBVIOUS
  <2> HIDE DEF table, connector, from, it
  <2>4. StatusSound(new)
    BY <1>4, <2>1, <2>3, BoundsAssumption DEF StatusSound, StatusFields, Counted
  <2> HIDE DEF new
  <2> QED
    BY <1>1, <2>2, <2>4, UpdateStep
<1> QED
  BY <1>3, <1>4

LEMMA NothingToValidateStep ==
  ASSUME RolloutInv, NothingToValidate
  PROVE  RolloutInv'
<1>1. "validation" \in Controllers
  BY DEF Controllers
<1>2. RunInv' /\ FreshInv'
  BY <1>1, RunStep, IdleIsSound DEF NothingToValidate
<1>3. (EnvInv /\ QueueInv /\ StatusSound(status))'
  BY DEF RolloutInv, EnvInv, QueueInv, NothingToValidate, envVars
<1> QED
  BY <1>2, <1>3 DEF RolloutInv

\* Discarding a pipeline and the verdicts keep a status sound.
LEMMA StatusChanges ==
  ASSUME NEW s, StatusSound(s)
  PROVE  /\ StatusSound(TransitionToNew(s)) /\ ~TransitionToNew(s).built
         /\ StatusSound(SetTrue(s)) /\ SetTrue(s).built = s.built
         /\ SetTrue(s).connector = s.connector
         /\ StatusSound(SetFalse(s)) /\ SetFalse(s).built = s.built
         /\ SetFalse(s).connector = s.connector
<1>1. MaxFailed \in Nat /\ MaxFailed > 0 /\ s.failed \in 0..MaxFailed
  BY BoundsAssumption DEF StatusSound, Counted
<1>2. StatusSound(TransitionToNew(s)) /\ ~TransitionToNew(s).built
  BY <1>1 DEF StatusSound, StatusFields, Counted, TransitionToNew
<1>3. StatusSound(SetTrue(s)) /\ SetTrue(s).built = s.built /\ SetTrue(s).connector = s.connector
  BY <1>1 DEF StatusSound, StatusFields, Counted, SetTrue
<1>4. StatusSound(SetFalse(s)) /\ SetFalse(s).built = s.built /\ SetFalse(s).connector = s.connector
  <2> DEFINE n == IF s.failed < MaxFailed THEN s.failed + 1 ELSE s.failed
  <2>1. n \in 0..MaxFailed /\ n > 0
    BY <1>1
  <2>2. SetFalse(s) = [s EXCEPT !.valid = "False", !.failed = n]
    BY DEF SetFalse
  <2> HIDE DEF n
  <2> QED
    BY <2>1, <2>2 DEF StatusSound, StatusFields, Counted
<1> QED
  BY <1>2, <1>3, <1>4

\* What Check does with the status.
LEMMA CheckEffect ==
  ASSUME RolloutInv, NEW c \in Controllers, Check(c)
  PROVE  /\ run[c].phase = "work" /\ run[c].status.built /\ StatusSound(run[c].status)
         /\ \/ FailReconcile(c)
            \/ \E s \in {TransitionToNew(run[c].status), SetTrue(run[c].status),
                         SetFalse(run[c].status), run[c].status} :
                 UpdateStatusAndRequeue(c, s)
<1>1. run[c].phase = "work" /\ run[c].status.built
  BY DEF Check
<1>2. StatusSound(run[c].status)
  BY <1>1 DEF RolloutInv, RunInv, IterationSound
<1>3. Verdicts(c) \subseteq {TransitionToNew(run[c].status), SetTrue(run[c].status),
                            SetFalse(run[c].status), run[c].status}
  BY DEF Verdicts
<1> QED
  BY <1>1, <1>2, <1>3 DEF Check

LEMMA CheckStep ==
  ASSUME RolloutInv, NEW c \in Controllers, Check(c)
  PROVE  RolloutInv'
<1>1. CASE FailReconcile(c)
  BY <1>1, FailStep DEF FailReconcile
<1>2. ASSUME NEW s \in {TransitionToNew(run[c].status), SetTrue(run[c].status),
                       SetFalse(run[c].status), run[c].status},
             UpdateStatusAndRequeue(c, s)
      PROVE  RolloutInv'
  <2>1. StatusSound(s)
    BY CheckEffect, StatusChanges
  <2> QED
    BY <1>2, <2>1, UpdateStep
<1> QED
  BY <1>1, <1>2, CheckEffect

----------------------------------------------------------------------------
(***************************************************************************)
(* The environment, and the invariant.                                     *)
(***************************************************************************)

LEMMA EnvironmentStep ==
  ASSUME RolloutInv, Environment
  PROVE  RolloutInv'
<1> USE DEF Changing
<1>0. ASSUME changes < MaxChanges, changes' = changes + 1
      PROVE  changes' \in 0..MaxChanges
  BY <1>0, BoundsAssumption DEF RolloutInv, EnvInv
<1>1. ASSUME NEW n \in {"global", "own"}, NEW m \in ConfigMaps[n], ConfigMapChanges(n, m)
      PROVE  RolloutInv'
  <2>1. DOMAIN maps' = {"global", "own"} /\ maps'["global"] \in ConfigMaps["global"]
        /\ maps'["own"] \in ConfigMaps["own"]
    BY <1>1 DEF RolloutInv, EnvInv, ConfigMapChanges
  <2>2. EnvInv'
    BY <1>0, <1>1, <2>1 DEF RolloutInv, EnvInv, ConfigMapChanges
  <2>3. QueueInv'
    BY <1>1 DEF RolloutInv, QueueInv, ConfigMapChanges, MapEvent, Controllers
  <2> QED
    BY <1>1, <2>2, <2>3 DEF RolloutInv, RunInv, FreshInv, ConfigMapChanges
<1>2. ASSUME NEW new \in Specs, SpecChanges(new)
      PROVE  RolloutInv'
  <2>1. EnvInv' /\ QueueInv'
    BY <1>0, <1>2 DEF RolloutInv, EnvInv, QueueInv, SpecChanges
  <2> QED
    BY <1>2, <2>1 DEF RolloutInv, RunInv, FreshInv, SpecChanges
<1>3. ASSUME NEW n \in SecretNames, NEW data \in Secrets[n] \cup {Unset}, SecretChanges(n, data)
      PROVE  RolloutInv'
  <2>1. data \in AllSecrets \cup {Unset}
    BY DEF AllSecrets
  <2>2. EnvInv'
    BY <1>0, <1>3, <2>1 DEF RolloutInv, EnvInv, SecretChanges
  <2>3. QueueInv'
    BY <1>3 DEF RolloutInv, QueueInv, SecretChanges, SecretMarks
  <2> QED
    BY <1>3, <2>2, <2>3 DEF RolloutInv, RunInv, FreshInv, SecretChanges
<1>4. ASSUME NEW p \in Passwords, RoleChanges(p)
      PROVE  RolloutInv'
  <2>1. EnvInv' /\ QueueInv'
    BY <1>0, <1>4 DEF RolloutInv, EnvInv, QueueInv, RoleChanges
  <2> QED
    BY <1>4, <2>1 DEF RolloutInv, RunInv, FreshInv, RoleChanges
<1>5. ASSUME NEW c \in Controllers, Interrupted(c)
      PROVE  RolloutInv'
  <2>1. RunInv' /\ FreshInv'
    BY <1>5, RunStep, IdleIsSound DEF Interrupted
  <2>2. EnvInv' /\ QueueInv'
    BY <1>0, <1>5 DEF RolloutInv, EnvInv, QueueInv, Interrupted
  <2> QED
    BY <1>5, <2>1, <2>2 DEF RolloutInv, Interrupted
<1>6. ASSUME NEW what \in {"table", "connector"}, Damaged(what)
      PROVE  RolloutInv'
  <2>1. EnvInv' /\ QueueInv'
    BY <1>0, <1>6 DEF RolloutInv, EnvInv, QueueInv, Damaged, Controllers
  <2> QED
    BY <1>6, <2>1 DEF RolloutInv, RunInv, FreshInv, Damaged
<1> QED
  BY <1>1, <1>2, <1>3, <1>4, <1>5, <1>6 DEF Environment

LEMMA RolloutInit == Init => RolloutInv
<1> SUFFICES ASSUME Init PROVE RolloutInv
  OBVIOUS
<1> DEFINE none == <<>>
<1>1. none \in ConfigMaps["global"]
  BY MapsAssumption
<1>2. PICK m \in InitialMaps : maps = [global |-> none, own |-> m]
  BY DEF Init
<1> HIDE DEF none
<1>3. InitialSecret \in AllSecrets
  BY SecretsAssumption DEF AllSecrets
<1>4. InitialSecret["db.password"] \in Passwords /\ initialPassword \in Passwords
  BY <1>3, SecretsAssumption DEF Passwords
<1>5. EnvInv
  BY <1>1, <1>2, <1>3, <1>4, MapsAssumption, SpecsAssumption, BoundsAssumption DEF Init, EnvInv
<1>6. RunInv
  BY IdleIsSound DEF Init, RunInv
<1>7. StatusSound(status) /\ QueueInv /\ FreshInv
  BY EmptyIsSound DEF Init, QueueInv, FreshInv, SecretMarks
<1> QED
  BY <1>5, <1>6, <1>7 DEF RolloutInv

LEMMA ReconcileStep ==
  ASSUME RolloutInv, NEW c \in Controllers, Reconcile(c)
  PROVE  RolloutInv'
BY BeginStep, LoadConfigStep, ConnectStep, ConnectInitiallyStep, AlterRoleStep, ReconnectStep,
   CheckStep DEF Reconcile

LEMMA RolloutStep == RolloutInv /\ [Next]_vars => RolloutInv'
<1> SUFFICES ASSUME RolloutInv, [Next]_vars PROVE RolloutInv'
  OBVIOUS
<1>1. CASE PipelineNext
  BY <1>1, ReconcileStep, BuildStep DEF PipelineNext, Controllers
<1>2. CASE ValidationNext
  BY <1>2, ReconcileStep, NothingToValidateStep DEF ValidationNext, Controllers
<1>3. CASE Environment
  BY <1>3, EnvironmentStep
<1>4. CASE UNCHANGED vars
  BY <1>4 DEF vars, RolloutInv, EnvInv, QueueInv, RunInv, FreshInv
<1> QED
  BY <1>1, <1>2, <1>3, <1>4 DEF Next

\* RolloutInv is an invariant of both controllers and of everything that
\* changes under them while setup() runs call by call.
THEOREM RolloutInvariant == Spec => []RolloutInv
BY RolloutInit, RolloutStep, PTL DEF Spec

\* An iteration beyond parseConfig has a number in every numeric field of its
\* configuration and a password of a secret or the initial one, whatever the
\* ConfigMaps and secrets say, and failed attempts are counted.
THEOREM TypeCorrect == Spec => []TypeOK
<1>1. ASSUME NEW it, IterationSound(it) PROVE IterationOK(it)
  BY <1>1 DEF IterationSound, IterationOK, Phases, Loaded, Rotating, ConfigSound
<1>2. RolloutInv => TypeOK
  <2> SUFFICES ASSUME RolloutInv PROVE TypeOK
    OBVIOUS
  <2>1. \A c \in Controllers : IterationOK(run[c])
    BY <1>1 DEF RolloutInv, RunInv
  <2>2. /\ status.built \in BOOLEAN /\ status.initsync \in BOOLEAN
        /\ status.built => status.table # Unset /\ status.connector # Unset
        /\ status.failed \in 0..MaxFailed /\ (status.valid = "False" <=> status.failed > 0)
    BY DEF RolloutInv, StatusSound, Counted
  <2> QED
    BY <2>1, <2>2 DEF RolloutInv, EnvInv, QueueInv, TypeOK
<1> QED
  BY <1>2, RolloutInvariant, PTL

----------------------------------------------------------------------------
(***************************************************************************)
(* The initial password, as long as nobody gives it away.                  *)
(***************************************************************************)

\* An iteration, while the role has the password r, can render no connector
\* with the initial one: it has connected with another, or has altered the role
\* and cannot connect again.
KeptOut(it, r) ==
  /\ it.phase # "idle" => ~HoldsInitialPassword(it.status)
  /\ it.phase \in {"connect", "work"} => it.db.Password # initialPassword
  /\ it.phase \in Rotating => it.newPassword # initialPassword
  /\ it.phase = "reconnect" => r # initialPassword

SecretKept ==
  /\ "rendered" \notin history
  /\ \A n \in SecretNames : SecretMarks(secrets[n]) = {}
  /\ ~HoldsInitialPassword(status)
  /\ \A c \in Controllers : KeptOut(run[c], role)

SecretInv == "given" \in history \/ SecretKept

LEMMA IdleKeptOut == \A r : KeptOut(Idle, r)
BY DEF KeptOut, Idle, Rotating

\* A connector holds the password of the parameters it is rendered from.
LEMMA ConnectorKeptOut ==
  ASSUME NEW sp, NEW config, NEW db, db.Password # initialPassword, NEW s,
         s.connector = newConnectorResource(sp, config, db, Ephemeral), s.connector # Unset
  PROVE  ~HoldsInitialPassword(s)
<1> DEFINE k == newConnectorResource(sp, config, db, Ephemeral)
           P == Parameters(sp, config, db, Ephemeral)
           M == Mentions[config.ConnectorTemplate]
<1>1. k.config = Restrict(P, M)
  BY DEF newConnectorResource
<1>2. ASSUME Ephemeral PROVE P["DBPassword"] = db.Password
  BY <1>2 DEF Parameters, DBParameters
<1>3. s.connector = k
  OBVIOUS
<1> HIDE DEF k, P, M
<1>4. \A x \in DOMAIN Restrict(P, M) : Restrict(P, M)[x] = P[x]
  BY DEF Restrict
<1> QED
  BY <1>1, <1>2, <1>3, <1>4 DEF HoldsInitialPassword

\* One iteration changes, and maybe the role.
LEMMA SecretRun ==
  ASSUME RolloutInv, SecretKept, NEW c \in Controllers, NEW it, run' = [run EXCEPT ![c] = it],
         status' = status, secrets' = secrets, history' = history,
         KeptOut(it, role'), role' = role \/ role' # initialPassword
  PROVE  SecretKept'
<1>1. run'[c] = it /\ \A d \in Controllers : d # c => run'[d] = run[d]
  BY DEF RolloutInv, RunInv
<1>2. \A d \in Controllers : KeptOut(run'[d], role')
  BY <1>1 DEF SecretKept, KeptOut
<1>3. ~HoldsInitialPassword(status)' /\ \A n \in SecretNames : SecretMarks(secrets[n])' = {}
  BY DEF SecretKept, HoldsInitialPassword, SecretMarks
<1> QED
  BY <1>2, <1>3 DEF SecretKept, KeptOut, HoldsInitialPassword

LEMMA SecretGoto ==
  ASSUME RolloutInv, SecretKept, NEW c \in Controllers, NEW it, Goto(c, it), KeptOut(it, role'),
         role' = role \/ role' # initialPassword
  PROVE  SecretKept'
BY SecretRun DEF Goto, envVars

LEMMA SecretFail ==
  ASSUME RolloutInv, SecretKept, NEW c \in Controllers, Fail(c), role' = role
  PROVE  SecretKept'
BY SecretRun, IdleKeptOut DEF Fail, envVars

\* A status is written, or not.
LEMMA SecretUpdate ==
  ASSUME RolloutInv, SecretKept, NEW c \in Controllers, NEW new, ~HoldsInitialPassword(new),
         UpdateStatusAndRequeue(c, new)
  PROVE  SecretKept'
<1>1. /\ run' = [run EXCEPT ![c] = Idle] /\ secrets' = secrets /\ role' = role
      /\ status' = status \/ status' = new
      /\ "rendered" \notin history'
  BY DEF UpdateStatusAndRequeue, envVars, SecretKept
<1>2. run'[c] = Idle /\ \A d \in Controllers : d # c => run'[d] = run[d]
  BY <1>1 DEF RolloutInv, RunInv
<1>3. \A d \in Controllers : KeptOut(run'[d], role')
  BY <1>1, <1>2, IdleKeptOut DEF SecretKept
<1>4. ~HoldsInitialPassword(status)' /\ \A n \in SecretNames : SecretMarks(secrets[n])' = {}
  BY <1>1 DEF SecretKept, HoldsInitialPassword, SecretMarks
<1> QED
  BY <1>1, <1>3, <1>4 DEF SecretKept, KeptOut, HoldsInitialPassword

\* The calls of setup().
LEMMA SecretSetup ==
  ASSUME RolloutInv, SecretKept, NEW c \in Controllers,
         \/ Begin(c) \/ LoadConfig(c) \/ Connect(c) \/ ConnectInitially(c) \/ AlterRole(c)
         \/ Reconnect(c)
  PROVE  SecretKept'
<1>0. IterationSound(run[c]) /\ KeptOut(run[c], role)
  BY DEF RolloutInv, RunInv, SecretKept
<1>1. CASE Begin(c)
  <2> DEFINE it == [Idle EXCEPT !.phase = "config", !.spec = spec, !.status = status,
                                !.cm = maps["global"]]
  <2>1. it.phase = "config" /\ it.status = status
    BY DEF Idle
  <2>2. /\ run' = [run EXCEPT ![c] = it] /\ status' = status /\ secrets' = secrets
        /\ history' = history /\ role' = role
    BY <1>1 DEF Begin, envVars
  <2> HIDE DEF it
  <2>3. KeptOut(it, role')
    BY <2>1 DEF KeptOut, Rotating, SecretKept
  <2> QED
    BY <2>2, <2>3, SecretRun
<1>2. CASE LoadConfig(c)
  <2> DEFINE cm     == Merge(run[c].cm, maps["own"])
             config == BuildCyndiConfig(run[c].spec, cm)
             db     == LoadDBSecrets(run[c].spec, config)
             it     == [run[c] EXCEPT !.cm = cm, !.config = config, !.db = db, !.phase = "connect"]
  <2>1. run[c].phase = "config" /\ role' = role
    BY <1>2 DEF LoadConfig
  <2>2. IF db = Unset THEN Fail(c) ELSE Goto(c, it)
    BY <1>2 DEF LoadConfig
  <2>3. db # Unset => db.Password # initialPassword
    BY SecretsLoaded DEF RolloutInv, SecretKept
  <2> HIDE DEF cm, config, db
  <2>4. it.phase = "connect" /\ it.status = run[c].status /\ it.db = db
    BY <1>0 DEF IterationSound, IterationFields
  <2> HIDE DEF it
  <2>5. db # Unset => KeptOut(it, role')
    BY <1>0, <2>1, <2>3, <2>4 DEF KeptOut, Rotating
  <2> QED
    BY <2>1, <2>2, <2>5, SecretGoto, SecretFail
<1>3. CASE Connect(c)
  <2> DEFINE working == [run[c] EXCEPT !.phase = "work"]
             rotating == [run[c] EXCEPT !.newPassword = run[c].db.Password,
                                        !.db.Password = initialPassword, !.phase = "rotate"]
  <2>1. run[c].phase = "connect" /\ role' = role
    BY <1>3 DEF Connect
  <2>2. Goto(c, working) \/ Goto(c, rotating)
    BY <1>3 DEF Connect
  <2>3. KeptOut(working, role') /\ KeptOut(rotating, role')
    BY <1>0, <2>1 DEF KeptOut, Rotating, IterationSound, IterationFields
  <2> HIDE DEF working, rotating
  <2> QED
    BY <2>1, <2>2, <2>3, SecretGoto
<1>4. CASE ConnectInitially(c)
  <2> DEFINE it == [run[c] EXCEPT !.phase = "alter"]
  <2>1. run[c].phase = "rotate" /\ role' = role /\ (Goto(c, it) \/ Fail(c))
    BY <1>4 DEF ConnectInitially
  <2>2. KeptOut(it, role')
    BY <1>0, <2>1 DEF KeptOut, Rotating, IterationSound, IterationFields
  <2> HIDE DEF it
  <2> QED
    BY <2>1, <2>2, SecretGoto, SecretFail
<1>5. CASE AlterRole(c)
  <2> DEFINE it == [run[c] EXCEPT !.phase = "reconnect"]
  <2>1. run[c].phase = "alter" /\ role' = run[c].newPassword /\ Goto(c, it)
    BY <1>5 DEF AlterRole
  <2>2. role' # initialPassword
    BY <1>0, <2>1 DEF KeptOut, Rotating
  <2>3. KeptOut(it, role')
    BY <1>0, <2>1, <2>2 DEF KeptOut, Rotating, IterationSound, IterationFields
  <2> HIDE DEF it
  <2> QED
    BY <2>1, <2>2, <2>3, SecretGoto
<1>6. CASE Reconnect(c)
  <2>1. run[c].phase = "reconnect" /\ role' = role
    BY <1>6 DEF Reconnect
  <2>2. run[c].db.Password = initialPassword /\ role # initialPassword
    BY <1>0, <2>1 DEF IterationSound, KeptOut, Rotating
  <2>3. Fail(c)
    BY <1>6, <2>2 DEF Reconnect
  <2> QED
    BY <2>1, <2>3, SecretFail
<1> QED
  BY <1>1, <1>2, <1>3, <1>4, <1>5, <1>6

\* What ends an iteration.
LEMMA SecretEnd ==
  ASSUME RolloutInv, SecretKept,
         Build \/ NothingToValidate \/ \E c \in Controllers : Check(c)
  PROVE  SecretKept'
<1>0. "pipeline" \in Controllers /\ "validation" \in Controllers
  BY DEF Controllers
<1>1. CASE Build
  <2> DEFINE it == run["pipeline"]
             table == TableScript(it.config)
             connector == newConnectorResource(it.spec, it.config, it.db, Ephemeral)
             new == [built |-> TRUE, initsync |-> TRUE, valid |-> "Unknown", failed |-> 0,
                     cmver |-> it.config.ConfigMapVersion, spechash |-> it.config.SpecHash,
                     table |-> table, connector |-> connector,
                     from |-> [cm |-> it.cm, spec |-> it.spec]]
  <2>1. IF table = Unset \/ connector = Unset THEN FailReconcile("pipeline")
        ELSE UpdateStatusAndRequeue("pipeline", new)
    BY <1>1 DEF Build
  <2>2. it.db.Password # initialPassword
    BY <1>0, <1>1 DEF Build, SecretKept, KeptOut
  <2>3. new.connector = connector
    OBVIOUS
  <2> HIDE DEF new
  <2>4. connector # Unset => ~HoldsInitialPassword(new)
    BY <2>2, <2>3, ConnectorKeptOut
  <2> QED
    BY <1>0, <2>1, <2>4, SecretUpdate, SecretFail DEF FailReconcile
<1>2. CASE NothingToValidate
  BY <1>0, <1>2, SecretRun, IdleKeptOut DEF NothingToValidate, envVars
<1>3. ASSUME NEW c \in Controllers, Check(c)
      PROVE  SecretKept'
  <2>1. /\ run[c].phase = "work" /\ run[c].status.built /\ StatusSound(run[c].status)
        /\ \/ FailReconcile(c)
           \/ \E s \in {TransitionToNew(run[c].status), SetTrue(run[c].status),
                        SetFalse(run[c].status), run[c].status} : UpdateStatusAndRequeue(c, s)
    BY <1>3, CheckEffect
  <2>2. ~HoldsInitialPassword(run[c].status)
    BY <2>1 DEF SecretKept, KeptOut
  <2>3. ~HoldsInitialPassword(TransitionToNew(run[c].status))
    BY <2>1, StatusChanges DEF HoldsInitialPassword
  <2>4. /\ ~HoldsInitialPassword(SetTrue(run[c].status))
        /\ ~HoldsInitialPassword(SetFalse(run[c].status))
    BY <2>1, <2>2, StatusChanges DEF HoldsInitialPassword
  <2> QED
    BY <2>1, <2>2, <2>3, <2>4, SecretUpdate, SecretFail DEF FailReconcile
<1> QED
  BY <1>1, <1>2, <1>3

LEMMA SecretEnvironment ==
  ASSUME RolloutInv, SecretKept, Environment
  PROVE  SecretInv'
<1> USE DEF Changing
<1>1. ASSUME UNCHANGED <<secrets, role, status, run>>, history' \subseteq history \cup {"silent"}
      PROVE  SecretKept'
  BY <1>1 DEF SecretKept, KeptOut, HoldsInitialPassword, SecretMarks
<1>2. ASSUME NEW n \in SecretNames, NEW data, SecretChanges(n, data)
      PROVE  SecretInv'
  <2>1. CASE SecretMarks(data) = {}
    <3>1. \A m \in SecretNames : SecretMarks(secrets'[m]) = {}
      BY <1>2, <2>1 DEF SecretChanges, SecretKept, RolloutInv, EnvInv
    <3> QED
      BY <1>2, <2>1, <3>1 DEF SecretChanges, SecretKept, SecretInv, KeptOut, HoldsInitialPassword, SecretMarks
  <2>2. CASE SecretMarks(data) # {}
    <3>1. SecretMarks(data) = {"given"}
      BY <2>2 DEF SecretMarks
    <3> QED
      BY <1>2, <3>1 DEF SecretChanges, SecretInv
  <2> QED
    BY <2>1, <2>2
<1>3. ASSUME NEW p, RoleChanges(p)
      PROVE  SecretInv'
  <2>1. CASE p = initialPassword
    BY <1>3, <2>1 DEF RoleChanges, SecretInv
  <2>2. CASE p # initialPassword
    BY <1>3, <2>2 DEF RoleChanges, SecretInv, SecretKept, KeptOut, HoldsInitialPassword, SecretMarks
  <2> QED
    BY <2>1, <2>2
<1>4. ASSUME NEW c \in Controllers, Interrupted(c)
      PROVE  SecretKept'
  BY <1>4, SecretRun, IdleKeptOut DEF Interrupted
<1>5. CASE \E n \in {"global", "own"} : \E m \in ConfigMaps[n] : ConfigMapChanges(n, m)
  BY <1>1, <1>5 DEF ConfigMapChanges, SecretInv
<1>6. CASE \E new \in Specs : SpecChanges(new)
  BY <1>1, <1>6 DEF SpecChanges, SecretInv
<1>7. CASE \E what \in {"table", "connector"} : Damaged(what)
  BY <1>1, <1>7 DEF Damaged, SecretInv
<1> QED
  BY <1>2, <1>3, <1>4, <1>5, <1>6, <1>7 DEF Environment, SecretInv

LEMMA GivenStays == "given" \in history /\ [Next]_vars => "given" \in history'
<1> SUFFICES ASSUME "given" \in history, [Next]_vars PROVE "given" \in history'
  OBVIOUS
<1>1. \A c, it : Goto(c, it) \/ Fail(c) => history' = history
  BY DEF Goto, Fail
<1>2. \A c, new : UpdateStatusAndRequeue(c, new) => history \subseteq history'
  BY DEF UpdateStatusAndRequeue
<1>3. ASSUME NEW c \in Controllers, Reconcile(c)
      PROVE  "given" \in history'
  <2>1. CASE Check(c)
    BY <1>1, <1>2, <2>1 DEF Check, FailReconcile
  <2>2. CASE Begin(c)
    BY <2>2 DEF Begin
  <2>3. CASE LoadConfig(c) \/ Connect(c) \/ ConnectInitially(c) \/ AlterRole(c) \/ Reconnect(c)
    BY <1>1, <2>3 DEF LoadConfig, Connect, ConnectInitially, AlterRole, Reconnect
  <2> QED
    BY <1>3, <2>1, <2>2, <2>3 DEF Reconcile
<1>4. CASE Build
  BY <1>1, <1>2, <1>4 DEF Build, FailReconcile
<1>5. CASE NothingToValidate \/ UNCHANGED vars
  BY <1>5 DEF NothingToValidate, vars
<1>6. CASE Environment
  BY <1>6 DEF Environment, ConfigMapChanges, SpecChanges, SecretChanges, RoleChanges, Interrupted,
              Damaged
<1> QED
  BY <1>3, <1>4, <1>5, <1>6 DEF Next, PipelineNext, ValidationNext, Controllers

\* No connector is ever created with the initial password, which rotation puts
\* into the parameters that connectors are rendered from, whether or not the
\* status that names it is written, unless somebody gives that password away.
THEOREM InitialPasswordIsKeptOut == Spec => []NoInitialPassword
<1>1. Init => SecretInv
  <2> SUFFICES ASSUME Init, "given" \notin history PROVE SecretKept
    BY DEF SecretInv
  <2>1. SecretMarks(InitialSecret) = {} /\ history = {}
    BY DEF Init, SecretMarks
  <2>2. \A n \in SecretNames : secrets[n] = InitialSecret
    BY DEF Init
  <2>3. \A c \in Controllers : KeptOut(run[c], role)
    BY IdleKeptOut DEF Init
  <2>4. ~HoldsInitialPassword(status)
    BY DEF Init, Empty, HoldsInitialPassword
  <2> QED
    BY <2>1, <2>2, <2>3, <2>4 DEF SecretKept
<1>2. RolloutInv /\ SecretInv /\ [Next]_vars => SecretInv'
  <2> SUFFICES ASSUME RolloutInv, SecretInv, [Next]_vars PROVE SecretInv'
    OBVIOUS
  <2>1. CASE "given" \in history
    BY <2>1, GivenStays DEF SecretInv
  <2>2. CASE SecretKept
    <3>1. CASE Environment
      BY <2>2, <3>1, SecretEnvironment
    <3>2. CASE UNCHANGED vars
      BY <2>2, <3>2 DEF vars, SecretKept, SecretInv, KeptOut, HoldsInitialPassword, SecretMarks
    <3>3. CASE PipelineNext \/ ValidationNext
      <4>1. \/ Build \/ NothingToValidate
            \/ \E c \in Controllers : Reconcile(c)
        BY <3>3 DEF PipelineNext, ValidationNext, Controllers
      <4> QED
        BY <2>2, <4>1, SecretSetup, SecretEnd DEF Reconcile, SecretInv
    <3> QED
      BY <3>1, <3>2, <3>3 DEF Next
  <2> QED
    BY <2>1, <2>2 DEF SecretInv
<1>3. SecretInv => NoInitialPassword
  BY DEF SecretInv, SecretKept, NoInitialPassword
<1> QED
  BY <1>1, <1>2, <1>3, RolloutInvariant, PTL DEF Spec

----------------------------------------------------------------------------
(***************************************************************************)
(* What discards a pipeline.                                               *)
(***************************************************************************)

\* The reasons that NoNeedlessRefresh allows.
Reason(c) ==
  /\ run[c].phase = "work"
  /\ \/ Deviates(c)
     \/ (DOMAIN run[c].cm = {}) # (DOMAIN status.from.cm = {})
     \/ lost
     \/ c = "pipeline" /\ AttemptsUsedUp(run[c])

\* A status is only replaced over a copy of it.
LEMMA UpdateEffect ==
  ASSUME RolloutInv, NEW c \in Controllers, NEW new, run[c].phase # "idle",
         UpdateStatusAndRequeue(c, new)
  PROVE  status' = status \/ (status' = new /\ run[c].status = status /\ c \in fresh)
BY DEF UpdateStatusAndRequeue, RolloutInv, FreshInv

\* checkForDeviation finds a problem only for a reason.
LEMMA ProblemHasReason ==
  ASSUME RolloutInv, NEW c \in Controllers, run[c].phase = "work", status.built,
         run[c].status = status, checkForDeviation(run[c], lost) = "problem"
  PROVE  Reason(c)
<1>1. /\ status.cmver = ConfigMapHash(status.from.cm) /\ status.spechash = SpecHash(status.from.spec)
      /\ run[c].config.ConfigMapVersion = ConfigMapHash(run[c].cm)
      /\ run[c].config.SpecHash = SpecHash(run[c].spec)
  BY DEF RolloutInv, RunInv, IterationSound, Loaded, ConfigSound, StatusSound
<1> DEFINE connector == newConnectorResource(run[c].spec, run[c].config, run[c].db, Ephemeral)
<1> HIDE DEF connector
<1>2. \/ status.cmver # run[c].config.ConfigMapVersion
      \/ status.spechash # run[c].config.SpecHash
      \/ lost
      \/ status.connector # connector
  BY DEF checkForDeviation, connector
<1>3. CASE status.cmver # run[c].config.ConfigMapVersion
  <2>1. \/ Data(run[c].cm) # Data(status.from.cm)
        \/ ~((DOMAIN run[c].cm = {}) <=> (DOMAIN status.from.cm = {}))
    BY <1>1, <1>3, HashIgnores
  <2> QED
    BY <2>1 DEF Reason, Deviates
<1>4. CASE status.spechash # run[c].config.SpecHash
  BY <1>1, <1>4 DEF Reason, Deviates, SpecHash
<1>5. CASE lost
  BY <1>5 DEF Reason
<1>6. CASE status.connector # connector
  BY <1>6 DEF Reason, Deviates, connector
<1> QED
  BY <1>2, <1>3, <1>4, <1>5, <1>6

LEMMA CheckHasReason ==
  ASSUME RolloutInv, NEW c \in Controllers, Check(c), status.built, ~status'.built
  PROVE  Reason(c)
<1>1. run[c].phase = "work" /\ run[c].status.built /\ StatusSound(run[c].status)
  BY CheckEffect
<1>2. status' # status
  OBVIOUS
<1>3. PICK missing \in Missing(c) :
        \/ /\ checkForDeviation(run[c], missing) = "problem"
           /\ UpdateStatusAndRequeue(c, TransitionToNew(run[c].status))
        \/ FailReconcile(c)
        \/ \E s \in Verdicts(c) : UpdateStatusAndRequeue(c, s)
  BY DEF Check
<1>4. ~FailReconcile(c)
  BY <1>2 DEF FailReconcile, Fail
<1>5. ASSUME checkForDeviation(run[c], missing) = "problem",
             UpdateStatusAndRequeue(c, TransitionToNew(run[c].status))
      PROVE  Reason(c)
  <2>1. run[c].status = status /\ c \in fresh
    BY <1>1, <1>2, <1>5, UpdateEffect
  <2>2. missing = lost
    BY <2>1 DEF Missing
  <2> QED
    BY <1>1, <1>5, <2>1, <2>2, ProblemHasReason
<1>6. ASSUME NEW s \in Verdicts(c), UpdateStatusAndRequeue(c, s)
      PROVE  Reason(c)
  <2>1. ~s.built
    BY <1>1, <1>2, <1>6, UpdateEffect
  <2>2. SetTrue(run[c].status).built /\ SetFalse(run[c].status).built
    BY <1>1, StatusChanges
  <2>3. c # "validation" /\ AttemptsUsedUp(run[c])
    BY <1>1, <2>1, <2>2 DEF Verdicts
  <2> QED
    BY <1>1, <2>3 DEF Reason, Controllers
<1> QED
  BY <1>3, <1>4, <1>5, <1>6

LEMMA BuildKeeps ==
  ASSUME RolloutInv, Build, status.built
  PROVE  status'.built
<1> DEFINE it == run["pipeline"]
           table == TableScript(it.config)
           connector == newConnectorResource(it.spec, it.config, it.db, Ephemeral)
           from == [cm |-> it.cm, spec |-> it.spec]
           new == [built |-> TRUE, initsync |-> TRUE, valid |-> "Unknown", failed |-> 0,
                   cmver |-> it.config.ConfigMapVersion, spechash |-> it.config.SpecHash,
                   table |-> table, connector |-> connector, from |-> from]
<1>1. FailReconcile("pipeline") \/ UpdateStatusAndRequeue("pipeline", new)
  BY DEF Build
<1>2. new.built
  OBVIOUS
<1> HIDE DEF new
<1>3. status' = status \/ status' = new
  BY <1>1 DEF FailReconcile, Fail, UpdateStatusAndRequeue
<1> QED
  BY <1>2, <1>3

\* No other step discards the pipeline.
LEMMA OthersKeepStatus ==
  ASSUME NEW c \in Controllers,
         \/ Begin(c) \/ LoadConfig(c) \/ Connect(c) \/ ConnectInitially(c) \/ AlterRole(c)
         \/ Reconnect(c) \/ NothingToValidate \/ Environment \/ UNCHANGED vars
  PROVE  status' = status
<1>1. \A it : Goto(c, it) => status' = status
  BY DEF Goto
<1>2. Fail(c) => status' = status
  BY DEF Fail
<1>3. CASE LoadConfig(c) \/ Connect(c) \/ ConnectInitially(c) \/ AlterRole(c) \/ Reconnect(c)
  BY <1>1, <1>2, <1>3 DEF LoadConfig, Connect, ConnectInitially, AlterRole, Reconnect
<1>4. CASE Environment
  BY <1>4 DEF Environment, ConfigMapChanges, SpecChanges, SecretChanges, RoleChanges, Interrupted,
              Damaged
<1>5. CASE Begin(c) \/ NothingToValidate \/ UNCHANGED vars
  BY <1>5 DEF Begin, NothingToValidate, vars
<1> QED
  BY <1>3, <1>4, <1>5

\* For any hash, a pipeline that was built is discarded only by a controller
\* that has read another spec, other data or the first or last key, or renders
\* another connector, or found the table or the connector lost or the attempts
\* used up: of the keys to be ignored only the two thresholds can do it.
THEOREM RefreshIsNeeded == Spec => NoNeedlessRefresh
<1>1. ASSUME RolloutInv, [Next]_vars, status.built, ~status'.built
      PROVE  \E c \in Controllers : Reason(c)
  <2>1. "pipeline" \in Controllers /\ "validation" \in Controllers
    BY DEF Controllers
  <2>2. ~UNCHANGED vars /\ ~Environment /\ ~NothingToValidate
    BY <1>1, <2>1, OthersKeepStatus
  <2>3. ~Build
    BY <1>1, BuildKeeps
  <2>4. PICK c \in Controllers : Reconcile(c)
    BY <1>1, <2>1, <2>2, <2>3 DEF Next, PipelineNext, ValidationNext
  <2>5. Check(c)
    BY <1>1, <2>4, OthersKeepStatus DEF Reconcile
  <2> QED
    BY <1>1, <2>5, CheckHasReason
<1>2. RolloutInv /\ [Next]_vars =>
        [status.built /\ ~status'.built => \E c \in Controllers : Reason(c)]_vars
  BY <1>1
<1> QED
  BY <1>2, RolloutInvariant, PTL DEF Spec, NoNeedlessRefresh, Reason
=============================================================================
