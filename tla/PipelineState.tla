--------------------------- MODULE PipelineState ---------------------------
(***************************************************************************)
(* The CyndiPipeline custom resource and the operations on one copy of it: *)
(* api/v1alpha1/state.go and cyndipipeline_types.go.                       *)
(*                                                                         *)
(* Nil stands for Go's empty string.  A pipeline version is a member of    *)
(* Versions; the timestamp it is printed from carries no other meaning.    *)
(***************************************************************************)
EXTENDS Integers

CONSTANTS
  Versions,     \* pipeline versions ("1_<unix nanoseconds>")
  AppNames,     \* values of spec.appName
  DataSpecs,    \* all the other fields of the spec that DataSpec() keeps
  ConfigMaps,   \* contents of the merged "cyndi" ConfigMaps
  Bases,        \* the part of a ConfigMap that ConfigMapHash does not ignore
  ManagedModes, \* values of spec.managedConnectors
  PauseModes,   \* values of spec.connectorPaused
  HostCounts,   \* what CountHosts may return for the application's table
  Nil

ASSUME ConfigMapsAssumption == ConfigMaps \subseteq [base : Bases, init : Int, attempts : Int]

ASSUME ModesAssumption == ManagedModes \subseteq BOOLEAN /\ PauseModes \subseteq BOOLEAN

ASSUME HostCountsAssumption == HostCounts \subseteq Nat
----------------------------------------------------------------------------
\* TableName and ConnectorName are injective: the prefix is constant, and an
\* application's name and a version can be read back from the connector name.
TableName(pipelineVersion) == <<"hosts_v", pipelineVersion>>

ConnectorName(pipelineVersion, appName) == <<"cyndi", appName, pipelineVersion>>

TableNameToConnectorName(tableName, appName) == ConnectorName(tableName[2], appName)

Tables == {TableName(v) : v \in Versions}

ConnectorNames == {ConnectorName(v, a) : v \in Versions, a \in AppNames}

ASSUME NilAssumption == Nil \notin Versions \cup Tables \cup ConnectorNames

PipelineSpec == [app : AppNames, data : DataSpecs, managed : ManagedModes, paused : PauseModes]

ConditionStatus == {"True", "False", "Unknown"}

\* The Valid condition is its status alone; hosts is -1 until a verdict.
PipelineStatus ==
  [version   : Versions \cup {Nil},
   table     : Tables \cup {Nil},
   connector : ConnectorNames \cup {Nil},
   active    : Tables \cup {Nil},
   cmver     : Bases \cup {Nil},
   spechash  : (AppNames \X DataSpecs) \cup {Nil},
   initsync  : BOOLEAN,
   valid     : ConditionStatus,
   failed    : Nat,
   hosts     : HostCounts \cup {-1}]

\* exists is FALSE once the finalizer of a deleted resource is gone.
CyndiPipeline ==
  [exists : BOOLEAN, deleting : BOOLEAN, finalizer : BOOLEAN,
   spec : PipelineSpec, status : PipelineStatus]

\* The status of a resource no controller has touched yet.
EmptyStatus ==
  [version |-> Nil, table |-> Nil, connector |-> Nil, active |-> Nil, cmver |-> Nil,
   spechash |-> Nil, initsync |-> FALSE, valid |-> "Unknown", failed |-> 0, hosts |-> -1]
----------------------------------------------------------------------------
\* The hash of the fields that DataSpec() keeps: managedConnectors,
\* connectorPaused and refresh are zeroed first.  Hashes do not collide here.
SpecHash(spec) == <<spec.app, spec.data>>

\* The intervals and the thresholds of validation are left out of the hash.
ConfigMapHash(configMap) == configMap.base

ConnectorsManaged(p) == p.spec.managed

GetState(p) ==
  IF p.deleting THEN "REMOVED"
  ELSE IF p.status.version = Nil THEN "NEW"
  ELSE IF p.status.valid = "True" THEN "VALID"
  ELSE IF p.status.initsync THEN "INITIAL_SYNC"
  ELSE IF p.status.valid = "False" THEN "INVALID"
  ELSE "UNKNOWN"

SetValid(status, verdict, hostCount) ==
  [status EXCEPT !.valid = verdict, !.hosts = hostCount,
                 !.failed = IF verdict = "False" THEN @ + 1 ELSE 0,
                 !.initsync = @ /\ verdict # "True"]

ResetValid(status) == SetValid(status, "Unknown", -1)

\* Mutant of TransitionToNew: the verdict on the old table is kept.
TransitionToNewKeepsVerdict(p) ==
  [p EXCEPT !.status = [p.status EXCEPT !.initsync = FALSE, !.version = Nil]]

TransitionToNew(p) ==
  [p EXCEPT !.status = [ResetValid(p.status) EXCEPT !.initsync = FALSE, !.version = Nil]]

\* Mutant of TransitionToInitialSync: the table is always renamed.
TransitionToInitialSyncRenames(p, v) ==
  [p EXCEPT !.status =
     [ResetValid(p.status) EXCEPT
        !.initsync = TRUE,
        !.version = v,
        !.table = TableName(v),
        !.connector = IF ConnectorsManaged(p) THEN ConnectorName(v, p.spec.app) ELSE @]]

\* Mutant of TransitionToInitialSync: the connector is named after the table.
TransitionToInitialSyncOfTable(p, v) ==
  [p EXCEPT !.status =
     [ResetValid(p.status) EXCEPT
        !.initsync = TRUE,
        !.version = v,
        !.table = IF ConnectorsManaged(p) \/ @ = Nil THEN TableName(v) ELSE @,
        !.connector =
          IF ConnectorsManaged(p) THEN ConnectorName(TableName(v), p.spec.app) ELSE @]]

\* Only called in state NEW, where assertState holds.
TransitionToInitialSync(p, v) ==
  [p EXCEPT !.status =
     [ResetValid(p.status) EXCEPT
        !.initsync = TRUE,
        !.version = v,
        !.table = IF ConnectorsManaged(p) \/ @ = Nil THEN TableName(v) ELSE @,
        !.connector = IF ConnectorsManaged(p) THEN ConnectorName(v, p.spec.app) ELSE @]]

\* getValidationConfig().AttemptsThreshold
AttemptsThreshold(p, configMap) ==
  IF p.status.initsync THEN configMap.init ELSE configMap.attempts
============================================================================
