------------------------------- MODULE Config -------------------------------
(***************************************************************************)
(* Configuration: controllers/config and what is derived from it, the      *)
(* hashes of controllers/utils and the connector resource of               *)
(* controllers/connect.  A ConfigMap is a function from keys to texts.     *)
(* Long texts (templates and scripts) are names; the constants say what a  *)
(* text means.                                                             *)
(***************************************************************************)
EXTENDS Integers, Functions, TLC

CONSTANTS
  Unset,    \* a nil pointer, and the value where the code returns an error
  Number,   \* the texts that strconv.ParseInt accepts, and their values
  Mentions, \* the templates that render to JSON, and the parameters they use
  Scripts,  \* the scripts that PostgreSQL runs without an error
  EnvName,  \* the upper-case form of an application's name
  DbSecret, \* the name of its database secret, {appName}-db
  Hash(_)   \* FNV-1a of the JSON text, which may collide

ASSUME NumberAssumption == \A text \in DOMAIN Number : Number[text] \in Int
----------------------------------------------------------------------------
\* The keys that set each field of CyndiConfiguration, and the defaults.
StringKeys ==
  [Topic |-> "connector.topic", ConnectCluster |-> "connect.cluster",
   InventoryDbSecret |-> "inventory.dbSecret", InventoryDbSchema |-> "inventory.dbSchema",
   DeadLetterQueueTopicName |-> "connector.deadletterqueue.topic.name",
   ConnectorTemplate |-> "connector.config",
   ConnectorAllowlistSystemProfile |-> "connector.allowlist.sp",
   DBTableInitScript |-> "db.schema",
   SSLMode |-> "db.ssl.mode", SSLRootCert |-> "db.ssl.root.cert"]

IntKeys ==
  [TopicReplicationFactor |-> "connector.topic.replication.factor",
   ConnectorTasksMax |-> "connector.tasks.max", ConnectorBatchSize |-> "connector.batch.size",
   ConnectorMaxAge |-> "connector.max.age", StandardInterval |-> "standard.interval",
   Interval |-> "validation.interval", InitInterval |-> "init.validation.interval",
   AttemptsThreshold |-> "validation.attempts.threshold",
   InitAttemptsThreshold |-> "init.validation.attempts.threshold",
   PercentageThreshold |-> "validation.percentage.threshold",
   InitPercentageThreshold |-> "init.validation.percentage.threshold"]

keysIgnoredByRefresh ==
  {IntKeys[f] : f \in {"StandardInterval", "Interval", "AttemptsThreshold", "PercentageThreshold",
                       "InitInterval", "InitAttemptsThreshold", "InitPercentageThreshold"}}

StringDefaults ==
  [Topic |-> "platform.inventory.events", ConnectCluster |-> "xjoin-kafka-connect-strimzi",
   InventoryDbSecret |-> "host-inventory-read-only-db", InventoryDbSchema |-> "public",
   DeadLetterQueueTopicName |-> "platform.cyndi.dlq",
   ConnectorTemplate |-> "default template",
   ConnectorAllowlistSystemProfile |-> "sap_system,sap_sids",
   DBTableInitScript |-> "default table", SSLMode |-> "disable", SSLRootCert |-> "none"]

IntDefaults ==
  [TopicReplicationFactor |-> 1, ConnectorTasksMax |-> 16, ConnectorBatchSize |-> 100,
   ConnectorMaxAge |-> 45, StandardInterval |-> 120, Interval |-> 1800, InitInterval |-> 60,
   AttemptsThreshold |-> 3, InitAttemptsThreshold |-> 30,
   PercentageThreshold |-> 5, InitPercentageThreshold |-> 5]

\* The parameters that the default template mentions, TableName apart.
defaultConnectorTemplate ==
  {"Topic", "DBPort", "DBHostname", "DBName", "DBUser", "DBPassword", "TasksMax", "BatchSize",
   "MaxAge", "InsightsOnly", "AllowlistSP", "SSLMode", "SSLRootCert", "TopicReplicationFactor",
   "DeadLetterQueueTopicName", "AdditionalFilters"}

ConfigFields ==
  DOMAIN StringKeys \cup DOMAIN IntKeys \cup {"DBTableIndexSQL", "ConfigMapVersion", "SpecHash"}

\* The fields that the pipeline's spec overrides.
Overrides ==
  [Topic |-> "topic", ConnectCluster |-> "connectCluster",
   InventoryDbSecret |-> "inventoryDbSecret", ConnectorMaxAge |-> "maxAge",
   PercentageThreshold |-> "validationThreshold",
   InitPercentageThreshold |-> "validationThreshold"]

Overridden(spec, field) == field \in DOMAIN Overrides /\ spec[Overrides[field]] # Unset
----------------------------------------------------------------------------
\* The pipeline's namespace comes second and wins.
Merge(global, own) == own @@ global

Omit(cm, ignored) == Restrict(cm, DOMAIN cm \ ignored)

\* Mutant of ConfigMapHash: all keys count.
ConfigMapHashOfAll(cm) == IF DOMAIN cm = {} THEN <<>> ELSE <<Hash(cm)>>

\* <<>> stands for "-1", which no hash is.
ConfigMapHash(cm) == IF DOMAIN cm = {} THEN <<>> ELSE <<Hash(Omit(cm, keysIgnoredByRefresh))>>

SpecHash(spec) == <<Hash(spec)>>

getStringValue(cm, key, default) == IF key \in DOMAIN cm THEN cm[key] ELSE default

getIntValue(cm, key, default) ==
  IF key \notin DOMAIN cm THEN default
  ELSE IF cm[key] \in DOMAIN Number THEN Number[cm[key]] ELSE Unset

StringValue(spec, cm, f) ==
  IF Overridden(spec, f) THEN spec[Overrides[f]]
  ELSE getStringValue(cm, StringKeys[f], StringDefaults[f])

\* A text that the spec overrides is not parsed.
IntValue(spec, cm, f) ==
  IF Overridden(spec, f) THEN spec[Overrides[f]]
  ELSE getIntValue(cm, IntKeys[f], IntDefaults[f])

ConfigValues(spec, cm) ==
  [f \in ConfigFields |->
     CASE f \in DOMAIN StringKeys -> StringValue(spec, cm, f)
       [] f \in DOMAIN IntKeys    -> IntValue(spec, cm, f)
       [] f = "DBTableIndexSQL"   -> IF spec.dbTableIndexSQL # Unset THEN spec.dbTableIndexSQL
                                     ELSE "default indexes"
       [] f = "ConfigMapVersion"  -> ConfigMapHash(cm)
       [] f = "SpecHash"          -> SpecHash(spec)]

\* Mutant of BuildCyndiConfig: the errors of getIntValue are dropped.
BuildAnyConfig(spec, cm) == ConfigValues(spec, cm)

\* A CyndiConfiguration, or Unset when a number is malformed.
BuildCyndiConfig(spec, cm) ==
  IF \E f \in DOMAIN IntKeys : IntValue(spec, cm, f) = Unset THEN Unset
  ELSE ConfigValues(spec, cm)
----------------------------------------------------------------------------
\* ParseDBSecret finds every value and none is empty.
Complete(secret) ==
  \A key \in {"db.host", "db.user", "db.password", "db.name", "db.port"} :
    key \in DOMAIN secret /\ secret[key] # ""

\* DBParams, or Unset when LoadDBSecret returns an error.
LoadDBSecret(config, secret) ==
  IF secret = Unset THEN Unset
  ELSE IF ~Complete(secret) THEN Unset
  ELSE [Host |-> secret["db.host"], User |-> secret["db.user"], Password |-> secret["db.password"],
        Name |-> secret["db.name"], Port |-> secret["db.port"],
        SSLMode |-> config.SSLMode, SSLRootCert |-> config.SSLRootCert]

AppDbSecretName(spec) == IF spec.dbSecret # Unset THEN spec.dbSecret ELSE DbSecret[spec.appName]

\* In an ephemeral environment the connector holds the credentials themselves.
DBParameters(app, db, ephemeral) ==
  IF ephemeral
  THEN [DBPort |-> db.Port, DBHostname |-> db.Host, DBName |-> db.Name,
        DBUser |-> db.User, DBPassword |-> db.Password]
  ELSE [p \in {"DBPort", "DBHostname", "DBName", "DBUser", "DBPassword"} |-> <<"env", EnvName[app], p>>]

\* The template writes a filter's name and every attribute but "where".
AdditionalFilters(filters) ==
  [n \in DOMAIN filters |-> Restrict(filters[n], DOMAIN filters[n] \ {"where"})]

\* The parameters of the template, TableName apart: a connector and its table
\* are created together.
Parameters(spec, config, db, ephemeral) ==
  LET p == DBParameters(spec.appName, db, ephemeral) IN
  [DBPort |-> p.DBPort, DBHostname |-> p.DBHostname, DBName |-> p.DBName,
   DBUser |-> p.DBUser, DBPassword |-> p.DBPassword,
   Topic |-> config.Topic, AdditionalFilters |-> AdditionalFilters(spec.additionalFilters),
   TasksMax |-> config.ConnectorTasksMax, BatchSize |-> config.ConnectorBatchSize,
   MaxAge |-> config.ConnectorMaxAge, InsightsOnly |-> spec.insightsOnly,
   AllowlistSP |-> config.ConnectorAllowlistSystemProfile,
   SSLMode |-> db.SSLMode, SSLRootCert |-> db.SSLRootCert,
   TopicReplicationFactor |-> config.TopicReplicationFactor,
   DeadLetterQueueTopicName |-> config.DeadLetterQueueTopicName]

\* The labels and the rendered configuration, or Unset when the template
\* cannot be rendered.
newConnectorResource(spec, config, db, ephemeral) ==
  IF config.ConnectorTemplate \notin DOMAIN Mentions THEN Unset
  ELSE [labels |-> [cluster |-> config.ConnectCluster, app |-> spec.appName,
                    insightsOnly |-> spec.insightsOnly, maxAge |-> config.ConnectorMaxAge],
        template |-> config.ConnectorTemplate,
        config |-> Restrict(Parameters(spec, config, db, ephemeral),
                            Mentions[config.ConnectorTemplate])]

\* The script that CreateTable runs, or Unset when it fails.
TableScript(config) ==
  IF {config.DBTableInitScript, config.DBTableIndexSQL} \subseteq Scripts
  THEN <<config.DBTableInitScript, config.DBTableIndexSQL>> ELSE Unset
=============================================================================
