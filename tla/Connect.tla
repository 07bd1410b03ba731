------------------------------ MODULE Connect ------------------------------
(***************************************************************************)
(* The KafkaConnector resources owned by the pipeline:                     *)
(* controllers/connect/connect.go.  The client reads them uncached.        *)
(***************************************************************************)
EXTENDS PipelineState

VARIABLE connectors

\* The labels and the rendered template, as far as they can differ.
ConnectorConfig ==
  [spec : (AppNames \X DataSpecs) \cup {Nil}, base : Bases, table : Tables]

Connector ==
  [name : ConnectorNames, config : ConnectorConfig, paused : BOOLEAN, failed : BOOLEAN]

ConnectTypeOK == connectors \subseteq Connector

ConnectInit == connectors = {}
----------------------------------------------------------------------------
\* newConnectorResource applied to what createConnector passes it.
NewConnectorConfig(p, cm) ==
  [spec |-> SpecHash(p.spec), base |-> ConfigMapHash(cm), table |-> p.status.table]

GetConnector(name) == {k \in connectors : k.name = name}

CreateConnector(name, p, cm) ==
  /\ GetConnector(name) = {}
  /\ connectors' = connectors \cup
       {[name |-> name, config |-> NewConnectorConfig(p, cm),
         paused |-> p.spec.paused, failed |-> FALSE]}

DeleteConnectors(names) == connectors' = {k \in connectors : k.name \notin names}

SetConnectorState(name, paused) ==
  connectors' = {IF k.name = name THEN [k EXCEPT !.paused = paused] ELSE k : k \in connectors}

IsFailed(k) == k.failed

\* A connector that writes into table t.
Feeds(k, t) == k.config.table = t /\ ~k.paused /\ ~k.failed

\* Kafka Connect reports the connector or one of its tasks as FAILED.
ConnectorFails(k) ==
  connectors' = (connectors \ {k}) \cup {[k EXCEPT !.failed = TRUE]}

\* Somebody edits the connector's configuration.
ConnectorReconfigured(k) ==
  connectors' = (connectors \ {k}) \cup {[k EXCEPT !.config.spec = Nil]}
============================================================================
