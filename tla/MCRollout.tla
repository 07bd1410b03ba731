----------------------------- MODULE MCRollout -----------------------------
(***************************************************************************)
(* Instances of Rollout for TLC: one ConfigMap for each way in which a     *)
(* key can matter.  Time is scaled so that the default intervals fit and   *)
(* 3277 seconds do not.                                                    *)
(***************************************************************************)
EXTENDS Rollout, TLC

Texts == "1" :> 1 @@ "3277" :> 3277

Templates == "default template" :> defaultConnectorTemplate

RunnableScripts == {"default table", "wide table", "long table", "default indexes", "custom indexes"}

\* Two topics have one hash, and so have two table scripts and a template
\* that cannot be rendered.
CollidingHash(x) ==
  CASE x = "connector.topic" :> "topic2" -> "connector.topic" :> "topic1"
    [] x \in {"db.schema" :> "long table", "connector.config" :> "no template"} ->
         "db.schema" :> "wide table"
    [] OTHER -> x

OneAttempt ==
  "init.validation.attempts.threshold" :> "1" @@ "validation.attempts.threshold" :> "1"

\* Each with one key that is ignored by the hash, hashed, malformed, or without
\* a template.
Maps ==
  [global |-> {<<>>, "connector.topic" :> "topic1", "connector.topic" :> "topic2"},
   own    |-> {<<>>, "standard.interval" :> "3277",
               "db.schema" :> "wide table", "db.schema" :> "long table",
               "connector.max.age" :> "abc", "connector.config" :> "no template",
               OneAttempt}]

FirstMaps == {<<>>}

FirstSpec ==
  [appName |-> "my-app", insightsOnly |-> FALSE, additionalFilters |-> <<>>,
   connectCluster |-> Unset, maxAge |-> Unset, validationThreshold |-> Unset, topic |-> Unset,
   dbSecret |-> Unset, inventoryDbSecret |-> Unset, dbTableIndexSQL |-> Unset]

\* The other one needs neither the topic nor the age of the ConfigMaps.
AllSpecs ==
  {FirstSpec,
   [FirstSpec EXCEPT !.topic = "topic1", !.maxAge = 30, !.dbTableIndexSQL = "custom indexes",
                     !.insightsOnly = TRUE,
                     !.additionalFilters = <<[name |-> "f", type |-> "Filter", where |-> "w"]>>]}

OneSpec == {FirstSpec}

EnvNames == "my-app" :> "MY_APP"

DbSecrets == "my-app" :> "my-app-db"

AllSecretNames == {"my-app-db", "host-inventory-read-only-db"}

Secret(password) ==
  "db.host" :> "host" @@ "db.user" :> "user" @@ "db.name" :> "name" @@ "db.port" :> "5432" @@
  "db.password" :> password

FirstSecret == Secret("password1")

\* The application's secret may get the initial password, as in a test of the
\* repository, and the inventory's may lose its password.
SomeSecrets ==
  "my-app-db" :> {FirstSecret, Secret("havefun")} @@
  "host-inventory-read-only-db" :> {FirstSecret, Secret("")}

\* For the keys that are to be ignored: two maps that differ in nothing else.
IgnoredKeys ==
  [global |-> {<<>>}, own |-> {"standard.interval" :> "3277", OneAttempt}]

FirstIgnoredKeys == {"standard.interval" :> "3277"}

OneSecret == [n \in AllSecretNames |-> {FirstSecret}]
=============================================================================
