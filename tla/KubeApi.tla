------------------------------ MODULE KubeApi ------------------------------
(***************************************************************************)
(* What the controllers see of Kubernetes: one CyndiPipeline resource at   *)
(* the API server, the informer's copy of it that both controllers read,   *)
(* the watch events between the two, optimistic locking, and the work      *)
(* queues.  Most of it is code of the API server and of controller-runtime *)
(* and is modelled from how src/controllers uses it.                       *)
(***************************************************************************)
EXTENDS PipelineState, Sequences

VARIABLES
  api,       \* the resource at the API server
  cache,     \* the informer's copy, read by FetchCyndiPipeline
  watch,     \* versions of the resource not delivered to the informer yet
  fresh,     \* controllers whose copy holds the current resourceVersion
  queue,     \* controllers with a pending request or requeue timer
  configMap  \* the merged "cyndi" ConfigMaps, as the informers hold them

kubeVars == <<api, cache, watch, fresh, queue, configMap>>

Controllers == {"pipeline", "validation"}

KubeTypeOK ==
  /\ api \in CyndiPipeline
  /\ cache \in CyndiPipeline
  /\ watch \in Seq(CyndiPipeline)
  /\ fresh \subseteq Controllers
  /\ queue \subseteq Controllers
  /\ configMap \in ConfigMaps

\* A resource was just created and the informers are in sync.
KubeInit ==
  /\ \E spec \in PipelineSpec :
       api = [exists |-> TRUE, deleting |-> FALSE, finalizer |-> FALSE,
              spec |-> spec, status |-> EmptyStatus]
  /\ cache = api
  /\ watch = <<>>
  /\ fresh = {}
  /\ queue = Controllers
  /\ configMap \in ConfigMaps
----------------------------------------------------------------------------
\* A write accepted by the API server.  Only the writer, if it is a
\* controller, still holds the current resourceVersion.
WriteApi(new, writers) ==
  /\ api' = new
  /\ watch' = Append(watch, new)
  /\ fresh' = writers

\* The copy that a reconcile of c takes from the informer is up to date.
ReadCache(c) ==
  fresh' = IF watch = <<>> THEN fresh \cup {c} ELSE fresh \ {c}

\* Mutant of eventFilterPredicate: only changes of the definition pass.
GenerationChangedPredicate(old, new) ==
  \/ ~new.exists
  \/ old.spec # new.spec
  \/ old.deleting # new.deleting

\* eventFilterPredicate.  A generation changes with the spec and with the
\* deletion timestamp; create and delete events are not filtered.
eventFilterPredicate(old, new) ==
  \/ ~new.exists
  \/ old.spec # new.spec
  \/ old.deleting # new.deleting
  \/ ~old.status.initsync /\ new.status.initsync

\* The informer takes the k-th undelivered version: k = 1 for a watch event,
\* more when it lists the resource again after losing its watch.
Deliver(k) ==
  /\ cache' = watch[k]
  /\ watch' = SubSeq(watch, k + 1, Len(watch))
  /\ queue' = queue \cup {"pipeline"}
                    \cup (IF eventFilterPredicate(cache, watch[k]) THEN {"validation"} ELSE {})
  /\ UNCHANGED <<api, fresh, configMap>>

\* The users' edits of the definition.
EditSpec(spec) ==
  /\ api.exists /\ spec # api.spec
  /\ WriteApi([api EXCEPT !.spec = spec], {})
  /\ UNCHANGED <<cache, queue, configMap>>

\* kubectl delete: the resource stays until the finalizer is removed.
DeleteResource ==
  /\ api.exists /\ ~api.deleting
  /\ WriteApi([api EXCEPT !.deleting = TRUE, !.exists = api.finalizer], {})
  /\ UNCHANGED <<cache, queue, configMap>>

\* The watch of SetupWithManager enqueues the pipelines that the informer knows.
ConfigMapChange(new) ==
  /\ new # configMap
  /\ configMap' = new
  /\ queue' = queue \cup (IF cache.exists THEN {"pipeline"} ELSE {})
  /\ UNCHANGED <<api, cache, watch, fresh>>

\* The new process lists everything and reconciles it.
Restart ==
  /\ cache' = api
  /\ watch' = <<>>
  /\ fresh' = {}
  /\ queue' = Controllers
  /\ UNCHANGED <<api, configMap>>
============================================================================
