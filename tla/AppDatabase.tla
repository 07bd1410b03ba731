---------------------------- MODULE AppDatabase ----------------------------
(***************************************************************************)
(* The "inventory" schema of the application's database, which             *)
(* controllers/database manages: the hosts_v tables and the hosts view.    *)
(***************************************************************************)
EXTENDS PipelineState, Failures

VARIABLES
  tables,   \* the hosts_v tables
  view,     \* the table the hosts view selects from, Nil without a view
  granted,  \* cyndi_reader may select from the view
  synced,   \* the tables whose hosts match the inventory now
  seeded    \* the tables that have matched it since they were created
            \* (history: no code reads it)

dbVars == <<tables, view, granted, synced, seeded>>

DbTypeOK ==
  /\ tables \subseteq Tables
  /\ view \in tables \cup {Nil}
  /\ granted \in BOOLEAN
  /\ synced \subseteq tables
  /\ seeded \subseteq tables

DbInit == tables = {} /\ view = Nil /\ granted = FALSE /\ synced = {} /\ seeded = {}
----------------------------------------------------------------------------
CheckIfTableExists(t) == t \in tables

CreateTable(t) ==
  /\ t \notin tables
  /\ tables' = tables \cup {t}
  /\ UNCHANGED <<view, granted, synced, seeded>>

\* DROP ... CASCADE takes the view with the table it selects from.
DeleteTables(ts) ==
  /\ tables' = tables \ ts
  /\ view' = IF view \in ts THEN Nil ELSE view
  /\ granted' = (granted /\ view \notin ts)
  /\ synced' = synced \ ts
  /\ seeded' = seeded \ ts

\* The first statement of UpdateView, CREATE OR REPLACE VIEW.  It keeps the
\* privileges of a view that it replaces.
CreateView(t) ==
  /\ t \in tables
  /\ view' = t
  /\ granted' = (granted /\ view # Nil)
  /\ UNCHANGED <<tables, synced, seeded>>

\* The second statement of UpdateView.
GrantSelect ==
  /\ granted' = TRUE
  /\ UNCHANGED <<tables, view, synced, seeded>>

\* What GetCurrentTable may return.  rows.Next() is FALSE without a view and
\* also when the query failed later on, because rows.Err() is never read.
GetCurrentTable ==
  {[table |-> view, err |-> FALSE]} \cup
  (IF "query" \in Faults THEN {[table |-> Nil, err |-> e] : e \in BOOLEAN} ELSE {})

\* What GetCyndiTables may return; a failed query ends the list early.
GetCyndiTables == IF "query" \in Faults THEN SUBSET tables ELSE {tables}

\* A connector, the operator's or an external one, brings t up to date.
Seed(t) ==
  /\ synced' = synced \cup {t}
  /\ seeded' = seeded \cup {t}
  /\ UNCHANGED <<tables, view, granted>>

\* Hosts change in the inventory, or rows of t are lost.
Drift(t) ==
  /\ synced' = synced \ {t}
  /\ UNCHANGED <<tables, view, granted, seeded>>
============================================================================
