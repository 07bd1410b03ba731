---------------------------- MODULE HostQueries ----------------------------
(***************************************************************************)
(* The queries that validation runs (controllers/database/database.go) and *)
(* what PostgreSQL answers.  SQL text is represented by what it means: a   *)
(* condition by the hosts that satisfy it, the table aliases it mentions   *)
(* and the columns it names without one, a join by its alias, the columns  *)
(* of the joined table and the hosts that have a row in it (all of them    *)
(* for a LEFT JOIN).  A join is on the identity of the host and matches at *)
(* most one row of each.                                                   *)
(***************************************************************************)
EXTENDS Integers, Sequences, FiniteSetsExt

CONSTANTS
  Hosts,         \* host ids, numbered in the order in which ids are returned
  InsightsHosts, \* the hosts with an insights id
  HostColumns,   \* the columns of the hosts table
  Absent         \* a key that a filter does not have

ASSUME HostsAssumption ==
  IsFiniteSet(Hosts) /\ Hosts = 1..Cardinality(Hosts) /\ InsightsHosts \subseteq Hosts

ASSUME ColumnsAssumption == HostColumns \subseteq STRING /\ "insights_id" \in HostColumns

Joins == [alias : STRING, columns : SUBSET STRING, matches : SUBSET Hosts]

Conditions == [uses : SUBSET STRING, bare : SUBSET STRING, holds : SUBSET Hosts]

ASSUME AbsentAssumption == Absent \notin Joins \cup Conditions

\* filter["join"] and filter["where"]; name, type and if are the connector's.
Filter == [join : Joins \cup {Absent}, where : Conditions \cup {Absent}]
----------------------------------------------------------------------------
hasJoinClause(filters) == \E n \in DOMAIN filters : filters[n].join # Absent

\* Mutant of getJoinClause: joins are not deduplicated.
AllJoins(filters) ==
  [n \in {n \in DOMAIN filters : filters[n].join # Absent} |-> filters[n].join]

\* Each text once, like `seen`.  The order is left out: no join needs another.
getJoinClause(filters) ==
  [join \in {filters[n].join : n \in DOMAIN filters} \ {Absent} |-> join]

\* insights_id is never qualified, not even in a query with joins.
InsightsCondition == [uses |-> {}, bare |-> {"insights_id"}, holds |-> InsightsHosts]

\* A filter without a condition yields "()".
getWhereClause(insightsOnly, filters) ==
  [n \in DOMAIN filters |-> filters[n].where] \o
  (IF insightsOnly THEN <<InsightsCondition>> ELSE <<>>)

\* The clauses of both queries; the table is called h only if there are joins.
hostQuery(insightsOnly, filters) ==
  [alias |-> IF hasJoinClause(filters) THEN {"h"} ELSE {},
   joins |-> IF hasJoinClause(filters) THEN getJoinClause(filters) ELSE <<>>,
   where |-> getWhereClause(insightsOnly, filters)]

hostCountQuery(insightsOnly, filters) == hostQuery(insightsOnly, filters)

hostIdQuery(insightsOnly, filters) == hostQuery(insightsOnly, filters)
----------------------------------------------------------------------------
\* Of the hosts table and the joined ones, exactly one has the column.
Resolves(column, joins) ==
  LET having == {join \in joins : column \in join.columns} IN
  IF column \in HostColumns THEN having = {} ELSE \E join \in joins : having = {join}

\* The server does not accept the query: an alias that two joins introduce, an
\* empty condition, an alias that no join introduces, or a column without an
\* alias that no table has, or several.
Rejected(query) ==
  LET aliases == [n \in DOMAIN query.joins |-> query.joins[n].alias] IN
  \/ ~IsInjective(aliases) \/ Range(aliases) \cap query.alias # {}
  \/ \E n \in DOMAIN query.where :
       \/ query.where[n] = Absent
       \/ ~(query.where[n].uses \subseteq Range(aliases) \cup query.alias)
       \/ \E column \in query.where[n].bare : ~Resolves(column, Range(query.joins))

\* The hosts of table that the query selects.
Rows(query, table) ==
  {h \in table : /\ \A n \in DOMAIN query.joins : h \in query.joins[n].matches
                 /\ \A n \in DOMAIN query.where : h \in query.where[n].holds}

\* Mutant of CountHosts: a lost answer counts as -1.
CountHostsOrMinusOne(table, insightsOnly, filters, lost) ==
  LET query == hostCountQuery(insightsOnly, filters) IN
  [err |-> Rejected(query),
   count |-> IF lost \/ Rejected(query) THEN -1 ELSE Cardinality(Rows(query, table))]

\* RunQuery fails when the query is rejected.  A connection that is lost
\* later ends rows.Next() early, and rows.Err() is never read: the count is
\* then 0, ...
CountHosts(table, insightsOnly, filters, lost) ==
  LET query == hostCountQuery(insightsOnly, filters) IN
  IF Rejected(query) THEN [err |-> TRUE, count |-> -1]
  ELSE [err |-> FALSE, count |-> IF lost THEN 0 ELSE Cardinality(Rows(query, table))]

\* ... and of the ids only those below `bound` have arrived.
GetHostIds(table, insightsOnly, filters, bound) ==
  LET query == hostIdQuery(insightsOnly, filters) IN
  IF Rejected(query) THEN [err |-> TRUE, ids |-> {}]
  ELSE [err |-> FALSE, ids |-> {h \in Rows(query, table) : h < bound}]
============================================================================
