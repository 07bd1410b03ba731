----------------------------- MODULE Validation -----------------------------
(***************************************************************************)
(* validate() of controllers/validate.go: four queries, each a step of its *)
(* own, while hosts come and go in the inventory and in the application's  *)
(* table.  Iteration and ValidationController abstract from all of this by *)
(* the verdict.                                                            *)
(***************************************************************************)
EXTENDS HostQueries, Failures

CONSTANTS
  Scenarios,    \* initial contents of the two databases, and the definition
  Thresholds,   \* values of PercentageThreshold
  CutPoints,    \* where a list of ids may be cut off
  Movable,      \* the hosts that may come and go
  MaxChanges    \* and how often they do in all

ASSUME ThresholdsAssumption == Thresholds \subseteq 0..100

ASSUME ScenariosAssumption ==
  /\ \A s \in Scenarios :
       /\ s.inventory \cup s.app \subseteq Hosts
       /\ s.request.insightsOnly \in BOOLEAN
       /\ s.request.filters \in Seq(Filter)
  /\ Movable \subseteq Hosts /\ CutPoints \subseteq Hosts /\ MaxChanges \in Nat

VARIABLES
  inventory,  \* the hosts in the Inventory database
  app,        \* the ids in the application's table
  request,    \* Spec.InsightsOnly and Spec.AdditionalFilters
  threshold,  \* getValidationConfig().PercentageThreshold
  step,       \* the next query, or how validate() ended
  got,        \* its local variables: the answers so far
  touched,    \* hosts that came or went since it began (history)
  cut,        \* queries whose answer was cut off (history)
  changes     \* how often hosts came or went

data == <<inventory, app, request, threshold>>
vars == <<data, step, got, touched, cut, changes>>

Requests == {s.request : s \in Scenarios}

Queries == {"appCount", "hbiCount", "hbiIds", "appIds"}

\* A query is refused for what it says, or a call fails for another reason.
Outcomes == {"valid", "invalid", "exited early", "refused", "failed"}

TypeOK ==
  /\ inventory \subseteq Hosts /\ app \subseteq Hosts
  /\ request \in Requests /\ threshold \in Thresholds
  /\ step \in Queries \cup Outcomes
  /\ got \in [appCount : 0..Cardinality(Hosts), hbiCount : 0..Cardinality(Hosts),
              hbiIds : SUBSET Hosts, appIds : SUBSET Hosts]
  /\ touched \subseteq Movable /\ cut \subseteq Queries
  /\ changes \in 0..MaxChanges

NoAnswers == [appCount |-> 0, hbiCount |-> 0, hbiIds |-> {}, appIds |-> {}]

Init ==
  /\ \E s \in Scenarios : inventory = s.inventory /\ app = s.app /\ request = s.request
  /\ threshold \in Thresholds
  /\ step = "appCount" /\ got = NoAnswers
  /\ touched = {} /\ cut = {} /\ changes = 0
----------------------------------------------------------------------------
Abs(x) == IF x < 0 THEN -x ELSE x

Difference(a, b) == a \ b

AtLeastOne(n) == IF n < 1 THEN 1 ELSE n

\* Mutant of CountMismatch: the ratio is of the table's count.
CountMismatchOfTable(hbi, application) ==
  2 * Abs(hbi - application) > AtLeastOne(application)

\* float64(m) / n > 0.5.  The quotient is exact enough to tell.
CountMismatch(hbi, application) ==
  2 * Abs(hbi - application) > AtLeastOne(hbi)

\* The percentages t for which the float64 t/100*100 exceeds t.
RoundedUp == {7, 14, 28, 55, 56}

\* float64(m) / n * 100 <= t.  The rounding errors are smaller than any
\* difference between m/n and t/100, so that they only show when these are
\* equal, and then they depend on t alone.
WithinThreshold(m, n, t) ==
  100 * m < t * n \/ (100 * m = t * n /\ t \notin RoundedUp)

MismatchCount(hbi, application) ==
  Cardinality(Difference(hbi, application)) + Cardinality(Difference(application, hbi))

\* Mutant of Verdict: only hosts missing from the table count.
VerdictMissingOnly(hbi, application) ==
  IF WithinThreshold(Cardinality(Difference(hbi, application)), AtLeastOne(Cardinality(hbi)), threshold)
  THEN "valid" ELSE "invalid"

\* Mutant of Verdict: the ratio is of the table instead of the inventory.
VerdictOfTable(hbi, application) ==
  IF WithinThreshold(MismatchCount(hbi, application), AtLeastOne(Cardinality(application)), threshold)
  THEN "valid" ELSE "invalid"

Verdict(hbi, application) ==
  IF WithinThreshold(MismatchCount(hbi, application), AtLeastOne(Cardinality(hbi)), threshold)
  THEN "valid" ELSE "invalid"

\* Whether the answer to the query is cut off, and before which id.
MayLose == IF "query" \in Faults THEN BOOLEAN ELSE {FALSE}

NoBound == Cardinality(Hosts) + 1

Bounds == {NoBound} \cup (IF "query" \in Faults THEN CutPoints ELSE {})

Lost(query, lost) == cut' = IF lost THEN cut \cup {query} ELSE cut
----------------------------------------------------------------------------
\* The application's table is read without any filter.
CountApp ==
  /\ step = "appCount"
  /\ \E lost \in MayLose :
       /\ got' = [got EXCEPT !.appCount = CountHosts(app, FALSE, <<>>, lost).count]
       /\ Lost("appCount", lost)
  /\ step' = "hbiCount"
  /\ UNCHANGED <<data, touched, changes>>

\* Ends validate() early when the counts are far apart.
CountInventory ==
  /\ step = "hbiCount"
  /\ \E lost \in MayLose :
       LET r == CountHosts(inventory, request.insightsOnly, request.filters, lost) IN
       IF r.err THEN step' = "refused" /\ UNCHANGED <<got, cut>>
       ELSE /\ got' = [got EXCEPT !.hbiCount = r.count]
            /\ Lost("hbiCount", lost)
            /\ step' = IF CountMismatch(r.count, got.appCount) THEN "exited early" ELSE "hbiIds"
  /\ UNCHANGED <<data, touched, changes>>

ReadInventoryIds ==
  /\ step = "hbiIds"
  /\ \E bound \in Bounds :
       LET r == GetHostIds(inventory, request.insightsOnly, request.filters, bound) IN
       IF r.err THEN step' = "refused" /\ UNCHANGED <<got, cut>>
       ELSE got' = [got EXCEPT !.hbiIds = r.ids] /\ Lost("hbiIds", bound # NoBound) /\ step' = "appIds"
  /\ UNCHANGED <<data, touched, changes>>

\* The last query, and the verdict.
ReadAppIds ==
  /\ step = "appIds"
  /\ \E bound \in Bounds :
       /\ got' = [got EXCEPT !.appIds = GetHostIds(app, FALSE, <<>>, bound).ids]
       /\ Lost("appIds", bound # NoBound)
       /\ step' = Verdict(got.hbiIds, got'.appIds)
  /\ UNCHANGED <<data, touched, changes>>

\* Any of the four calls may return an error, which ends validate() with it.
QueryFails ==
  /\ step \in Queries
  /\ "call" \in Faults
  /\ step' = "failed"
  /\ UNCHANGED <<data, got, touched, cut, changes>>

\* The next reconcile validates again, maybe with another threshold.
ValidateAgain ==
  /\ step \in Outcomes
  /\ threshold' \in Thresholds
  /\ step' = "appCount" /\ got' = NoAnswers
  /\ touched' = {} /\ cut' = {}
  /\ UNCHANGED <<inventory, app, request, changes>>
----------------------------------------------------------------------------
\* A host comes or goes, in one of the databases.
HostMoves ==
  /\ step \in Queries
  /\ changes < MaxChanges
  /\ \E h \in Movable :
       /\ touched' = touched \cup {h}
       /\ \/ inventory' = SymDiff(inventory, {h}) /\ UNCHANGED app
          \/ app' = SymDiff(app, {h}) /\ UNCHANGED inventory
  /\ changes' = changes + 1
  /\ UNCHANGED <<request, threshold, step, got, cut>>

Next ==
  \/ CountApp \/ CountInventory \/ ReadInventoryIds \/ ReadAppIds \/ QueryFails
  \/ ValidateAgain \/ HostMoves

Spec == Init /\ [][Next]_vars
----------------------------------------------------------------------------
\* The hosts that the definition asks for, without reference to SQL.
Wanted ==
  {h \in inventory :
     /\ request.insightsOnly => h \in InsightsHosts
     /\ \A n \in DOMAIN request.filters :
          /\ h \in request.filters[n].where.holds
          /\ request.filters[n].join # Absent => h \in request.filters[n].join.matches}

\* The hosts that were in one of the two databases only, all the time.
Mismatched == SymDiff(Wanted, app) \ touched

Undisturbed == touched = {} /\ cut = {}

\* The tables that the filters join.
Joined == {request.filters[n].join : n \in DOMAIN request.filters} \ {Absent}

\* Both queries see exactly the hosts that the filters ask for, whatever the
\* order of the filters and however many of them share a join (getJoinClause,
\* getWhereClause), and fail only for a filter that cannot be run.
FiltersRespected ==
  /\ step = "refused" =>
       \/ \E n \in DOMAIN request.filters : request.filters[n].where = Absent
       \/ \E n \in DOMAIN request.filters : \E a \in request.filters[n].where.uses :
            \A m \in DOMAIN request.filters :
              request.filters[m].join = Absent \/ a \notin {"h", request.filters[m].join.alias}
       \/ \E n, m \in DOMAIN request.filters :
            LET j == request.filters[n].join  k == request.filters[m].join IN
            j # Absent /\ k # Absent /\ (j.alias = "h" \/ (j # k /\ j.alias = k.alias))
       \/ request.insightsOnly /\ \E j \in Joined : "insights_id" \in j.columns
       \/ \E n \in DOMAIN request.filters : \E column \in request.filters[n].where.bare :
            ~Resolves(column, Joined)
  /\ step \in {"appIds", "valid", "invalid"} /\ Undisturbed =>
       got.hbiIds = Wanted /\ got.hbiCount = Cardinality(Wanted)

\* No table passes that misses, or has in excess, too many hosts, whatever
\* comes and goes between the queries, and whatever happens to the counts.
\* (A list of ids that is cut off unnoticed may hide them.)
NoFalseAcceptance ==
  step = "valid" =>
    \/ cut \cap {"hbiIds", "appIds"} # {}
    \/ 100 * Cardinality(Mismatched) <= threshold * AtLeastOne(Cardinality(got.hbiIds))

\* A table fails only for hosts that differ, or that came or went meanwhile:
\* for more of them than the threshold allows (as many, where the percentage
\* is one that float64 rounds up), or for more than half of all when
\* validate() exits early.
NoFalseAlarm ==
  /\ step = "invalid" /\ cut = {} =>
       LET found == 100 * (Cardinality(Mismatched) + Cardinality(touched))
           allowed == threshold * AtLeastOne(Cardinality(got.hbiIds))
       IN  found > allowed \/ (found = allowed /\ threshold \in RoundedUp)
  /\ step = "exited early" /\ cut = {} =>
       2 * (Cardinality(Mismatched) + Cardinality(touched)) > AtLeastOne(got.hbiCount)

\* The early exit is a shortcut: in two databases at rest it is taken only
\* where comparing the ids would fail the table too, for a threshold up to
\* countMismatchThreshold.
EarlyExitAgrees ==
  step = "exited early" /\ Undisturbed /\ threshold <= 50 =>
    100 * Cardinality(SymDiff(Wanted, app)) > threshold * AtLeastOne(Cardinality(Wanted))
=============================================================================
