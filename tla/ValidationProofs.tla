-------------------------- MODULE ValidationProofs --------------------------
(***************************************************************************)
(* validate() never accepts a table that misses too many hosts and never   *)
(* rejects one without a reason, for any number of hosts, any filters and  *)
(* any threshold, while hosts come and go between its queries.             *)
(***************************************************************************)
EXTENDS Validation, FiniteSetTheorems, SequenceTheorems, TLAPS

\* The query that both inventory queries are built from.
Query == hostQuery(request.insightsOnly, request.filters)

\* The steps of validate() that come after a query was answered.
AfterAppCount == {"hbiCount", "hbiIds", "appIds", "valid", "invalid", "exited early", "refused"}
AfterHbiCount == {"hbiIds", "appIds", "valid", "invalid", "exited early"}
AfterHbiIds == {"appIds", "valid", "invalid"}
AfterAppIds == {"valid", "invalid"}

\* S is what T was once, and whatever changed since then is in `moved`.
SeenAs(S, T, moved) == S \subseteq Hosts /\ SymDiff(S, T) \subseteq moved

\* A query that ran is one the server accepts.
AcceptedInv ==
  /\ step \in AfterHbiCount => ~Rejected(Query)
  /\ step = "refused" => Rejected(Query)

\* What the answers say of the databases as they are now.
AnswersInv ==
  /\ step \in AfterAppCount /\ "appCount" \notin cut =>
       \E S : SeenAs(S, app, touched) /\ got.appCount = Cardinality(S)
  /\ step \in AfterHbiCount /\ "hbiCount" \notin cut =>
       \E S : SeenAs(S, Wanted, touched) /\ got.hbiCount = Cardinality(S)
  /\ step \in AfterHbiIds /\ "hbiIds" \notin cut => SeenAs(got.hbiIds, Wanted, touched)
  /\ step \in AfterAppIds /\ "appIds" \notin cut => SeenAs(got.appIds, app, touched)

\* How the outcome was computed.
VerdictInv ==
  /\ step = "exited early" => CountMismatch(got.hbiCount, got.appCount)
  /\ step = "valid" => WithinThreshold(MismatchCount(got.hbiIds, got.appIds),
                                       AtLeastOne(Cardinality(got.hbiIds)), threshold)
  /\ step = "invalid" => ~WithinThreshold(MismatchCount(got.hbiIds, got.appIds),
                                          AtLeastOne(Cardinality(got.hbiIds)), threshold)

ValidationInv == TypeOK /\ AcceptedInv /\ AnswersInv /\ VerdictInv
----------------------------------------------------------------------------
(***************************************************************************)
(* The queries.                                                            *)
(***************************************************************************)

\* Hosts and their subsets are finite.
LEMMA HostSets ==
  ASSUME NEW S, S \subseteq Hosts
  PROVE  /\ IsFiniteSet(S) /\ Cardinality(S) \in Nat
         /\ Cardinality(S) <= Cardinality(Hosts) /\ Cardinality(Hosts) \in Nat
         /\ Cardinality(S) \in 0..Cardinality(Hosts)
<1>1. IsFiniteSet(S) /\ Cardinality(S) <= Cardinality(Hosts)
  BY HostsAssumption, FS_Subset
<1>2. Cardinality(S) \in Nat /\ Cardinality(Hosts) \in Nat
  BY <1>1, HostsAssumption, FS_CardinalityType
<1> QED
  BY <1>1, <1>2

LEMMA InsightsConditionType ==
  /\ InsightsCondition \in Conditions /\ InsightsCondition # Absent
  /\ InsightsCondition.uses = {} /\ InsightsCondition.bare = {"insights_id"}
<1>1. "insights_id" \in STRING
  BY ColumnsAssumption
<1>2. InsightsCondition \in Conditions
  BY <1>1, HostsAssumption DEF InsightsCondition, Conditions
<1>3. InsightsCondition # Absent
  BY <1>2, AbsentAssumption
<1> QED
  BY <1>2, <1>3 DEF InsightsCondition

\* The conditions of a query are those of the filters and insightsOnly.
LEMMA WhereClause ==
  ASSUME NEW filters \in Seq(Filter), NEW only \in BOOLEAN, NEW w,
         w = getWhereClause(only, filters)
  PROVE  /\ \A n \in DOMAIN filters : \E m \in DOMAIN w : w[m] = filters[n].where
         /\ only => \E m \in DOMAIN w : w[m] = InsightsCondition
         /\ \A m \in DOMAIN w : \/ \E n \in DOMAIN filters : w[m] = filters[n].where
                                \/ only /\ w[m] = InsightsCondition
<1> DEFINE C == Conditions \cup {Absent}
           s == [n \in DOMAIN filters |-> filters[n].where]
           t == IF only THEN <<InsightsCondition>> ELSE <<>>
<1>1. Len(filters) \in Nat /\ DOMAIN filters = 1..Len(filters)
  OBVIOUS
<1>2. \A n \in DOMAIN filters : filters[n].where \in C
  <2>1. \A n \in DOMAIN filters : filters[n] \in Filter
    BY <1>1
  <2>2. \A f \in Filter : f.where \in C
    BY DEF Filter
  <2> QED
    BY <2>1, <2>2
<1>3. InsightsCondition \in C
  BY InsightsConditionType
<1>4. w = s \o t
  BY DEF getWhereClause, InsightsCondition
<1> HIDE DEF C
<1>5. s \in Seq(C) /\ Len(s) = Len(filters) /\ \A n \in DOMAIN filters : s[n] = filters[n].where
  BY <1>1, <1>2
<1>6. t \in Seq(C) /\ (only => Len(t) = 1 /\ t[1] = InsightsCondition) /\ (~only => Len(t) = 0)
  <2>1. CASE only
    BY <1>3, <2>1
  <2>2. CASE ~only
    BY <2>2
  <2> QED
    BY <2>1, <2>2
<1> HIDE DEF s, t
<1>7. /\ DOMAIN w = 1..(Len(s) + Len(t)) /\ Len(t) \in Nat /\ Len(s) \in Nat
      /\ \A n \in DOMAIN w : w[n] = IF n <= Len(s) THEN s[n] ELSE t[n - Len(s)]
  <2>1. /\ s \o t \in Seq(C) /\ Len(s \o t) = Len(s) + Len(t)
        /\ \A n \in 1..(Len(s) + Len(t)) :
             (s \o t)[n] = IF n <= Len(s) THEN s[n] ELSE t[n - Len(s)]
    BY <1>5, <1>6, ConcatProperties
  <2> QED
    BY <1>4, <1>5, <1>6, <2>1
<1>8. ASSUME NEW n \in DOMAIN filters
      PROVE  \E m \in DOMAIN w : w[m] = filters[n].where
  BY <1>1, <1>5, <1>7
<1>9. ASSUME only
      PROVE  \E m \in DOMAIN w : w[m] = InsightsCondition
  <2>1. Len(t) = 1 /\ t[1] = InsightsCondition
    BY <1>6, <1>9
  <2>2. Len(s) + 1 \in DOMAIN w /\ ~(Len(s) + 1 <= Len(s)) /\ (Len(s) + 1) - Len(s) = 1
    BY <1>7, <2>1
  <2>3. w[Len(s) + 1] = t[1]
    BY <1>7, <2>2
  <2> QED
    BY <2>1, <2>2, <2>3
<1>10. ASSUME NEW m \in DOMAIN w
       PROVE  \/ \E n \in DOMAIN filters : w[m] = filters[n].where
              \/ only /\ w[m] = InsightsCondition
  <2>1. CASE m <= Len(s)
    BY <1>1, <1>5, <1>7, <2>1
  <2>2. CASE ~(m <= Len(s))
    <3>1. only
      BY <1>6, <1>7, <2>2
    <3>2. Len(t) = 1
      BY <1>6, <3>1
    <3>3. m - Len(s) = 1
      BY <1>7, <2>2, <3>2
    <3> QED
      BY <1>6, <1>7, <2>2, <3>1, <3>3
  <2> QED
    BY <2>1, <2>2
<1> QED
  BY <1>8, <1>9, <1>10

\* Each join of a filter is in the query, and no other.
LEMMA JoinClause ==
  ASSUME NEW filters \in Seq(Filter), NEW only, NEW joins, joins = hostQuery(only, filters).joins
  PROVE  /\ DOMAIN joins = {filters[n].join : n \in DOMAIN filters} \ {Absent}
         /\ \A j \in DOMAIN joins : joins[j] = j
<1>1. joins = IF hasJoinClause(filters) THEN getJoinClause(filters) ELSE <<>>
  BY DEF hostQuery
<1>2. CASE hasJoinClause(filters)
  BY <1>1, <1>2 DEF getJoinClause
<1>3. CASE ~hasJoinClause(filters)
  <2>1. joins = <<>> /\ {filters[n].join : n \in DOMAIN filters} \ {Absent} = {}
    BY <1>1, <1>3 DEF hasJoinClause
  <2>2. DOMAIN joins = {}
    BY <2>1
  <2> QED
    BY <2>1, <2>2
<1> QED
  BY <1>2, <1>3

LEMMA RequestType ==
  ASSUME TypeOK
  PROVE  request.filters \in Seq(Filter) /\ request.insightsOnly \in BOOLEAN
  BY ScenariosAssumption DEF TypeOK, Requests

\* An accepted query selects the hosts that the definition asks for.
LEMMA RowsAreWanted ==
  ASSUME TypeOK, ~Rejected(Query)
  PROVE  Rows(Query, inventory) = Wanted
<1> DEFINE fs == request.filters
           only == request.insightsOnly
           w == Query.where
           js == Query.joins
<1>1. fs \in Seq(Filter) /\ only \in BOOLEAN
  BY RequestType
<1>2. w = getWhereClause(only, fs)
  BY DEF Query, hostQuery
<1>3. /\ \A n \in DOMAIN fs : \E m \in DOMAIN w : w[m] = fs[n].where
      /\ only => \E m \in DOMAIN w : w[m] = InsightsCondition
      /\ \A m \in DOMAIN w : \/ \E n \in DOMAIN fs : w[m] = fs[n].where
                             \/ only /\ w[m] = InsightsCondition
  BY <1>1, <1>2, WhereClause
<1>4. /\ DOMAIN js = {fs[n].join : n \in DOMAIN fs} \ {Absent}
      /\ \A j \in DOMAIN js : js[j] = j
  BY <1>1, JoinClause DEF Query
<1>5. InsightsCondition.holds = InsightsHosts
  BY DEF InsightsCondition
<1>6. ASSUME NEW h
      PROVE  (\A n \in DOMAIN w : h \in w[n].holds) <=>
             /\ only => h \in InsightsHosts
             /\ \A n \in DOMAIN fs : h \in fs[n].where.holds
  <2> HIDE DEF w, fs, only
  <2> QED
    BY <1>3, <1>5
<1>7. ASSUME NEW h
      PROVE  (\A j \in DOMAIN js : h \in js[j].matches) <=>
             \A n \in DOMAIN fs : fs[n].join # Absent => h \in fs[n].join.matches
  <2> HIDE DEF js, fs
  <2> QED
    BY <1>4
<1>8. Rows(Query, inventory) = {h \in inventory : /\ \A n \in DOMAIN js : h \in js[n].matches
                                                /\ \A n \in DOMAIN w : h \in w[n].holds}
  BY DEF Rows
<1>9. Wanted = {h \in inventory :
                  /\ only => h \in InsightsHosts
                  /\ \A n \in DOMAIN fs :
                       h \in fs[n].where.holds /\ (fs[n].join # Absent => h \in fs[n].join.matches)}
  BY DEF Wanted
<1> HIDE DEF w, js, fs, only
<1> QED
  BY <1>6, <1>7, <1>8, <1>9

\* The query of the application's table selects all of it.
LEMMA RowsOfTable ==
  ASSUME NEW table, NEW q, q = hostQuery(FALSE, <<>>)
  PROVE  ~Rejected(q) /\ Rows(q, table) = table
<1>1. ~hasJoinClause(<<>>)
  BY DEF hasJoinClause
<1>2. getWhereClause(FALSE, <<>>) = <<>>
  BY DEF getWhereClause
<1> DEFINE none == <<>>
           r == [alias |-> {}, joins |-> none, where |-> none]
<1>3. DOMAIN none = {}
  OBVIOUS
<1>4. q = r
  BY <1>1, <1>2 DEF hostQuery
<1> HIDE DEF none
<1>5. r.alias = {} /\ r.joins = none /\ r.where = none
  OBVIOUS
<1> HIDE DEF r
<1> QED
  BY <1>3, <1>4, <1>5 DEF Rejected, Rows, IsInjective, Range

\* What the four queries answer.
LEMMA Answers ==
  ASSUME TypeOK
  PROVE  /\ Wanted \subseteq inventory /\ Wanted \subseteq Hosts
         /\ \A lost : CountHosts(app, FALSE, <<>>, lost).count = IF lost THEN 0 ELSE Cardinality(app)
         /\ \A bound : GetHostIds(app, FALSE, <<>>, bound).ids = {h \in app : h < bound}
         /\ \A lost : LET r == CountHosts(inventory, request.insightsOnly, request.filters, lost) IN
              /\ r.err = Rejected(Query)
              /\ ~r.err => r.count = IF lost THEN 0 ELSE Cardinality(Wanted)
         /\ \A bound : LET r == GetHostIds(inventory, request.insightsOnly, request.filters, bound) IN
              /\ r.err = Rejected(Query)
              /\ ~r.err => r.ids = {h \in Wanted : h < bound}
<1>1. Wanted \subseteq inventory /\ Wanted \subseteq Hosts
  BY DEF Wanted, TypeOK
<1> DEFINE q == hostQuery(FALSE, <<>>)
<1>2. ~Rejected(q) /\ Rows(q, app) = app
  BY RowsOfTable
<1>3. hostCountQuery(FALSE, <<>>) = q /\ hostIdQuery(FALSE, <<>>) = q
  BY DEF hostCountQuery, hostIdQuery
<1>4. /\ hostCountQuery(request.insightsOnly, request.filters) = Query
      /\ hostIdQuery(request.insightsOnly, request.filters) = Query
  BY DEF hostCountQuery, hostIdQuery, Query
<1>5. ~Rejected(Query) => Rows(Query, inventory) = Wanted
  BY RowsAreWanted
<1> HIDE DEF q
<1>6. \A lost : CountHosts(app, FALSE, <<>>, lost).count = IF lost THEN 0 ELSE Cardinality(app)
  BY <1>2, <1>3 DEF CountHosts
<1>7. \A bound : GetHostIds(app, FALSE, <<>>, bound).ids = {h \in app : h < bound}
  BY <1>2, <1>3 DEF GetHostIds
<1> DEFINE bad == Rejected(Query)
<1>8. bad \in BOOLEAN
  BY DEF Rejected
<1>9. ASSUME NEW lost
      PROVE  LET r == CountHosts(inventory, request.insightsOnly, request.filters, lost) IN
             r.err = bad /\ (~r.err => r.count = IF lost THEN 0 ELSE Cardinality(Wanted))
  <2> DEFINE r == CountHosts(inventory, request.insightsOnly, request.filters, lost)
             n == IF lost THEN 0 ELSE Cardinality(Rows(Query, inventory))
  <2>1. r = IF bad THEN [err |-> TRUE, count |-> -1] ELSE [err |-> FALSE, count |-> n]
    BY <1>4 DEF CountHosts
  <2>2. ~bad => n = IF lost THEN 0 ELSE Cardinality(Wanted)
    BY <1>5
  <2> HIDE DEF r, n, bad
  <2>3. CASE bad
    <3>1. r.err = TRUE
      BY <2>1, <2>3
    <3> QED
      BY <1>8, <2>3, <3>1 DEF r
  <2>4. CASE ~bad
    <3>1. r.err = FALSE /\ r.count = n
      BY <2>1, <2>4
    <3> QED
      BY <1>8, <2>2, <2>4, <3>1 DEF r
  <2> QED
    BY <2>3, <2>4
<1>10. ASSUME NEW bound
       PROVE  LET r == GetHostIds(inventory, request.insightsOnly, request.filters, bound) IN
              r.err = bad /\ (~r.err => r.ids = {h \in Wanted : h < bound})
  <2> DEFINE r == GetHostIds(inventory, request.insightsOnly, request.filters, bound)
             ids == {h \in Rows(Query, inventory) : h < bound}
  <2>1. r = IF bad THEN [err |-> TRUE, ids |-> {}] ELSE [err |-> FALSE, ids |-> ids]
    BY <1>4 DEF GetHostIds
  <2>2. ~bad => ids = {h \in Wanted : h < bound}
    BY <1>5
  <2> HIDE DEF r, ids, bad
  <2>3. CASE bad
    <3>1. r.err = TRUE
      BY <2>1, <2>3
    <3> QED
      BY <1>8, <2>3, <3>1 DEF r
  <2>4. CASE ~bad
    <3>1. r.err = FALSE /\ r.ids = ids
      BY <2>1, <2>4
    <3> QED
      BY <1>8, <2>2, <2>4, <3>1 DEF r
  <2> QED
    BY <2>3, <2>4
<1> QED
  BY <1>1, <1>6, <1>7, <1>9, <1>10

\* A list of ids that is not cut off is complete.
LEMMA WholeList ==
  ASSUME NEW S, S \subseteq Hosts
  PROVE  {h \in S : h < NoBound} = S
<1>1. Cardinality(Hosts) \in Nat /\ Hosts = 1..Cardinality(Hosts)
  BY HostsAssumption, HostSets
<1>2. \A h \in Hosts : h < NoBound
  BY <1>1 DEF NoBound
<1> QED
  BY <1>2
----------------------------------------------------------------------------
(***************************************************************************)
(* ValidationInv is inductive.                                             *)
(***************************************************************************)

\* The answer of one query is recorded and the others are kept.
LEMMA GotFields ==
  ASSUME TypeOK, NEW x
  PROVE  /\ LET g == [got EXCEPT !.appCount = x] IN
            /\ g.appCount = x /\ g.hbiCount = got.hbiCount
            /\ g.hbiIds = got.hbiIds /\ g.appIds = got.appIds
         /\ LET g == [got EXCEPT !.hbiCount = x] IN
            /\ g.appCount = got.appCount /\ g.hbiCount = x
            /\ g.hbiIds = got.hbiIds /\ g.appIds = got.appIds
         /\ LET g == [got EXCEPT !.hbiIds = x] IN
            /\ g.appCount = got.appCount /\ g.hbiCount = got.hbiCount
            /\ g.hbiIds = x /\ g.appIds = got.appIds
         /\ LET g == [got EXCEPT !.appIds = x] IN
            /\ g.appCount = got.appCount /\ g.hbiCount = got.hbiCount
            /\ g.hbiIds = got.hbiIds /\ g.appIds = x
  BY DEF TypeOK

LEMMA GotTypes ==
  ASSUME TypeOK, NEW n \in 0..Cardinality(Hosts), NEW S \in SUBSET Hosts,
         \/ got' = [got EXCEPT !.appCount = n] \/ got' = [got EXCEPT !.hbiCount = n]
         \/ got' = [got EXCEPT !.hbiIds = S] \/ got' = [got EXCEPT !.appIds = S]
  PROVE  got' \in [appCount : 0..Cardinality(Hosts), hbiCount : 0..Cardinality(Hosts),
                   hbiIds : SUBSET Hosts, appIds : SUBSET Hosts]
  BY DEF TypeOK

\* Nothing has changed since a query was answered just now.
LEMMA SeenNow ==
  ASSUME NEW S, S \subseteq Hosts, NEW moved
  PROVE  SeenAs(S, S, moved)
  BY DEF SeenAs, SymDiff

LEMMA DataFrame ==
  ASSUME UNCHANGED data
  PROVE  Wanted' = Wanted /\ Query' = Query /\ (Rejected(Query) <=> Rejected(Query)')
         /\ app' = app /\ inventory' = inventory /\ request' = request /\ threshold' = threshold
<1>1. app' = app /\ inventory' = inventory /\ request' = request /\ threshold' = threshold
  BY DEF data
<1>2. Wanted' = Wanted /\ Query' = Query
  BY <1>1 DEF Wanted, Query, hostQuery, hasJoinClause, getJoinClause, getWhereClause
<1> QED
  BY <1>1, <1>2 DEF Rejected

LEMMA CountAppStep ==
  ASSUME ValidationInv, CountApp
  PROVE  ValidationInv'
<1>1. PICK lost \in MayLose :
        /\ got' = [got EXCEPT !.appCount = CountHosts(app, FALSE, <<>>, lost).count]
        /\ Lost("appCount", lost)
  BY DEF CountApp
<1>2. TypeOK /\ step' = "hbiCount" /\ UNCHANGED <<touched, changes>> /\ lost \in BOOLEAN
  BY DEF ValidationInv, CountApp, MayLose
<1>3. /\ app' = app /\ inventory' = inventory /\ request' = request /\ threshold' = threshold
  BY DataFrame DEF CountApp
<1> DEFINE n == IF lost THEN 0 ELSE Cardinality(app)
<1>4. got' = [got EXCEPT !.appCount = n]
  BY <1>1, <1>2, Answers
<1>5. n \in 0..Cardinality(Hosts)
  BY <1>2, HostSets DEF TypeOK
<1> HIDE DEF n
<1>6. got'.appCount = n
  BY <1>2, <1>4, GotFields
<1>7. "appCount" \notin cut' => ~lost
  BY <1>1 DEF Lost
<1>8. TypeOK'
  <2>1. cut' \subseteq Queries
    BY <1>1, <1>2 DEF Lost, TypeOK, Queries
  <2> QED
    BY <1>2, <1>3, <1>4, <1>5, <2>1, GotTypes DEF TypeOK, Queries
<1>9. "appCount" \notin cut' => \E S : SeenAs(S, app', touched') /\ got'.appCount = Cardinality(S)
  BY <1>2, <1>3, <1>6, <1>7, SeenNow DEF TypeOK, n
<1>10. AnswersInv'
  BY <1>2, <1>9 DEF AnswersInv, AfterHbiCount, AfterHbiIds, AfterAppIds
<1> QED
  BY <1>2, <1>8, <1>10 DEF ValidationInv, AcceptedInv, VerdictInv, AfterHbiCount

LEMMA CountInventoryStep ==
  ASSUME ValidationInv, CountInventory
  PROVE  ValidationInv'
<1> DEFINE c(l) == CountHosts(inventory, request.insightsOnly, request.filters, l)
<1>1. PICK lost \in MayLose :
        IF c(lost).err THEN step' = "refused" /\ UNCHANGED <<got, cut>>
        ELSE /\ got' = [got EXCEPT !.hbiCount = c(lost).count]
             /\ Lost("hbiCount", lost)
             /\ step' = IF CountMismatch(c(lost).count, got.appCount) THEN "exited early" ELSE "hbiIds"
  BY DEF CountInventory
<1>2. TypeOK /\ AnswersInv /\ UNCHANGED <<touched, changes>> /\ lost \in BOOLEAN /\ step = "hbiCount"
  BY DEF ValidationInv, CountInventory, MayLose
<1>3. /\ app' = app /\ inventory' = inventory /\ request' = request /\ threshold' = threshold
      /\ Wanted' = Wanted /\ (Rejected(Query) <=> Rejected(Query)')
  BY DataFrame DEF CountInventory
<1>4. /\ c(lost).err = Rejected(Query) /\ Wanted \subseteq Hosts
      /\ ~c(lost).err => c(lost).count = IF lost THEN 0 ELSE Cardinality(Wanted)
  BY <1>2, Answers
<1> HIDE DEF c
<1>5. CASE c(lost).err
  <2>1. step' = "refused" /\ got' = got /\ cut' = cut /\ Rejected(Query)'
    BY <1>1, <1>3, <1>4, <1>5
  <2>2. TypeOK'
    BY <1>2, <1>3, <2>1 DEF TypeOK, Outcomes
  <2>3. AnswersInv'
    BY <1>2, <1>3, <2>1 DEF AnswersInv, AfterAppCount, AfterHbiCount, AfterHbiIds, AfterAppIds
  <2> QED
    BY <2>1, <2>2, <2>3 DEF ValidationInv, AcceptedInv, VerdictInv, AfterHbiCount
<1>6. CASE ~c(lost).err
  <2> DEFINE n == IF lost THEN 0 ELSE Cardinality(Wanted)
  <2>1. /\ got' = [got EXCEPT !.hbiCount = n] /\ Lost("hbiCount", lost)
        /\ step' = IF CountMismatch(n, got.appCount) THEN "exited early" ELSE "hbiIds"
        /\ ~Rejected(Query)'
    BY <1>1, <1>3, <1>4, <1>6
  <2>2. n \in 0..Cardinality(Hosts)
    BY <1>2, <1>4, HostSets
  <2> HIDE DEF n
  <2>3. got'.hbiCount = n /\ got'.appCount = got.appCount
    BY <1>2, <2>1, GotFields
  <2>4. cut \subseteq cut' /\ ("hbiCount" \notin cut' => ~lost) /\ cut' \subseteq Queries
    BY <1>2, <2>1 DEF Lost, TypeOK, Queries
  <2>5. TypeOK'
    BY <1>2, <1>3, <2>1, <2>2, <2>4, GotTypes DEF TypeOK, Queries, Outcomes
  <2>6. "hbiCount" \notin cut' =>
          \E S : SeenAs(S, Wanted', touched') /\ got'.hbiCount = Cardinality(S)
    BY <1>2, <1>3, <1>4, <2>3, <2>4, SeenNow DEF n
  <2>7. "appCount" \notin cut' =>
          \E S : SeenAs(S, app', touched') /\ got'.appCount = Cardinality(S)
    BY <1>2, <1>3, <2>3, <2>4 DEF AnswersInv, AfterAppCount
  <2>8. step' \in {"exited early", "hbiIds"}
    BY <2>1
  <2>9. AnswersInv'
    BY <2>6, <2>7, <2>8 DEF AnswersInv, AfterHbiIds, AfterAppIds
  <2>10. VerdictInv'
    BY <2>1, <2>3, <2>8 DEF VerdictInv
  <2> QED
    BY <2>1, <2>5, <2>8, <2>9, <2>10 DEF ValidationInv, AcceptedInv
<1> QED
  BY <1>5, <1>6

LEMMA ReadInventoryIdsStep ==
  ASSUME ValidationInv, ReadInventoryIds
  PROVE  ValidationInv'
<1> DEFINE c(b) == GetHostIds(inventory, request.insightsOnly, request.filters, b)
<1>1. PICK bound \in Bounds :
        IF c(bound).err THEN step' = "refused" /\ UNCHANGED <<got, cut>>
        ELSE /\ got' = [got EXCEPT !.hbiIds = c(bound).ids]
             /\ Lost("hbiIds", bound # NoBound) /\ step' = "appIds"
  BY DEF ReadInventoryIds
<1>2. /\ TypeOK /\ AnswersInv /\ AcceptedInv /\ UNCHANGED <<touched, changes>> /\ step = "hbiIds"
  BY DEF ValidationInv, ReadInventoryIds
<1>3. /\ app' = app /\ inventory' = inventory /\ request' = request /\ threshold' = threshold
      /\ Wanted' = Wanted /\ (Rejected(Query) <=> Rejected(Query)')
  BY DataFrame DEF ReadInventoryIds
<1>4. /\ c(bound).err = Rejected(Query) /\ Wanted \subseteq Hosts
      /\ ~c(bound).err => c(bound).ids = {h \in Wanted : h < bound}
  BY <1>2, Answers
<1>5. ~Rejected(Query) /\ ~c(bound).err
  BY <1>2, <1>4 DEF AcceptedInv, AfterHbiCount
<1> HIDE DEF c
<1> DEFINE ids == {h \in Wanted : h < bound}
<1>6. /\ got' = [got EXCEPT !.hbiIds = ids] /\ Lost("hbiIds", bound # NoBound) /\ step' = "appIds"
      /\ ~Rejected(Query)'
  BY <1>1, <1>3, <1>4, <1>5
<1>7. ids \subseteq Hosts /\ (bound = NoBound => ids = Wanted)
  BY <1>4, WholeList
<1> HIDE DEF ids
<1>8. got'.hbiIds = ids /\ got'.appCount = got.appCount /\ got'.hbiCount = got.hbiCount
  BY <1>2, <1>6, GotFields
<1>9. cut \subseteq cut' /\ ("hbiIds" \notin cut' => bound = NoBound) /\ cut' \subseteq Queries
  BY <1>2, <1>6 DEF Lost, TypeOK, Queries
<1>10. TypeOK'
  <2>1. 0 \in 0..Cardinality(Hosts)
    BY HostSets
  <2> QED
    BY <1>2, <1>3, <1>6, <1>7, <1>9, <2>1, GotTypes DEF TypeOK, Queries
<1>11. "hbiIds" \notin cut' => SeenAs(got'.hbiIds, Wanted', touched')
  BY <1>3, <1>4, <1>7, <1>8, <1>9, SeenNow
<1>12. "appCount" \notin cut' => \E S : SeenAs(S, app', touched') /\ got'.appCount = Cardinality(S)
  BY <1>2, <1>3, <1>8, <1>9 DEF AnswersInv, AfterAppCount
<1>13. "hbiCount" \notin cut' => \E S : SeenAs(S, Wanted', touched') /\ got'.hbiCount = Cardinality(S)
  BY <1>2, <1>3, <1>8, <1>9 DEF AnswersInv, AfterHbiCount
<1>14. AnswersInv'
  BY <1>6, <1>11, <1>12, <1>13 DEF AnswersInv, AfterAppIds
<1> QED
  BY <1>6, <1>10, <1>14 DEF ValidationInv, AcceptedInv, VerdictInv

LEMMA ReadAppIdsStep ==
  ASSUME ValidationInv, ReadAppIds
  PROVE  ValidationInv'
<1>1. PICK bound \in Bounds :
        /\ got' = [got EXCEPT !.appIds = GetHostIds(app, FALSE, <<>>, bound).ids]
        /\ Lost("appIds", bound # NoBound)
        /\ step' = Verdict(got.hbiIds, got'.appIds)
  BY DEF ReadAppIds
<1>2. /\ TypeOK /\ AnswersInv /\ AcceptedInv /\ UNCHANGED <<touched, changes>> /\ step = "appIds"
  BY DEF ValidationInv, ReadAppIds
<1>3. /\ app' = app /\ inventory' = inventory /\ request' = request /\ threshold' = threshold
      /\ Wanted' = Wanted /\ (Rejected(Query) <=> Rejected(Query)')
  BY DataFrame DEF ReadAppIds
<1> DEFINE ids == {h \in app : h < bound}
<1>4. got' = [got EXCEPT !.appIds = ids]
  BY <1>1, <1>2, Answers
<1>5. app \subseteq Hosts /\ ids \subseteq Hosts /\ (bound = NoBound => ids = app)
  BY <1>2, WholeList DEF TypeOK
<1> HIDE DEF ids
<1>6. /\ got'.appIds = ids /\ got'.hbiIds = got.hbiIds
      /\ got'.appCount = got.appCount /\ got'.hbiCount = got.hbiCount
  BY <1>2, <1>4, GotFields
<1>7. cut \subseteq cut' /\ ("appIds" \notin cut' => bound = NoBound) /\ cut' \subseteq Queries
  BY <1>1, <1>2 DEF Lost, TypeOK, Queries
<1>8. step' \in {"valid", "invalid"}
  BY <1>1 DEF Verdict
<1>9. TypeOK'
  <2>1. 0 \in 0..Cardinality(Hosts)
    BY HostSets
  <2> QED
    BY <1>2, <1>3, <1>4, <1>5, <1>7, <1>8, <2>1, GotTypes DEF TypeOK, Outcomes
<1>10. "appIds" \notin cut' => SeenAs(got'.appIds, app', touched')
  BY <1>3, <1>5, <1>6, <1>7, SeenNow
<1>11. "appCount" \notin cut' => \E S : SeenAs(S, app', touched') /\ got'.appCount = Cardinality(S)
  BY <1>2, <1>3, <1>6, <1>7 DEF AnswersInv, AfterAppCount
<1>12. "hbiCount" \notin cut' => \E S : SeenAs(S, Wanted', touched') /\ got'.hbiCount = Cardinality(S)
  BY <1>2, <1>3, <1>6, <1>7 DEF AnswersInv, AfterHbiCount
<1>13. "hbiIds" \notin cut' => SeenAs(got'.hbiIds, Wanted', touched')
  BY <1>2, <1>3, <1>6, <1>7 DEF AnswersInv, AfterHbiIds
<1>14. AnswersInv'
  BY <1>10, <1>11, <1>12, <1>13 DEF AnswersInv
<1>15. VerdictInv'
  <2> DEFINE w == WithinThreshold(MismatchCount(got'.hbiIds, got'.appIds),
                                  AtLeastOne(Cardinality(got'.hbiIds)), threshold')
  <2>1. step' = IF w THEN "valid" ELSE "invalid"
    BY <1>1, <1>3, <1>6 DEF Verdict
  <2> HIDE DEF w
  <2>2. (step' = "valid" => w) /\ (step' = "invalid" => ~w)
    BY <2>1
  <2> QED
    BY <1>8, <2>2 DEF VerdictInv, w
<1> QED
  BY <1>2, <1>3, <1>8, <1>9, <1>14, <1>15 DEF ValidationInv, AcceptedInv, AfterHbiCount

LEMMA QueryFailsStep ==
  ASSUME ValidationInv, QueryFails
  PROVE  ValidationInv'
<1>1. TypeOK /\ step' = "failed" /\ UNCHANGED <<data, got, touched, cut, changes>>
  BY DEF ValidationInv, QueryFails
<1>2. TypeOK'
  BY <1>1 DEF TypeOK, Outcomes, data
<1> QED
  BY <1>1, <1>2 DEF ValidationInv, AcceptedInv, AnswersInv, VerdictInv, AfterAppCount,
                    AfterHbiCount, AfterHbiIds, AfterAppIds

LEMMA ValidateAgainStep ==
  ASSUME ValidationInv, ValidateAgain
  PROVE  ValidationInv'
<1>1. TypeOK /\ step' = "appCount" /\ got' = NoAnswers
  BY DEF ValidationInv, ValidateAgain
<1>2. 0 \in 0..Cardinality(Hosts)
  BY HostSets
<1>3. TypeOK'
  BY <1>1, <1>2 DEF ValidateAgain, TypeOK, NoAnswers, Queries
<1> QED
  BY <1>1, <1>3 DEF ValidationInv, AcceptedInv, AnswersInv, VerdictInv, AfterAppCount,
                    AfterHbiCount, AfterHbiIds, AfterAppIds

\* What was seen of T before h came or went.
LEMMA SeenBefore ==
  ASSUME NEW S, NEW T, NEW U, NEW moved, NEW h, SeenAs(S, T, moved), SymDiff(T, U) \subseteq {h}
  PROVE  SeenAs(S, U, moved \cup {h})
  BY DEF SeenAs, SymDiff

LEMMA HostMovesStep ==
  ASSUME ValidationInv, HostMoves
  PROVE  ValidationInv'
<1>1. PICK h \in Movable :
        /\ touched' = touched \cup {h}
        /\ \/ inventory' = SymDiff(inventory, {h}) /\ UNCHANGED app
           \/ app' = SymDiff(app, {h}) /\ UNCHANGED inventory
  BY DEF HostMoves
<1>2. /\ TypeOK /\ AnswersInv /\ AcceptedInv /\ changes < MaxChanges /\ changes' = changes + 1
      /\ UNCHANGED <<request, threshold, step, got, cut>> /\ step \in Queries
  BY DEF ValidationInv, HostMoves
<1>3. h \in Hosts
  BY ScenariosAssumption
<1>4. TypeOK'
  <2>1. changes' \in 0..MaxChanges
    BY <1>2, ScenariosAssumption DEF TypeOK
  <2>2. inventory' \subseteq Hosts /\ app' \subseteq Hosts
    BY <1>1, <1>2, <1>3 DEF TypeOK, SymDiff
  <2> QED
    BY <1>1, <1>2, <2>1, <2>2 DEF TypeOK
<1>5. SymDiff(app, app') \subseteq {h}
  BY <1>1 DEF SymDiff
<1>6. SymDiff(Wanted, Wanted') \subseteq {h}
  <2> DEFINE P(x) ==
        /\ request.insightsOnly => x \in InsightsHosts
        /\ \A n \in DOMAIN request.filters :
             /\ x \in request.filters[n].where.holds
             /\ request.filters[n].join # Absent => x \in request.filters[n].join.matches
  <2>1. Wanted = {x \in inventory : P(x)} /\ Wanted' = {x \in inventory' : P(x)}
    BY <1>2 DEF Wanted
  <2> HIDE DEF P
  <2> QED
    BY <1>1, <2>1 DEF SymDiff
<1>7. Rejected(Query) <=> Rejected(Query)'
  <2>1. Query' = Query
    BY <1>2 DEF Query, hostQuery, hasJoinClause, getJoinClause, getWhereClause
  <2> QED
    BY <2>1 DEF Rejected
<1>8. AnswersInv'
  BY <1>1, <1>2, <1>5, <1>6, SeenBefore DEF AnswersInv
<1>9. VerdictInv'
  BY <1>2 DEF VerdictInv, Queries
<1> QED
  BY <1>2, <1>4, <1>7, <1>8, <1>9 DEF ValidationInv, AcceptedInv

LEMMA ValidationInit ==
  ASSUME Init
  PROVE  ValidationInv
<1>1. 0 \in 0..Cardinality(Hosts) /\ 0 \in 0..MaxChanges
  BY HostSets, ScenariosAssumption
<1>2. PICK s \in Scenarios : inventory = s.inventory /\ app = s.app /\ request = s.request
  BY DEF Init
<1>3. inventory \subseteq Hosts /\ app \subseteq Hosts /\ request \in Requests
  BY <1>2, ScenariosAssumption DEF Requests
<1>4. TypeOK
  BY <1>1, <1>3 DEF Init, TypeOK, NoAnswers, Queries
<1> QED
  BY <1>4 DEF Init, ValidationInv, AcceptedInv, AnswersInv, VerdictInv, AfterAppCount,
              AfterHbiCount, AfterHbiIds, AfterAppIds

LEMMA ValidationInvStep ==
  ASSUME ValidationInv, [Next]_vars
  PROVE  ValidationInv'
<1>1. CASE UNCHANGED vars
  <2>1. /\ Wanted' = Wanted /\ (Rejected(Query) <=> Rejected(Query)') /\ app' = app
        /\ inventory' = inventory /\ request' = request /\ threshold' = threshold
        /\ UNCHANGED <<step, got, touched, cut, changes>>
    BY <1>1, DataFrame DEF vars
  <2> QED
    BY <2>1 DEF ValidationInv, TypeOK, AcceptedInv, AnswersInv, VerdictInv
<1> QED
  BY <1>1, CountAppStep, CountInventoryStep, ReadInventoryIdsStep, ReadAppIdsStep,
     QueryFailsStep, ValidateAgainStep, HostMovesStep DEF Next
----------------------------------------------------------------------------
(***************************************************************************)
(* Counting.                                                               *)
(***************************************************************************)

\* mismatchCount is the size of the symmetric difference.
LEMMA MismatchIsSymDiff ==
  ASSUME NEW A, NEW B, A \subseteq Hosts, B \subseteq Hosts
  PROVE  MismatchCount(A, B) = Cardinality(SymDiff(A, B))
<1>1. IsFiniteSet(A \ B) /\ IsFiniteSet(B \ A)
  BY HostSets
<1>2. (A \ B) \cap (B \ A) = {} /\ Cardinality({}) = 0
  BY FS_EmptySet
<1>3. Cardinality((A \ B) \cup (B \ A)) = Cardinality(A \ B) + Cardinality(B \ A) - 0
  BY <1>1, <1>2, FS_Union
<1>4. Cardinality(A \ B) \in Nat /\ Cardinality(B \ A) \in Nat
  BY HostSets
<1> QED
  BY <1>3, <1>4 DEF MismatchCount, Difference, SymDiff

\* Two counts differ by no more than the sets do.
LEMMA CountsDiffer ==
  ASSUME NEW A, NEW B, A \subseteq Hosts, B \subseteq Hosts
  PROVE  /\ Cardinality(A) \in Nat /\ Cardinality(B) \in Nat
         /\ Cardinality(SymDiff(A, B)) \in Nat
         /\ Abs(Cardinality(A) - Cardinality(B)) <= Cardinality(SymDiff(A, B))
<1>1. IsFiniteSet(A) /\ IsFiniteSet(B)
  BY HostSets
<1>2. /\ Cardinality(A \ B) = Cardinality(A) - Cardinality(A \cap B)
      /\ Cardinality(B \ A) = Cardinality(B) - Cardinality(B \cap A)
  BY <1>1, FS_Difference
<1>3. A \cap B = B \cap A
  OBVIOUS
<1>4. /\ Cardinality(A) \in Nat /\ Cardinality(B) \in Nat /\ Cardinality(A \cap B) \in Nat
      /\ Cardinality(A \ B) \in Nat /\ Cardinality(B \ A) \in Nat
  BY HostSets
<1>5. Cardinality(SymDiff(A, B)) = Cardinality(A \ B) + Cardinality(B \ A)
  BY MismatchIsSymDiff DEF MismatchCount, Difference
<1> QED
  BY <1>2, <1>3, <1>4, <1>5 DEF Abs

LEMMA UnionSize ==
  ASSUME NEW A, NEW B, NEW C, A \subseteq Hosts, B \subseteq Hosts, C \subseteq A \cup B
  PROVE  /\ Cardinality(A) \in Nat /\ Cardinality(B) \in Nat /\ Cardinality(C) \in Nat
         /\ Cardinality(C) <= Cardinality(A) + Cardinality(B)
<1>1. /\ IsFiniteSet(A) /\ IsFiniteSet(B) /\ Cardinality(A) \in Nat /\ Cardinality(B) \in Nat
      /\ Cardinality(A \cap B) \in Nat /\ Cardinality(C) \in Nat
  BY HostSets
<1>2. /\ IsFiniteSet(A \cup B)
      /\ Cardinality(A \cup B) = Cardinality(A) + Cardinality(B) - Cardinality(A \cap B)
  BY <1>1, FS_Union
<1>3. Cardinality(C) <= Cardinality(A \cup B)
  BY <1>2, FS_Subset
<1> QED
  BY <1>1, <1>2, <1>3

\* What was seen differs by what differs now, or has moved meanwhile.
LEMMA SeenDifference ==
  ASSUME NEW S, NEW T, NEW U, NEW V, NEW moved, SeenAs(S, U, moved), SeenAs(T, V, moved)
  PROVE  /\ SymDiff(U, V) \ moved \subseteq SymDiff(S, T)
         /\ SymDiff(S, T) \subseteq (SymDiff(U, V) \ moved) \cup moved
  BY DEF SeenAs, SymDiff

LEMMA InvFacts ==
  ASSUME ValidationInv
  PROVE  /\ TypeOK /\ Wanted \subseteq Hosts /\ app \subseteq Hosts /\ touched \subseteq Hosts
         /\ Mismatched \subseteq Hosts /\ threshold \in 0..100
         /\ got.hbiIds \subseteq Hosts /\ got.appIds \subseteq Hosts
<1>1. TypeOK /\ Wanted \subseteq Hosts
  BY Answers DEF ValidationInv
<1> QED
  BY <1>1, ScenariosAssumption, ThresholdsAssumption DEF TypeOK, Mismatched, SymDiff

----------------------------------------------------------------------------
(***************************************************************************)
(* The theorems.                                                           *)
(***************************************************************************)

\* ValidationInv is an invariant of validate() and of the hosts that move.
THEOREM ValidationInvariant == Spec => []ValidationInv
<1>1. Init => ValidationInv
  BY ValidationInit
<1>2. ValidationInv /\ [Next]_vars => ValidationInv'
  BY ValidationInvStep
<1> QED
  BY <1>1, <1>2, PTL DEF Spec

\* Counts and lists of ids have their types, whatever is cut off.
THEOREM TypeCorrect == Spec => []TypeOK
<1>1. ValidationInv => TypeOK
  BY DEF ValidationInv
<1> QED
  BY <1>1, ValidationInvariant, PTL

\* A query fails only for filters that cannot be run.
LEMMA RejectedFilters ==
  ASSUME TypeOK, Rejected(Query)
  PROVE  \/ \E n \in DOMAIN request.filters : request.filters[n].where = Absent
         \/ \E n \in DOMAIN request.filters : \E a \in request.filters[n].where.uses :
              \A m \in DOMAIN request.filters :
                request.filters[m].join = Absent \/ a \notin {"h", request.filters[m].join.alias}
         \/ \E n, m \in DOMAIN request.filters :
              LET j == request.filters[n].join  k == request.filters[m].join IN
              j # Absent /\ k # Absent /\ (j.alias = "h" \/ (j # k /\ j.alias = k.alias))
         \/ request.insightsOnly /\ \E j \in Joined : "insights_id" \in j.columns
         \/ \E n \in DOMAIN request.filters : \E column \in request.filters[n].where.bare :
              ~Resolves(column, Joined)
<1> DEFINE fs == request.filters
           js == Query.joins
           w == Query.where
           aliases == [j \in DOMAIN js |-> js[j].alias]
<1>1. fs \in Seq(Filter) /\ request.insightsOnly \in BOOLEAN
  BY RequestType
<1>2. /\ DOMAIN js = {fs[n].join : n \in DOMAIN fs} \ {Absent}
      /\ \A j \in DOMAIN js : js[j] = j
  BY <1>1, JoinClause DEF Query
<1>3. w = getWhereClause(request.insightsOnly, fs)
  BY DEF Query, hostQuery
<1>4. \A m \in DOMAIN w : \/ \E n \in DOMAIN fs : w[m] = fs[n].where
                          \/ request.insightsOnly /\ w[m] = InsightsCondition
  BY <1>1, <1>3, WhereClause
<1>5. Query.alias = IF hasJoinClause(fs) THEN {"h"} ELSE {}
  BY DEF Query, hostQuery
<1>6. /\ InsightsCondition # Absent /\ InsightsCondition.uses = {}
      /\ InsightsCondition.bare = {"insights_id"}
  BY InsightsConditionType
<1>7. \/ ~IsInjective(aliases) \/ Range(aliases) \cap Query.alias # {}
      \/ \E n \in DOMAIN w : w[n] = Absent \/ ~(w[n].uses \subseteq Range(aliases) \cup Query.alias)
      \/ \E n \in DOMAIN w : \E column \in w[n].bare : ~Resolves(column, Range(js))
  BY DEF Rejected
<1>8. Range(js) = Joined
  BY <1>2 DEF Range, Joined
<1>9. DOMAIN aliases = DOMAIN js /\ \A j \in DOMAIN js : aliases[j] = j.alias
  BY <1>2
<1> HIDE DEF aliases, js, w, fs
<1>10. Range(aliases) = {j.alias : j \in DOMAIN js}
  BY <1>9 DEF Range
<1>11. CASE ~IsInjective(aliases)
  <2>1. PICK j, k \in DOMAIN js : j.alias = k.alias /\ j # k
    BY <1>9, <1>11 DEF IsInjective
  <2>2. PICK n \in DOMAIN fs : fs[n].join = j
    BY <1>2, <2>1
  <2>3. PICK m \in DOMAIN fs : fs[m].join = k
    BY <1>2, <2>1
  <2> QED
    BY <1>2, <2>1, <2>2, <2>3 DEF fs
<1>12. CASE Range(aliases) \cap Query.alias # {}
  <2>1. PICK j \in DOMAIN js : j.alias = "h"
    BY <1>5, <1>10, <1>12
  <2>2. PICK n \in DOMAIN fs : fs[n].join = j
    BY <1>2, <2>1
  <2> QED
    BY <1>2, <2>1, <2>2 DEF fs
<1>13. CASE \E n \in DOMAIN w : w[n] = Absent \/ ~(w[n].uses \subseteq Range(aliases) \cup Query.alias)
  <2>1. PICK l \in DOMAIN w : w[l] = Absent \/ ~(w[l].uses \subseteq Range(aliases) \cup Query.alias)
    BY <1>13
  <2>2. PICK n \in DOMAIN fs : w[l] = fs[n].where
    BY <1>4, <1>6, <2>1
  <2>3. CASE w[l] = Absent
    BY <2>2, <2>3 DEF fs
  <2>4. CASE w[l] # Absent
    <3>1. PICK a \in fs[n].where.uses : a \notin Range(aliases) \cup Query.alias
      BY <2>1, <2>2, <2>4
    <3>2. ASSUME NEW m \in DOMAIN fs, fs[m].join # Absent
          PROVE  a \notin {"h", fs[m].join.alias}
      <4>1. hasJoinClause(fs) /\ fs[m].join \in DOMAIN js
        BY <1>2, <3>2 DEF hasJoinClause
      <4> QED
        BY <1>5, <1>10, <3>1, <4>1
    <3> QED
      BY <3>1, <3>2 DEF fs
  <2> QED
    BY <2>3, <2>4
<1>14. CASE \E n \in DOMAIN w : \E column \in w[n].bare : ~Resolves(column, Range(js))
  <2>1. PICK l \in DOMAIN w : \E column \in w[l].bare : ~Resolves(column, Joined)
    BY <1>8, <1>14
  <2>2. CASE \E n \in DOMAIN fs : w[l] = fs[n].where
    BY <2>1, <2>2 DEF fs
  <2>3. CASE request.insightsOnly /\ w[l] = InsightsCondition
    <3>1. ~Resolves("insights_id", Joined)
      BY <1>6, <2>1, <2>3
    <3>2. \E j \in Joined : "insights_id" \in j.columns
      BY <3>1, ColumnsAssumption DEF Resolves
    <3> QED
      BY <2>3, <3>2
  <2> QED
    BY <1>4, <2>2, <2>3
<1> QED
  BY <1>7, <1>11, <1>12, <1>13, <1>14

\* Both inventory queries see exactly the hosts that the filters ask for, for
\* any list of filters: any number of them, in any order, with any joins in
\* common; and they fail only for filters that cannot be run.
THEOREM FiltersAreRespected == Spec => []FiltersRespected
<1>1. ValidationInv => FiltersRespected
  <2> SUFFICES ASSUME ValidationInv
               PROVE  FiltersRespected
    OBVIOUS
  <2>1. TypeOK /\ AcceptedInv /\ AnswersInv
    BY DEF ValidationInv
  <2>2. step = "refused" => Rejected(Query)
    BY <2>1 DEF AcceptedInv
  <2>3. ASSUME NEW S, SeenAs(S, Wanted, {})
        PROVE  S = Wanted
    BY <2>3 DEF SeenAs, SymDiff
  <2>4. ASSUME step \in AfterHbiIds, Undisturbed
        PROVE  got.hbiIds = Wanted /\ got.hbiCount = Cardinality(Wanted)
    <3>1. touched = {} /\ cut = {} /\ step \in AfterHbiCount
      BY <2>4 DEF Undisturbed, AfterHbiIds, AfterHbiCount
    <3>2. SeenAs(got.hbiIds, Wanted, {})
      BY <2>1, <2>4, <3>1 DEF AnswersInv
    <3>3. PICK S : SeenAs(S, Wanted, {}) /\ got.hbiCount = Cardinality(S)
      BY <2>1, <3>1 DEF AnswersInv
    <3> QED
      BY <2>3, <3>2, <3>3
  <2> QED
    BY <2>1, <2>2, <2>4, RejectedFilters DEF FiltersRespected, AfterHbiIds
<1> QED
  BY <1>1, ValidationInvariant, PTL

\* The outcome is computed from lists that differ by the hosts that differ
\* now, apart from those that moved.
LEMMA ComparedIds ==
  ASSUME ValidationInv, step \in AfterAppIds, cut \cap {"hbiIds", "appIds"} = {},
         NEW m, m = MismatchCount(got.hbiIds, got.appIds)
  PROVE  /\ m \in Nat /\ Cardinality(Mismatched) \in Nat /\ Cardinality(touched) \in Nat
         /\ Cardinality(Mismatched) <= m /\ m <= Cardinality(Mismatched) + Cardinality(touched)
<1>1. /\ SeenAs(got.hbiIds, Wanted, touched) /\ SeenAs(got.appIds, app, touched)
  BY DEF ValidationInv, AnswersInv, AfterHbiIds, AfterAppIds
<1> DEFINE D == SymDiff(got.hbiIds, got.appIds)
<1>2. Mismatched \subseteq D /\ D \subseteq Mismatched \cup touched
  BY <1>1, SeenDifference DEF Mismatched
<1>3. m = Cardinality(D) /\ D \subseteq Hosts /\ Mismatched \subseteq Hosts /\ touched \subseteq Hosts
  BY InvFacts, MismatchIsSymDiff DEF SymDiff
<1> HIDE DEF D
<1>4. /\ Cardinality(Mismatched) \in Nat /\ Cardinality(touched) \in Nat /\ Cardinality(D) \in Nat
      /\ Cardinality(D) <= Cardinality(Mismatched) + Cardinality(touched)
  BY <1>2, <1>3, UnionSize
<1>5. Cardinality(Mismatched) <= Cardinality(D)
  BY <1>2, <1>3, HostSets, FS_Subset
<1> QED
  BY <1>3, <1>4, <1>5

LEMMA AllowedType ==
  ASSUME ValidationInv
  PROVE  /\ AtLeastOne(Cardinality(got.hbiIds)) \in Nat /\ threshold \in Nat
         /\ threshold * AtLeastOne(Cardinality(got.hbiIds)) \in Nat
<1>1. Cardinality(got.hbiIds) \in Nat /\ threshold \in Nat
  BY InvFacts, HostSets
<1>2. AtLeastOne(Cardinality(got.hbiIds)) \in Nat
  BY <1>1 DEF AtLeastOne
<1>3. \A a, b \in Nat : a * b \in Nat
  OBVIOUS
<1> QED
  BY <1>1, <1>2, <1>3

\* No table is accepted in which more hosts are missing or in excess than the
\* threshold allows, for any number of hosts, any threshold and any hosts that
\* come and go while validate() runs, unless a list of ids was cut off.
THEOREM AcceptanceIsJustified == Spec => []NoFalseAcceptance
<1>1. ValidationInv => NoFalseAcceptance
  <2> SUFFICES ASSUME ValidationInv, step = "valid", cut \cap {"hbiIds", "appIds"} = {}
               PROVE  100 * Cardinality(Mismatched) <= threshold * AtLeastOne(Cardinality(got.hbiIds))
    BY DEF NoFalseAcceptance
  <2> DEFINE m == MismatchCount(got.hbiIds, got.appIds)
             allowed == threshold * AtLeastOne(Cardinality(got.hbiIds))
  <2>1. m \in Nat /\ Cardinality(Mismatched) \in Nat /\ Cardinality(Mismatched) <= m
    BY ComparedIds DEF AfterAppIds
  <2>2. 100 * m < allowed \/ 100 * m = allowed
    BY DEF ValidationInv, VerdictInv, WithinThreshold
  <2>3. allowed \in Nat
    BY AllowedType
  <2> HIDE DEF m, allowed
  <2>4. 100 * Cardinality(Mismatched) <= allowed
    BY <2>1, <2>2, <2>3
  <2> QED
    BY <2>4 DEF allowed
<1> QED
  BY <1>1, ValidationInvariant, PTL

\* Differences and sums of counts are numbers, and their bounds are transitive.
LEMMA Differences ==
  ASSUME NEW a \in Nat, NEW b \in Nat
  PROVE  a - b \in Int /\ Abs(a - b) \in Int /\ a + b \in Nat
BY DEF Abs

LEMMA PlusZero ==
  ASSUME NEW a \in Nat
  PROVE  a + 0 = a
OBVIOUS

LEMMA SmallerBound ==
  ASSUME NEW x \in Int, NEW a \in Nat, NEW b \in Nat, x <= a, a <= b
  PROVE  x <= b
OBVIOUS

\* The counts differ by no more than the databases do.
LEMMA ComparedCounts ==
  ASSUME ValidationInv, step = "exited early", cut = {}
  PROVE  /\ Cardinality(Mismatched) \in Nat /\ Cardinality(touched) \in Nat
         /\ got.hbiCount \in Nat /\ got.appCount \in Nat
         /\ Abs(got.hbiCount - got.appCount) <= Cardinality(Mismatched) + Cardinality(touched)
<1>1. PICK S : SeenAs(S, app, touched) /\ got.appCount = Cardinality(S)
  BY DEF ValidationInv, AnswersInv, AfterAppCount
<1>2. PICK W : SeenAs(W, Wanted, touched) /\ got.hbiCount = Cardinality(W)
  BY DEF ValidationInv, AnswersInv, AfterHbiCount
<1>3. SymDiff(W, S) \subseteq Mismatched \cup touched
  BY <1>1, <1>2, SeenDifference DEF Mismatched
<1>4. W \subseteq Hosts /\ S \subseteq Hosts /\ Mismatched \subseteq Hosts /\ touched \subseteq Hosts
  BY <1>1, <1>2, InvFacts DEF SeenAs
<1>5. /\ Cardinality(W) \in Nat /\ Cardinality(S) \in Nat
      /\ Abs(Cardinality(W) - Cardinality(S)) <= Cardinality(SymDiff(W, S))
  BY <1>4, CountsDiffer
<1>6. /\ Cardinality(Mismatched) \in Nat /\ Cardinality(touched) \in Nat
      /\ Cardinality(SymDiff(W, S)) \in Nat
      /\ Cardinality(SymDiff(W, S)) <= Cardinality(Mismatched) + Cardinality(touched)
  BY <1>3, <1>4, UnionSize
<1>7. Abs(Cardinality(W) - Cardinality(S)) \in Int
  BY <1>5, Differences
<1>8. Cardinality(Mismatched) + Cardinality(touched) \in Nat
  BY <1>6, Differences
<1>9. Abs(Cardinality(W) - Cardinality(S)) <= Cardinality(Mismatched) + Cardinality(touched)
  BY <1>5, <1>6, <1>7, <1>8, SmallerBound
<1> QED
  BY <1>1, <1>2, <1>5, <1>6, <1>9, Zenon

\* No table is rejected unless so many hosts differ, or moved while validate()
\* ran, that the threshold is exceeded (or met, where float64 rounds up), or
\* half of them when it exits early.
THEOREM AlarmIsJustified == Spec => []NoFalseAlarm
<1>1. ValidationInv => NoFalseAlarm
  <2> SUFFICES ASSUME ValidationInv, cut = {}
               PROVE  NoFalseAlarm
    BY DEF NoFalseAlarm
  <2> DEFINE d == Cardinality(Mismatched) + Cardinality(touched)
             allowed == threshold * AtLeastOne(Cardinality(got.hbiIds))
             up == threshold \in RoundedUp
  <2>1. ASSUME step = "invalid"
        PROVE  100 * d > allowed \/ (100 * d = allowed /\ up)
    <3> DEFINE m == MismatchCount(got.hbiIds, got.appIds)
    <3>1. m \in Nat /\ d \in Nat /\ m <= d
      BY <2>1, ComparedIds DEF AfterAppIds
    <3>2. ~(100 * m < allowed \/ (100 * m = allowed /\ ~up))
      BY <2>1 DEF ValidationInv, VerdictInv, WithinThreshold
    <3>3. allowed \in Nat
      BY AllowedType
    <3> HIDE DEF m, d, allowed, up
    <3> QED
      BY <3>1, <3>2, <3>3
  <2>2. ASSUME step = "exited early"
        PROVE  2 * d > AtLeastOne(got.hbiCount)
    <3>1. /\ d \in Nat /\ got.hbiCount \in Nat /\ got.appCount \in Nat
          /\ Abs(got.hbiCount - got.appCount) <= d
      BY <2>2, ComparedCounts, Differences
    <3>2. 2 * Abs(got.hbiCount - got.appCount) > AtLeastOne(got.hbiCount)
      BY <2>2 DEF ValidationInv, VerdictInv, CountMismatch
    <3> HIDE DEF d
    <3> QED
      BY <3>1, <3>2 DEF Abs, AtLeastOne
  <2> QED
    BY <2>1, <2>2 DEF NoFalseAlarm
<1> QED
  BY <1>1, ValidationInvariant, PTL

\* A threshold of at most half never allows what exceeds half.
LEMMA HalfExceedsThreshold ==
  ASSUME NEW t \in Nat, t <= 50, NEW n \in Nat, NEW d \in Nat, 2 * d > n
  PROVE  100 * d > t * n
<1> DEFINE k == 50 - t
<1>1. k \in Nat /\ t = 50 - k
  OBVIOUS
<1>2. \A a, b \in Nat : a * b \in Nat
  OBVIOUS
<1>3. k * n \in Nat
  BY <1>1, <1>2
<1> HIDE DEF k
<1>4. (50 - k) * n = 50 * n - k * n
  BY <1>1
<1>5. t * n = 50 * n - k * n
  BY <1>1, <1>4
<1> DEFINE kn == k * n
           tn == t * n
<1> HIDE DEF kn, tn
<1>6. kn \in Nat /\ tn = 50 * n - kn
  BY <1>3, <1>5 DEF kn, tn
<1>7. 100 * d > tn
  BY <1>6
<1> QED
  BY <1>7 DEF tn

\* A difference that exceeds half is exceeded by what bounds it.
LEMMA BoundExceedsHalf ==
  ASSUME NEW x \in Int, NEW n \in Nat, NEW d \in Nat, Abs(x) <= d, 2 * Abs(x) > n
  PROVE  2 * d > n
BY DEF Abs

\* The early exit never disagrees with the comparison of the ids, for any
\* threshold up to countMismatchThreshold.
THEOREM EarlyExitIsSound == Spec => []EarlyExitAgrees
<1>1. ValidationInv => EarlyExitAgrees
  <2> SUFFICES ASSUME ValidationInv, step = "exited early", Undisturbed, threshold <= 50
               PROVE  100 * Cardinality(SymDiff(Wanted, app))
                        > threshold * AtLeastOne(Cardinality(Wanted))
    BY DEF EarlyExitAgrees
  <2>1. touched = {} /\ cut = {}
    BY DEF Undisturbed
  <2> DEFINE d == Cardinality(SymDiff(Wanted, app))
             n == AtLeastOne(Cardinality(Wanted))
  <2>2. Mismatched = SymDiff(Wanted, app) /\ Cardinality(touched) = 0
    BY <2>1, FS_EmptySet DEF Mismatched
  <2>3. /\ d \in Nat /\ got.hbiCount \in Nat /\ got.appCount \in Nat
        /\ Abs(got.hbiCount - got.appCount) <= d
    <3>1. /\ d \in Nat /\ got.hbiCount \in Nat /\ got.appCount \in Nat
          /\ Abs(got.hbiCount - got.appCount) <= d + 0
      BY <2>1, <2>2, ComparedCounts
    <3>2. d + 0 = d
      BY <3>1, PlusZero
    <3> QED
      BY <3>1, <3>2, Zenon
  <2>4. got.hbiCount = Cardinality(Wanted)
    <3>1. PICK W : SeenAs(W, Wanted, {}) /\ got.hbiCount = Cardinality(W)
      BY <2>1 DEF ValidationInv, AnswersInv, AfterHbiCount
    <3>2. W = Wanted
      BY <3>1 DEF SeenAs, SymDiff
    <3> QED
      BY <3>1, <3>2
  <2>5. 2 * Abs(got.hbiCount - got.appCount) > n
    BY <2>4 DEF ValidationInv, VerdictInv, CountMismatch
  <2>6. n \in Nat
    BY <2>3, <2>4 DEF AtLeastOne
  <2>7. 2 * d > n
    <3> DEFINE x == got.hbiCount - got.appCount
    <3>1. x \in Int
      BY <2>3, Differences
    <3>2. d \in Nat /\ Abs(x) <= d /\ 2 * Abs(x) > n
      BY <2>3, <2>5
    <3> HIDE DEF d, n, x
    <3> QED
      BY <3>1, <3>2, <2>6, BoundExceedsHalf
  <2>8. threshold \in Nat /\ d \in Nat
    BY <2>3, AllowedType
  <2> HIDE DEF d, n
  <2>9. 100 * d > threshold * n
    BY <2>6, <2>7, <2>8, HalfExceedsThreshold
  <2> QED
    BY <2>9 DEF d, n
<1> QED
  BY <1>1, ValidationInvariant, PTL
=============================================================================
