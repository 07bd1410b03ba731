---------------------------- MODULE MCValidation ----------------------------
(***************************************************************************)
(* An instance of Validation for TLC.  Three hosts come and go, in every   *)
(* combination and under filters of every shape; the rest fill tables in   *)
(* which a mismatch can lie at, above or below each threshold.             *)
(***************************************************************************)
EXTENDS Validation

HostIds == 1..28

Few == 1..3

HostsWithInsights == Few \ {2}

\* Filters are used where only those three exist.
All == [uses |-> {}, bare |-> {}, holds |-> Few]

\* A filter on a column of the hosts table, ...
Edge == [join |-> Absent, where |-> [uses |-> {}, bare |-> {"reporter"}, holds |-> Few \ {1}]]

\* ... two that share the LEFT JOIN of the README's example, ...
Profiles == [alias |-> "sps", columns |-> {"host_id", "arch"}, matches |-> Few]
Arch == [join |-> Profiles, where |-> [uses |-> {"sps", "h"}, bare |-> {}, holds |-> Few \ {2}]]
Type == [join |-> Profiles, where |-> [uses |-> {"sps"}, bare |-> {"arch"}, holds |-> Few \ {3}]]

\* ... one with an inner join, on a table that has an insights_id too, two
\* that take an alias again, one that lacks its join, one whose column only
\* joined tables have and one without a condition.
Groups == [join |-> [alias |-> "g", columns |-> {"host_id", "insights_id"}, matches |-> Few \ {3}],
           where |-> All]
Clash == [join |-> [alias |-> "sps", columns |-> {}, matches |-> Few \ {1}], where |-> All]
ClashWithHosts == [join |-> [alias |-> "h", columns |-> {}, matches |-> Few], where |-> All]
Unjoined == [join |-> Absent, where |-> [uses |-> {"sps"}, bare |-> {}, holds |-> Few]]
Ambiguous == [join |-> Absent, where |-> [uses |-> {}, bare |-> {"host_id"}, holds |-> Few]]
Empty == [join |-> Profiles, where |-> Absent]

ColumnsOfHosts == {"insights_id", "reporter"}

FilterLists ==
  {<<>>, <<Edge>>, <<Arch, Edge, Type>>, <<Unjoined, Type>>, <<Groups, Arch>>,
   <<Ambiguous, Arch>>, <<Ambiguous, Groups, Arch>>,
   <<Arch, Clash>>, <<ClashWithHosts>>, <<Edge, Unjoined>>, <<Empty>>}

SmallTables ==
  {[inventory |-> i, app |-> a, request |-> [insightsOnly |-> o, filters |-> f]] :
     i, a \in SUBSET Few, o \in BOOLEAN, f \in FilterLists}

\* The first d of n hosts are not in the table, and e hosts of the table are
\* not in the inventory.
Large(n, d, e) ==
  [inventory |-> 1..n, app |-> (d + 1)..(n + e),
   request |-> [insightsOnly |-> FALSE, filters |-> <<>>]]

\* 5 of 20 are 25%, 7 of 25 are 28%, 11 of 20 are 55%.
LargeTables ==
  {Large(20, d, e) : d \in {4, 5, 6, 9, 10, 11}, e \in {0, 1}} \cup
  {Large(25, d, e) : d \in {5, 6, 7}, e \in {0, 1, 2}}

Tables == SmallTables \cup LargeTables
=============================================================================
