----------------------------- MODULE MCQueries -----------------------------
(* The fan-out of a dense query, and beside it the parts that answer        *)
(* queries and share SystemState.                                           *)
EXTENDS FloorSearch, QueryRounds, FusedRanking, QueryPages, FilterPruning, BooleanEval, Aggregates, ShardReads

(* Scores tie inside a shard and across shards, each shard improves on its  *)
(* own early chunks, and the filters remove the best slot of shard 1.       *)
TiedScores == 0 :> <<3, 2, 4, 3>> @@ 1 :> <<2, 3, 5, 3>>
TiedAllow == 0 :> {1, 2, 3, 4} @@ 1 :> {1, 2, 4}

(* Interleaved vector ids: slot order and id order differ across shards.    *)
Offsets == 0 :> 1 @@ 1 :> 0

(* Rows whose legs disagree, of three parents. *)
FourRankRows ==
  {[v |-> 1, b |-> 2, parent |-> "p"], [v |-> 3, b |-> 0, parent |-> "p"], [v |-> 2, b |-> 2, parent |-> "q"],
   [v |-> 3, b |-> 1, parent |-> "r"]}
ThreePageRows ==
  {[score |-> 1, group |-> "p", key |-> 1], [score |-> 2, group |-> "q", key |-> 2],
   [score |-> 2, group |-> "", key |-> 1]}

(* Filters over an integer and a facet column: bounds inside, at and past   *)
(* the integer's range, and one that names a code of the placement tree.    *)
NumberLeaf(c, mn, mx) == [op |-> "number", column |-> c, min |-> mn, max |-> mx]
FacetLeaf(vs) == [op |-> "facet", column |-> "f", values |-> vs]
HasLeaf(c) == [op |-> "has", column |-> c]
AtBound(x) == {[value |-> x, exclusive |-> FALSE]}
PastBound(x) == {[value |-> x, exclusive |-> TRUE]}
SomeLeaves ==
  {NumberLeaf("n", AtBound(0), {}), NumberLeaf("n", PastBound(0), {}), NumberLeaf("n", {}, PastBound(2)),
   NumberLeaf("n", PastBound(1), AtBound(2)), NumberLeaf("n", {}, AtBound(-1)),
   NumberLeaf("n", AtBound(6), {}), FacetLeaf({1}), FacetLeaf({1, 2}), HasLeaf("n"), HasLeaf("f"),
   NumberLeaf("code", {}, AtBound(2))}
NotOf(f) == [op |-> "not", args |-> <<f>>]
AndOf(f, g) == [op |-> "and", args |-> <<f, g>>]
OrOf(f, g) == [op |-> "or", args |-> <<f, g>>]
SomeFilters ==
  SomeLeaves \cup {NotOf(f) : f \in SomeLeaves}
  \cup UNION {{AndOf(f, g), OrOf(f, g), AndOf(f, NotOf(g))} : f, g \in SomeLeaves}
  \cup UNION {{AndOf(OrOf(f, g), h), AndOf(h, AndOf(f, g))} :
               f, g \in SomeLeaves, h \in {FacetLeaf({1}), NumberLeaf("code", {}, AtBound(2))}}
PlaceNode(p, ch) == [predicate |-> p, children |-> ch]
Default == PlaceNode({}, <<>>)
TwoTrees ==
  {<<PlaceNode({NumberLeaf("n", PastBound(0), {})}, <<PlaceNode({FacetLeaf({1})}, <<>>), Default>>), Default>>,
   <<PlaceNode({AndOf(NumberLeaf("n", AtBound(0), AtBound(2)), FacetLeaf({1, 2}))}, <<>>),
     PlaceNode({NumberLeaf("n", PastBound(1), {})}, <<>>), Default>>}
ColumnRows == [n : {{}, {-2}, {0}, {1}, {2}, {4}}, f : {{}, {1}, {2}}, sealed : BOOLEAN]
LeastInteger == -1

(* Plans: each leaf and a nested group in every role or absent. *)
Leaf(l) == [leaf |-> {l}, group |-> {}]
Nested(g) == [leaf |-> {}, group |-> {g}]
OfRole(nodes, roles, r) ==
  LET at == SelectSeq([i \in DOMAIN nodes |-> i], LAMBDA i : roles[i] = r)
  IN  [j \in DOMAIN at |-> nodes[at[j]]]
Group(nodes, roles, least) ==
  [must |-> OfRole(nodes, roles, "must"), should |-> OfRole(nodes, roles, "should"),
   must_not |-> OfRole(nodes, roles, "not"), least |-> least]
Roles == {"absent", "must", "should", "not"}
ChildGroups ==
  UNION {compile_boolean_group(Group(<<Leaf("phrase"), Leaf("filter")>>, roles, least)) :
           roles \in {r \in [1..2 -> Roles] : r[1] # "absent"}, least \in 0..1}
SomePlans ==
  UNION {compile_boolean_group(
           Group(<<Leaf("filter"), Leaf("dense"), Leaf("lexical"), Nested(c)>>, roles, least)) :
           c \in ChildGroups, roles \in {r \in [1..4 -> Roles] : r[4] # "absent"}, least \in 0..1}
BoolRow(matches, lexical, dense, visible, deleted) ==
  [matches |-> matches, visible |-> visible, deleted |-> deleted,
   score |-> [lexical |-> lexical, phrase |-> 1, dense |-> dense, filter |-> 0]]
TwoCorpora ==
  {[rows |-> <<BoolRow({"filter"}, 1, 2, TRUE, FALSE), BoolRow({"lexical"}, 2, 1, TRUE, FALSE),
               BoolRow({"lexical", "filter", "phrase"}, 1, 2, FALSE, FALSE),
               BoolRow({"phrase", "filter"}, 1, 3, TRUE, FALSE), BoolRow({}, 1, 2, TRUE, FALSE)>>,
    docs |-> 4, vectors |-> 5],
   [rows |-> <<BoolRow({"lexical"}, 1, 2, TRUE, FALSE), BoolRow({"filter"}, 2, 2, TRUE, FALSE),
               BoolRow({}, 1, 1, TRUE, TRUE), BoolRow({"lexical", "filter"}, 1, 2, TRUE, TRUE)>>,
    docs |-> 4, vectors |-> 3]}

(* Values absent, below zero, past the sum's limit (9: not a number for a   *)
(* double); shards that lack the column, hold it under another type, or     *)
(* hold no row.                                                             *)
ColumnShard(vt, rows) == [vt |-> vt, rows |-> rows]
ValueRows ==
  {[value |-> {}, group |-> {1}], [value |-> {-2}, group |-> {}], [value |-> {1}, group |-> {1}],
   [value |-> {3}, group |-> {2}], [value |-> {9}, group |-> {2}]}
FiveLayouts ==
  {<<ColumnShard("double", {1}), ColumnShard("absent", {2}), ColumnShard("double", {3, 4})>>,
   <<ColumnShard("int", {1, 2}), ColumnShard("int", {3, 4})>>,
   <<ColumnShard("int", {1}), ColumnShard("uint", {2, 3})>>,
   <<ColumnShard("uint", {}), ColumnShard("uint", {1, 2}), ColumnShard("uint", {3, 4})>>,
   <<ColumnShard("absent", {1, 2})>>}
AggRequest(keys, distinct, interval, percentile) ==
  [max_groups |-> keys, max_distinct |-> distinct, interval |-> interval, max_buckets |-> 2,
   percentile |-> percentile]
ThreeRequests == {AggRequest(2, 2, 2, 50), AggRequest(1, 3, 3, 0), AggRequest(2, 3, 3, 67)}

(* What a first leg asks for; the second one asks for every term.           *)
OneTerm == {{"t"}}

(* Names a slot twice, and one the shard may not have yet. *)
OneAsk == {<<1, 2, 1, 3>>}

(* The dense fan-out has variables of its own, which the other parts leave  *)
(* alone.                                                                   *)
QueriesInit ==
  /\ Init
  /\ \/ sys = [part |-> "fanout"] \/ RoundsInit \/ RankingInit \/ PagesInit \/ FiltersInit
     \/ BooleanInit \/ AggregatesInit \/ ReadsInit
FanoutStep == At("fanout") /\ Next /\ UNCHANGED sys
QueryStep ==
  /\ \/ RoundsNext \/ RankingNext \/ PagesNext \/ FiltersNext \/ BooleanNext \/ AggregatesNext
     \/ ReadsNext
  /\ UNCHANGED vars
QueriesSpec == QueriesInit /\ [][FanoutStep \/ QueryStep]_<<sys, vars>>

(* A ranking is the one a single node would give: fused lists pruned by a   *)
(* floor, and the pages a cursor walks (fusion.rs, query_cursor.rs).        *)
RankingsAreExact == PrunedRankingIsExact /\ PagesVisitEachOnce

(* A filter selects the rows its definition selects: through the pruning of *)
(* shards and segments, and through the Boolean plan's early ends           *)
(* (placement.rs, segment_prune.rs, node.rs).                              *)
FiltersAreExact == PruningLosesNothing /\ BooleanIsExact
============================================================================
