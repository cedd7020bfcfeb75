--------------------------- MODULE FilterPruning ---------------------------
(* Filters and the two ways of not evaluating them: the coordinator leaves   *)
(* out the shards whose placement leaf no filter row can come from and the   *)
(* clauses a leaf already implies, and a shard leaves out the sealed         *)
(* segments whose summary admits no row.  The number 2x stands for x, so     *)
(* that the halves between the integers are numbers too.  An optional value  *)
(* is a set of at most one.                                                  *)
EXTENDS SystemState, Integers, Sequences, FiniteSets, FiniteSetsExt, SequencesExt

CONSTANTS
    FilterRows,       \* documents: n, a number column, and f, a facet column
    FilterTrees,      \* the filters asked
    PlacementTrees,   \* placement trees: chains of nodes, the last a default
    I64_MIN, I64_MAX, \* the range of an integer column, in integers
    level_bits, CODE_BITS

----------------------------------------------------------------------------
(* Three-valued truth, ordered: and is the least, or the greatest. *)
TriFalse == 0
TriUnknown == 1
TriTrue == 2
TriOf(b) == IF b THEN TriTrue ELSE TriFalse

(* An edge of a range: a number and whether the number itself is excluded. *)
floor(x) == x \div 2
ceil(x) == -((-x) \div 2)
int_lower(e) ==
    LET lo == IF e.exclusive THEN floor(e.value) + 1 ELSE ceil(e.value)
    IN  IF lo > I64_MAX THEN {} ELSE {Max({lo, I64_MIN})}
int_upper(e) ==
    LET hi == IF e.exclusive THEN ceil(e.value) - 1 ELSE floor(e.value)
    IN  IF hi < I64_MIN THEN {} ELSE {Min({hi, I64_MAX})}

(* int_range: the integers between two optional edges; <<1, 0>> holds none. *)
int_range(min, max) ==
    LET lo == IF min = {} THEN {I64_MIN} ELSE UNION {int_lower(e) : e \in min}
        hi == IF max = {} THEN {I64_MAX} ELSE UNION {int_upper(e) : e \in max}
    IN  IF lo = {} \/ hi = {} THEN <<1, 0>> ELSE <<Max(lo), Max(hi)>>

admits_from_below(e, v) == IF e.exclusive THEN v > e.value ELSE v >= e.value
admits_from_above(e, v) == IF e.exclusive THEN v < e.value ELSE v <= e.value

(* A number leaf holds of a value under the column's family: the integer     *)
(* family compares integers within the converted range, the float family     *)
(* compares with the edges themselves.                                       *)
in_number_range(family, v, min, max) ==
    IF family = "int"
      THEN LET r == int_range(min, max) IN v \div 2 >= r[1] /\ v \div 2 <= r[2]
      ELSE (\A e \in min : admits_from_below(e, v)) /\ (\A e \in max : admits_from_above(e, v))

(* The code column is an integer column whatever the family of n is. *)
FamilyOf(column) == IF column = "code" THEN "int" ELSE sys.family

(* A leaf of a row: unknown when the row has no value in the column, except  *)
(* that has asks exactly that.                                               *)
EvalLeaf(f, row) ==
    LET value == row[f.column] IN
    IF f.op = "has" THEN TriOf(value # {})
    ELSE IF value = {} THEN TriUnknown
    ELSE TriOf(\A v \in value :
           IF f.op = "facet" THEN v \in f.values
           ELSE in_number_range(FamilyOf(f.column), v, f.min, f.max))

RECURSIVE EvalFilter(_, _)
EvalFilter(f, row) ==
    CASE f.op = "and" -> Min({EvalFilter(f.args[i], row) : i \in DOMAIN f.args})
      [] f.op = "or"  -> Max({EvalFilter(f.args[i], row) : i \in DOMAIN f.args})
      [] f.op = "not" -> TriTrue - EvalFilter(f.args[1], row)
      [] OTHER        -> EvalLeaf(f, row)

Passes(f, row) == EvalFilter(f, row) = TriTrue

----------------------------------------------------------------------------
(* Placement: a chain of nodes, each a predicate (optional: the last is the  *)
(* default) with a chain of children.  A document goes down the first node   *)
(* whose predicate is true.  A leaf's code is its path, level_bits a level,  *)
(* the first level in the highest bits.                                      *)
encode(path) ==
    FoldFunctionOnSet(LAMBDA x, y : x + y, 0,
        [l \in DOMAIN path |-> (path[l] - 1) * 2 ^ (CODE_BITS - level_bits * l)], DOMAIN path)

RECURSIVE evaluate_columns(_, _, _)
evaluate_columns(chain, path, row) ==
    LET chosen == Min({i \in DOMAIN chain : \A p \in chain[i].predicate : Passes(p, row)})
        node == chain[chosen]
    IN  IF node.children = <<>> THEN encode(Append(path, chosen))
                                ELSE evaluate_columns(node.children, Append(path, chosen), row)

(* walk: the leaves of a tree with their codes and the predicates a document *)
(* of the leaf has met on its way.                                           *)
RECURSIVE walk(_, _, _)
walk(chain, path, own) ==
    UNION {LET node == chain[i]
               own_here == own \cup node.predicate
               here == Append(path, i)
           IN  IF node.children = <<>> THEN {[code |-> encode(here), own |-> own_here]}
                                       ELSE walk(node.children, here, own_here) : i \in DOMAIN chain}

(* The leaves a conjunction of predicates asserts outright. *)
RECURSIVE Asserted(_)
Asserted(exprs) ==
    UNION {IF e.op = "and" THEN Asserted(ToSet(e.args)) ELSE {e} : e \in exprs}

tighter_lower(a, b) == IF a.value # b.value THEN IF a.value > b.value THEN a ELSE b
                                            ELSE IF a.exclusive THEN a ELSE b
tighter_upper(a, b) == IF a.value # b.value THEN IF a.value < b.value THEN a ELSE b
                                            ELSE IF a.exclusive THEN a ELSE b
Tightest(edges, Tighter(_, _)) ==
    IF edges = {} THEN {} ELSE {CHOOSE e \in edges : \A o \in edges : Tighter(e, o) = e}

(* ColumnBounds of a leaf: the range and the facet values its predicates     *)
(* leave, and its own code pinned on the code column.                        *)
Bounds(leaf) ==
    LET pin == {[value |-> 2 * leaf.code, exclusive |-> FALSE]}
        asserted == Asserted(leaf.own)
                      \cup {[op |-> "number", column |-> "code", min |-> pin, max |-> pin]}
        numbers(c) == {e \in asserted : e.op = "number" /\ e.column = c}
        facets(c) == {e.values : e \in {a \in asserted : a.op = "facet" /\ a.column = c}}
    IN  [number |-> [c \in {"n", "code"} |->
                       IF numbers(c) = {} THEN {}
                       ELSE {[lo |-> Tightest(UNION {e.min : e \in numbers(c)}, tighter_lower),
                              hi |-> Tightest(UNION {e.max : e \in numbers(c)}, tighter_upper)]}],
         facet |-> IF facets("f") = {} THEN {}
                   ELSE {{v \in UNION facets("f") : \A s \in facets("f") : v \in s}}]

----------------------------------------------------------------------------
(* No value is at or below hi and at or above lo. *)
separated_Touching(hi, lo) == hi.value <= lo.value
separated(hi, lo) == hi.value < lo.value \/ (hi.value = lo.value /\ (hi.exclusive \/ lo.exclusive))

(* impossible_under: no row within the bounds passes the filter. *)
RECURSIVE impossible_under(_, _)
impossible_under(f, b) ==
    CASE f.op = "and" -> \E i \in DOMAIN f.args : impossible_under(f.args[i], b)
      [] f.op = "or"  -> f.args # <<>> /\ \A i \in DOMAIN f.args : impossible_under(f.args[i], b)
      [] f.op = "number" ->
           \/ \E lo \in f.min, hi \in f.max : separated(hi, lo)
           \/ \E r \in b.number[f.column] :
                \/ \E hi \in f.max, lo \in r.lo : separated(hi, lo)
                \/ \E hi \in r.hi, lo \in f.min : separated(hi, lo)
      [] f.op = "facet" -> \E admitted \in b.facet : admitted \cap f.values = {}
      [] OTHER -> FALSE

lower_dominates(l, c) == l.value > c.value \/ (l.value = c.value /\ (c.exclusive => l.exclusive))
upper_dominates(h, c) == h.value < c.value \/ (h.value = c.value /\ (c.exclusive => h.exclusive))

(* A leaf every row within the bounds passes. *)
ImpliedLeaf(f, b) ==
    CASE f.op = "number" ->
           /\ f.min \cup f.max # {}
           /\ \E r \in b.number[f.column] :
                /\ \A c \in f.min : \E l \in r.lo : lower_dominates(l, c)
                /\ \A c \in f.max : \E h \in r.hi : upper_dominates(h, c)
      [] f.op = "facet" -> \E admitted \in b.facet : admitted # {} /\ admitted \subseteq f.values
      [] f.op = "has"   -> IF f.column = "f" THEN b.facet # {} ELSE b.number[f.column] # {}

IsLeaf(f) == f.op \in {"number", "facet", "has"}
RECURSIVE count_leaves(_)
count_leaves(f) ==
    IF IsLeaf(f) THEN 1
    ELSE FoldFunction(LAMBDA x, y : x + y, 0, [i \in DOMAIN f.args |-> count_leaves(f.args[i])])
(* The number of the first leaf of the i-th child, in the order the walks    *)
(* count the leaves.                                                         *)
ChildBase(f, i, next) ==
    next + FoldFunction(LAMBDA x, y : x + y, 0, [j \in 1..(i - 1) |-> count_leaves(f.args[j])])

(* implied_under: the implied leaves of the conjunctive spine, by number. *)
RECURSIVE implied_under(_, _, _, _)
implied_under(f, b, next, spine) ==
    IF IsLeaf(f) THEN IF spine /\ ImpliedLeaf(f, b) THEN {next} ELSE {}
    ELSE UNION {implied_under(f.args[i], b, ChildBase(f, i, next), spine /\ f.op = "and")
                  : i \in DOMAIN f.args}

(* without_leaves: the filter less the dropped leaves; {} when none is left. *)
RECURSIVE without_leaves(_, _, _)
without_leaves(f, dropped, next) ==
    IF IsLeaf(f) THEN IF next \in dropped THEN {} ELSE {f}
    ELSE IF f.op # "and" THEN {f}
    ELSE LET kept == SelectSeq([i \in DOMAIN f.args |->
                                  without_leaves(f.args[i], dropped, ChildBase(f, i, next))],
                               LAMBDA k : k # {})
         IN  CASE Len(kept) = 0 -> {}
               [] Len(kept) = 1 -> kept[1]
               [] OTHER -> {[op |-> "and", args |-> [i \in DOMAIN kept |-> CHOOSE k \in kept[i] : TRUE]]}

----------------------------------------------------------------------------
(* A sealed segment's summary: how many rows have a value in a number        *)
(* column, and the least and the greatest of them.                           *)
Summary(rows, column) ==
    LET values == UNION {r[column] : r \in rows}
    IN  [present |-> Cardinality({r \in rows : r[column] # {}}), values |-> values]

RangeImpossible(family, s, min, max) ==
    \/ s.present = 0
    \/ IF family = "int"
         THEN LET r == int_range(min, max)
              IN  r[1] > r[2] \/ Max(s.values) \div 2 < r[1] \/ Min(s.values) \div 2 > r[2]
         ELSE ~(/\ \A e \in min : admits_from_below(e, Max(s.values))
                /\ \A e \in max : admits_from_above(e, Min(s.values)))

RECURSIVE no_row_can_pass(_, _)
no_row_can_pass(f, rows) ==
    CASE f.op = "and" -> \E i \in DOMAIN f.args : no_row_can_pass(f.args[i], rows)
      [] f.op = "or"  -> f.args # <<>> /\ \A i \in DOMAIN f.args : no_row_can_pass(f.args[i], rows)
      [] f.op = "number" -> RangeImpossible(FamilyOf(f.column), Summary(rows, f.column), f.min, f.max)
      [] f.op = "has" /\ f.column # "f" -> Summary(rows, f.column).present = 0
      [] OTHER -> FALSE

----------------------------------------------------------------------------
(* The rows of a placed collection are all the documents, each on the shard  *)
(* of its leaf.  A row of a shard is in the sealed segment or in the tail;   *)
(* the tail has no summary.                                                  *)
FiltersInit ==
    \E tree \in PlacementTrees, f \in FilterTrees, family \in {"int", "float"} :
       sys = [part |-> "filters", tree |-> tree, filter |-> f, family |-> family,
              rows |-> {}, codes |-> <<>>, sent |-> <<>>, answer |-> {}, step |-> "place"]

PlaceDocuments ==
    /\ At("filters") /\ sys.step = "place"
    /\ sys' = [sys EXCEPT
         !.rows = {[n |-> r.n, f |-> r.f, sealed |-> r.sealed,
                    code |-> {2 * evaluate_columns(sys.tree, <<>>, r)}]
                     : r \in {d \in FilterRows : sys.family = "int" => \A v \in d.n : v % 2 = 0}},
         !.codes = SetToSortSeq({l.code : l \in walk(sys.tree, <<>>, {})}, <),
         !.step = "mask"]

LeafByCode(code) == CHOOSE l \in walk(sys.tree, <<>>, {}) : l.code = code

(* ShardMask: the shards to leave out, never all of them, and for each other *)
(* shard the filter it is sent: {} when it need not filter at all.           *)
Compute ==
    /\ At("filters") /\ sys.step = "mask"
    /\ LET bounds(s) == Bounds(LeafByCode(sys.codes[s]))
           out == {s \in DOMAIN sys.codes : impossible_under(sys.filter, bounds(s))}
           skipped == IF out = DOMAIN sys.codes THEN out \ {1} ELSE out
           implied(s) == IF s \in out THEN {} ELSE implied_under(sys.filter, bounds(s), 0, TRUE)
           filter_for(s) == without_leaves(sys.filter, implied(s), 0)
       IN  sys' = [sys EXCEPT !.sent = [s \in DOMAIN sys.codes |->
                                          IF s \in skipped THEN {} ELSE {filter_for(s)}],
                              !.step = "scan"]

(* A shard's rows under the filter it was sent, without the sealed segment   *)
(* when its summary shows that no row of it passes.                          *)
ShardAnswer(s, filter) ==
    LET held == {r \in sys.rows : r.code = {2 * sys.codes[s]}}
        sealed == {r \in held : r.sealed}
        scanned == {r \in held : r.sealed => \A f \in filter : ~no_row_can_pass(f, sealed)}
    IN  {r \in scanned : \A f \in filter : Passes(f, r)}

ScanShards ==
    /\ At("filters") /\ sys.step = "scan"
    /\ sys' = [sys EXCEPT
         !.answer = UNION {UNION {ShardAnswer(s, filter) : filter \in sys.sent[s]}
                             : s \in DOMAIN sys.sent},
         !.step = "done"]

FiltersNext == PlaceDocuments \/ Compute \/ ScanShards

(* Leaving out shards, clauses and segments changes no answer: what the      *)
(* consulted shards return is every row of the collection on which the whole *)
(* filter is true, and nothing else.                                         *)
PruningLosesNothing ==
    At("filters") => (sys.step = "done" => sys.answer = {r \in sys.rows : Passes(sys.filter, r)})
============================================================================
