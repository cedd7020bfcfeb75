----------------------------- MODULE Aggregates -----------------------------
(* Aggregation over the shards: every shard folds its rows into partials,    *)
(* the coordinator folds the partials in shard order under the request's     *)
(* caps, and percentiles are found by rounds of counting.  An optional value *)
(* is a set of at most one; NotANumber stands for NaN in a double column.    *)
EXTENDS SystemState, Integers, Sequences, FiniteSets, FiniteSetsExt, SequencesExt, Functions

CONSTANTS
    AggRows,      \* rows [value, group]
    AggCount,     \* rows of a collection
    AggLayouts,   \* sequences of shards [vt, rows]: the type of the expression on the
                  \* shard ("absent" without the column or the store), and its rows
    AggRequests,  \* [max_groups, max_distinct, interval, max_buckets, percentile]
    NotANumber,
    SumLimit,     \* an exact integer sum beyond it does not fit the result
    OrderOffset   \* what the order-preserving code of an integer adds to it

EmptyAcc(vt) == [vt |-> vt, present |-> 0, sum |-> 0, min |-> 0, max |-> 0, distinct |-> {}]

(* AggAcc::push of one value: NaN makes both extrema NaN for good. *)
WithNaN(v, w, r) == IF v = NotANumber \/ w = NotANumber THEN NotANumber ELSE r
acc_push(a, x) ==
    [a EXCEPT !.present = @ + 1,
              !.sum = WithNaN(@, x, @ + x),
              !.min = IF a.present = 0 THEN x ELSE WithNaN(@, x, Min({@, x})),
              !.max = IF a.present = 0 THEN x ELSE WithNaN(@, x, Max({@, x})),
              !.distinct = @ \cup {x}]

(* The order bits of a value; NaN has none. *)
rankable_bits(vt, x) == IF vt = "uint" THEN {x} ELSE IF x = NotANumber THEN {} ELSE {x + OrderOffset}
from_order_bits(vt, bits) == IF vt = "uint" THEN bits ELSE bits - OrderOffset

EmptyPct(vt) == [vt |-> vt, present |-> 0, unrankable |-> 0, min_bits |-> 0, max_bits |-> 0]
pct_push(a, bits) ==
    IF bits = {} THEN [a EXCEPT !.unrankable = @ + 1]
    ELSE LET b == Max(bits)
         IN  [a EXCEPT !.present = @ + 1,
                       !.min_bits = IF a.present = 0 THEN b ELSE Min({@, b}),
                       !.max_bits = IF a.present = 0 THEN b ELSE Max({@, b})]

(* HistAcc: the bucket of a value, none for NaN. *)
EmptyHist == [buckets |-> <<>>, present |-> 0, unbucketable |-> 0]
Bump(counts, key, by) ==
    [k \in DOMAIN counts \cup {key} |->
       (IF k \in DOMAIN counts THEN counts[k] ELSE 0) + (IF k = key THEN by ELSE 0)]
hist_push(h, x, interval) ==
    IF x = NotANumber THEN [h EXCEPT !.present = @ + 1, !.unbucketable = @ + 1]
    ELSE [h EXCEPT !.present = @ + 1, !.buckets = Bump(@, x \div interval, 1)]

(* run_aggregate_shard: one pass over the rows; a shard over a cap refuses. *)
EmptyPartial(vt) ==
    [total |-> EmptyAcc(vt), groups |-> <<>>, matched |-> 0, ungrouped |-> 0,
     hist |-> EmptyHist, pct |-> EmptyPct(vt), known |-> vt # "absent", refused |-> FALSE]
AggregateRow(p, row, req) ==
    LET vt == p.total.vt
        values == IF vt = "absent" THEN {} ELSE row.value
        Push(a) == IF values = {} THEN a ELSE acc_push(a, Max(values))
        grouped == [g \in DOMAIN p.groups \cup row.group |->
                      LET held == IF g \in DOMAIN p.groups THEN p.groups[g]
                                  ELSE [matched |-> 0, acc |-> EmptyAcc(vt)]
                      IN  IF g \in row.group THEN [matched |-> held.matched + 1, acc |-> Push(held.acc)]
                                             ELSE held]
        hist == IF values = {} \/ vt # "double" THEN p.hist
                                ELSE hist_push(p.hist, Max(values), req.interval)
        pct == IF values = {} THEN p.pct ELSE pct_push(p.pct, rankable_bits(vt, Max(values)))
    IN  [p EXCEPT !.total = Push(@), !.groups = grouped, !.matched = @ + 1,
                  !.ungrouped = IF row.group = {} THEN @ + 1 ELSE @, !.hist = hist, !.pct = pct,
                  !.refused = \/ @ \/ Cardinality(DOMAIN grouped) > req.max_groups
                              \/ Cardinality(DOMAIN hist.buckets) > req.max_buckets]
run_aggregate_shard(shard, rows, req) ==
    LET p == FoldLeft(LAMBDA acc, i : AggregateRow(acc, rows[i], req), EmptyPartial(shard.vt),
                      SetToSortSeq(shard.rows, <))
    IN  [p EXCEPT !.refused = @ \/ Cardinality(p.total.distinct) > req.max_distinct]

----------------------------------------------------------------------------
(* AggMerge::fold: an absent partial is skipped, another type refused, an    *)
(* empty partial only fixes the type.                                        *)
Disagree(a, b) == a.vt # "absent" /\ b.vt # "absent" /\ a.vt # b.vt
agg_fold_EmptyExtrema(a, p) ==
    IF p.vt = "absent" THEN a
    ELSE [vt |-> p.vt, present |-> a.present + p.present, sum |-> WithNaN(a.sum, p.sum, a.sum + p.sum),
          min |-> IF a.present = 0 THEN p.min ELSE WithNaN(a.min, p.min, Min({a.min, p.min})),
          max |-> IF a.present = 0 THEN p.max ELSE WithNaN(a.max, p.max, Max({a.max, p.max})),
          distinct |-> a.distinct \cup p.distinct]
agg_fold(a, p) ==
    IF p.vt = "absent" THEN a
    ELSE IF p.present = 0 THEN [a EXCEPT !.vt = p.vt]
    ELSE [vt |-> p.vt, present |-> a.present + p.present, sum |-> WithNaN(a.sum, p.sum, a.sum + p.sum),
          min |-> IF a.present = 0 THEN p.min ELSE WithNaN(a.min, p.min, Min({a.min, p.min})),
          max |-> IF a.present = 0 THEN p.max ELSE WithNaN(a.max, p.max, Max({a.max, p.max})),
          distinct |-> a.distinct \cup p.distinct]

pct_fold(a, p) ==
    IF p.vt = "absent" THEN a
    ELSE LET counted == [a EXCEPT !.vt = p.vt, !.unrankable = @ + p.unrankable]
         IN  IF p.present = 0 THEN counted
             ELSE [counted EXCEPT !.present = @ + p.present,
                     !.min_bits = IF a.present = 0 THEN p.min_bits ELSE Min({@, p.min_bits}),
                     !.max_bits = IF a.present = 0 THEN p.max_bits ELSE Max({@, p.max_bits})]

hist_fold(h, p) ==
    [buckets |-> FoldSet(LAMBDA k, acc : Bump(acc, k, p.buckets[k]), h.buckets, DOMAIN p.buckets),
     present |-> h.present + p.present, unbucketable |-> h.unbucketable + p.unbucketable]

group_fold(groups, more) ==
    [g \in DOMAIN groups \cup DOMAIN more |->
       LET held == IF g \in DOMAIN groups THEN groups[g]
                   ELSE [matched |-> 0, acc |-> EmptyAcc("absent")]
       IN  IF g \in DOMAIN more THEN [matched |-> held.matched + more[g].matched,
                                      acc |-> agg_fold(held.acc, more[g].acc)]
                                ELSE held]

(* One shard's response folded into what is merged so far. *)
FoldResponse(m, p, req) ==
    LET total == agg_fold(m.total, p.total)
        groups == group_fold(m.groups, p.groups)
        hist == hist_fold(m.hist, p.hist)
    IN  [total |-> total, groups |-> groups, matched |-> m.matched + p.matched,
         ungrouped |-> m.ungrouped + p.ungrouped, hist |-> hist, pct |-> pct_fold(m.pct, p.pct),
         known |-> m.known \/ p.known,
         refused |-> \/ p.refused \/ Disagree(m.total, p.total)
                     \/ Cardinality(total.distinct) > req.max_distinct
                     \/ Cardinality(DOMAIN groups) > req.max_groups
                     \/ Cardinality(DOMAIN hist.buckets) > req.max_buckets]

(* AggMerge::result: nothing of no values, an exact integer sum or none. *)
Fits(a) == a.vt = "double" \/ (a.sum <= SumLimit /\ a.sum >= -SumLimit)
agg_result(a) ==
    [count |-> a.present, cardinality |-> Cardinality(a.distinct),
     sum |-> IF a.present = 0 THEN {} ELSE {a.sum},
     min |-> IF a.present = 0 THEN {} ELSE {a.min},
     max |-> IF a.present = 0 THEN {} ELSE {a.max}]

(* The nearest rank: the ceiling of p percent of the count, from 1 on. *)
nearest_percentile_rank(p, count) == Max({1, Min({count, -((-(p * count)) \div 100)})})

----------------------------------------------------------------------------
AggregatesInit ==
    \E rows \in [1..AggCount -> AggRows], layout \in AggLayouts, req \in AggRequests :
       /\ \A s \in DOMAIN layout : \A i \in layout[s].rows :
            /\ layout[s].vt # "double" => NotANumber \notin rows[i].value
            /\ layout[s].vt = "uint" => \A v \in rows[i].value : v >= 0
       /\ sys = [part |-> "aggregates", rows |-> rows, layout |-> layout, req |-> req, next |-> 1,
                 merged |-> EmptyPartial("absent"), rank |-> 0, lo |-> 0, hi |-> 0, step |-> "fold"]

(* fanout_aggregate: the responses are awaited and folded in shard order. *)
aggregate_shards ==
    /\ At("aggregates") /\ sys.step = "fold" /\ sys.next <= Len(sys.layout)
    /\ LET p == run_aggregate_shard(sys.layout[sys.next], sys.rows, sys.req)
           m == FoldResponse(sys.merged, p, sys.req)
       IN  sys' = [sys EXCEPT !.merged = m, !.next = @ + 1, !.step = IF m.refused THEN "refused" ELSE @]

(* merge_aggregate_responses: the last checks, the results, and a search     *)
(* between the extremes for the percentile.                                  *)
merge_aggregate_responses ==
    /\ At("aggregates") /\ sys.step = "fold" /\ sys.next > Len(sys.layout)
    /\ LET m == sys.merged IN
       IF ~m.known \/ ~Fits(m.total) \/ \E g \in DOMAIN m.groups : ~Fits(m.groups[g].acc)
         THEN sys' = [sys EXCEPT !.step = "refused"]
         ELSE sys' = [sys EXCEPT !.rank = IF m.pct.present = 0 THEN 0
                                          ELSE nearest_percentile_rank(sys.req.percentile, m.pct.present),
                                 !.lo = m.pct.min_bits, !.hi = m.pct.max_bits, !.step = "solve"]

(* quantile_counts: the rows of a shard at or below a threshold. *)
quantile_counts(shard, threshold) ==
    Cardinality({i \in shard.rows : /\ shard.vt # "absent"
                                    /\ \E v \in sys.rows[i].value :
                                         \E b \in rankable_bits(shard.vt, v) : b <= threshold})
quantile_round(threshold) ==
    FoldFunction(LAMBDA x, y : x + y, 0,
                 [s \in DOMAIN sys.layout |-> quantile_counts(sys.layout[s], threshold)])

solve_percentiles ==
    /\ At("aggregates") /\ sys.step = "solve"
    /\ IF sys.rank > 0 /\ sys.lo < sys.hi
         THEN LET probe == sys.lo + (sys.hi - sys.lo) \div 2
              IN  IF quantile_round(probe) >= sys.rank THEN sys' = [sys EXCEPT !.hi = probe]
                                                       ELSE sys' = [sys EXCEPT !.lo = probe + 1]
         ELSE sys' = [sys EXCEPT !.step = "done"]

AggregatesNext == aggregate_shards \/ merge_aggregate_responses \/ solve_percentiles

----------------------------------------------------------------------------
(* One collection: every row, and the rows with a value on a shard that has  *)
(* the column.                                                               *)
Typed == {s \in DOMAIN sys.layout : sys.layout[s].vt # "absent"}
RowsHeld == UNION {sys.layout[s].rows : s \in DOMAIN sys.layout}
ValuedAmong(rows) == {i \in rows : sys.rows[i].value # {}
                                    /\ \E s \in Typed : i \in sys.layout[s].rows}
ValueAt(i) == Max(sys.rows[i].value)
ResultOver(rows) ==
    LET held == ValuedAmong(rows)
        values == {ValueAt(i) : i \in held}
        numbers == IF NotANumber \in values THEN {NotANumber} ELSE values
        total == IF NotANumber \in values THEN NotANumber
                 ELSE FoldSet(LAMBDA i, acc : acc + ValueAt(i), 0, held)
    IN  [count |-> Cardinality(held), cardinality |-> Cardinality(values),
         sum |-> IF held = {} THEN {} ELSE {total},
         min |-> IF held = {} THEN {} ELSE {Min(numbers)},
         max |-> IF held = {} THEN {} ELSE {Max(numbers)}]
GroupsHeld == UNION {sys.rows[i].group : i \in RowsHeld}
InGroup(g) == {i \in RowsHeld : g \in sys.rows[i].group}
TypeHeld == sys.layout[Min(Typed)].vt
Rankable == {i \in ValuedAmong(RowsHeld) : ValueAt(i) # NotANumber}
Bucketed == IF \E s \in Typed : sys.layout[s].vt = "double" THEN Rankable ELSE {}
BucketOf(i) == ValueAt(i) \div sys.req.interval

(* What no answer may be given for, whatever shard notices. *)
Unanswerable ==
    \/ Typed = {}
    \/ \E s, t \in Typed : sys.layout[s].vt # sys.layout[t].vt
    \/ Cardinality(GroupsHeld) > sys.req.max_groups
    \/ Cardinality({ValueAt(i) : i \in ValuedAmong(RowsHeld)}) > sys.req.max_distinct
    \/ Cardinality({BucketOf(i) : i \in Bucketed}) > sys.req.max_buckets
    \/ \E rows \in {RowsHeld} \cup {InGroup(g) : g \in GroupsHeld} :
         \E s \in Typed, v \in ResultOver(rows).sum :
           sys.layout[s].vt # "double" /\ (v > SumLimit \/ v < -SumLimit)

(* An aggregation over the shards is the aggregation over one collection:    *)
(* it is refused exactly when the collection as a whole has too many groups, *)
(* values or buckets, clashing types or a sum that does not fit, however the *)
(* rows are spread; otherwise totals, groups and buckets are those of all    *)
(* the rows and the percentile is the row value of the nearest rank.         *)
AggregatesAreWhole ==
    At("aggregates") =>
      /\ sys.step = "refused" => Unanswerable
      /\ sys.step = "done" =>
           LET m == sys.merged
               below(x) == Cardinality({i \in Rankable : ValueAt(i) <= x})
           IN  /\ ~Unanswerable
               /\ agg_result(m.total) = ResultOver(RowsHeld)
               /\ m.matched = Cardinality(RowsHeld)
               /\ m.ungrouped = Cardinality({i \in RowsHeld : sys.rows[i].group = {}})
               /\ DOMAIN m.groups = GroupsHeld
               /\ \A g \in GroupsHeld : /\ agg_result(m.groups[g].acc) = ResultOver(InGroup(g))
                                        /\ m.groups[g].matched = Cardinality(InGroup(g))
               /\ \A b \in DOMAIN m.hist.buckets :
                    m.hist.buckets[b] = Cardinality({i \in Bucketed : BucketOf(i) = b})
               /\ DOMAIN m.hist.buckets = {BucketOf(i) : i \in Bucketed}
               /\ Rankable # {} =>
                    LET answer == from_order_bits(TypeHeld, sys.lo)
                        k == nearest_percentile_rank(sys.req.percentile, Cardinality(Rankable))
                    IN  /\ \E i \in Rankable : ValueAt(i) = answer
                        /\ below(answer) >= k /\ below(answer - 1) < k
============================================================================
