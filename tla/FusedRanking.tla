--------------------------- MODULE FusedRanking ---------------------------
(* The coordinator's rankings that combine two scores or collapse rows into *)
(* parents: the decomposed hybrid and the streamed collapse, which prune    *)
(* the shards' vector scans with floors while the scans run, and the        *)
(* cascade, the collapsing fan-out and the leg merge, which combine what    *)
(* the shards return at the end.  Scores are integers; one unit is below    *)
(* every difference of scores that the fused orders tell apart.             *)
EXTENDS SystemState, Integers, Sequences, FiniteSets, FiniteSetsExt, SequencesExt

CONSTANTS
    RankRows,         \* possible rows: vector score v, lexical score b, parent
    RankCount,        \* rows of the collection, numbered 1..RankCount
    FirstSlotOfTwo,   \* rows from this one on live on the second shard
    RankDepths,       \* the k of a request
    LegDepths,        \* leg_k of a hybrid request
    MinScores,        \* min_vector_score; 0 is none
    w_v, w_b          \* the weights of the fused score

ShardOf(d) == IF d < FirstSlotOfTwo THEN 0 ELSE 1
RankShards == {0, 1}
Docs == 1..RankCount

(* Documents in a descending order of score, ties by ascending id. *)
InOrder(set, Score(_)) ==
    SetToSortSeq(set, LAMBDA d, e : Score(d) > Score(e) \/ (Score(d) = Score(e) /\ d < e))
UpTo(seq, n) == SubSeq(seq, 1, IF Len(seq) < n THEN Len(seq) ELSE n)
TopSet(set, Score(_), n) == ToSet(UpTo(InOrder(set, Score), n))
(* The n-th best of a set of scored things, counted with repetitions. *)
NthBest(set, Score(_), n) == Score(InOrder(set, Score)[n])

V(d) == sys.rows[d].v
B(d) == sys.rows[d].b
fused_of(d) == w_v * V(d) + w_b * B(d)
Eligible == {d \in Docs : V(d) >= sys.min_v}
Lexical == {d \in Docs : B(d) > 0}

----------------------------------------------------------------------------
RankingInit ==
    \E rows \in [Docs -> RankRows], k \in RankDepths, leg_k \in LegDepths, min_v \in MinScores,
       mode \in {"decomposed", "collapse"} :
      /\ mode = "collapse" => leg_k = Min(LegDepths) /\ min_v = 0
      /\ sys = [part |-> "ranking", rows |-> rows, k |-> k, leg_k |-> leg_k, min_v |-> min_v,
                mode |-> mode, phase |-> "legs", seen |-> {},
                next |-> [s \in RankShards |-> 1], floors |-> {}, hits |-> <<>>]

(* shard_legs: each shard's leg_k best lexical rows; merged is their union  *)
(* in rank order, cut to leg_k.                                             *)
bm25_of == UNION {TopSet({d \in Lexical : ShardOf(d) = s}, B, sys.leg_k) : s \in RankShards}
merge_legs == UpTo(InOrder(bm25_of, B), sys.leg_k)
b_1 == IF merge_legs = <<>> THEN 0 ELSE B(merge_legs[1])
filled == Len(merge_legs) = sys.leg_k
b_out == IF filled THEN B(merge_legs[Len(merge_legs)]) ELSE 0

(* The lower bound of a row's fused score: a lexical score the legs did not *)
(* return counts as zero.                                                   *)
LowerBound(d) == w_v * V(d) + w_b * (IF d \in bm25_of THEN B(d) ELSE 0)

(* decomposed_floor, times w_v and rounded down by one unit: below it no    *)
(* lexical score lifts a row to the k-th fused lower bound.                 *)
decomposed_floor_AtLast(s_lb) == s_lb - w_b * b_out - 1
decomposed_floor(s_lb) == s_lb - w_b * b_1 - 1

(* The floor a set of seen rows justifies; rows under min_v prove nothing.  *)
DecomposedFloors(seen) ==
    LET counted == seen \cap Eligible
    IN IF Cardinality(counted) < sys.k THEN {}
       ELSE {decomposed_floor(NthBest(counted, LowerBound, sys.k))}

Parent(d) == sys.rows[d].parent
BestChunk(set, p) == InOrder({d \in set : Parent(d) = p}, V)[1]
Representatives(set) == {BestChunk(set, p) : p \in {Parent(d) : d \in set}}

(* The streamed collapse prunes at the k-th best parent, just below it. *)
CollapseFloors(seen) ==
    IF Cardinality(Representatives(seen)) < sys.k THEN {}
    ELSE {w_v * NthBest(Representatives(seen), V, sys.k) - 1}

FloorsOf(seen) == IF sys.mode = "collapse" THEN CollapseFloors(seen) ELSE DecomposedFloors(seen)

NoFloor == 0 - 1

(* The seeds of the decomposed route: the vector scores of the k best       *)
(* lexical rows, fetched by fanout_vector_rescore before the scans open.    *)
SeedLegs ==
    /\ At("ranking") /\ sys.phase = "legs"
    /\ LET seeds == IF sys.mode = "collapse" THEN {} ELSE ToSet(UpTo(merge_legs, sys.k))
           minimum == IF sys.min_v > 0 THEN {w_v * sys.min_v} ELSE {}
           opening == FloorsOf(seeds) \cup minimum
       IN sys' = [sys EXCEPT !.phase = "scan", !.seen = seeds,
                    !.floors = IF opening = {} THEN {NoFloor} ELSE {Max(opening)}]

(* A shard scans its next row under a floor that has reached it: any of the *)
(* floors pushed so far, since a push may be late or coalesced, but never   *)
(* below the one its scan opened with.  The coordinator takes the row and   *)
(* pushes the floor that follows.                                           *)
RowsOf(s) == InOrder({d \in Docs : ShardOf(d) = s}, LAMBDA d : 0)

ScanRow ==
    /\ At("ranking") /\ sys.phase = "scan"
    /\ \E s \in RankShards : \E floor \in sys.floors :
         /\ sys.next[s] <= Len(RowsOf(s))
         /\ LET d == RowsOf(s)[sys.next[s]]
                seen == IF w_v * V(d) < floor THEN sys.seen ELSE sys.seen \cup {d}
            IN sys' = [sys EXCEPT !.next[s] = @ + 1, !.seen = seen,
                         !.floors = @ \cup FloorsOf(seen)]

(* The close-out of the decomposed route: rows with a known lexical score,  *)
(* and the others that could still reach the k-th known fused score, which  *)
(* are rescored.                                                            *)
fanout_hybrid_decomposed ==
    LET candidates == sys.seen \cap Eligible
        exact == {d \in candidates : d \in bm25_of \/ ~filled}
        Reaches(d) == \/ Cardinality(exact) < sys.k
                      \/ w_v * V(d) + w_b * b_out + 1 >= NthBest(exact, fused_of, sys.k)
        rescored == {d \in candidates \ exact : Reaches(d)}
    IN UpTo(InOrder(exact \cup rescored, fused_of), sys.k)

fanout_stream_search_collapse == UpTo(InOrder(Representatives(sys.seen), V), sys.k)

CloseOut ==
    /\ At("ranking") /\ sys.phase = "scan"
    /\ \A s \in RankShards : sys.next[s] > Len(RowsOf(s))
    /\ sys' = [sys EXCEPT !.phase = "ranked",
                 !.hits = IF sys.mode = "collapse" THEN fanout_stream_search_collapse
                          ELSE fanout_hybrid_decomposed]

----------------------------------------------------------------------------
(* The rankings without floors, from what each shard returns.               *)
Local(s) == {d \in Docs : ShardOf(d) = s}

(* A tie-complete top k: the k best rows of a shard and all that tie with   *)
(* the last of them.                                                        *)
WithTies(set) == {d \in set : Cardinality({e \in set : V(e) > V(d)}) < sys.k}
cascade_pool == WithTies(UNION {WithTies(Local(s)) : s \in RankShards})
CascadeBefore(d, e) == \/ B(d) > B(e)
                       \/ B(d) = B(e) /\ V(d) > V(e)
                       \/ B(d) = B(e) /\ V(d) = V(e) /\ d < e
fanout_cascade_merge(pool) ==
    UpTo(SetToSortSeq({d \in pool : V(d) >= sys.min_v}, CascadeBefore), sys.k)

(* search_shard with collapse_parents: a shard's k best parents, each with  *)
(* its best row; the coordinator keeps the better of two shards' rows.      *)
fanout_collapse_merge ==
    UpTo(InOrder(Representatives(UNION {TopSet(Representatives(Local(s)), V, sys.k)
                                          : s \in RankShards}), V), sys.k)

(* merge_legs_by_score: competition ranks over the merged legs. *)
merge_legs_by_score(set) ==
    [d \in set |-> 1 + Cardinality({e \in set : B(e) > B(d)})]

RankingNext == SeedLegs \/ ScanRow \/ CloseOut

----------------------------------------------------------------------------
(* The references: one node that holds every row and prunes nothing.        *)
ReferenceHits ==
    IF sys.mode = "collapse" THEN UpTo(InOrder(Representatives(Docs), V), sys.k)
    ELSE UpTo(InOrder(Eligible, fused_of), sys.k)

(* Whatever the order in which the shards' rows and the floors reach each   *)
(* other, the pruned rankings are the exhaustive ones; the cascade, the     *)
(* collapsing fan-out and the merged leg ranks down to leg_k are those of   *)
(* one node with every row (fanout_hybrid_decomposed,                       *)
(* fanout_stream_search_collapse, fanout_cascade, fanout_search_collapse,   *)
(* merge_legs_by_score).                                                    *)
PrunedRankingIsExact ==
    At("ranking") =>
      /\ sys.phase = "ranked" => sys.hits = ReferenceHits
      /\ sys.phase = "legs" =>
           /\ fanout_cascade_merge(cascade_pool) = fanout_cascade_merge(WithTies(Docs))
           /\ fanout_collapse_merge = UpTo(InOrder(Representatives(Docs), V), sys.k)
           /\ LET ranks == merge_legs_by_score(bm25_of)
                  whole == merge_legs_by_score(Lexical)
              IN \A d \in DOMAIN whole : whole[d] <= sys.leg_k /\ d \in bm25_of => ranks[d] = whole[d]
============================================================================
