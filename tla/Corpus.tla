------------------------------- MODULE Corpus -------------------------------
(***************************************************************************)
(* One query's view of the sharded corpus, and the ranked lists both sides *)
(* of a fan-out build over it.                                             *)
(*                                                                         *)
(* A scan never looks at a document's content: for a fixed query every     *)
(* slot of a shard has a score, and the request's filters admit some of    *)
(* the slots.  A hit is therefore identified by its shard and slot; its    *)
(* score and its global vector id are functions of that pair.  A ranked    *)
(* list is the set of its hits: cmp_hits orders any two distinct hits, so  *)
(* a set of hits has exactly one sorted order.                             *)
(*                                                                         *)
(* Scores are integers.  The code's f32 scores are compared only, never    *)
(* added, and f32::next_down is the predecessor in their order, which is   *)
(* n - 1 here.                                                             *)
(***************************************************************************)
EXTENDS Integers, Sequences, FiniteSets

CONSTANTS
    Shards,      \* shard numbers, the order of the coordinator's node list
    Scores,      \* Scores[s][i]: this query's score of slot i of shard s
    SlotOffset,  \* SlotOffset[s]: added to a slot to make the vector id
    Allow,       \* Allow[s]: the slots of s the request's filters admit
    K,           \* results asked for
    NegInf       \* stands for f32::NEG_INFINITY, "no floor yet"

ASSUME CorpusAssumption ==
    /\ Shards \subseteq Nat /\ IsFiniteSet(Shards) /\ Shards # {}
    /\ Scores \in [Shards -> Seq(Int)]
    /\ SlotOffset \in [Shards -> Nat]
    /\ Allow \in [Shards -> SUBSET Nat]
    /\ K \in Nat \ {0}
    /\ NegInf \in Int
    /\ \A s \in Shards : \A i \in 1..Len(Scores[s]) : NegInf < Scores[s][i] - 1

-----------------------------------------------------------------------------
\* ScoredHit: slots are numbered from 1 here, from 0 in the code.
ShardHits(s) == {[shard |-> s, slot |-> i] : i \in Allow[s] \cap (1..Len(Scores[s]))}
Hits == UNION {ShardHits(s) : s \in Shards}
Score(h) == Scores[h.shard][h.slot]

\* The slot-to-global-id rebase every shard applies to the hits it sends.
VectorId(h) == SlotOffset[h.shard] + h.slot

\* The order of a node's heap: score descending, slot ascending.
ranks_before(a, b) ==
    \/ Score(a) > Score(b)
    \/ Score(a) = Score(b) /\ a.slot < b.slot

\* The coordinator's order: score descending, vector id ascending, shard
\* ascending.
cmp_hits(a, b) ==
    \/ Score(a) > Score(b)
    \/ /\ Score(a) = Score(b)
       /\ \/ VectorId(a) < VectorId(b)
          \/ VectorId(a) = VectorId(b) /\ a.shard < b.shard

-----------------------------------------------------------------------------
\* The members of S ranked ahead of h, on the coordinator and on a node.
Ahead(h, S) == {g \in S : cmp_hits(g, h)}
AheadLocal(h, S) == {g \in S : ranks_before(g, h)}

\* Sort by cmp_hits, truncate to n.
merge_topk(S, n) == {h \in S : Cardinality(Ahead(h, S)) < n}

\* A node's list capped at n.
LocalTop(S, n) == {h \in S : Cardinality(AheadLocal(h, S)) < n}

\* A list capped at n plus every hit tied with its n-th.
TieTop(S, n) == {h \in S : Cardinality({g \in S : Score(g) > Score(h)}) < n}

\* Mutated form of KthScore: the head of the heap instead of its K-th entry.
KthScore_Head(S) == Score(CHOOSE h \in S : AheadLocal(h, S) = {})

\* heap[k - 1].score of a list that holds at least K hits.
KthScore(S) == Score(CHOOSE h \in S : Cardinality(AheadLocal(h, S)) = K - 1)

\* The same on the coordinator's heap.
KthMerged(S) == Score(CHOOSE h \in S : Cardinality(Ahead(h, S)) = K - 1)

MaxFloor(a, b) == IF a < b THEN b ELSE a

\* What a floor has to be for pruning below it to lose nothing: no floor at
\* all, or a score that K admitted hits of the whole corpus reach.
ValidFloor(f) == f # NegInf => Cardinality({h \in Hits : Score(h) >= f}) >= K

\* The answer an unpruned, unsharded scan of the admitted corpus would give.
ExactTopK == merge_topk(Hits, K)
=============================================================================
