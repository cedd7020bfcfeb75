---------------------------- MODULE CorpusProofs ----------------------------
(***************************************************************************)
(* Facts about the ranked lists of module Corpus, for every corpus and     *)
(* every K: cmp_hits is a strict total order, a list of at least n hits    *)
(* has an n-th, a floor K hits reach prunes no result, and merging lists   *)
(* that keep the true top K gives exactly the true top K.                  *)
(***************************************************************************)
EXTENDS Corpus, FiniteSetTheorems, TLAPS

-----------------------------------------------------------------------------
(***************************************************************************)
(* Channels.                                                               *)
(***************************************************************************)
\* A message appended to a channel, and the one taken from it.
LEMMA Appended ==
    ASSUME NEW S, NEW q \in Seq(S), NEW m \in S
    PROVE  /\ Append(q, m) \in Seq(S) /\ Len(q) \in Nat /\ Len(Append(q, m)) = Len(q) + 1
           /\ \A i \in 1..Len(q) : Append(q, m)[i] = q[i]
           /\ Append(q, m)[Len(q) + 1] = m
  OBVIOUS

(* What Tail leaves of a channel's queue.                                   *)
LEMMA Taken ==
    ASSUME NEW S, NEW q \in Seq(S), q # <<>>
    PROVE  /\ Len(q) \in Nat /\ Len(q) > 0 /\ Tail(q) \in Seq(S) /\ Len(Tail(q)) = Len(q) - 1
           /\ Head(q) = q[1] /\ q[1] \in S
           /\ \A i \in 1..(Len(q) - 1) : Tail(q)[i] = q[i + 1]
  OBVIOUS

(* A queue is empty when its length is zero.                                *)
LEMMA Drained ==
    ASSUME NEW S, NEW q \in Seq(S)
    PROVE  q = <<>> <=> Len(q) = 0
  OBVIOUS

-----------------------------------------------------------------------------
(***************************************************************************)
(* Hits.                                                                   *)
(***************************************************************************)
\* A hit's shard, slot, score and vector id are what they should be, and the
\* score is a real one, above "no floor".
LEMMA HitType ==
    ASSUME NEW h \in Hits
    PROVE  /\ h.shard \in Shards /\ h.slot \in Nat
           /\ h = [shard |-> h.shard, slot |-> h.slot]
           /\ h \in ShardHits(h.shard)
           /\ Score(h) \in Int /\ VectorId(h) \in Nat
           /\ NegInf \in Int /\ NegInf < Score(h) - 1
<1>1. PICK s \in Shards : h \in ShardHits(s)
  BY Zenon DEF Hits
<1>2. PICK i \in Allow[s] \cap (1..Len(Scores[s])) : h = [shard |-> s, slot |-> i]
  BY <1>1, Zenon DEF ShardHits
<1>3. /\ Scores[s] \in Seq(Int) /\ Len(Scores[s]) \in Nat /\ i \in 1..Len(Scores[s])
      /\ SlotOffset[s] \in Nat
  BY <1>2, CorpusAssumption
<1>4. h.shard = s /\ h.slot = i
  BY <1>2, Zenon
<1>5. Scores[s][i] \in Int
  BY <1>3
<1>6. NegInf \in Int /\ NegInf < Scores[s][i] - 1
  BY <1>3, CorpusAssumption, Zenon
<1> QED
  BY <1>1, <1>2, <1>3, <1>4, <1>5, <1>6 DEF Score, VectorId

\* A hit of a shard is a hit of the corpus and carries the shard's number.
LEMMA HitsOfShard ==
    ASSUME NEW s \in Shards, NEW h \in ShardHits(s)
    PROVE  h \in Hits /\ h.shard = s
  BY DEF Hits, ShardHits

\* There are finitely many hits.
LEMMA HitsFinite == IsFiniteSet(Hits)
<1>1. ASSUME NEW s \in Shards PROVE IsFiniteSet(ShardHits(s))
  <2> DEFINE I == Allow[s] \cap (1..Len(Scores[s]))
             f == [i \in I |-> [shard |-> s, slot |-> i]]
  <2>1. Len(Scores[s]) \in Int
    BY CorpusAssumption
  <2>2. IsFiniteSet(1..Len(Scores[s]))
    BY <2>1, FS_Interval
  <2>3. IsFiniteSet(I)
    BY <2>2, FS_Subset, Zenon
  <2>4. f \in Surjection(I, ShardHits(s))
    BY Zenon DEF Surjection, ShardHits
  <2> QED
    BY <2>3, <2>4, FS_Surjection, Zenon
<1>2. IsFiniteSet({ShardHits(s) : s \in Shards})
  <2> DEFINE T == {ShardHits(s) : s \in Shards}
             f == [s \in Shards |-> ShardHits(s)]
  <2>1. f \in Surjection(Shards, T)
    BY Zenon DEF Surjection
  <2>2. IsFiniteSet(Shards)
    BY CorpusAssumption, Zenon
  <2> QED
    BY <2>1, <2>2, FS_Surjection, Zenon
<1> QED
  BY <1>1, <1>2, FS_UNION, Zenon DEF Hits

\* Every set of hits is finite.
LEMMA SubsetFinite ==
    ASSUME NEW S \in SUBSET Hits
    PROVE  IsFiniteSet(S) /\ Cardinality(S) \in Nat
  BY HitsFinite, FS_Subset, FS_CardinalityType, Zenon

\* A larger set of hits has at least as many members.
LEMMA CardinalityMonotone ==
    ASSUME NEW S \in SUBSET Hits, NEW T \in SUBSET S
    PROVE  /\ Cardinality(T) \in Nat /\ Cardinality(S) \in Nat
           /\ Cardinality(T) <= Cardinality(S)
           /\ T # S => Cardinality(T) < Cardinality(S)
<1>1. IsFiniteSet(S) /\ Cardinality(S) \in Nat /\ T \in SUBSET Hits
  BY SubsetFinite, Zenon
<1>2. Cardinality(T) \in Nat
  BY <1>1, SubsetFinite, Zenon
<1>3. Cardinality(T) <= Cardinality(S) /\ (Cardinality(S) = Cardinality(T) => S = T)
  BY <1>1, FS_Subset, Zenon
<1> QED
  BY <1>1, <1>2, <1>3

-----------------------------------------------------------------------------
(***************************************************************************)
(* The order.                                                              *)
(***************************************************************************)
\* cmp_hits is a strict total order on hits: equal scores and equal vector
\* ids of different shards are still ordered, by the shard.
LEMMA CmpOrder ==
    ASSUME NEW a \in Hits, NEW b \in Hits
    PROVE  /\ ~ cmp_hits(a, a)
           /\ ~ (cmp_hits(a, b) /\ cmp_hits(b, a))
           /\ a # b => cmp_hits(a, b) \/ cmp_hits(b, a)
           /\ cmp_hits(a, b) => Score(a) >= Score(b)
           /\ Score(a) > Score(b) => cmp_hits(a, b)
<1>1. /\ Score(a) \in Int /\ Score(b) \in Int /\ VectorId(a) \in Nat /\ VectorId(b) \in Nat
      /\ a.shard \in Nat /\ b.shard \in Nat /\ a.slot \in Nat /\ b.slot \in Nat
      /\ SlotOffset[a.shard] \in Nat /\ SlotOffset[b.shard] \in Nat
  BY HitType, CorpusAssumption, Zenon
<1>2. a # b => a.shard # b.shard \/ a.slot # b.slot
  BY HitType, Zenon
<1>3. a.shard = b.shard /\ VectorId(a) = VectorId(b) => a.slot = b.slot
  BY <1>1 DEF VectorId
<1> QED
  BY <1>1, <1>2, <1>3 DEF cmp_hits

\* The coordinator's order, cmp_hits, is transitive.
LEMMA CmpTransitive ==
    ASSUME NEW a \in Hits, NEW b \in Hits, NEW c \in Hits, cmp_hits(a, b), cmp_hits(b, c)
    PROVE  cmp_hits(a, c)
<1>1. /\ Score(a) \in Int /\ Score(b) \in Int /\ Score(c) \in Int
      /\ VectorId(a) \in Nat /\ VectorId(b) \in Nat /\ VectorId(c) \in Nat
      /\ a.shard \in Nat /\ b.shard \in Nat /\ c.shard \in Nat
  BY HitType, CorpusAssumption, Zenon
<1> QED
  BY <1>1 DEF cmp_hits

\* A node's heap order is the coordinator's order restricted to its shard.
LEMMA LocalOrder ==
    ASSUME NEW s \in Shards, NEW S \in SUBSET ShardHits(s), NEW h \in ShardHits(s), NEW n
    PROVE  /\ AheadLocal(h, S) = Ahead(h, S)
           /\ LocalTop(S, n) = merge_topk(S, n)
<1>1. ASSUME NEW a \in ShardHits(s), NEW b \in ShardHits(s)
      PROVE  ranks_before(a, b) <=> cmp_hits(a, b)
  <2>1. /\ a \in Hits /\ b \in Hits /\ a.shard = s /\ b.shard = s
    BY HitsOfShard, Zenon
  <2>2. /\ a.slot \in Nat /\ b.slot \in Nat /\ SlotOffset[s] \in Nat /\ s \in Nat
        /\ Score(a) \in Int /\ Score(b) \in Int
    BY <2>1, HitType, CorpusAssumption, Zenon
  <2> QED
    BY <2>1, <2>2 DEF ranks_before, cmp_hits, VectorId
<1>2. \A g \in ShardHits(s) : AheadLocal(g, S) = Ahead(g, S)
  BY <1>1, Zenon DEF AheadLocal, Ahead
<1> QED
  BY <1>2, Zenon DEF LocalTop, merge_topk

-----------------------------------------------------------------------------
(***************************************************************************)
(* Positions in a ranked list.  The induction over finite sets is done by  *)
(* taking a set of hits that is minimal under inclusion.                   *)
(***************************************************************************)
\* A nonempty family of sets of hits has a member with no smaller member.
LEMMA MinimalSet ==
    ASSUME NEW T \in SUBSET (SUBSET Hits), T # {}
    PROVE  \E x \in T : \A y \in T : y \subseteq x => y = x
<1> DEFINE R == StrictSubsetOrdering(Hits)
<1>1. FiniteSubsetsOf(Hits) = SUBSET Hits
  BY HitsFinite, FS_FiniteSubsetsOfFinite, Zenon
<1>2. IsWellFoundedOn(R, SUBSET Hits)
  BY <1>1, FS_StrictSubsetOrderingWellFounded, Zenon
<1>3. PICK x \in T : \A y \in T : ~ (<<y, x>> \in R)
  <2> HIDE DEF R
  <2> QED  BY <1>2, WFMin, Zenon
<1>4. ASSUME NEW y \in T, y \subseteq x PROVE y = x
  <2>1. <<y, x>> \notin R
    BY <1>3, Zenon
  <2> QED
    BY <2>1, <1>4, Zenon DEF StrictSubsetOrdering
<1> QED
  BY <1>3, <1>4, Zenon

\* A non-empty list has a last hit.
LEMMA LastExists ==
    ASSUME NEW S \in SUBSET Hits, S # {}
    PROVE  \E h \in S : \A g \in S \ {h} : cmp_hits(g, h)
<1> DEFINE Behind(h) == {g \in S : cmp_hits(h, g)}
           T == {Behind(h) : h \in S}
<1>1. PICK x \in T : \A y \in T : y \subseteq x => y = x
  <2>1. T \in SUBSET (SUBSET Hits) /\ T # {}
    BY Zenon
  <2> HIDE DEF T
  <2> QED  BY <2>1, MinimalSet, Zenon
<1>2. PICK h \in S : x = Behind(h)
  BY Zenon
<1>3. ASSUME NEW g \in S, cmp_hits(h, g) PROVE FALSE
  <2>1. Behind(g) \subseteq Behind(h)
    BY <1>3, CmpTransitive, Zenon
  <2>2. g \in Behind(h) /\ g \notin Behind(g)
    BY <1>3, CmpOrder, Zenon
  <2> QED
    BY <1>1, <1>2, <2>1, <2>2, Zenon
<1> QED
  BY <1>3, CmpOrder, Zenon

\* A list of more than n hits has a hit with exactly n ahead of it.
LEMMA NthExists ==
    ASSUME NEW S \in SUBSET Hits, NEW n \in Nat, n < Cardinality(S)
    PROVE  \E h \in S : Cardinality(Ahead(h, S)) = n
<1> DEFINE T == {Ahead(h, S) : h \in {g \in S : Cardinality(Ahead(g, S)) >= n}}
<1>1. \A h \in S : /\ Ahead(h, S) \in SUBSET Hits /\ Ahead(h, S) \in SUBSET S
                   /\ IsFiniteSet(Ahead(h, S)) /\ Cardinality(Ahead(h, S)) \in Nat
  <2>1. \A h \in S : Ahead(h, S) \in SUBSET Hits /\ Ahead(h, S) \in SUBSET S
    BY Zenon DEF Ahead
  <2> QED
    BY <2>1, SubsetFinite, Zenon
<1>2. IsFiniteSet(S) /\ Cardinality(S) \in Nat /\ S # {}
  BY SubsetFinite, FS_EmptySet
<1>3. T # {}
  <2>1. PICK h \in S : \A g \in S \ {h} : cmp_hits(g, h)
    BY <1>2, LastExists, Zenon
  <2>2. Ahead(h, S) = S \ {h}
    BY <2>1, CmpOrder, Zenon DEF Ahead
  <2>3. Cardinality(Ahead(h, S)) = Cardinality(S) - 1
    BY <2>2, <1>2, FS_RemoveElement, Zenon
  <2> QED
    BY <2>3, <1>2
<1>4. PICK x \in T : \A y \in T : y \subseteq x => y = x
  <2>1. T \in SUBSET (SUBSET Hits)
    BY <1>1, Zenon
  <2> HIDE DEF T
  <2> QED  BY <1>3, <2>1, MinimalSet, Zenon
<1>5. PICK h \in S : x = Ahead(h, S) /\ Cardinality(Ahead(h, S)) >= n
  BY Zenon
<1>6. ASSUME Cardinality(Ahead(h, S)) # n PROVE FALSE
  <2>1. Cardinality(Ahead(h, S)) > n /\ Ahead(h, S) # {}
    BY <1>1, <1>5, <1>6, FS_EmptySet
  <2>2. PICK g \in Ahead(h, S) : \A f \in Ahead(h, S) \ {g} : cmp_hits(f, g)
    BY <1>1, <2>1, LastExists, Zenon
  <2>3. g \in S /\ cmp_hits(g, h)
    BY <2>2, Zenon DEF Ahead
  <2>4. Ahead(g, S) \subseteq Ahead(h, S) \ {g}
    <3> SUFFICES ASSUME NEW f \in S, cmp_hits(f, g) PROVE cmp_hits(f, h) /\ f # g
      BY Zenon DEF Ahead
    <3> QED
      BY <2>3, CmpTransitive, CmpOrder, Zenon
  <2>5. Ahead(h, S) \ {g} \subseteq Ahead(g, S)
    BY <2>2, Zenon DEF Ahead
  <2>6. Ahead(g, S) = Ahead(h, S) \ {g}
    BY <2>4, <2>5, Zenon
  <2>7. Cardinality(Ahead(g, S)) = Cardinality(Ahead(h, S)) - 1
    <3>1. IsFiniteSet(Ahead(h, S)) /\ g \in Ahead(h, S)
      BY <1>1, <2>2, Zenon
    <3>2. Cardinality(Ahead(h, S) \ {g}) = Cardinality(Ahead(h, S)) - 1
      BY <3>1, FS_RemoveElement, Zenon
    <3> QED
      BY <2>6, <3>2, Zenon
  <2>8. Ahead(g, S) \in T
    BY <2>1, <2>3, <2>7, <1>1
  <2> QED
    BY <1>4, <1>5, <2>2, <2>6, <2>8, Zenon
<1> QED
  BY <1>5, <1>6, Zenon

\* The score of the hit with n - 1 hits ahead of it is reached by n hits.
LEMMA NthReached ==
    ASSUME NEW S \in SUBSET Hits, NEW h \in S, NEW n \in Nat,
           Cardinality(Ahead(h, S)) = n - 1
    PROVE  Cardinality({g \in S : Score(g) >= Score(h)}) >= n
<1> DEFINE A == Ahead(h, S)
           G == {g \in S : Score(g) >= Score(h)}
<1>1. A \in SUBSET Hits /\ IsFiniteSet(A) /\ h \notin A
  BY SubsetFinite, CmpOrder, Zenon DEF Ahead
<1>2. Cardinality(A \cup {h}) = n
  BY <1>1, FS_AddElement
<1>3. A \cup {h} \subseteq G
  BY CmpOrder, HitType DEF Ahead
<1>4. G \in SUBSET Hits
  BY Zenon
<1>5. Cardinality(A \cup {h}) <= Cardinality(G)
  BY <1>3, <1>4, CardinalityMonotone, Zenon
<1> QED
  BY <1>2, <1>5, Zenon

-----------------------------------------------------------------------------
(***************************************************************************)
(* Floors.                                                                 *)
(***************************************************************************)
\* A score that K hits of any part of the corpus reach is a valid floor.
LEMMA FloorFromPart ==
    ASSUME NEW S \in SUBSET Hits, NEW f, Cardinality({g \in S : Score(g) >= f}) >= K
    PROVE  ValidFloor(f)
<1>1. {g \in S : Score(g) >= f} \subseteq {g \in Hits : Score(g) >= f}
  BY Zenon
<1>2. {g \in Hits : Score(g) >= f} \in SUBSET Hits
  BY Zenon
<1>3. Cardinality({g \in S : Score(g) >= f}) <= Cardinality({g \in Hits : Score(g) >= f})
  BY <1>1, <1>2, CardinalityMonotone, Zenon
<1>4. /\ Cardinality({g \in S : Score(g) >= f}) \in Nat
      /\ Cardinality({g \in Hits : Score(g) >= f}) \in Nat
  BY <1>1, <1>2, CardinalityMonotone, Zenon
<1> QED
  BY <1>3, <1>4, CorpusAssumption DEF ValidFloor

\* What a node publishes when its heap is full: a score of its heap, and a
\* valid floor.
THEOREM LocalKth ==
    ASSUME NEW s \in Shards, NEW S \in SUBSET ShardHits(s), Cardinality(S) >= K
    PROVE  /\ \E h \in S : KthScore(S) = Score(h)
           /\ ValidFloor(KthScore(S))
<1>1. S \in SUBSET Hits /\ Cardinality(S) \in Nat /\ K \in Nat \ {0}
  BY HitsOfShard, SubsetFinite, CorpusAssumption, Zenon
<1>2. \E h \in S : Cardinality(Ahead(h, S)) = K - 1
  BY <1>1, NthExists
<1>3. \E h \in S : Cardinality(AheadLocal(h, S)) = K - 1
  BY <1>2, LocalOrder, Zenon
<1> DEFINE h == CHOOSE g \in S : Cardinality(AheadLocal(g, S)) = K - 1
<1>4. h \in S /\ Cardinality(AheadLocal(h, S)) = K - 1
  BY <1>3, Zenon
<1>5. KthScore(S) = Score(h)
  BY Zenon DEF KthScore
<1> HIDE DEF h
<1>6. Cardinality(Ahead(h, S)) = K - 1
  BY <1>4, LocalOrder, Zenon
<1>7. ValidFloor(Score(h))
  BY <1>1, <1>4, <1>6, NthReached, FloorFromPart, Zenon
<1> QED
  BY <1>4, <1>5, <1>7, Zenon

\* What the coordinator derives when its own heap is full.
THEOREM MergedKth ==
    ASSUME NEW S \in SUBSET Hits, Cardinality(S) >= K
    PROVE  /\ \E h \in S : KthMerged(S) = Score(h)
           /\ ValidFloor(KthMerged(S))
<1>1. Cardinality(S) \in Nat /\ K \in Nat \ {0}
  BY SubsetFinite, CorpusAssumption, Zenon
<1>2. \E h \in S : Cardinality(Ahead(h, S)) = K - 1
  BY <1>1, NthExists
<1> DEFINE h == CHOOSE g \in S : Cardinality(Ahead(g, S)) = K - 1
<1>3. h \in S /\ Cardinality(Ahead(h, S)) = K - 1
  BY <1>2, Zenon
<1>4. KthMerged(S) = Score(h)
  BY Zenon DEF KthMerged
<1> HIDE DEF h
<1>5. ValidFloor(Score(h))
  BY <1>1, <1>3, NthReached, FloorFromPart, Zenon
<1> QED
  BY <1>3, <1>4, <1>5, Zenon

-----------------------------------------------------------------------------
(***************************************************************************)
(* Losslessness.                                                           *)
(***************************************************************************)
\* A hit with K hits of any part of the corpus ahead of it is no result.
LEMMA OutrankedIsNoResult ==
    ASSUME NEW S \in SUBSET Hits, NEW h \in Hits, Cardinality(Ahead(h, S)) >= K
    PROVE  h \notin ExactTopK
<1>1. Ahead(h, S) \subseteq Ahead(h, Hits) /\ Ahead(h, Hits) \in SUBSET Hits
  BY Zenon DEF Ahead
<1>2. /\ Cardinality(Ahead(h, S)) <= Cardinality(Ahead(h, Hits))
      /\ Cardinality(Ahead(h, S)) \in Nat /\ Cardinality(Ahead(h, Hits)) \in Nat
  BY <1>1, CardinalityMonotone, Zenon
<1> QED
  BY <1>2, CorpusAssumption DEF ExactTopK, merge_topk

\* Truncating a list drops no result.
LEMMA TruncatedIsNoResult ==
    ASSUME NEW S \in SUBSET Hits, NEW h \in S, NEW n \in Nat, n >= K, h \notin merge_topk(S, n)
    PROVE  h \notin ExactTopK
<1>1. Ahead(h, S) \in SUBSET Hits
  BY Zenon DEF Ahead
<1>2. Cardinality(Ahead(h, S)) \in Nat
  BY <1>1, SubsetFinite, Zenon
<1> QED
  BY <1>2, OutrankedIsNoResult, CorpusAssumption DEF merge_topk

\* Pruning strictly below a valid floor drops no result.
THEOREM PrunedIsNoResult ==
    ASSUME NEW f \in Int, ValidFloor(f), NEW h \in Hits, Score(h) < f
    PROVE  h \notin ExactTopK
<1> DEFINE G == {g \in Hits : Score(g) >= f}
<1>1. f # NegInf
  BY HitType
<1>2. Cardinality(G) >= K
  BY <1>1, Zenon DEF ValidFloor
<1>3. G \subseteq Ahead(h, Hits) /\ Ahead(h, Hits) \in SUBSET Hits
  BY HitType, CmpOrder DEF Ahead
<1>4. /\ Cardinality(G) <= Cardinality(Ahead(h, Hits))
      /\ Cardinality(G) \in Nat /\ Cardinality(Ahead(h, Hits)) \in Nat
  BY <1>3, CardinalityMonotone, Zenon
<1>5. Cardinality(Ahead(h, Hits)) >= K
  BY <1>2, <1>4, CorpusAssumption
<1> QED
  BY <1>5, OutrankedIsNoResult, Zenon

\* Any list that still holds every result merges to exactly the result.
THEOREM MergeExact ==
    ASSUME NEW S \in SUBSET Hits, ExactTopK \subseteq S
    PROVE  merge_topk(S, K) = ExactTopK
<1>1. ASSUME NEW h \in ExactTopK PROVE h \in merge_topk(S, K)
  <2>1. h \in Hits /\ Cardinality(Ahead(h, Hits)) < K
    BY Zenon DEF ExactTopK, merge_topk
  <2>2. Ahead(h, S) \subseteq Ahead(h, Hits) /\ Ahead(h, Hits) \in SUBSET Hits
    BY Zenon DEF Ahead
  <2>3. /\ Cardinality(Ahead(h, S)) <= Cardinality(Ahead(h, Hits))
        /\ Cardinality(Ahead(h, S)) \in Nat /\ Cardinality(Ahead(h, Hits)) \in Nat
    BY <2>2, CardinalityMonotone, Zenon
  <2> QED
    BY <2>1, <2>3, CorpusAssumption DEF merge_topk
<1>2. ASSUME NEW h \in merge_topk(S, K), h \notin ExactTopK PROVE FALSE
  <2> DEFINE T == {Ahead(g, Hits) : g \in Hits \ ExactTopK}
  <2>1. h \in S /\ h \in Hits /\ Cardinality(Ahead(h, S)) < K
    BY Zenon DEF merge_topk
  <2>2. T \in SUBSET (SUBSET Hits) /\ T # {}
    BY <1>2, <2>1, Zenon DEF Ahead
  <2>3. PICK x \in T : \A y \in T : y \subseteq x => y = x
    BY <2>2, MinimalSet, Zenon
  <2>4. PICK g \in Hits \ ExactTopK : x = Ahead(g, Hits)
    BY Zenon
  <2>5. Ahead(g, Hits) \subseteq ExactTopK
    <3> SUFFICES ASSUME NEW f \in Hits, cmp_hits(f, g), f \notin ExactTopK PROVE FALSE
      BY Zenon DEF Ahead
    <3>1. Ahead(f, Hits) \subseteq Ahead(g, Hits)
      BY CmpTransitive, Zenon DEF Ahead
    <3>2. f \in Ahead(g, Hits) /\ f \notin Ahead(f, Hits)
      BY CmpOrder, Zenon DEF Ahead
    <3>3. Ahead(f, Hits) \in T
      BY Zenon
    <3> QED
      BY <2>3, <2>4, <3>1, <3>2, <3>3, Zenon
  <2>6. Cardinality(Ahead(g, Hits)) >= K
    <3>1. Ahead(g, Hits) \in SUBSET Hits
      BY Zenon DEF Ahead
    <3>2. Cardinality(Ahead(g, Hits)) \in Nat
      BY <3>1, SubsetFinite, Zenon
    <3> QED
      BY <3>2, CorpusAssumption DEF ExactTopK, merge_topk
  <2>7. Ahead(g, Hits) \subseteq Ahead(h, S)
    <3> SUFFICES ASSUME NEW f \in Ahead(g, Hits) PROVE f \in S /\ cmp_hits(f, h)
      BY Zenon DEF Ahead
    <3>1. f \in ExactTopK /\ f \in Hits /\ f \in S /\ f # h
      BY <2>5, <1>2, Zenon DEF Ahead
    <3>2. ASSUME cmp_hits(h, f) PROVE FALSE
      <4>1. Ahead(h, Hits) \subseteq Ahead(f, Hits) /\ Ahead(f, Hits) \in SUBSET Hits
        BY <2>1, <3>1, <3>2, CmpTransitive, Zenon DEF Ahead
      <4>2. /\ Cardinality(Ahead(h, Hits)) <= Cardinality(Ahead(f, Hits))
            /\ Cardinality(Ahead(h, Hits)) \in Nat /\ Cardinality(Ahead(f, Hits)) \in Nat
        BY <4>1, CardinalityMonotone, Zenon
      <4>3. Cardinality(Ahead(f, Hits)) < K /\ ~ (Cardinality(Ahead(h, Hits)) < K)
        BY <1>2, <2>1, <3>1, Zenon DEF ExactTopK, merge_topk
      <4> QED
        BY <4>2, <4>3, CorpusAssumption
    <3> QED
      BY <2>1, <3>1, <3>2, CmpOrder, Zenon
  <2>8. Ahead(h, S) \in SUBSET Hits
    BY Zenon DEF Ahead
  <2>9. /\ Cardinality(Ahead(g, Hits)) <= Cardinality(Ahead(h, S))
        /\ Cardinality(Ahead(g, Hits)) \in Nat /\ Cardinality(Ahead(h, S)) \in Nat
    BY <2>7, <2>8, CardinalityMonotone, Zenon
  <2> QED
    BY <2>1, <2>6, <2>9, CorpusAssumption
<1> QED
  BY <1>1, <1>2, Zenon DEF merge_topk
=============================================================================
