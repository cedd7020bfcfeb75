------------------------- MODULE FloorSearchProofs -------------------------
(***************************************************************************)
(* The floor-sharing fan-out is lossless for every corpus, every number of *)
(* shards, every K, every chunk size and every channel capacity, with any  *)
(* pattern of dropped floors, hedges, failovers and deadlines.             *)
(*                                                                         *)
(* ExactResult is not inductive: a search answers from lists that were     *)
(* pruned long before.  The strengthening IInv says, of every stream, that *)
(* its heap still holds every wanted hit of the slots scanned so far, and, *)
(* of every floor in the system, that K hits of the corpus reach it.       *)
(***************************************************************************)
EXTENDS FloorSearch, CorpusProofs

\* The hits a shard may not lose.
Wanted == IF KeepTies THEN TieTop(Hits, K) ELSE ExactTopK

StreamOK(a, st) ==
    /\ st \in Streams
    /\ Len(st.inbox) <= RequestCap
    /\ Len(st.outbox) <= ResponseCap
    /\ st.start <= Len(Scores[a[1]])
    /\ ValidFloor(st.seen) /\ ValidFloor(st.cell) /\ ValidFloor(st.published)
    /\ \A i \in 1..Len(st.inbox) : ValidFloor(st.inbox[i])
    /\ \A i \in 1..Len(st.outbox) : ValidFloor(st.outbox[i])
    /\ st.heap \subseteq ShardHits(a[1])
    /\ \A h \in ShardHits(a[1]) : h.slot <= st.start /\ h \in Wanted => h \in st.heap
    /\ st.scan = "sent" => st.start = Len(Scores[a[1]])

FloorOK(f) == f \in Floors /\ ValidFloor(f)

IInv ==
    /\ leg \in [Attempts -> LegStates]
    /\ stream \in [Attempts -> Streams]
    /\ \A a \in Attempts : /\ StreamOK(a, stream[a])
                           /\ leg[a] = "opening" => stream[a] = NoStream
                           /\ leg[a] = "idle" => stream[a] = NoStream
    /\ \A a \in Attempts : a[2] = "replica" /\ leg[a] # "idle" => a[1] \in Replicated
    /\ raise \in [Active -> Floors] /\ \A s \in Active : FloorOK(raise[s])
    /\ FloorOK(tracker)
    /\ FloorOK(gfloor)
    /\ shardRes \in [Active -> {"pending", "ok", "err"}]
    /\ shardHits \in [Active -> SUBSET Hits]
    /\ \A s \in Active : shardRes[s] = "ok" => Wanted \cap ShardHits(s) \subseteq shardHits[s]
    /\ collected \subseteq {s \in Active : shardRes[s] = "ok"}
    /\ outcome \in {"pending", "ok", "err"}
    /\ result \subseteq Hits
    /\ outcome = "ok" => /\ result = ExactTopK
                         /\ Wanted \subseteq UNION {shardHits[s] : s \in Active}
    /\ outcome # "ok" => result = {}
    /\ ShardFailureHasCause

-----------------------------------------------------------------------------
(***************************************************************************)
(* What the scan's operators keep.                                         *)
(***************************************************************************)
\* A hit that K hits of any part of the corpus outscore is not wanted.
LEMMA OutscoredNotWanted ==
    ASSUME NEW S \in SUBSET Hits, NEW h \in Hits,
           Cardinality({g \in S : Score(g) > Score(h)}) >= K
    PROVE  h \notin Wanted
<1> DEFINE B == {g \in S : Score(g) > Score(h)}
           C == {g \in Hits : Score(g) > Score(h)}
<1>1. B \subseteq Ahead(h, S) /\ Ahead(h, S) \in SUBSET Hits
  BY CmpOrder, Zenon DEF Ahead
<1>2. /\ Cardinality(B) <= Cardinality(Ahead(h, S))
      /\ Cardinality(B) \in Nat /\ Cardinality(Ahead(h, S)) \in Nat
  BY <1>1, CardinalityMonotone, Zenon
<1>3. h \notin ExactTopK
  BY <1>2, OutrankedIsNoResult, CorpusAssumption
<1>4. B \subseteq C /\ C \in SUBSET Hits
  BY Zenon
<1>5. Cardinality(B) <= Cardinality(C) /\ Cardinality(B) \in Nat /\ Cardinality(C) \in Nat
  BY <1>4, CardinalityMonotone, Zenon
<1>6. h \notin TieTop(Hits, K)
  BY <1>5, CorpusAssumption DEF TieTop
<1> QED
  BY <1>3, <1>6, Zenon DEF Wanted

\* Pruning strictly below a valid floor drops nothing wanted.
LEMMA PrunedNotWanted ==
    ASSUME NEW f \in Int, ValidFloor(f), NEW h \in Hits, Score(h) < f
    PROVE  h \notin Wanted
<1> DEFINE G == {g \in Hits : Score(g) >= f}
           B == {g \in Hits : Score(g) > Score(h)}
<1>1. Cardinality(G) >= K
  BY HitType DEF ValidFloor
<1>2. G \subseteq B /\ B \in SUBSET Hits
  BY HitType
<1>3. Cardinality(G) <= Cardinality(B) /\ Cardinality(G) \in Nat /\ Cardinality(B) \in Nat
  BY <1>2, CardinalityMonotone, Zenon
<1>4. Cardinality(B) >= K
  BY <1>1, <1>3, CorpusAssumption
<1> QED
  BY <1>4, OutscoredNotWanted, Zenon

\* Capping a node's list at K, or at K and its ties, drops nothing wanted.
LEMMA CapKeepsWanted ==
    ASSUME NEW s \in Shards, NEW S \in SUBSET ShardHits(s), NEW h \in S, h \in Wanted
    PROVE  h \in IF KeepTies THEN TieTop(S, K) ELSE LocalTop(S, K)
<1>1. S \in SUBSET Hits /\ h \in Hits /\ K \in Nat
  BY HitsOfShard, CorpusAssumption, Zenon
<1>2. CASE KeepTies
  <2>1. {g \in S : Score(g) > Score(h)} \in SUBSET Hits
    BY <1>1, Zenon
  <2>2. Cardinality({g \in S : Score(g) > Score(h)}) \in Nat
    BY <2>1, SubsetFinite, Zenon
  <2>3. ~ (Cardinality({g \in S : Score(g) > Score(h)}) >= K)
    BY <1>1, OutscoredNotWanted, Zenon
  <2> QED
    BY <1>1, <1>2, <2>2, <2>3 DEF TieTop
<1>3. CASE ~ KeepTies
  <2>1. h \in ExactTopK
    BY <1>3, Zenon DEF Wanted
  <2>2. h \in merge_topk(S, K)
    BY <1>1, <2>1, TruncatedIsNoResult
  <2>3. LocalTop(S, K) = merge_topk(S, K)
    BY LocalOrder, Zenon
  <2> QED
    BY <1>3, <2>2, <2>3, Zenon
<1> QED
  BY <1>2, <1>3, Zenon

\* merge_chunk_hits keeps every wanted hit of the two lists it merges.
LEMMA MergeKeepsWanted ==
    ASSUME NEW s \in Shards, NEW heap \in SUBSET ShardHits(s), NEW hits \in SUBSET ShardHits(s)
    PROVE  /\ merge_chunk_hits(heap, hits) \subseteq ShardHits(s)
           /\ \A h \in heap \cup hits : h \in Wanted => h \in merge_chunk_hits(heap, hits)
<1> DEFINE S == heap \cup hits
<1>1. S \in SUBSET ShardHits(s)
  BY Zenon
<1>2. merge_chunk_hits(heap, hits) = IF KeepTies THEN TieTop(S, K) ELSE LocalTop(S, K)
  BY Zenon DEF merge_chunk_hits
<1>3. merge_chunk_hits(heap, hits) \subseteq S
  BY <1>2, Zenon DEF TieTop, LocalTop
<1> HIDE DEF S
<1>4. \A h \in S : h \in Wanted => h \in merge_chunk_hits(heap, hits)
  BY <1>1, <1>2, CapKeepsWanted, Zenon
<1> QED
  BY <1>1, <1>3, <1>4, Zenon DEF S

\* A kernel call and the floor applied after it keep the wanted hits of a chunk.
LEMMA KernelKeepsWanted ==
    ASSUME NEW s \in Shards, NEW chunk \in SUBSET ShardHits(s),
           NEW t \in Int, ValidFloor(t)
    PROVE  /\ search_with_options(chunk, t) \subseteq chunk
           /\ \A h \in chunk : h \in Wanted => h \in search_with_options(chunk, t)
<1> DEFINE kept == {h \in chunk : Score(h) >= t}
<1>1. kept \in SUBSET ShardHits(s) /\ kept \subseteq chunk
  BY Zenon
<1>2. search_with_options(chunk, t) = IF KeepTies THEN kept ELSE LocalTop(kept, K)
  BY Zenon DEF search_with_options
<1>3. ASSUME NEW h \in chunk, h \in Wanted PROVE h \in kept
  BY <1>3, HitsOfShard, HitType, PrunedNotWanted
<1>4. search_with_options(chunk, t) \subseteq kept
  BY <1>2, Zenon DEF LocalTop
<1> HIDE DEF kept
<1>5. ASSUME NEW h \in kept, h \in Wanted PROVE h \in search_with_options(chunk, t)
  <2>1. CASE KeepTies
    BY <1>2, <2>1, Zenon
  <2>2. CASE ~ KeepTies
    <3>1. h \in IF KeepTies THEN TieTop(kept, K) ELSE LocalTop(kept, K)
      BY <1>1, <1>5, CapKeepsWanted, Zenon
    <3> QED
      BY <1>2, <2>2, <3>1, Zenon
  <2> QED
    BY <2>1, <2>2, Zenon
<1> QED
  BY <1>1, <1>3, <1>4, <1>5, Zenon

\* The results are among the wanted hits.
LEMMA ResultsWanted == ExactTopK \subseteq Wanted
<1> SUFFICES ASSUME NEW h \in ExactTopK PROVE h \in Wanted
  BY Zenon
<1> DEFINE B == {g \in Hits : Score(g) > Score(h)}
<1>1. h \in Hits /\ Cardinality(Ahead(h, Hits)) < K
  BY Zenon DEF ExactTopK, merge_topk
<1>2. B \subseteq Ahead(h, Hits) /\ Ahead(h, Hits) \in SUBSET Hits
  BY <1>1, CmpOrder, Zenon DEF Ahead
<1>3. /\ Cardinality(B) <= Cardinality(Ahead(h, Hits))
      /\ Cardinality(B) \in Nat /\ Cardinality(Ahead(h, Hits)) \in Nat
  BY <1>2, CardinalityMonotone, Zenon
<1>4. h \in TieTop(Hits, K)
  BY <1>1, <1>3, CorpusAssumption DEF TieTop
<1> QED
  BY <1>4, Zenon DEF Wanted

-----------------------------------------------------------------------------
(***************************************************************************)
(* Floors and streams.                                                     *)
(***************************************************************************)
\* Floors are integers, and "no floor" is one that prunes nothing.
LEMMA FloorType == Floors \subseteq Int /\ NegInf \in Floors /\ FloorOK(NegInf)
  BY HitType, CorpusAssumption, Zenon DEF Floors, FloorOK, ValidFloor

\* The higher of two valid floors is valid.
LEMMA MaxFloorOK ==
    ASSUME NEW f, NEW g, FloorOK(f), FloorOK(g)
    PROVE  FloorOK(MaxFloor(f, g))
  BY Zenon DEF MaxFloor

\* The shard and the other attempt of an attempt.
LEMMA AttemptType ==
    ASSUME NEW a \in Attempts
    PROVE  /\ a[1] \in Active /\ a[1] \in Shards /\ a[2] \in Legs
           /\ Other(a) \in Attempts /\ Other(a) # a /\ Other(a)[1] = a[1]
           /\ Len(Scores[a[1]]) \in Nat
  BY CorpusAssumption DEF Attempts, Active, Legs, Other

\* A stream that has not started is in order.
LEMMA NoStreamOK == ASSUME NEW a \in Attempts PROVE StreamOK(a, NoStream)
<1>1. NoStream \in Streams
  BY FloorType DEF NoStream, Streams
<1>2. \A h \in ShardHits(a[1]) : h.slot \in Nat /\ ~ (h.slot <= 0)
  BY AttemptType, CorpusAssumption DEF ShardHits
<1> QED
  BY <1>1, <1>2, FloorType, AttemptType, FloorSearchAssumption
  DEF StreamOK, NoStream, ValidFloor

\* The floor a chunk is held to, adopted or from the heap, is valid.
LEMMA QueryFloorOK ==
    ASSUME NEW a \in Attempts, NEW st, StreamOK(a, st)
    PROVE  FloorOK(QueryFloor(a[1], st))
<1>1. st.heap \in SUBSET ShardHits(a[1]) /\ FloorOK(st.cell) /\ FloorOK(NegInf)
  BY FloorType, Zenon DEF StreamOK, Streams, FloorOK
<1>2. Cardinality(st.heap) >= K => FloorOK(KthScore(st.heap))
  BY <1>1, AttemptType, LocalKth, HitsOfShard DEF FloorOK, Floors
<1> QED
  BY <1>1, <1>2, MaxFloorOK, Zenon DEF QueryFloor

\* A bounded channel stays within its capacity and carries only what was sent.
LEMMA TrySendOK ==
    ASSUME NEW q \in Seq(Floors), NEW f \in Floors, NEW c \in Nat, Len(q) <= c, ValidFloor(f),
           \A i \in 1..Len(q) : ValidFloor(q[i])
    PROVE  /\ try_send(q, f, c) \in Seq(Floors)
           /\ Len(try_send(q, f, c)) <= c
           /\ \A i \in 1..Len(try_send(q, f, c)) : ValidFloor(try_send(q, f, c)[i])
  BY DEF try_send

\* Assigning a field of a stream a value of the field's type.
LEMMA FieldType ==
    ASSUME NEW st \in Streams
    PROVE  /\ \A v \in Floors : [st EXCEPT !.seen = v] \in Streams
           /\ \A v \in Seq(Floors) : [st EXCEPT !.inbox = v] \in Streams
           /\ \A v \in Seq(Floors) : [st EXCEPT !.outbox = v] \in Streams
           /\ \A v \in {"idle", "scanning", "sent"} : [st EXCEPT !.scan = v] \in Streams
           /\ \A v \in Nat : [st EXCEPT !.start = v] \in Streams
           /\ \A v \in SUBSET Hits : [st EXCEPT !.heap = v] \in Streams
           /\ \A v \in Floors : [st EXCEPT !.cell = v] \in Streams
           /\ \A v \in Nat : [st EXCEPT !.offers = v] \in Streams
           /\ \A v \in Floors : [st EXCEPT !.published = v] \in Streams
<1>1. ASSUME NEW v \in Floors PROVE [st EXCEPT !.seen = v] \in Streams
  BY Zenon DEF Streams
<1>2. ASSUME NEW v \in Seq(Floors) PROVE [st EXCEPT !.inbox = v] \in Streams
  BY Zenon DEF Streams
<1>3. ASSUME NEW v \in Seq(Floors) PROVE [st EXCEPT !.outbox = v] \in Streams
  BY Zenon DEF Streams
<1>4. ASSUME NEW v \in {"idle", "scanning", "sent"} PROVE [st EXCEPT !.scan = v] \in Streams
  BY Zenon DEF Streams
<1>5. ASSUME NEW v \in Nat PROVE [st EXCEPT !.start = v] \in Streams
  BY Zenon DEF Streams
<1>6. ASSUME NEW v \in SUBSET Hits PROVE [st EXCEPT !.heap = v] \in Streams
  BY Zenon DEF Streams
<1>7. ASSUME NEW v \in Floors PROVE [st EXCEPT !.cell = v] \in Streams
  BY Zenon DEF Streams
<1>8. ASSUME NEW v \in Nat PROVE [st EXCEPT !.offers = v] \in Streams
  BY Zenon DEF Streams
<1>9. ASSUME NEW v \in Floors PROVE [st EXCEPT !.published = v] \in Streams
  BY Zenon DEF Streams
<1> QED
  BY <1>1, <1>2, <1>3, <1>4, <1>5, <1>6, <1>7, <1>8, <1>9, Zenon

\* publish_floor touches the offers, the published floor and the outgoing
\* channel; what it sends is the valid floor it was offered.
LEMMA PublishOK ==
    ASSUME NEW a \in Attempts, NEW st, StreamOK(a, st), NEW f, FloorOK(f),
           NEW new \in publish_floor(a[1], st, f)
    PROVE  /\ StreamOK(a, new)
           /\ new.cell = st.cell /\ new.published >= st.published
<1> DEFINE offered == [st EXCEPT !.offers = @ + 1]
           queue == try_send(st.outbox, f, ResponseCap)
           sent == [st EXCEPT !.offers = @ + 1, !.published = f, !.outbox = queue]
<1>1. /\ st \in Streams /\ f \in Floors /\ ValidFloor(f) /\ f \in Int
      /\ st.published \in Int /\ st.offers \in Nat /\ NegInf <= f
      /\ FloorDelta \in Nat /\ ResponseCap \in Nat \ {0}
  <2>1. st \in Streams /\ f \in Floors /\ ValidFloor(f)
    BY Zenon DEF StreamOK, FloorOK
  <2>2. f \in Int /\ NegInf <= f
    BY <2>1, FloorType, HitType, CorpusAssumption DEF Floors
  <2>3. st.published \in Int /\ st.offers \in Nat
    BY Zenon, <2>1, FloorType DEF Streams
  <2> QED
    BY <2>1, <2>2, <2>3, FloorSearchAssumption, Zenon
<1>2. /\ queue \in Seq(Floors) /\ Len(queue) <= ResponseCap
      /\ \A i \in 1..Len(queue) : ValidFloor(queue[i])
  BY <1>1, TrySendOK, Zenon DEF StreamOK, Streams
<1>3. offered \in Streams
  <2>1. st.offers + 1 \in Nat
    BY <1>1
  <2> QED
    BY Zenon, <1>1, <2>1, FieldType
<1>4. \/ new = st
      \/ new = offered
      \/ new = sent /\ (st.published = NegInf \/ ~ (f <= st.published + FloorDelta))
  <2>1. [offered EXCEPT !.published = f, !.outbox = try_send(@, f, ResponseCap)] = sent
    BY <1>1, Zenon DEF Streams
  <2> QED
    BY <1>1, <2>1, Zenon DEF publish_floor
<1> HIDE DEF queue
<1>5. CASE new = st
  BY <1>1, <1>5
<1>6. CASE new = offered
  <2>1. offered \in Streams
    BY <1>3, Zenon
  <2>2. /\ new.seen = st.seen /\ new.inbox = st.inbox /\ new.outbox = st.outbox
        /\ new.scan = st.scan /\ new.start = st.start /\ new.heap = st.heap
        /\ new.cell = st.cell /\ new.published = st.published
    BY <1>1, <1>6, Zenon DEF Streams
  <2> QED
    BY <1>1, <1>6, <2>1, <2>2 DEF StreamOK
<1>7. CASE new = sent /\ (st.published = NegInf \/ ~ (f <= st.published + FloorDelta))
  <2>1. sent \in Streams
    <3>1. [offered EXCEPT !.published = f] \in Streams
      <4> HIDE DEF offered
      <4> QED  BY Zenon, <1>1, <1>3, FieldType
    <3>2. [[offered EXCEPT !.published = f] EXCEPT !.outbox = queue] \in Streams
      BY Zenon, <1>2, <3>1, FieldType
    <3>3. [[offered EXCEPT !.published = f] EXCEPT !.outbox = queue] = sent
      BY <1>1, Zenon DEF Streams
    <3> QED
      BY <3>2, <3>3, Zenon
  <2>2. /\ new.seen = st.seen /\ new.inbox = st.inbox /\ new.outbox = queue
        /\ new.scan = st.scan /\ new.start = st.start /\ new.heap = st.heap
        /\ new.cell = st.cell /\ new.published = f
    BY <1>1, <1>7, Zenon DEF Streams
  <2>3. f >= st.published
    BY <1>1, <1>7
  <2> QED
    BY <1>1, <1>2, <1>7, <2>1, <2>2, <2>3, Zenon DEF StreamOK
<1> QED
  BY <1>4, <1>5, <1>6, <1>7, Zenon

-----------------------------------------------------------------------------
(***************************************************************************)
(* One chunk keeps every wanted hit.                                       *)
(***************************************************************************)
\* One pass of the scan loop leaves its stream in order, its cell alone and
\* its published floor no lower.
LEMMA ScanKeeps ==
    ASSUME IInv, NEW a \in Attempts, ScanChunk(a)
    PROVE  \E new : /\ OnlyStream(a, new) /\ StreamOK(a, new)
                    /\ new.cell = stream[a].cell /\ new.published >= stream[a].published
<1> DEFINE s == a[1]
           n == Len(Scores[s])
           st == stream[a]
           floor == QueryFloor(s, st)
           next == IF st.start + ChunkSize < n THEN st.start + ChunkSize ELSE n
           advanced == [st EXCEPT !.start = next]
           hits(t) == {h \in search_with_options(Chunk(a), t) : Score(h) >= floor}
           merged(t) == [advanced EXCEPT !.heap = merge_chunk_hits(@, hits(t))]
<1>1. /\ StreamOK(a, st) /\ st \in Streams /\ s \in Shards /\ n \in Nat
      /\ st.start \in Nat /\ st.start < n /\ st.scan = "scanning" /\ ChunkSize \in Nat \ {0}
      /\ st.published \in Int
  BY Zenon, AttemptType, FloorSearchAssumption, FloorType
  DEF IInv, ScanChunk, Scanning, StreamOK, Streams
<1>2. FloorOK(floor) /\ floor \in Int /\ FloorOK(NegInf) /\ NegInf \in Int
  BY Zenon, <1>1, QueryFloorOK, FloorType DEF FloorOK
<1>3. next \in Nat /\ next <= n /\ st.start <= next /\ next <= st.start + ChunkSize
  BY <1>1
<1>4. advanced \in Streams
  BY Zenon, <1>1, <1>3 DEF Streams
<1>5. /\ advanced.heap = st.heap /\ advanced.cell = st.cell
      /\ advanced.published = st.published /\ advanced.seen = st.seen
      /\ advanced.inbox = st.inbox /\ advanced.outbox = st.outbox /\ advanced.scan = st.scan
      /\ advanced.start = next
  BY <1>1, Zenon DEF Streams
<1>6. /\ Chunk(a) \in SUBSET ShardHits(s)
      /\ \A h \in ShardHits(s) : h.slot <= next => h.slot <= st.start \/ h \in Chunk(a)
  <2>1. \A h \in ShardHits(s) : h.slot \in Nat
    BY <1>1, HitsOfShard, HitType, Zenon
  <2>2. Chunk(a) = {h \in ShardHits(s) : st.start < h.slot /\ h.slot <= st.start + ChunkSize}
    BY Zenon DEF Chunk
  <2> QED
    <3>1. ASSUME NEW h \in ShardHits(s), h.slot <= next
          PROVE  h.slot <= st.start \/ h \in Chunk(a)
      <4>1. h.slot <= st.start + ChunkSize
        BY <1>1, <1>3, <2>1, <3>1
      <4>2. h.slot <= st.start \/ st.start < h.slot
        BY <1>1, <2>1
      <4> QED  BY Zenon, <2>2, <4>1, <4>2
    <3> QED  BY Zenon, <2>2, <3>1
<1>7. CASE Chunk(a) = {}
  <2>1. OnlyStream(a, advanced)
    BY <1>7, Zenon DEF ScanChunk
  <2>2. StreamOK(a, advanced)
    BY <1>1, <1>3, <1>4, <1>5, <1>6, <1>7 DEF StreamOK
  <2>3. advanced.cell = stream[a].cell /\ advanced.published >= stream[a].published
    BY <1>1, <1>5
  <2> HIDE DEF advanced
  <2> QED
    BY <2>1, <2>2, <2>3, Zenon
<1>8. CASE Chunk(a) # {}
  <2>1. PICK t \in {NegInf, floor} :
          \E new \in IF Cardinality(merged(t).heap) >= K
                     THEN publish_floor(s, merged(t), KthScore(merged(t).heap))
                     ELSE {merged(t)} :
            OnlyStream(a, new)
    BY Zenon, <1>8 DEF ScanChunk
  <2>2. FloorOK(t) /\ t \in Int
    BY <1>2, <2>1, Zenon
  <2>3. /\ hits(t) \in SUBSET ShardHits(s) 
        /\ \A h \in Chunk(a) : h \in Wanted => h \in hits(t)
    <3>1. /\ search_with_options(Chunk(a), t) \subseteq Chunk(a)
          /\ \A h \in Chunk(a) : h \in Wanted => h \in search_with_options(Chunk(a), t)
      BY <1>1, <1>6, <2>2, KernelKeepsWanted, Zenon DEF FloorOK
    <3>2. \A h \in Chunk(a) : h \in Wanted => Score(h) >= floor
      BY <1>1, <1>2, <1>6, HitsOfShard, HitType, PrunedNotWanted DEF FloorOK
    <3> QED
      BY <1>6, <3>1, <3>2, Zenon
  <2> HIDE DEF hits, floor
  <2>4. /\ merge_chunk_hits(st.heap, hits(t)) \subseteq ShardHits(s)
        /\ \A h \in st.heap \cup hits(t) : h \in Wanted => h \in merge_chunk_hits(st.heap, hits(t))
    BY <1>1, <2>3, MergeKeepsWanted, Zenon DEF StreamOK
  <2>5. /\ merged(t) \in Streams /\ merged(t).heap = merge_chunk_hits(st.heap, hits(t))
        /\ merged(t).cell = st.cell /\ merged(t).published = st.published
        /\ merged(t).seen = st.seen /\ merged(t).inbox = st.inbox /\ merged(t).outbox = st.outbox
        /\ merged(t).scan = st.scan /\ merged(t).start = next
    <3>1. merge_chunk_hits(st.heap, hits(t)) \in SUBSET Hits
      BY <1>1, <2>4, HitsOfShard, Zenon
    <3> HIDE DEF advanced
    <3> QED
      BY <1>3, <1>4, <1>5, <3>1, Zenon DEF Streams
  <2> HIDE DEF merged, advanced, next
  <2>6. StreamOK(a, merged(t))
    <3>1. \A h \in ShardHits(s) : h.slot <= merged(t).start /\ h \in Wanted => h \in merged(t).heap
      BY <1>1, <1>6, <2>3, <2>4, <2>5, Zenon DEF StreamOK
    <3> QED
      BY <1>1, <1>3, <1>4, <1>5, <2>4, <2>5, <3>1, Zenon DEF StreamOK
  <2>7. ASSUME Cardinality(merged(t).heap) >= K PROVE FloorOK(KthScore(merged(t).heap))
    BY <1>1, <2>4, <2>5, <2>7, LocalKth, HitsOfShard DEF FloorOK, Floors
  <2>8. PICK new \in IF Cardinality(merged(t).heap) >= K
                     THEN publish_floor(s, merged(t), KthScore(merged(t).heap))
                     ELSE {merged(t)} :
          OnlyStream(a, new)
    BY <2>1, Zenon
  <2>9. StreamOK(a, new) /\ new.cell = st.cell /\ new.published >= st.published
    <3>1. CASE Cardinality(merged(t).heap) >= K
      <4>1. new \in publish_floor(a[1], merged(t), KthScore(merged(t).heap))
        BY <2>8, <3>1, Zenon
      <4>2. StreamOK(a, new) /\ new.cell = merged(t).cell /\ new.published >= merged(t).published
        BY <2>6, <2>7, <3>1, <4>1, PublishOK
      <4> QED
        BY <2>5, <4>2, Zenon
    <3>2. CASE ~ (Cardinality(merged(t).heap) >= K)
      BY <1>1, <2>5, <2>6, <2>8, <3>2
    <3> QED
      BY <3>1, <3>2, Zenon
  <2> QED
    BY <2>8, <2>9, Zenon
<1> QED
  BY <1>7, <1>8, Zenon

-----------------------------------------------------------------------------
(***************************************************************************)
(* IInv is inductive.                                                      *)
(***************************************************************************)
\* The invariant holds when fanout_search has spawned its tasks.
LEMMA IInvInit == Init => IInv
<1> SUFFICES ASSUME Init PROVE IInv
  BY Zenon
<1>1. \A a \in Attempts : StreamOK(a, NoStream) /\ NoStream \in Streams
  BY NoStreamOK, Zenon DEF StreamOK
<1>2. FloorOK(NegInf) /\ NegInf \in Floors
  BY FloorType, Zenon
<1> QED
  BY <1>1, <1>2, Zenon DEF Init, IInv, LegStates, ShardFailureHasCause

\* A step of one open stream that leaves the stream in order.
LEMMA StreamStepKeeps ==
    ASSUME IInv, NEW a \in Attempts, leg[a] # "opening", leg[a] # "idle",
           NEW new, OnlyStream(a, new), StreamOK(a, new)
    PROVE  IInv'
<1>1. new \in Streams
  BY Zenon DEF StreamOK
<1>2. /\ stream' \in [Attempts -> Streams]
      /\ \A b \in Attempts : stream'[b] = IF b = a THEN new ELSE stream[b]
  BY <1>1, Zenon DEF IInv, OnlyStream
<1>3. \A b \in Attempts : /\ StreamOK(b, stream'[b])
                          /\ leg'[b] = "opening" => stream'[b] = NoStream
                          /\ leg'[b] = "idle" => stream'[b] = NoStream
  BY <1>2, Zenon DEF IInv, OnlyStream
<1> QED
  BY <1>2, <1>3 DEF IInv, OnlyStream, ShardFailureHasCause

\* The pump folds only valid floors into the cell.
LEMMA RecvFloorKeeps == ASSUME IInv, NEW a \in Attempts, RecvFloor(a) PROVE IInv'
<1> DEFINE st == stream[a]
           floor == MaxFloor(st.cell, Head(st.inbox))
           new == [st EXCEPT !.cell = MaxFloor(@, Head(st.inbox)), !.inbox = Tail(@)]
<1>1. /\ StreamOK(a, st) /\ st \in Streams /\ st.inbox \in Seq(Floors) /\ st.inbox # <<>>
      /\ leg[a] # "opening" /\ leg[a] # "idle" /\ OnlyStream(a, new)
  BY Zenon DEF IInv, StreamOK, Streams, RecvFloor, Scanning, Live
<1>2. /\ Head(st.inbox) \in Floors /\ Tail(st.inbox) \in Seq(Floors)
      /\ Head(st.inbox) = st.inbox[1] /\ 1 \in 1..Len(st.inbox)
      /\ Len(Tail(st.inbox)) <= Len(st.inbox)
      /\ \A i \in 1..Len(Tail(st.inbox)) : /\ Tail(st.inbox)[i] = st.inbox[i + 1]
                                           /\ i + 1 \in 1..Len(st.inbox)
  <2>1. /\ Len(st.inbox) \in Nat /\ Len(st.inbox) > 0
        /\ Tail(st.inbox) \in Seq(Floors) /\ Len(Tail(st.inbox)) = Len(st.inbox) - 1
        /\ Head(st.inbox) = st.inbox[1] /\ st.inbox[1] \in Floors
        /\ \A i \in 1..(Len(st.inbox) - 1) : Tail(st.inbox)[i] = st.inbox[i + 1]
    BY Zenon, <1>1, Taken
  <2>2. \A n \in Nat : n > 0 => /\ 1 \in 1..n /\ n - 1 <= n
                              /\ \A i \in 1..(n - 1) : i + 1 \in 1..n
    OBVIOUS
  <2> QED
    BY <2>1, <2>2, Zenon
<1>3. FloorOK(floor)
  BY <1>1, <1>2, MaxFloorOK, Zenon DEF StreamOK, Streams, FloorOK
<1>4. new \in Streams
  <2>1. [st EXCEPT !.cell = floor] \in Streams
    BY Zenon, <1>1, <1>3, FieldType DEF FloorOK
  <2>2. [[st EXCEPT !.cell = floor] EXCEPT !.inbox = Tail(st.inbox)] \in Streams
    BY Zenon, <1>2, <2>1, FieldType
  <2>3. [[st EXCEPT !.cell = floor] EXCEPT !.inbox = Tail(st.inbox)] = new
    BY <1>1, Zenon DEF Streams
  <2> QED
    BY <2>2, <2>3, Zenon
<1>5. /\ new.seen = st.seen /\ new.inbox = Tail(st.inbox) /\ new.outbox = st.outbox
      /\ new.scan = st.scan /\ new.start = st.start /\ new.heap = st.heap
      /\ new.cell = floor /\ new.published = st.published
  BY <1>1, Zenon DEF Streams
<1>6. /\ Len(new.inbox) <= RequestCap
      /\ \A i \in 1..Len(new.inbox) : ValidFloor(new.inbox[i])
  BY <1>1, <1>2, <1>5, FloorSearchAssumption DEF StreamOK
<1>7. StreamOK(a, new)
  <2> HIDE DEF new, floor
  <2> QED  BY <1>1, <1>3, <1>4, <1>5, <1>6, Zenon DEF StreamOK, FloorOK
<1> QED
  BY <1>1, <1>7, StreamStepKeeps, Zenon

\* A pass of the scan loop keeps the invariant.
LEMMA ScanChunkKeeps == ASSUME IInv, NEW a \in Attempts, ScanChunk(a) PROVE IInv'
<1>1. leg[a] # "opening" /\ leg[a] # "idle"
  BY Zenon DEF ScanChunk, Scanning, Live
<1>2. PICK new : OnlyStream(a, new) /\ StreamOK(a, new)
  BY ScanKeeps, Zenon
<1> QED
  BY <1>1, <1>2, StreamStepKeeps, Zenon

\* Done is sent from a scan that has passed every slot.
LEMMA SendDoneKeeps == ASSUME IInv, NEW a \in Attempts, SendDone(a) PROVE IInv'
<1> DEFINE st == stream[a]
           new == [st EXCEPT !.scan = "sent"]
<1>1. /\ StreamOK(a, st) /\ st \in Streams /\ st.start = Len(Scores[a[1]])
      /\ leg[a] # "opening" /\ leg[a] # "idle" /\ OnlyStream(a, new)
  BY Zenon DEF IInv, StreamOK, SendDone, Scanning, Live
<1>2. new \in Streams
  BY Zenon, <1>1, FieldType
<1>3. /\ new.seen = st.seen /\ new.inbox = st.inbox /\ new.outbox = st.outbox
      /\ new.start = st.start /\ new.heap = st.heap
      /\ new.cell = st.cell /\ new.published = st.published
  BY <1>1, Zenon DEF Streams
<1>4. StreamOK(a, new)
  <2> HIDE DEF new
  <2> QED  BY <1>1, <1>2, <1>3, Zenon DEF StreamOK
<1> QED
  BY <1>1, <1>4, StreamStepKeeps, Zenon

\* The forwarder puts only the broadcast floor on the request channel.
LEMMA ForwardKeeps == ASSUME IInv, NEW a \in Attempts, Forward(a) PROVE IInv'
<1> DEFINE st == stream[a]
           queue == try_send(st.inbox, gfloor, RequestCap)
           new == [st EXCEPT !.seen = gfloor, !.inbox = try_send(@, gfloor, RequestCap)]
<1>1. /\ StreamOK(a, st) /\ st \in Streams /\ FloorOK(gfloor)
      /\ leg[a] # "opening" /\ leg[a] # "idle" /\ OnlyStream(a, new)
  BY Zenon DEF IInv, StreamOK, Forward, Live
<1>2. /\ queue \in Seq(Floors) /\ Len(queue) <= RequestCap
      /\ \A i \in 1..Len(queue) : ValidFloor(queue[i])
  BY Zenon, <1>1, TrySendOK, FloorSearchAssumption DEF StreamOK, Streams, FloorOK
<1>3. new \in Streams
  <2> HIDE DEF queue
  <2>1. [st EXCEPT !.seen = gfloor] \in Streams
    BY Zenon, <1>1, FieldType DEF FloorOK
  <2>2. [[st EXCEPT !.seen = gfloor] EXCEPT !.inbox = queue] \in Streams
    BY Zenon, <1>2, <2>1, FieldType
  <2>3. [[st EXCEPT !.seen = gfloor] EXCEPT !.inbox = queue] = new
    BY <1>1, Zenon DEF Streams, queue
  <2> QED
    BY <2>2, <2>3, Zenon
<1>4. /\ new.seen = gfloor /\ new.inbox = queue /\ new.outbox = st.outbox
      /\ new.scan = st.scan /\ new.start = st.start /\ new.heap = st.heap
      /\ new.cell = st.cell /\ new.published = st.published
  BY <1>1, Zenon DEF Streams
<1>5. StreamOK(a, new)
  <2> HIDE DEF new, queue
  <2> QED  BY <1>1, <1>2, <1>3, <1>4, Zenon DEF StreamOK, FloorOK
<1> QED
  BY <1>1, <1>5, StreamStepKeeps, Zenon

\* What replacing one stream by one that is in order leaves behind.
LEMMA StreamUpdate ==
    ASSUME IInv, NEW a \in Attempts, NEW new, StreamOK(a, new),
           stream' = [stream EXCEPT ![a] = new]
    PROVE  /\ stream' \in [Attempts -> Streams]
           /\ \A b \in Attempts : StreamOK(b, stream'[b])
           /\ \A b \in Attempts : b # a => stream'[b] = stream[b]
           /\ stream'[a] = new
<1>1. new \in Streams
  BY Zenon DEF StreamOK
<1>2. stream \in [Attempts -> Streams] /\ \A b \in Attempts : StreamOK(b, stream[b])
  BY Zenon DEF IInv
<1> QED
  BY <1>1, <1>2, Zenon

\* A step that touches neither the results nor the shards settled, and moves
\* the legs of a shard that is still pending only.
LEMMA PendingKeepsCause ==
    ASSUME IInv, NEW s \in Active, shardRes[s] = "pending", shardRes' = shardRes,
           \A b \in Attempts : b[1] # s => leg'[b] = leg[b]
    PROVE  ShardFailureHasCause'
<1> SUFFICES ASSUME NEW r \in Active, shardRes[r] = "err"
             PROVE  \/ Deadline
                    \/ /\ leg'[<<r, "primary">>] = "failed"
                       /\ r \in Replicated => leg'[<<r, "replica">>] = "failed"
  BY Zenon DEF ShardFailureHasCause
<1>1. r # s
  BY Zenon
<1>2. <<r, "primary">> \in Attempts /\ <<r, "replica">> \in Attempts
  BY Zenon DEF Attempts, Legs
<1>3. leg'[<<r, "primary">>] = leg[<<r, "primary">>] /\ leg'[<<r, "replica">>] = leg[<<r, "replica">>]
  BY <1>1, <1>2, Zenon
<1> QED
  BY <1>3, Zenon DEF IInv, ShardFailureHasCause

\* A scan begins with nothing scanned and no floor.
LEMMA OpenKeeps == ASSUME IInv, NEW a \in Attempts, Open(a) PROVE IInv'
<1> DEFINE st == stream[a]
           new == [st EXCEPT !.scan = "scanning"]
<1>1. /\ a[1] \in Active /\ StreamOK(a, st) /\ st \in Streams
      /\ stream' = [stream EXCEPT ![a] = new]
  BY AttemptType, Zenon DEF IInv, Open, StreamOK
<1>2. new \in Streams
  BY Zenon, <1>1, FieldType
<1>3. /\ new.seen = st.seen /\ new.inbox = st.inbox /\ new.outbox = st.outbox
      /\ new.scan = "scanning" /\ new.start = st.start /\ new.heap = st.heap
      /\ new.cell = st.cell /\ new.published = st.published
  BY <1>1, Zenon DEF Streams
<1>4. StreamOK(a, new)
  <2> HIDE DEF new
  <2> QED  BY <1>1, <1>2, <1>3, Zenon DEF StreamOK
<1> HIDE DEF new
<1>5. /\ stream' \in [Attempts -> Streams] /\ \A b \in Attempts : StreamOK(b, stream'[b])
      /\ \A b \in Attempts : b # a => stream'[b] = stream[b]
  BY Zenon, <1>1, <1>4, StreamUpdate
<1>6. ShardFailureHasCause'
  BY <1>1, PendingKeepsCause DEF Open, Ready, IInv
<1> QED
  BY <1>5, <1>6 DEF Open, IInv, LegStates

\* A late starter is seeded with a valid floor.
LEMMA SeedKeeps == ASSUME IInv, NEW a \in Attempts, Seed(a) PROVE IInv'
<1> DEFINE st == stream[a]
           queue == try_send(st.inbox, gfloor, RequestCap)
           new == [st EXCEPT !.inbox = queue]
<1>1. /\ a[1] \in Active /\ FloorOK(gfloor) /\ StreamOK(a, st) /\ st \in Streams
      /\ stream' = stream \/ stream' = [stream EXCEPT ![a] = new]
  <2>1. a[1] \in Active /\ FloorOK(gfloor) /\ StreamOK(a, st) /\ st \in Streams
    BY Zenon, AttemptType DEF IInv, StreamOK
  <2>2. stream' = stream \/ stream' = [stream EXCEPT ![a] = new]
    BY Zenon DEF Seed
  <2> QED
    BY <2>1, <2>2, Zenon
<1>2. /\ queue \in Seq(Floors) /\ Len(queue) <= RequestCap
      /\ \A i \in 1..Len(queue) : ValidFloor(queue[i])
  BY <1>1, TrySendOK, FloorSearchAssumption, Zenon DEF FloorOK, StreamOK, Streams
<1> HIDE DEF queue
<1>3. new \in Streams
  BY Zenon, <1>1, <1>2, FieldType
<1>4. /\ new.seen = st.seen /\ new.inbox = queue /\ new.outbox = st.outbox
      /\ new.scan = st.scan /\ new.start = st.start /\ new.heap = st.heap
      /\ new.cell = st.cell /\ new.published = st.published
  BY <1>1, Zenon DEF Streams
<1>5. StreamOK(a, new)
  <2> HIDE DEF new
  <2> QED  BY <1>1, <1>2, <1>3, <1>4, Zenon DEF StreamOK
<1> HIDE DEF new
<1>6. /\ stream' \in [Attempts -> Streams] /\ \A b \in Attempts : StreamOK(b, stream'[b])
      /\ \A b \in Attempts : b # a => stream'[b] = stream[b]
  <2>1. CASE stream' = stream
    BY <2>1, Zenon DEF IInv
  <2>2. CASE stream' = [stream EXCEPT ![a] = new]
    BY Zenon, <1>5, <2>2, StreamUpdate
  <2> QED
    BY <1>1, <2>1, <2>2, Zenon
<1>7. ShardFailureHasCause'
  BY <1>1, PendingKeepsCause DEF Seed, Ready, IInv
<1>8. /\ leg[a] = "opened" /\ leg' = [leg EXCEPT ![a] = "seeded"]
      /\ UNCHANGED <<raise, tracker, gfloor, shardRes, shardHits, collected, outcome, result>>
  BY Zenon DEF Seed
<1> QED
  BY <1>6, <1>7, <1>8 DEF IInv, LegStates

\* Subscribing marks a valid floor as seen.
LEMMA SubscribeKeeps == ASSUME IInv, NEW a \in Attempts, Subscribe(a) PROVE IInv'
<1> DEFINE st == stream[a]
           new == [st EXCEPT !.seen = gfloor]
<1>1. /\ a[1] \in Active /\ StreamOK(a, st) /\ st \in Streams /\ FloorOK(gfloor)
      /\ stream' = [stream EXCEPT ![a] = new]
  BY AttemptType, Zenon DEF IInv, Subscribe, StreamOK
<1>2. new \in Streams
  BY Zenon, <1>1, FieldType DEF FloorOK
<1>3. /\ new.seen = gfloor /\ new.inbox = st.inbox /\ new.outbox = st.outbox
      /\ new.scan = st.scan /\ new.start = st.start /\ new.heap = st.heap
      /\ new.cell = st.cell /\ new.published = st.published
  BY <1>1, Zenon DEF Streams
<1>4. StreamOK(a, new)
  <2> HIDE DEF new
  <2> QED  BY <1>1, <1>2, <1>3, Zenon DEF StreamOK, FloorOK
<1> HIDE DEF new
<1>5. /\ stream' \in [Attempts -> Streams] /\ \A b \in Attempts : StreamOK(b, stream'[b])
      /\ \A b \in Attempts : b # a => stream'[b] = stream[b]
  BY Zenon, <1>1, <1>4, StreamUpdate
<1>6. ShardFailureHasCause'
  BY <1>1, PendingKeepsCause DEF Subscribe, Ready, IInv
<1> QED
  BY <1>5, <1>6 DEF Subscribe, IInv, LegStates

\* The broadcast cell takes a valid floor.
LEMMA BroadcastKeeps == ASSUME IInv, NEW s \in Active, Broadcast(s) PROVE IInv'
<1>1. FloorOK(gfloor') /\ FloorOK(NegInf)
  BY MaxFloorOK, FloorType, Zenon DEF Broadcast, IInv, FloorOK
<1>2. raise' \in [Active -> Floors] /\ \A r \in Active : FloorOK(raise'[r])
  BY <1>1, Zenon DEF Broadcast, IInv, FloorOK
<1> QED
  BY <1>1, <1>2, Zenon DEF Broadcast, IInv, ShardFailureHasCause

\* The tracker takes its floors from the streams, where they are valid.
LEMMA ObserveKeeps == ASSUME IInv, NEW a \in Attempts, Observe(a) PROVE IInv'
<1> DEFINE st == stream[a]
           new == [st EXCEPT !.outbox = Tail(st.outbox)]
<1>1. /\ a[1] \in Active /\ StreamOK(a, st) /\ st \in Streams
      /\ st.outbox \in Seq(Floors) /\ st.outbox # <<>>
      /\ stream' = [stream EXCEPT ![a] = new]
  BY Zenon, AttemptType DEF IInv, Observe, StreamOK, Streams
<1>2. /\ Head(st.outbox) \in Floors /\ Tail(st.outbox) \in Seq(Floors)
      /\ Head(st.outbox) = st.outbox[1] /\ 1 \in 1..Len(st.outbox)
      /\ Len(Tail(st.outbox)) <= Len(st.outbox)
      /\ \A i \in 1..Len(Tail(st.outbox)) : /\ Tail(st.outbox)[i] = st.outbox[i + 1]
                                            /\ i + 1 \in 1..Len(st.outbox)
  BY <1>1
<1>3. FloorOK(Head(st.outbox))
  BY <1>1, <1>2, Zenon DEF StreamOK, FloorOK
<1>4. new \in Streams
  BY Zenon, <1>1, <1>2, FieldType
<1>5. /\ new.seen = st.seen /\ new.inbox = st.inbox /\ new.outbox = Tail(st.outbox)
      /\ new.scan = st.scan /\ new.start = st.start /\ new.heap = st.heap
      /\ new.cell = st.cell /\ new.published = st.published
  BY <1>1, Zenon DEF Streams
<1>6. /\ Len(new.outbox) <= ResponseCap
      /\ \A i \in 1..Len(new.outbox) : ValidFloor(new.outbox[i])
  BY <1>1, <1>2, <1>5, FloorSearchAssumption DEF StreamOK
<1>7. StreamOK(a, new)
  <2> HIDE DEF new
  <2> QED  BY <1>1, <1>4, <1>5, <1>6, Zenon DEF StreamOK
<1> HIDE DEF new
<1>8. /\ stream' \in [Attempts -> Streams] /\ \A b \in Attempts : StreamOK(b, stream'[b])
      /\ \A b \in Attempts : b # a => stream'[b] = stream[b]
  BY Zenon, <1>1, <1>7, StreamUpdate
<1>9. /\ FloorOK(tracker')
      /\ raise' \in [Active -> Floors] /\ \A s \in Active : FloorOK(raise'[s])
  <2> DEFINE head == Head(st.outbox)
  <2>1. /\ FloorOK(tracker) /\ raise \in [Active -> Floors]
        /\ \A s \in Active : FloorOK(raise[s])
    BY Zenon DEF IInv
  <2>2. /\ a[1] \in Active /\ FloorOK(head) /\ head \in Floors
    BY <1>1, <1>2, <1>3, Zenon
  <2>3. \/ tracker' = head /\ raise' = [raise EXCEPT ![a[1]] = head]
        \/ tracker' = tracker /\ raise' = raise
    BY Zenon DEF Observe
  <2> HIDE DEF head
  <2>4. CASE tracker' = head /\ raise' = [raise EXCEPT ![a[1]] = head]
    <3>1. \A s \in Active : raise'[s] = IF s = a[1] THEN head ELSE raise[s]
      BY <2>1, <2>2, <2>4, Zenon
    <3>2. raise' \in [Active -> Floors]
      BY <2>1, <2>2, <2>4, Zenon
    <3> QED  BY <2>1, <2>2, <2>4, <3>1, <3>2, Zenon
  <2>5. CASE tracker' = tracker /\ raise' = raise
    BY <2>1, <2>5, Zenon DEF FloorOK
  <2> QED  BY <2>3, <2>4, <2>5, Zenon
<1>10. /\ leg[a] = "streaming"
       /\ UNCHANGED <<leg, gfloor, shardRes, shardHits, collected, outcome, result>>
  BY Zenon DEF Observe
<1>11. \A b \in Attempts : /\ leg'[b] = "opening" => stream'[b] = NoStream
                           /\ leg'[b] = "idle" => stream'[b] = NoStream
  BY <1>8, <1>10, Zenon DEF IInv
<1>12. ShardFailureHasCause'
  BY <1>10, Zenon DEF IInv, ShardFailureHasCause
<1> QED
  BY <1>8, <1>9, <1>10, <1>11, <1>12 DEF IInv

\* What dropping the streams of a shard leaves behind.
LEMMA DropStreamsKeeps ==
    ASSUME IInv, NEW s, DropStreams(s)
    PROVE  /\ stream' \in [Attempts -> Streams]
           /\ \A b \in Attempts : /\ StreamOK(b, stream'[b])
                                  /\ b[1] = s => stream'[b] = NoStream
                                  /\ b[1] # s => stream'[b] = stream[b]
<1>1. \A b \in Attempts : StreamOK(b, NoStream) /\ StreamOK(b, stream[b])
  BY NoStreamOK, Zenon DEF IInv
<1>2. \A b \in Attempts : NoStream \in Streams /\ stream[b] \in Streams
  BY <1>1, Zenon DEF StreamOK
<1> QED
  BY <1>1, <1>2, Zenon DEF DropStreams

\* The Done that settles a shard holds every wanted hit of the shard.
LEMMA RecvDoneKeeps == ASSUME IInv, NEW a \in Attempts, RecvDone(a) PROVE IInv'
<1> DEFINE s == a[1]
           st == stream[a]
<1>1. /\ s \in Active /\ s \in Shards /\ Other(a) \in Attempts /\ Other(a)[1] = s /\ Other(a) # a
      /\ StreamOK(a, st) /\ Len(Scores[s]) \in Nat
  BY AttemptType, Zenon DEF IInv
<1>2. Wanted \cap ShardHits(s) \subseteq st.heap
  <2>1. st.start = Len(Scores[s])
    BY <1>1, Zenon DEF RecvDone, StreamOK
  <2>2. \A h \in ShardHits(s) : h.slot <= Len(Scores[s])
    BY <1>1 DEF ShardHits
  <2> QED
    BY <1>1, <2>1, <2>2, Zenon DEF StreamOK
<1>3. st.heap \in SUBSET Hits
  BY <1>1, Zenon DEF StreamOK, Streams
<1>4. /\ shardHits' \in [Active -> SUBSET Hits]
      /\ shardRes' \in [Active -> {"pending", "ok", "err"}]
      /\ \A r \in Active : shardRes'[r] = "ok" => Wanted \cap ShardHits(r) \subseteq shardHits'[r]
      /\ collected' \subseteq {r \in Active : shardRes'[r] = "ok"}
  BY <1>1, <1>2, <1>3, Zenon DEF RecvDone, IInv
<1>5. /\ stream' \in [Attempts -> Streams]
      /\ \A b \in Attempts : /\ StreamOK(b, stream'[b])
                             /\ b[1] = s => stream'[b] = NoStream
                             /\ b[1] # s => stream'[b] = stream[b]
  BY DropStreamsKeeps, Zenon DEF RecvDone
<1>6. /\ leg' \in [Attempts -> LegStates]
      /\ \A b \in Attempts : b[1] # s => leg'[b] = leg[b]
  BY <1>1, Zenon DEF RecvDone, IInv, LegStates
<1>7. \A b \in Attempts : /\ leg'[b] = "opening" => stream'[b] = NoStream
                          /\ leg'[b] = "idle" => stream'[b] = NoStream
  BY <1>5, <1>6, Zenon DEF IInv
<1>8. ShardFailureHasCause'
  <2> SUFFICES ASSUME NEW r \in Active, shardRes'[r] = "err"
               PROVE  \/ Deadline
                      \/ /\ leg'[<<r, "primary">>] = "failed"
                         /\ r \in Replicated => leg'[<<r, "replica">>] = "failed"
    BY Zenon DEF ShardFailureHasCause
  <2>1. r # s /\ shardRes[r] = "err"
    BY <1>1, Zenon DEF RecvDone, IInv
  <2>2. <<r, "primary">> \in Attempts /\ <<r, "replica">> \in Attempts
    BY Zenon DEF Attempts, Legs
  <2> QED
    BY <1>6, <2>1, <2>2, Zenon DEF IInv, ShardFailureHasCause
<1>9. \A b \in Attempts : b[2] = "replica" /\ leg'[b] # "idle" => b[1] \in Replicated
  BY <1>1, Zenon DEF RecvDone, Running, IInv
<1>10. /\ outcome = "pending"
       /\ UNCHANGED <<raise, tracker, gfloor, collected, outcome, result>>
  BY Zenon DEF RecvDone, Ready
<1> QED
  BY <1>4, <1>5, <1>6, <1>7, <1>8, <1>9, <1>10, Zenon DEF IInv

\* Failover, survival of the other attempt and failure keep the invariant.
LEMMA StreamFailsKeeps == ASSUME IInv, NEW a \in Attempts, StreamFails(a) PROVE IInv'
<1> DEFINE s == a[1]
<1>1. /\ s \in Active /\ Other(a) \in Attempts /\ Other(a)[1] = s /\ Other(a) # a
      /\ outcome = "pending" /\ shardRes[s] = "pending"
  BY Zenon, AttemptType DEF StreamFails, Ready
<1>2. /\ stream' \in [Attempts -> Streams] /\ \A b \in Attempts : StreamOK(b, stream'[b])
      /\ \A b \in Attempts : b # a => stream'[b] = stream[b]
      /\ stream'[a] = NoStream
  BY Zenon, NoStreamOK, StreamUpdate DEF StreamFails
<1>3. /\ leg' \in [Attempts -> LegStates]
      /\ leg'[a] = "failed"
      /\ \A b \in Attempts : b # a /\ b # Other(a) => leg'[b] = leg[b]
      /\ leg'[Other(a)] = leg[Other(a)] \/ leg[Other(a)] = "idle"
  BY <1>1 DEF StreamFails, IInv, LegStates
<1>4. \A b \in Attempts : /\ leg'[b] = "opening" => stream'[b] = NoStream
                          /\ leg'[b] = "idle" => stream'[b] = NoStream
  BY <1>1, <1>2, <1>3 DEF IInv
<1>5. /\ shardRes' \in [Active -> {"pending", "ok", "err"}]
      /\ \A r \in Active : shardRes'[r] = "ok" <=> shardRes[r] = "ok"
      /\ \A r \in Active : r # s => shardRes'[r] = shardRes[r]
      /\ shardRes'[s] = "err" => /\ leg[Other(a)] = "failed" \/ s \notin Replicated
                                 /\ leg'[Other(a)] = leg[Other(a)]
  BY <1>1 DEF StreamFails, IInv
<1>6. ShardFailureHasCause'
  <2> SUFFICES ASSUME NEW r \in Active, shardRes'[r] = "err"
               PROVE  \/ Deadline
                      \/ /\ leg'[<<r, "primary">>] = "failed"
                         /\ r \in Replicated => leg'[<<r, "replica">>] = "failed"
    BY Zenon DEF ShardFailureHasCause
  <2>1. <<r, "primary">> \in Attempts /\ <<r, "replica">> \in Attempts
    BY Zenon DEF Attempts, Legs
  <2>2. CASE r # s
    <3>1. leg'[<<r, "primary">>] = leg[<<r, "primary">>] /\ leg'[<<r, "replica">>] = leg[<<r, "replica">>]
      BY <1>1, <1>3, <2>1, <2>2
    <3> QED
      BY <1>5, <2>2, <3>1 DEF IInv, ShardFailureHasCause
  <2>3. CASE r = s
    <3>1. \/ a = <<s, "primary">> /\ Other(a) = <<s, "replica">>
          \/ a = <<s, "replica">> /\ Other(a) = <<s, "primary">>
      BY DEF Attempts, Legs, Other
    <3>2. a = <<s, "replica">> => s \in Replicated
      BY DEF IInv, StreamFails, Running
    <3> QED
      BY <1>3, <1>5, <2>3, <3>1, <3>2, Zenon
  <2> QED
    BY <2>2, <2>3, Zenon
<1>7. \A b \in Attempts : b[2] = "replica" /\ leg'[b] # "idle" => b[1] \in Replicated
  <2> SUFFICES ASSUME NEW b \in Attempts, b[2] = "replica", leg'[b] # "idle"
               PROVE  b[1] \in Replicated
    BY Zenon
  <2>1. CASE leg[b] # "idle"
    BY <2>1, Zenon DEF IInv
  <2>2. CASE leg[b] = "idle"
    BY <1>1, <2>2 DEF StreamFails, Running, IInv
  <2> QED
    BY <2>1, <2>2, Zenon
<1>8. UNCHANGED <<raise, tracker, gfloor, shardHits, collected, outcome, result>>
  BY Zenon DEF StreamFails
<1> QED
  BY <1>1, <1>2, <1>3, <1>4, <1>5, <1>6, <1>7, <1>8 DEF IInv

\* A hedge opens an attempt that has not run.
LEMMA HedgeFiresKeeps == ASSUME IInv, NEW s \in Active, HedgeFires(s) PROVE IInv'
<1>1. <<s, "replica">> \in Attempts /\ <<s, "replica">>[1] = s
  BY Zenon DEF Attempts, Legs
<1>2. ShardFailureHasCause'
  BY <1>1, PendingKeepsCause, Zenon DEF HedgeFires, Ready, IInv
<1> QED
  BY <1>1, <1>2 DEF HedgeFires, IInv, LegStates

\* A deadline settles a shard as failed and drops its streams.
LEMMA DeadlineFiresKeeps == ASSUME IInv, NEW s \in Active, DeadlineFires(s) PROVE IInv'
<1>1. /\ stream' \in [Attempts -> Streams]
      /\ \A b \in Attempts : /\ StreamOK(b, stream'[b])
                             /\ b[1] = s => stream'[b] = NoStream
                             /\ b[1] # s => stream'[b] = stream[b]
  BY DropStreamsKeeps, Zenon DEF DeadlineFires
<1>2. /\ leg' \in [Attempts -> LegStates]
      /\ \A b \in Attempts : b[1] # s => leg'[b] = leg[b]
  BY Zenon DEF DeadlineFires, IInv, LegStates
<1>3. \A b \in Attempts : /\ leg'[b] = "opening" => stream'[b] = NoStream
                          /\ leg'[b] = "idle" => stream'[b] = NoStream
  BY <1>1, <1>2, Zenon DEF IInv
<1>4. ShardFailureHasCause' /\ outcome = "pending"
  BY Zenon DEF DeadlineFires, ShardFailureHasCause, Ready
<1>5. /\ shardRes' \in [Active -> {"pending", "ok", "err"}]
      /\ \A r \in Active : shardRes'[r] = "ok" <=> shardRes[r] = "ok"
  BY Zenon DEF DeadlineFires, Ready, IInv
<1>6. \A b \in Attempts : b[2] = "replica" /\ leg'[b] # "idle" => b[1] \in Replicated
  BY Zenon DEF DeadlineFires, Running, IInv
<1>7. UNCHANGED <<raise, tracker, gfloor, shardHits, collected, outcome, result>>
  BY Zenon DEF DeadlineFires
<1> QED
  BY <1>1, <1>2, <1>3, <1>4, <1>5, <1>6, <1>7, Zenon DEF IInv

\* Only settled shards are collected.
LEMMA CollectKeeps == ASSUME IInv, NEW s \in Active, Collect(s) PROVE IInv'
  BY DEF Collect, IInv, ShardFailureHasCause

\* The merge of lists that kept every wanted hit is the exact answer.
LEMMA ReturnKeeps == ASSUME IInv, Return PROVE IInv' /\ result' = ExactTopK
<1> DEFINE S == UNION {shardHits[s] : s \in Active}
<1>1. S \in SUBSET Hits
  BY DEF IInv
<1>2. Wanted \subseteq S
  <2> SUFFICES ASSUME NEW h \in Wanted PROVE h \in S
    BY Zenon
  <2>1. h \in Hits
    BY Zenon DEF Wanted, TieTop, ExactTopK, merge_topk
  <2>2. PICK s \in Shards : h \in ShardHits(s)
    BY <2>1, Zenon DEF Hits
  <2>3. s \in Active
    BY <2>2, FloorSearchAssumption, Zenon DEF Active
  <2> QED
    BY <2>2, <2>3 DEF Return, IInv
<1>3. merge_topk(S, K) = ExactTopK
  BY <1>1, <1>2, ResultsWanted, MergeExact, Zenon
<1>4. ExactTopK \subseteq Hits
  BY Zenon DEF ExactTopK, merge_topk
<1>5. result' = ExactTopK
  BY <1>3, Zenon DEF Return
<1>6. /\ outcome' = "ok"
      /\ UNCHANGED <<leg, stream, raise, tracker, gfloor, shardRes, shardHits, collected>>
  BY Zenon DEF Return
<1>7. Wanted \subseteq UNION {shardHits'[s] : s \in Active}
  BY <1>2, <1>6, Zenon
<1>8. ShardFailureHasCause'
  BY <1>6, Zenon DEF IInv, ShardFailureHasCause
<1> QED
  BY <1>4, <1>5, <1>6, <1>7, <1>8, Zenon DEF IInv

\* A refused search has no result.
LEMMA RefuseUnknownKeeps == ASSUME IInv, RefuseUnknown PROVE IInv'
  BY Zenon DEF RefuseUnknown, IInv, ShardFailureHasCause

\* Every step keeps the invariant.
LEMMA IInvNext == IInv /\ [Next]_vars => IInv'
<1> SUFFICES ASSUME IInv, [Next]_vars PROVE IInv'
  BY Zenon
<1>1. ASSUME NEW a \in Attempts, NodeStep(a) PROVE IInv'
  BY <1>1, RecvFloorKeeps, ScanChunkKeeps, SendDoneKeeps, Zenon DEF NodeStep
<1>2. ASSUME NEW a \in Attempts, StreamStep(a) PROVE IInv'
  BY <1>2, OpenKeeps, SeedKeeps, SubscribeKeeps, ForwardKeeps, ObserveKeeps, RecvDoneKeeps, Zenon DEF StreamStep
<1>3. ASSUME NEW a \in Attempts, StreamFails(a) PROVE IInv'
  BY <1>3, StreamFailsKeeps, Zenon
<1>4. ASSUME NEW s \in Active, Broadcast(s) \/ HedgeFires(s) \/ DeadlineFires(s) \/ Collect(s)
      PROVE  IInv'
  BY <1>4, BroadcastKeeps, HedgeFiresKeeps, DeadlineFiresKeeps, CollectKeeps, Zenon
<1>5. CASE Return \/ RefuseUnknown
  BY <1>5, ReturnKeeps, RefuseUnknownKeeps, Zenon
<1>6. CASE UNCHANGED vars
  BY <1>6 DEF vars, IInv, ShardFailureHasCause
<1> QED
  BY <1>1, <1>2, <1>3, <1>4, <1>5, <1>6, Zenon DEF Next

\* The invariant holds in every reachable state.
LEMMA Invariance == Spec => []IInv
  BY IInvInit, IInvNext, PTL DEF Spec

-----------------------------------------------------------------------------
(***************************************************************************)
(* What follows from it.                                                   *)
(***************************************************************************)
\* Every reachable state of the fan-out is well typed: channels stay within
\* their capacities and every floor is a score of the corpus.
THEOREM TypeCorrect == Spec => []TypeOK
<1>1. IInv => TypeOK
  BY Zenon DEF IInv, TypeOK, StreamOK, FloorOK
<1> QED
  BY <1>1, Invariance, PTL

\* No floor, wherever it is held or in flight, exceeds the score that K
\* admitted hits reach: publish_floor, FloorTracker and the watch cells never
\* carry one that could prune a result.
THEOREM FloorsLossless == Spec => []FloorsAreLowerBounds
<1>1. IInv => FloorsAreLowerBounds
  BY Zenon DEF IInv, FloorsAreLowerBounds, StreamOK, FloorOK
<1> QED
  BY <1>1, Invariance, PTL

\* fanout_search answers with exactly the top K of the admitted corpus.
THEOREM SearchExact == Spec => []ExactResult
<1>1. IInv => ExactResult
  BY Zenon DEF IInv, ExactResult
<1> QED
  BY <1>1, Invariance, PTL

\* A tie-complete fan-out loses no member of the tie group at the cutoff.
THEOREM TiesComplete == Spec => []TieComplete
<1>1. IInv => TieComplete
  BY Zenon DEF IInv, TieComplete, Wanted
<1> QED
  BY <1>1, Invariance, PTL

\* run_shard_with_hedge fails a shard only once it has run out of attempts.
THEOREM FailureHasCause == Spec => []ShardFailureHasCause
<1>1. IInv => ShardFailureHasCause
  BY Zenon DEF IInv
<1> QED
  BY <1>1, Invariance, PTL

\* fanout_search implements the promise of a search: one answer, the exact
\* one, or one refusal.
THEOREM Refinement == Spec => Implements
<1>1. Init => Abstract!Init
  BY Zenon DEF Init, Abstract!Init
<1>2. IInv /\ [Next]_vars => [Abstract!Next]_(Abstract!avars)
  <2> SUFFICES ASSUME IInv, [Next]_vars PROVE [Abstract!Next]_(Abstract!avars)
    BY Zenon
  <2>1. CASE Return
    <3>1. outcome = "pending" /\ outcome' = "ok" /\ result' = ExactTopK
      BY <2>1, ReturnKeeps, Zenon DEF Return
    <3> QED
      BY <3>1, Zenon DEF Abstract!Next, Abstract!Answer
  <2>2. ASSUME NEW s \in Active, Collect(s) PROVE [Abstract!Next]_(Abstract!avars)
    BY <2>2, Zenon DEF Collect, Abstract!Next, Abstract!Refuse, Abstract!avars
  <2>3. ASSUME NEW a \in Attempts, NodeStep(a) PROVE UNCHANGED <<outcome, result>>
    <3>1. ASSUME NEW new, OnlyStream(a, new) PROVE UNCHANGED <<outcome, result>>
      BY <3>1, Zenon DEF OnlyStream
    <3>2. CASE RecvFloor(a)
      BY <3>1, <3>2, Zenon DEF RecvFloor
    <3>3. CASE ScanChunk(a)
      BY <3>1, <3>3, ScanKeeps, Zenon
    <3>4. CASE SendDone(a)
      BY <3>1, <3>4, Zenon DEF SendDone
    <3> QED
      BY <2>3, <3>2, <3>3, <3>4, Zenon DEF NodeStep
  <2>4. ASSUME NEW a \in Attempts, StreamStep(a) PROVE UNCHANGED <<outcome, result>>
    BY <2>4, Zenon DEF StreamStep, Open, Seed, Subscribe, Forward, OnlyStream, Observe, RecvDone
  <2>5. ASSUME NEW a \in Attempts, StreamFails(a) PROVE UNCHANGED <<outcome, result>>
    BY <2>5, Zenon DEF StreamFails
  <2>6. ASSUME NEW s \in Active, Broadcast(s) \/ HedgeFires(s) \/ DeadlineFires(s)
        PROVE  UNCHANGED <<outcome, result>>
    BY <2>6, Zenon DEF Broadcast, HedgeFires, DeadlineFires
  <2>7. CASE RefuseUnknown
    BY <2>7, Zenon DEF RefuseUnknown, Abstract!Next, Abstract!Refuse
  <2>8. CASE UNCHANGED vars
    BY <2>8, Zenon DEF vars, Abstract!avars
  <2> QED
    BY <2>1, <2>2, <2>3, <2>4, <2>5, <2>6, <2>7, <2>8, Zenon DEF Next, Abstract!avars
<1> QED
  BY <1>1, <1>2, Invariance, PTL DEF Spec, Implements, Abstract!Spec

\* A step of a node or of a stream lowers no floor its scan has adopted or
\* published.
LEMMA StreamFloorsRise ==
    ASSUME IInv, NEW a \in Attempts, NodeStep(a) \/ Forward(a),
           NEW b \in Attempts
    PROVE  stream'[b].cell >= stream[b].cell /\ stream'[b].published >= stream[b].published
<1> DEFINE st == stream[a]
<1>1. \A c \in Attempts : /\ stream[c] \in Streams
                          /\ stream[c].cell \in Int /\ stream[c].published \in Int
  BY Zenon, FloorType DEF IInv, Streams
<1>2. ASSUME NEW new, OnlyStream(a, new), new.cell >= st.cell, new.published >= st.published
      PROVE  stream'[b].cell >= stream[b].cell /\ stream'[b].published >= stream[b].published
  <2>1. stream'[b] = IF b = a THEN new ELSE stream[b]
    BY <1>2, Zenon DEF OnlyStream, IInv
  <2> QED
    BY <1>1, <1>2, <2>1
<1>3. CASE RecvFloor(a)
  <2> DEFINE new == [st EXCEPT !.cell = MaxFloor(@, Head(st.inbox)), !.inbox = Tail(@)]
  <2>1. OnlyStream(a, new) /\ st \in Streams /\ st.inbox \in Seq(Floors) /\ st.inbox # <<>>
    BY <1>3, Zenon DEF RecvFloor, IInv, Streams
  <2>2. Head(st.inbox) \in Int
    BY <2>1, FloorType
  <2>3. new.cell = MaxFloor(st.cell, Head(st.inbox)) /\ new.published = st.published
    BY <2>1, Zenon DEF Streams
  <2>4. new.cell >= st.cell /\ new.published >= st.published
    BY <1>1, <2>2, <2>3 DEF MaxFloor
  <2> HIDE DEF new
  <2> QED
    BY <1>2, <2>1, <2>4, Zenon
<1>4. CASE ScanChunk(a)
  <2>1. PICK new : /\ OnlyStream(a, new) /\ new.cell = st.cell
                   /\ new.published >= st.published
    BY <1>4, ScanKeeps, Zenon
  <2> QED
    BY <1>1, <1>2, <2>1
<1>5. CASE SendDone(a)
  <2> DEFINE new == [st EXCEPT !.scan = "sent"]
  <2>1. OnlyStream(a, new) /\ st \in Streams
    BY <1>5, Zenon DEF SendDone, IInv
  <2>2. new.cell = st.cell /\ new.published = st.published
    BY <2>1, Zenon DEF Streams
  <2> HIDE DEF new
  <2> QED
    BY <1>1, <1>2, <2>1, <2>2
<1>6. CASE Forward(a)
  <2> DEFINE new == [st EXCEPT !.seen = gfloor, !.inbox = try_send(@, gfloor, RequestCap)]
  <2>1. OnlyStream(a, new) /\ st \in Streams
    BY <1>6, Zenon DEF Forward, IInv
  <2>2. new.cell = st.cell /\ new.published = st.published
    BY <2>1, Zenon DEF Streams
  <2> HIDE DEF new
  <2> QED
    BY <1>1, <1>2, <2>1, <2>2
<1> QED
  BY <1>3, <1>4, <1>5, <1>6, Zenon DEF NodeStep

\* Every step, of any actor, keeps or raises the floors of the tracker, of the
\* broadcast and of each stream still open after it.
LEMMA StepFloorsRise ==
    ASSUME IInv, [Next]_vars
    PROVE  /\ tracker' >= tracker /\ gfloor' >= gfloor
           /\ \A b \in Attempts : Live(b)' => /\ stream'[b].cell >= stream[b].cell
                                              /\ stream'[b].published >= stream[b].published
<1> DEFINE Rise(b) == stream'[b].cell >= stream[b].cell /\ stream'[b].published >= stream[b].published
           Goal == /\ tracker' >= tracker /\ gfloor' >= gfloor
                   /\ \A b \in Attempts : Live(b)' => Rise(b)
<1>1. /\ tracker \in Int /\ gfloor \in Int
      /\ \A c \in Attempts : /\ stream[c] \in Streams
                             /\ stream[c].cell \in Int /\ stream[c].published \in Int
  BY FloorType, Zenon DEF IInv, Streams, FloorOK
<1>2. \A b \in Attempts : stream'[b] = stream[b] => Rise(b)
  BY <1>1
<1>3. ASSUME NEW a \in Attempts, NodeStep(a) \/ Forward(a) PROVE Goal
  <2>1. \A b \in Attempts : Rise(b)
    BY <1>3, StreamFloorsRise, Zenon
  <2>2. ASSUME NEW new, OnlyStream(a, new) PROVE UNCHANGED <<tracker, gfloor>>
    BY <2>2, Zenon DEF OnlyStream
  <2>3. UNCHANGED <<tracker, gfloor>>
    <3>1. CASE RecvFloor(a)
      BY <2>2, <3>1, Zenon DEF RecvFloor
    <3>2. CASE ScanChunk(a)
      BY <2>2, <3>2, ScanKeeps, Zenon
    <3>3. CASE SendDone(a)
      BY <2>2, <3>3, Zenon DEF SendDone
    <3>4. CASE Forward(a)
      BY <2>2, <3>4, Zenon DEF Forward
    <3> QED
      BY <1>3, <3>1, <3>2, <3>3, <3>4, Zenon DEF NodeStep
  <2> QED
    BY <1>1, <2>1, <2>3
<1>4. ASSUME NEW a \in Attempts, NEW new, stream' = [stream EXCEPT ![a] = new],
             new.cell = stream[a].cell, new.published = stream[a].published
      PROVE  \A b \in Attempts : Rise(b)
  <2> SUFFICES ASSUME NEW b \in Attempts PROVE Rise(b)
    BY Zenon
  <2>1. stream'[b] = IF b = a THEN new ELSE stream[b]
    BY <1>4, Zenon DEF IInv
  <2> QED
    BY <1>1, <1>4, <2>1
<1>5. ASSUME NEW a \in Attempts, Open(a) \/ Seed(a) PROVE Goal
  <2> DEFINE opened == [stream[a] EXCEPT !.scan = "scanning"]
             seeded == [stream[a] EXCEPT !.inbox = try_send(@, gfloor, RequestCap)]
  <2>1. /\ \/ stream' = [stream EXCEPT ![a] = opened]
           \/ stream' = [stream EXCEPT ![a] = seeded]
           \/ stream' = stream
        /\ UNCHANGED <<tracker, gfloor>>
    <3>1. CASE Open(a)
      BY <3>1, Zenon DEF Open
    <3>2. CASE Seed(a)
      BY <3>2, Zenon DEF Seed
    <3> QED
      BY <1>5, <3>1, <3>2, Zenon
  <2>2. /\ opened.cell = stream[a].cell /\ opened.published = stream[a].published
        /\ seeded.cell = stream[a].cell /\ seeded.published = stream[a].published
    BY <1>1, Zenon DEF Streams
  <2> HIDE DEF opened, seeded
  <2> QED
    BY <1>1, <1>2, <1>4, <2>1, <2>2
<1>6. ASSUME NEW a \in Attempts, Subscribe(a) PROVE Goal
  <2> DEFINE new == [stream[a] EXCEPT !.seen = gfloor]
  <2>1. stream' = [stream EXCEPT ![a] = new] /\ UNCHANGED <<tracker, gfloor>>
    BY <1>6, Zenon DEF Subscribe
  <2>2. new.cell = stream[a].cell /\ new.published = stream[a].published
    BY <1>1, Zenon DEF Streams
  <2> HIDE DEF new
  <2> QED
    BY <1>1, <1>4, <2>1, <2>2
<1>7. ASSUME NEW a \in Attempts, Observe(a) PROVE Goal
  <2> DEFINE new == [stream[a] EXCEPT !.outbox = Tail(stream[a].outbox)]
  <2>1. stream' = [stream EXCEPT ![a] = new] /\ UNCHANGED gfloor
    BY <1>7, Zenon DEF Observe
  <2>2. new.cell = stream[a].cell /\ new.published = stream[a].published
    BY <1>1, Zenon DEF Streams
  <2>3. Head(stream[a].outbox) \in Int
    BY <1>1, <1>7, FloorType DEF Observe, Streams
  <2>4. tracker' >= tracker
    BY <1>1, <1>7, <2>3 DEF Observe
  <2> HIDE DEF new
  <2> QED
    BY <1>1, <1>4, <2>1, <2>2, <2>4
<1>8. ASSUME NEW a \in Attempts, RecvDone(a) PROVE Goal
  <2>1. UNCHANGED <<tracker, gfloor>> /\ \A b \in Attempts : b[1] # a[1] => stream'[b] = stream[b]
    BY <1>8, Zenon DEF RecvDone, DropStreams
  <2>2. \A b \in Attempts : b[1] = a[1] => b = a \/ b = Other(a)
    BY DEF Attempts, Legs, Other
  <2>3. leg'[a] = "ok" /\ leg'[Other(a)] \notin {"opened", "seeded", "streaming"}
    BY <1>8, AttemptType, Zenon DEF RecvDone, Running, IInv
  <2> QED
    BY <1>1, <1>2, <2>1, <2>2, <2>3 DEF Live
<1>9. ASSUME NEW a \in Attempts, StreamFails(a) PROVE Goal
  <2>1. /\ UNCHANGED <<tracker, gfloor>> /\ leg'[a] = "failed"
        /\ \A b \in Attempts : b # a => stream'[b] = stream[b]
    BY <1>9, AttemptType DEF StreamFails, IInv
  <2> QED
    BY <1>1, <1>2, <2>1 DEF Live
<1>10. ASSUME NEW s \in Active, DeadlineFires(s) PROVE Goal
  <2>1. /\ UNCHANGED <<tracker, gfloor>>
        /\ \A b \in Attempts : /\ b[1] # s => stream'[b] = stream[b]
                               /\ b[1] = s => leg'[b] \notin {"opened", "seeded", "streaming"}
    BY <1>10, Zenon DEF DeadlineFires, DropStreams, Running
  <2> QED
    BY <1>1, <1>2, <2>1 DEF Live
<1>11. ASSUME NEW s \in Active, Broadcast(s) PROVE Goal
  <2>1. raise[s] \in Int
    BY FloorType, Zenon DEF IInv
  <2> QED
    BY <1>1, <1>2, <1>11, <2>1 DEF Broadcast, MaxFloor
<1>12. ASSUME NEW s \in Active, HedgeFires(s) \/ Collect(s) PROVE Goal
  <2>1. UNCHANGED <<tracker, gfloor>> /\ UNCHANGED stream
    BY <1>12, Zenon DEF HedgeFires, Collect
  <2> QED
    BY <1>1, <1>2, <2>1
<1>13. CASE Return \/ RefuseUnknown \/ UNCHANGED vars
  <2>1. UNCHANGED <<tracker, gfloor, stream>>
    BY <1>13, Zenon DEF Return, RefuseUnknown, vars
  <2> QED
    BY <1>1, <1>2, <2>1
<1>14. ASSUME NEW a \in Attempts, NodeStep(a) \/ StreamStep(a) \/ StreamFails(a) PROVE Goal
  <2> HIDE DEF Goal
  <2>1. \/ NodeStep(a) \/ Forward(a)
        \/ Open(a) \/ Seed(a) \/ Subscribe(a) \/ Observe(a) \/ RecvDone(a) \/ StreamFails(a)
    BY <1>14, Zenon DEF StreamStep
  <2>2. CASE NodeStep(a) \/ Forward(a)
    BY <1>3, <2>2, Zenon
  <2>3. CASE Open(a) \/ Seed(a)
    BY <1>5, <2>3, Zenon
  <2>4. CASE Subscribe(a)
    BY <1>6, <2>4, Zenon
  <2>5. CASE Observe(a)
    BY <1>7, <2>5, Zenon
  <2>6. CASE RecvDone(a)
    BY <1>8, <2>6, Zenon
  <2>7. CASE StreamFails(a)
    BY <1>9, <2>7, Zenon
  <2> QED
    BY <2>1, <2>2, <2>3, <2>4, <2>5, <2>6, <2>7, Zenon
<1>15. ASSUME NEW s \in Active, Broadcast(s) \/ HedgeFires(s) \/ DeadlineFires(s) \/ Collect(s)
       PROVE  Goal
  <2> HIDE DEF Goal
  <2>1. CASE Broadcast(s)
    BY <1>11, <2>1, Zenon
  <2>2. CASE DeadlineFires(s)
    BY <1>10, <2>2, Zenon
  <2>3. CASE HedgeFires(s) \/ Collect(s)
    BY <1>12, <2>3, Zenon
  <2> QED
    BY <1>15, <2>1, <2>2, <2>3, Zenon
<1>16. CASE \E a \in Attempts : NodeStep(a) \/ StreamStep(a) \/ StreamFails(a)
  BY <1>14, <1>16, Zenon
<1>17. CASE \E s \in Active : Broadcast(s) \/ HedgeFires(s) \/ DeadlineFires(s) \/ Collect(s)
  BY <1>15, <1>17, Zenon
<1> QED
  BY <1>13, <1>16, <1>17, Zenon DEF Next

\* FloorTracker, the broadcast cell, raise_floor_cell and last_published are
\* monotone whatever order the shard tasks run in.
THEOREM FloorsMonotone == Spec => FloorsOnlyRise
<1>1. IInv /\ [Next]_vars =>
        [/\ tracker' >= tracker /\ gfloor' >= gfloor
         /\ \A a \in Attempts : Live(a)' => /\ stream'[a].cell >= stream[a].cell
                                            /\ stream'[a].published >= stream[a].published]_vars
  BY StepFloorsRise, Zenon
<1> QED
  BY <1>1, Invariance, PTL DEF Spec, FloorsOnlyRise
=============================================================================
