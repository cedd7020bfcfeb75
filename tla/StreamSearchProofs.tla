------------------------- MODULE StreamSearchProofs -------------------------
(***************************************************************************)
(* The streaming fan-out answers with the exact top-k or not at all, for   *)
(* every corpus, every number of shards, every K, chunk size and channel   *)
(* capacity, with any pattern of dropped floor updates, lost, repeated and *)
(* overtaken datagrams, broken streams and timeouts.                       *)
(*                                                                         *)
(* The strengthening is Lossless.  It follows a hit of the answer from the *)
(* slot it is scanned at through the response path into the heap, and says *)
(* of every floor in the system that K hits reach it.                      *)
(***************************************************************************)
EXTENDS StreamTypeProofs

-----------------------------------------------------------------------------
(***************************************************************************)
(* The strengthening.                                                      *)
(***************************************************************************)
\* A hit the coordinator still has: in its heap, or in one of the first n
\* messages of the shard's response path.
Kept(s, h, n) ==
    \/ h \in heap
    \/ \E i \in 1..n : resp[s][i].kind = "batch" /\ h \in resp[s][i].hits

\* The hits of the answer that live on a shard.
Answers(s) == ExactTopK \cap ShardHits(s)

\* Until a shard is certified, the hits of the answer its scan has passed are
\* kept, and those a certificate on its way covers are kept ahead of it.
NothingLost(s) ==
    /\ node[s].completed => node[s].start >= Len(Scores[s])
    /\ s \notin certified => \A h \in Answers(s) :
         /\ h.slot <= node[s].start => Kept(s, h, Len(resp[s]))
         /\ \A i \in 1..Len(resp[s]) :
              resp[s][i].kind = "ready" /\ resp[s][i].completed => Kept(s, h, i)

\* What the answer needs of the coordinator.
AnswerInv ==
    /\ heap = merge_topk(heap, K)
    /\ CertificateCovers
    /\ \A s \in certified : scoring = {fingerprint[s]}
    /\ phase \in {"ask", "resolve"} => certified = Active
    /\ outcome = "ok" => phase = "ended"
    /\ StreamExact

(* The inductive invariant: floors are lossless, nothing the answer needs   *)
(* is lost, and the coordinator's heap is what it received.                 *)
Lossless == StreamFloorsValid /\ (\A s \in Active : NothingLost(s)) /\ AnswerInv

-----------------------------------------------------------------------------
(***************************************************************************)
(* Floors.                                                                 *)
(***************************************************************************)
\* The floors on their way to a shard and on it.
FloorsAt(s) ==
    /\ ValidFloor(node[s].cell) /\ ValidFloor(node[s].floor)
    /\ \A i \in 1..Len(req[s]) : req[s][i].kind = "floor" => ValidFloor(req[s][i].floor)
    /\ \A d \in lane[s] : d.kind = "floor" => ValidFloor(d.floor)

\* The larger of two floors that lose nothing loses nothing.
LEMMA MaxFloorValid ==
    ASSUME NEW a, NEW b, ValidFloor(a), ValidFloor(b)
    PROVE  ValidFloor(MaxFloor(a, b))
  BY Zenon DEF MaxFloor

\* A node adopts only floors that were sent to it.
LEMMA FloorsNode ==
    ASSUME TypeOK, StreamFloorsValid, NEW s \in Active, NodeAction(s)
    PROVE  StreamFloorsValid'
<1>1. /\ lane' = lane /\ lastFloor' = lastFloor
      /\ \A t \in Active \ {s} : node'[t] = node[t] /\ req'[t] = req[t]
  BY NodeFrame, Zenon DEF coordVars
<1>2. ValidFloor(lastFloor') /\ \A t \in Active : FloorsAt(t)
  BY <1>1, Zenon DEF StreamFloorsValid, FloorsAt
<1>3. ASSUME NEW t \in Active \ {s} PROVE FloorsAt(t)'
  BY <1>1, <1>2, <1>3, Zenon DEF FloorsAt
<1>4. FloorsAt(s)'
  <2>1. ValidFloor(node'[s].floor)
    BY <1>2, FloorFields, MaxFloorValid DEF FloorsAt
  <2>2. req[s] \in Seq(Requests)
    BY Zenon DEF TypeOK
  <2>3. req[s] # <<>> /\ Head(req[s]).kind = "floor" => ValidFloor(Head(req[s]).floor)
    <3>1. CASE req[s] # <<>>
      <4>1. Head(req[s]) = req[s][1] /\ Len(req[s]) \in Nat /\ Len(req[s]) > 0
        BY <2>2, <3>1, Taken, Zenon
      <4> QED
        BY <1>2, <4>1 DEF FloorsAt
    <3> QED
      BY <3>1, Zenon
  <2>4. ValidFloor(node'[s].cell)
    BY <1>2, <2>3, FloorFields, MaxFloorValid DEF FloorsAt
  <2>5. \A i \in 1..Len(req'[s]) : req'[s][i].kind = "floor" => ValidFloor(req'[s][i].floor)
    <3>1. CASE req'[s] = req[s]
      BY <1>2, <3>1, Zenon DEF FloorsAt
    <3>2. CASE req[s] # <<>> /\ req'[s] = Tail(req[s])
      <4>1. /\ Len(req[s]) \in Nat /\ Len(req'[s]) = Len(req[s]) - 1
            /\ \A i \in 1..(Len(req[s]) - 1) : req'[s][i] = req[s][i + 1]
        BY <2>2, <3>2, Taken, Zenon
      <4>2. ASSUME NEW i \in 1..Len(req'[s])
            PROVE  req'[s][i] = req[s][i + 1] /\ i + 1 \in 1..Len(req[s])
        BY <4>1
      <4> QED
        BY <1>2, <4>2, Zenon DEF FloorsAt
    <3> QED
      BY <3>1, <3>2, FloorFields, Zenon
  <2> QED
    BY <1>1, <1>2, <2>1, <2>4, <2>5, Zenon DEF FloorsAt
<1> QED
  BY <1>2, <1>3, <1>4, Zenon DEF StreamFloorsValid, FloorsAt

\* What a signal puts into the lanes.
LEMMA SignalFloors ==
    ASSUME TypeOK, StreamFloorsValid, NEW kind, NEW floor, send_signal(kind, floor),
           kind = "floor" => ValidFloor(floor)
    PROVE  \A t \in Active : \A d \in lane'[t] : d.kind = "floor" => ValidFloor(d.floor)
<1> DEFINE to == open \cap Lanes
           sent(t) == [seq |-> IF Signed THEN seq + Cardinality({u \in to : u <= t}) ELSE 0,
                       kind |-> kind, floor |-> floor]
<1>1. lane' = [t \in Active |-> IF t \notin to THEN lane[t] ELSE lane[t] \cup {sent(t)}]
  BY Zenon DEF send_signal
<1>2. ASSUME NEW t \in Active, NEW d \in lane'[t] PROVE d \in lane[t] \/ d = sent(t)
  <2> HIDE DEF to, sent
  <2> QED
    BY <1>1, <1>2, Zenon
<1>3. \A t : sent(t).kind = kind /\ sent(t).floor = floor
  BY Zenon
<1> HIDE DEF sent
<1> QED
  BY <1>2, <1>3, Zenon DEF StreamFloorsValid

\* A request that is no floor leaves the floors of its channel alone.
LEMMA RequestFloors ==
    ASSUME TypeOK, StreamFloorsValid, NEW s \in Active, NEW m \in Requests,
           req' = [req EXCEPT ![s] = Append(@, m)], m.kind = "floor" => ValidFloor(m.floor)
    PROVE  \A t \in Active : \A i \in 1..Len(req'[t]) :
             req'[t][i].kind = "floor" => ValidFloor(req'[t][i].floor)
<1>1. req \in [Active -> Seq(Requests)] /\ req[s] \in Seq(Requests)
  BY Zenon DEF TypeOK
<1>2. req'[s] = Append(req[s], m) /\ \A t \in Active \ {s} : req'[t] = req[t]
  BY <1>1, Zenon
<1>3. /\ Len(req[s]) \in Nat /\ Len(req'[s]) = Len(req[s]) + 1
      /\ \A i \in 1..Len(req[s]) : req'[s][i] = req[s][i]
      /\ req'[s][Len(req[s]) + 1] = m
  BY <1>1, <1>2, Appended
<1>4. \A i \in 1..Len(req'[s]) : i \in 1..Len(req[s]) \/ i = Len(req[s]) + 1
  BY <1>3
<1> QED
  BY <1>2, <1>3, <1>4 DEF StreamFloorsValid

\* So does a floor pushed to every open channel that has room.
LEMMA PushFloors ==
    ASSUME TypeOK, StreamFloorsValid, NEW floor \in Int, ValidFloor(floor), push_stream_floor(floor)
    PROVE  \A t \in Active : \A i \in 1..Len(req'[t]) :
             req'[t][i].kind = "floor" => ValidFloor(req'[t][i].floor)
<1> DEFINE m == [kind |-> "floor", floor |-> floor]
<1>1. m \in Requests /\ m.floor = floor
  BY Zenon DEF Requests
<1> SUFFICES ASSUME NEW t \in Active, NEW i \in 1..Len(req'[t]), req'[t][i].kind = "floor"
             PROVE  ValidFloor(req'[t][i].floor)
  BY Zenon
<1>2. req[t] \in Seq(Requests)
  BY Zenon DEF TypeOK
<1>3. req'[t] = IF t \in open /\ Len(req[t]) < RequestCap THEN Append(req[t], m) ELSE req[t]
  BY Zenon DEF push_stream_floor
<1> HIDE DEF m
<1>4. CASE req'[t] = req[t]
  BY <1>4, Zenon DEF StreamFloorsValid
<1>5. CASE req'[t] = Append(req[t], m)
  <2>1. /\ Len(req[t]) \in Nat /\ Len(req'[t]) = Len(req[t]) + 1
        /\ \A j \in 1..Len(req[t]) : req'[t][j] = req[t][j]
        /\ req'[t][Len(req[t]) + 1] = m
    BY <1>1, <1>2, <1>5, Appended
  <2>2. i \in 1..Len(req[t]) \/ i = Len(req[t]) + 1
    BY <2>1
  <2> QED
    BY <1>1, <2>1, <2>2, Zenon DEF StreamFloorsValid
<1> QED
  BY <1>3, <1>4, <1>5, Zenon

\* The coordinator only makes up floors that its full heap reaches.
LEMMA FloorsCoord ==
    ASSUME TypeOK, StreamFloorsValid, CoordAction
    PROVE  StreamFloorsValid'
<1>0. SUFFICES /\ node' = node /\ ValidFloor(lastFloor')
               /\ \A t \in Active : \A i \in 1..Len(req'[t]) :
                    req'[t][i].kind = "floor" => ValidFloor(req'[t][i].floor)
               /\ \A t \in Active : \A d \in lane'[t] : d.kind = "floor" => ValidFloor(d.floor)
  BY Zenon DEF StreamFloorsValid
<1> DEFINE Requested == \A t \in Active : \A i \in 1..Len(req'[t]) :
                          req'[t][i].kind = "floor" => ValidFloor(req'[t][i].floor)
           Signalled == \A t \in Active : \A d \in lane'[t] : d.kind = "floor" => ValidFloor(d.floor)
<1>1. ASSUME UNCHANGED <<node, req, lane, lastFloor>>
      PROVE  node' = node /\ ValidFloor(lastFloor') /\ Requested /\ Signalled
  BY <1>1, Zenon DEF StreamFloorsValid
<1>2. ASSUME NEW why, Abandon(why), UNCHANGED <<node, req>>
      PROVE  node' = node /\ ValidFloor(lastFloor') /\ Requested /\ Signalled
  <2>1. Signalled
    BY <1>2, SignalFloors, Zenon DEF Abandon
  <2> QED
    BY <1>2, <2>1, Zenon DEF Abandon, StreamFloorsValid
<1>3. ASSUME NEW s \in Active, RecvScan(s)
      PROVE  node' = node /\ ValidFloor(lastFloor') /\ Requested /\ Signalled
  <2> DEFINE hits == Message(s).hits
             new == push_hits(hits)
  <2>1. node' = node
    BY <1>3, Zenon DEF RecvScan
  <2>2. CASE TakeBatch(hits)
    <3>1. hits \in SUBSET Hits
      BY ConsumeTyped, Zenon
    <3>2. CASE Cardinality(new) = K /\ StreamFloor(new) > lastFloor
      <4>1. StreamFloor(new) \in Int /\ ValidFloor(StreamFloor(new))
        BY <3>1, <3>2, HeapTyped, Zenon
      <4>2. lastFloor' = StreamFloor(new) /\ push_stream_floor(StreamFloor(new))
        BY <2>2, <3>2, Zenon DEF TakeBatch
      <4> HIDE DEF new
      <4>3. Requested
        BY <4>1, <4>2, PushFloors, Zenon
      <4>4. Signalled
        BY <4>1, <4>2, SignalFloors, Zenon DEF push_stream_floor
      <4> QED
        BY <2>1, <4>1, <4>2, <4>3, <4>4, Zenon
    <3>3. CASE ~ (Cardinality(new) = K /\ StreamFloor(new) > lastFloor)
      BY <1>1, <2>1, <2>2, <3>3, Zenon DEF TakeBatch
    <3> QED
      BY <3>2, <3>3, Zenon
  <2>3. CASE TakeReady(s)
    BY <1>1, <2>1, <2>3, Zenon DEF TakeReady
  <2>4. CASE \E why : cancel_with(why) /\ UNCHANGED req
    BY <1>2, <2>1, <2>4, Zenon DEF cancel_with
  <2> QED
    BY <1>3, <2>2, <2>3, <2>4, Zenon DEF RecvScan
<1>4. ASSUME NEW s \in Active, Ask(s) \/ SendStop(s)
      PROVE  node' = node /\ ValidFloor(lastFloor') /\ Requested /\ Signalled
  <2>1. PICK m \in Requests : req' = [req EXCEPT ![s] = Append(@, m)] /\ m.kind # "floor"
    <3>1. NegInf \in Int
      BY CorpusAssumption, Zenon
    <3>2. /\ [kind |-> "resolve", floor |-> NegInf] \in Requests
          /\ [kind |-> "stop", floor |-> NegInf] \in Requests
      BY <3>1, Zenon DEF Requests
    <3> QED
      BY <1>4, <3>2, Zenon DEF Ask, SendStop
  <2>2. Requested
    BY Zenon, <2>1, RequestFloors
  <2> QED
    BY <1>4, <2>2, Zenon DEF Ask, SendStop, StreamFloorsValid
<1>5. ASSUME NEW s \in Active, AskFails(s) \/ RecvBroken(s)
      PROVE  node' = node /\ ValidFloor(lastFloor') /\ Requested /\ Signalled
  BY <1>2, <1>5, Zenon DEF AskFails, RecvBroken, cancel_with, nodeVars
<1>6. ASSUME NEW s \in Active, RecvResolve(s)
      PROVE  node' = node /\ ValidFloor(lastFloor') /\ Requested /\ Signalled
  BY <1>1, <1>2, <1>6, Zenon DEF RecvResolve, cancel_with
<1>7. CASE ScanEnds \/ Return \/ CancelEnds \/ \E s \in Active : StreamBreaks(s)
  BY <1>1, <1>2, <1>7, Zenon DEF ScanEnds, Return, CancelEnds, StreamBreaks, DropFanout, nodeVars, coordVars
<1>8. CASE IdentityTimeout \/ CallerDrops
  BY <1>2, <1>8, Zenon DEF IdentityTimeout, CallerDrops, cancel_with, DropFanout, nodeVars
<1> QED
  BY <1>3, <1>4, <1>5, <1>6, <1>7, <1>8, Zenon DEF CoordAction, CoordStep

-----------------------------------------------------------------------------
(***************************************************************************)
(* No hit of the answer is lost.                                           *)
(***************************************************************************)
\* A heap cut at K stays as it is when it is cut again.
LEMMA MergeIdempotent ==
    ASSUME NEW S \in SUBSET Hits
    PROVE  merge_topk(S, K) = merge_topk(merge_topk(S, K), K)
<1> DEFINE T == merge_topk(S, K)
<1>1. T \subseteq S /\ T \in SUBSET Hits
  BY Zenon DEF merge_topk
<1>2. ASSUME NEW h \in T PROVE h \in merge_topk(T, K)
  <2>1. Cardinality(Ahead(h, S)) < K
    BY Zenon DEF merge_topk
  <2>2. Ahead(h, T) \subseteq Ahead(h, S) /\ Ahead(h, S) \in SUBSET Hits
    BY <1>1, Zenon DEF Ahead
  <2>3. /\ Cardinality(Ahead(h, T)) <= Cardinality(Ahead(h, S))
        /\ Cardinality(Ahead(h, T)) \in Nat /\ Cardinality(Ahead(h, S)) \in Nat
    BY <2>2, CardinalityMonotone, Zenon
  <2>4. Cardinality(Ahead(h, T)) < K
    BY <2>1, <2>3, CorpusAssumption
  <2> HIDE DEF T
  <2> QED
    BY <2>4, Zenon DEF merge_topk
<1> HIDE DEF T
<1>3. merge_topk(T, K) \subseteq T
  BY Zenon DEF merge_topk
<1>4. T = merge_topk(T, K)
  BY <1>2, <1>3, Zenon
<1> QED
  BY <1>4, Zenon DEF T

\* Folding a batch into the heap drops no hit of the answer.
LEMMA HeapKeeps ==
    ASSUME TypeOK, NEW hits \in SUBSET Hits
    PROVE  /\ ExactTopK \cap (heap \cup hits) \subseteq push_hits(hits)
           /\ push_hits(hits) = merge_topk(push_hits(hits), K)
<1>1. heap \cup hits \in SUBSET Hits
  BY Zenon DEF TypeOK
<1>2. K \in Nat
  BY CorpusAssumption, Zenon
<1>3. ASSUME NEW h \in heap \cup hits, h \notin merge_topk(heap \cup hits, K)
      PROVE  h \notin ExactTopK
  BY <1>1, <1>2, <1>3, TruncatedIsNoResult
<1> QED
  BY <1>1, <1>3, MergeIdempotent, Zenon DEF push_hits

\* A hit that lives on an active shard.
LEMMA AnswerFields ==
    ASSUME NEW s \in Active, NEW h \in Answers(s)
    PROVE  /\ h \in ExactTopK /\ h \in Hits /\ h \in ShardHits(s) /\ h.shard = s
           /\ h.slot \in Nat /\ Len(Scores[s]) \in Nat /\ h.slot <= Len(Scores[s])
<1>1. s \in Shards /\ h \in ShardHits(s) /\ h \in ExactTopK
  BY Zenon DEF Answers, Active
<1>2. h \in Hits /\ h.shard = s /\ h.slot \in Nat
  BY <1>1, HitsOfShard, HitType, Zenon
<1>3. Len(Scores[s]) \in Nat
  BY <1>1, CorpusAssumption
<1>4. h.slot <= Len(Scores[s])
  BY <1>1, <1>3 DEF ShardHits
<1> QED
  BY <1>1, <1>2, <1>3, <1>4, Zenon

\* A step that neither takes nor adds a response.
LEMMA LostFrame ==
    ASSUME NEW s \in Active, NothingLost(s), resp'[s] = resp[s],
           certified \subseteq certified', ExactTopK \cap heap \subseteq heap',
           node'[s].completed => node'[s].start >= Len(Scores[s]),
           \A h \in Answers(s) : h.slot <= node'[s].start => h.slot <= node[s].start
    PROVE  NothingLost(s)'
<1>1. ASSUME NEW h \in Answers(s), NEW n, Kept(s, h, n) PROVE Kept(s, h, n)'
  BY <1>1, AnswerFields, Zenon DEF Kept
<1>2. Answers(s)' = Answers(s)
  BY Zenon DEF Answers
<1> QED
  BY <1>1, <1>2, Zenon DEF NothingLost

\* A step that appends a response.
LEMMA LostAppend ==
    ASSUME TypeOK, NEW s \in Active, NothingLost(s), NEW m \in Responses,
           resp'[s] = Append(resp[s], m), certified' = certified, heap' = heap,
           node'[s].completed => node'[s].start >= Len(Scores[s]),
           m.kind = "ready" /\ m.completed => node[s].completed,
           \A h \in Answers(s) : h.slot <= node'[s].start =>
             h.slot <= node[s].start \/ (m.kind = "batch" /\ h \in m.hits)
    PROVE  NothingLost(s)'
<1> DEFINE q == resp[s]
<1>0. PICK n \in Nat : n = Len(resp[s])
  <2>1. resp[s] \in Seq(Responses)
    BY Zenon DEF TypeOK
  <2>2. Len(resp[s]) \in Nat
    BY <2>1
  <2> QED
    BY <2>2, Zenon
<1>1. /\ n \in Nat /\ Len(resp'[s]) = n + 1 /\ resp'[s][n + 1] = m
      /\ \A i \in 1..n : resp'[s][i] = q[i]
  <2>1. q \in Seq(Responses)
    BY Zenon DEF TypeOK
  <2> QED
    BY <1>0, <2>1, Appended
<1>2. ASSUME NEW h \in Answers(s), NEW j \in 1..n, Kept(s, h, j) PROVE Kept(s, h, j)'
  <2>1. \A i \in 1..j : i \in 1..n
    BY <1>1
  <2> QED
    BY <1>1, <1>2, <2>1, Zenon DEF Kept
<1>3. ASSUME NEW h \in Answers(s), Kept(s, h, n) PROVE Kept(s, h, n + 1)'
  <2>1. \A i \in 1..n : i \in 1..(n + 1)
    BY <1>1
  <2> QED
    BY <1>1, <1>3, <2>1, Zenon DEF Kept
<1>4. ASSUME NEW h \in Answers(s), m.kind = "batch", h \in m.hits PROVE Kept(s, h, n + 1)'
  <2>1. n + 1 \in 1..(n + 1)
    BY <1>1
  <2> QED
    BY <1>1, <1>4, <2>1, Zenon DEF Kept
<1>5. ASSUME s \notin certified', NEW h \in Answers(s), h.slot <= node'[s].start
      PROVE  Kept(s, h, n + 1)'
  BY <1>0, <1>3, <1>4, <1>5, Zenon DEF NothingLost
<1>6. ASSUME s \notin certified', NEW h \in Answers(s), m.kind = "ready", m.completed
      PROVE  Kept(s, h, n + 1)'
  <2>1. node[s].start >= Len(Scores[s]) /\ node[s].start \in Nat
    BY <1>6, Zenon DEF NothingLost, TypeOK, Nodes
  <2>2. h.slot <= node[s].start
    BY <2>1, AnswerFields
  <2> QED
    BY <1>0, <1>3, <1>6, <2>2, Zenon DEF NothingLost
<1>7. ASSUME s \notin certified', NEW h \in Answers(s), NEW i \in 1..(n + 1),
             resp'[s][i].kind = "ready", resp'[s][i].completed
      PROVE  Kept(s, h, i)'
  <2>1. CASE i = n + 1
    BY <1>1, <1>6, <1>7, <2>1, Zenon
  <2>2. CASE i \in 1..n
    BY <1>0, <1>1, <1>2, <1>7, <2>2, Zenon DEF NothingLost
  <2>3. i = n + 1 \/ i \in 1..n
    BY <1>1
  <2> HIDE DEF q
  <2> QED
    BY <2>1, <2>2, <2>3, Zenon
<1>8. Answers(s)' = Answers(s)
  BY Zenon DEF Answers
<1> QED
  BY <1>1, <1>5, <1>7, <1>8, Zenon DEF NothingLost, Kept

\* The place of a response among the ones before the first is taken.
LEMMA Shifted ==
    ASSUME NEW n \in Nat, NEW i \in 1..(n - 1)
    PROVE  i + 1 \in 1..n /\ (i + 1) - 1 = i
  OBVIOUS

\* A step that takes the first response.
LEMMA LostTaken ==
    ASSUME TypeOK, NEW s \in Active, NothingLost(s), resp[s] # <<>>, resp'[s] = Tail(resp[s]),
           certified \subseteq certified', ExactTopK \cap heap \subseteq heap', node'[s] = node[s],
           resp[s][1].kind = "batch" /\ s \notin certified' =>
             ExactTopK \cap resp[s][1].hits \subseteq heap'
    PROVE  NothingLost(s)'
<1> DEFINE q == resp[s]
<1>0. PICK n \in Nat : n = Len(resp[s])
  <2>1. resp[s] \in Seq(Responses)
    BY Zenon DEF TypeOK
  <2>2. Len(resp[s]) \in Nat
    BY <2>1
  <2> QED
    BY <2>2, Zenon
<1>1. /\ n \in Nat /\ n > 0 /\ Len(resp'[s]) = n - 1
      /\ \A i \in 1..(n - 1) : resp'[s][i] = q[i + 1]
  <2>1. q \in Seq(Responses)
    BY Zenon DEF TypeOK
  <2> QED
    BY <1>0, <2>1, Taken
<1>2. ASSUME s \notin certified', NEW h \in Answers(s), NEW j \in 1..n, Kept(s, h, j)
      PROVE  Kept(s, h, j - 1)'
  <2>1. CASE h \in heap
    BY <2>1, AnswerFields, Zenon DEF Kept
  <2>2. CASE \E i \in 1..j : q[i].kind = "batch" /\ h \in q[i].hits
    <3>1. PICK i \in 1..j : q[i].kind = "batch" /\ h \in q[i].hits
      BY <2>2, Zenon
    <3>2. CASE i = 1
      BY <1>2, <3>1, <3>2, AnswerFields, Zenon DEF Kept
    <3>3. CASE i # 1
      <4>1. i - 1 \in 1..(n - 1) /\ i - 1 \in 1..(j - 1) /\ (i - 1) + 1 = i
        BY <1>1, <3>3
      <4>2. resp'[s][i - 1] = q[i]
        BY <1>1, <4>1, Zenon
      <4> QED
        BY Zenon, <3>1, <4>1, <4>2 DEF Kept
    <3> QED
      BY <3>2, <3>3, Zenon
  <2> QED
    BY Zenon, <1>2, <2>1, <2>2 DEF Kept
<1>3. ASSUME s \notin certified', NEW h \in Answers(s), h.slot <= node'[s].start
      PROVE  Kept(s, h, n - 1)'
  <2>1. Kept(s, h, n) /\ n \in 1..n
    BY <1>0, <1>1, <1>3 DEF NothingLost
  <2> QED
    BY <1>2, <1>3, <2>1, Zenon
<1>4. ASSUME s \notin certified', NEW h \in Answers(s), NEW i \in 1..(n - 1),
             resp'[s][i].kind = "ready", resp'[s][i].completed
      PROVE  Kept(s, h, i)'
  <2>1. i + 1 \in 1..n /\ (i + 1) - 1 = i
    BY <1>1, Shifted, Zenon
  <2>4. resp'[s][i] = q[i + 1]
    BY <1>1, Zenon
  <2>2. Kept(s, h, i + 1)
    BY <1>0, <1>4, <2>1, <2>4, Zenon DEF NothingLost
  <2>3. Kept(s, h, (i + 1) - 1)'
    BY <1>2, <1>4, <2>1, <2>2, Zenon
  <2> QED
    BY <2>1, <2>3, Zenon
<1>5. Answers(s)' = Answers(s)
  BY Zenon DEF Answers
<1> QED
  BY <1>1, <1>3, <1>4, <1>5, Zenon DEF NothingLost, Kept

\* No step of a node loses a hit.
LEMMA LostNode ==
    ASSUME TypeOK, StreamFloorsValid, NEW s \in Active, NothingLost(s), NodeAction(s)
    PROVE  NothingLost(s)'
<1>1. heap' = heap /\ certified' = certified
  BY NodeFrame, Zenon DEF coordVars
<1>2. /\ node \in [Active -> Nodes] /\ node[s] \in Nodes /\ node[s].start \in Nat
      /\ node[s].floor \in Int /\ node[s].completed \in BOOLEAN
      /\ resp \in [Active -> Seq(Responses)] /\ s \in Shards
  BY Zenon DEF TypeOK, Nodes, Active
<1>3. ChunkSize \in Nat /\ Len(Scores[s]) \in Nat
  BY <1>2, StreamSearchAssumption, CorpusAssumption
<1>4. CASE Emit(s)
  <2> DEFINE m == [kind |-> "batch", hits |-> Unit(s), completed |-> FALSE]
  <2>1. Unit(s) \subseteq Hits
    BY <1>2, HitsOfShard, Zenon DEF Unit
  <2>2. m \in Responses /\ m.kind = "batch" /\ m.hits = Unit(s)
    BY <2>1, Zenon DEF Responses
  <2>3. /\ node'[s].start = node[s].start \/ node'[s].start = node[s].start + ChunkSize
        /\ node'[s].completed = node[s].completed
    BY <1>2, <1>4, Zenon DEF Emit, Nodes
  <2>4. node'[s].completed => node'[s].start >= Len(Scores[s])
    BY <1>2, <1>3, <2>3 DEF NothingLost
  <2>5. ASSUME NEW h \in Answers(s), h.slot <= node'[s].start, ~ (h.slot <= node[s].start)
        PROVE  h \in Unit(s)
    <3>1. h \in Hits /\ h \in ShardHits(s) /\ h \in ExactTopK /\ h.slot \in Nat /\ Score(h) \in Int
      BY AnswerFields, HitType, Zenon
    <3>2. ValidFloor(node[s].floor)
      BY Zenon DEF StreamFloorsValid
    <3>3. ~ (Score(h) < node[s].floor)
      BY <1>2, <3>1, <3>2, PrunedIsNoResult, Zenon
    <3>4. node[s].start < h.slot /\ h.slot <= node[s].start + ChunkSize
      BY <1>2, <1>3, <2>3, <2>5, <3>1
    <3> QED
      BY <1>2, <3>1, <3>3, <3>4 DEF Unit
  <2>6. CASE resp'[s] = resp[s]
    <3>1. Unit(s) = {} \/ node'[s].start = node[s].start
      <4>1. CASE Unit(s) # {} /\ rpc[s]
        <5>1. resp' = [resp EXCEPT ![s] = Append(@, m)]
          BY <1>4, <4>1, Zenon DEF Emit, Reply
        <5>2. resp'[s] = Append(resp[s], m) /\ resp[s] \in Seq(Responses)
          BY <1>2, <5>1, Zenon
        <5>3. Len(resp[s]) \in Nat /\ Len(resp'[s]) = Len(resp[s]) + 1
          BY <2>2, <5>2, Appended
        <5> QED
          BY <2>6, <5>3
      <4>2. CASE Unit(s) # {} /\ ~ rpc[s]
        BY <1>2, <1>4, <4>2, Zenon DEF Emit, Nodes
      <4> QED
        BY <4>1, <4>2, Zenon
    <3>2. \A h \in Answers(s) : h.slot <= node'[s].start => h.slot <= node[s].start
      BY <2>5, <3>1, Zenon
    <3> QED
      BY <1>1, <2>4, <2>6, <3>2, LostFrame, Zenon
  <2>7. CASE resp'[s] = Append(resp[s], m)
    <3>1. \A h \in Answers(s) : h.slot <= node'[s].start =>
            h.slot <= node[s].start \/ (m.kind = "batch" /\ h \in m.hits)
      BY <2>2, <2>5, Zenon
    <3>2. ~ (m.kind = "ready" /\ m.completed)
      BY <2>2, Zenon
    <3> HIDE DEF m
    <3> QED
      BY <1>1, <2>2, <2>4, <2>7, <3>1, <3>2, LostAppend, Zenon
  <2>8. resp' = resp \/ resp' = [resp EXCEPT ![s] = Append(@, m)]
    BY <1>4, Zenon DEF Emit, Reply
  <2>9. resp'[s] = resp[s] \/ resp'[s] = Append(resp[s], m)
    <3> HIDE DEF m
    <3> QED
      BY <1>2, <2>8, Zenon
  <2> QED
    BY <2>6, <2>7, <2>9, Zenon
<1>5. CASE ~ Emit(s)
  <2>1. /\ node'[s].start = node[s].start
        /\ node'[s].completed => node[s].completed \/ node[s].start >= Len(Scores[s])
    BY <1>5, ScanFields, Zenon
  <2>2. /\ node'[s].completed => node'[s].start >= Len(Scores[s])
        /\ \A h \in Answers(s) : h.slot <= node'[s].start => h.slot <= node[s].start
    BY <2>1, Zenon DEF NothingLost
  <2>3. CASE resp'[s] = resp[s]
    BY <1>1, <2>2, <2>3, LostFrame, Zenon
  <2>4. ASSUME NEW m \in Responses, resp' = [resp EXCEPT ![s] = Append(@, m)],
               m.kind = "ready" /\ m.completed => node[s].completed
        PROVE  NothingLost(s)'
    <3>1. resp'[s] = Append(resp[s], m)
      BY <1>2, <2>4, Zenon
    <3>2. \A h \in Answers(s) : h.slot <= node'[s].start =>
            h.slot <= node[s].start \/ (m.kind = "batch" /\ h \in m.hits)
      BY <2>2, Zenon
    <3> QED
      BY <1>1, <2>2, <2>4, <3>1, <3>2, LostAppend, Zenon
  <2>5. CASE SendReady(s)
    <3> DEFINE m == [kind |-> "ready", hits |-> {}, completed |-> node[s].completed]
    <3>1. m \in Responses /\ m.completed = node[s].completed
      BY <1>2, Zenon DEF Responses
    <3>2. resp' = [resp EXCEPT ![s] = Append(@, m)]
      BY <2>5, Zenon DEF SendReady, Reply
    <3> HIDE DEF m
    <3> QED
      BY Zenon, <2>4, <3>1, <3>2
  <2>6. CASE SendIdentities(s)
    <3> DEFINE m == [kind |-> "identities", hits |-> {}, completed |-> FALSE]
    <3>1. m \in Responses /\ m.kind # "ready"
      BY Zenon DEF Responses
    <3>2. resp' = [resp EXCEPT ![s] = Append(@, m)]
      BY <2>6, Zenon DEF SendIdentities, Reply
    <3> HIDE DEF m
    <3> QED
      BY Zenon, <2>4, <3>1, <3>2
  <2>7. CASE Finish(s)
    <3> DEFINE m == [kind |-> IF node[s].scan = "answered" THEN "summary" ELSE node[s].scan,
                     hits |-> {},
                     completed |-> node[s].scan = "answered" /\ node[s].completed]
    <3>1. m \in Responses /\ m.kind # "ready"
      <4>1. node[s].scan \in {"answered", "refused", "timeout"}
        BY <2>7, Zenon DEF Finish
      <4>2. m.kind \in {"summary", "refused", "timeout"} /\ m.completed \in BOOLEAN
        BY <1>2, <4>1, Zenon
      <4> QED
        BY <4>2, Zenon DEF Responses
    <3>2. resp' = [resp EXCEPT ![s] = Append(@, m)]
      BY <2>7, Zenon DEF Finish, Reply
    <3> HIDE DEF m
    <3> QED
      BY Zenon, <2>4, <3>1, <3>2
  <2> QED
    BY <1>5, <2>3, <2>5, <2>6, <2>7, ScanFields, Zenon
<1> QED
  BY <1>4, <1>5, Zenon

\* No step of the coordinator does.
LEMMA LostCoord ==
    ASSUME TypeOK, AnswerInv, \A s \in Active : NothingLost(s), CoordAction
    PROVE  \A s \in Active : NothingLost(s)'
<1>1. ASSUME NEW s \in Active, NothingLost(s), node'[s] = node[s], resp'[s] = resp[s],
             certified \subseteq certified', ExactTopK \cap heap \subseteq heap'
      PROVE  NothingLost(s)'
  BY <1>1, LostFrame, Zenon DEF NothingLost
<1>2. CASE UNCHANGED <<node, resp, certified, heap>>
  BY <1>1, <1>2, Zenon
<1>3. ASSUME NEW s \in Active, RecvScan(s) PROVE \A t \in Active : NothingLost(t)'
  <2> DEFINE m == Message(s)
  <2>1. Consume(s) /\ node' = node
    BY <1>3, Zenon DEF RecvScan
  <2>2. /\ certified \subseteq certified' /\ ExactTopK \cap heap \subseteq heap'
        /\ m.kind = "batch" /\ s \notin certified' => ExactTopK \cap m.hits \subseteq heap'
    <3>1. m.hits \in SUBSET Hits
      BY ConsumeTyped, Zenon
    <3>2. CASE m.kind = "batch" /\ s \notin certified
      <4>1. TakeBatch(m.hits)
        BY <1>3, <3>2, Zenon DEF RecvScan
      <4>2. heap' = push_hits(m.hits) /\ certified' = certified
        BY <4>1, Zenon DEF TakeBatch
      <4> HIDE DEF m
      <4> QED
        BY <3>1, <4>2, HeapKeeps, Zenon
    <3>3. CASE ~ (m.kind = "batch" /\ s \notin certified)
      <4>1. TakeReady(s) \/ \E why : cancel_with(why)
        BY <1>3, <3>3, Zenon DEF RecvScan
      <4>2. heap' = heap /\ certified \subseteq certified'
        BY <4>1, Zenon DEF TakeReady, cancel_with, Abandon
      <4> QED
        BY <3>3, <4>2, Zenon
    <3> QED
      BY <3>2, <3>3, Zenon
  <2>3. ASSUME NEW t \in Active, t # s PROVE NothingLost(t)'
    BY <1>1, <2>1, <2>2, <2>3, MessageTaken, Zenon
  <2>4. NothingLost(s)'
    <3>1. CASE resp[s] = <<>>
      BY <1>1, <2>1, <2>2, <3>1, MessageTaken, Zenon
    <3>2. CASE resp[s] # <<>>
      <4>1. resp'[s] = Tail(resp[s]) /\ m = resp[s][1]
        BY <2>1, <3>2, MessageTaken, Zenon
      <4> QED
        BY <2>1, <2>2, <3>2, <4>1, LostTaken, Zenon
    <3> QED
      BY <3>1, <3>2, Zenon
  <2> QED
    BY <2>3, <2>4, Zenon
<1>4. ASSUME NEW s \in Active, RecvResolve(s) PROVE \A t \in Active : NothingLost(t)'
  <2>1. certified = Active
    BY <1>4, Zenon DEF RecvResolve, AnswerInv
  <2>2. certified' = certified /\ node' = node
    BY <1>4, Zenon DEF RecvResolve, cancel_with, Abandon
  <2> QED
    BY <2>1, <2>2, Zenon DEF NothingLost
<1>5. ASSUME NEW s \in Active, Ask(s) \/ AskFails(s) \/ RecvBroken(s) \/ SendStop(s) \/ StreamBreaks(s)
      PROVE  UNCHANGED <<node, resp, certified, heap>>
  BY <1>5, Zenon DEF Ask, AskFails, RecvBroken, SendStop, StreamBreaks, cancel_with, Abandon, nodeVars, coordVars
<1>6. CASE ScanEnds \/ Return \/ CancelEnds \/ IdentityTimeout \/ CallerDrops
  BY Zenon, <1>2, <1>6 DEF ScanEnds, Return, CancelEnds, IdentityTimeout, CallerDrops, DropFanout,
     cancel_with, Abandon, nodeVars
<1> QED
  BY <1>2, <1>3, <1>4, <1>5, <1>6, Zenon DEF CoordAction, CoordStep

\* A search that is given up while it runs keeps what was accepted.
LEMMA AnswerAbandon ==
    ASSUME TypeOK, AnswerInv, NEW why, Abandon(why), Live,
           outcome' = outcome \/ outcome' = "err", fingerprint' = fingerprint
    PROVE  AnswerInv'
<1>1. outcome # "ok" /\ outcome' # "ok" /\ result = {}
  BY Zenon DEF AnswerInv, Live, StreamExact
<1>2. phase' = "cancel" /\ UNCHANGED <<heap, certified, scoring, result>>
  BY Zenon DEF Abandon
<1> QED
  BY <1>1, <1>2, Zenon DEF AnswerInv, CertificateCovers, StreamExact

\* Every step keeps what the answer needs of the coordinator.
LEMMA AnswerStep ==
    ASSUME TypeOK, AnswerInv, \A s \in Active : NothingLost(s), CoordAction
    PROVE  AnswerInv'
<1>1. CASE UNCHANGED <<heap, certified, scoring, fingerprint, phase, outcome, result>>
  BY <1>1, Zenon DEF AnswerInv, CertificateCovers, StreamExact
<1>2. ASSUME NEW s \in Active, RecvScan(s) PROVE AnswerInv'
  <2> DEFINE m == Message(s)
  <2>1. Consume(s) /\ phase = "scan" /\ fingerprint' = fingerprint /\ Live
    BY <1>2, Zenon DEF RecvScan, requestVars, Live
  <2>2. CASE m.kind = "batch" /\ s \notin certified
    <3>1. TakeBatch(m.hits) /\ m.hits \in SUBSET Hits
      BY <1>2, <2>2, ConsumeTyped, Zenon DEF RecvScan
    <3>2. heap' = push_hits(m.hits) /\ UNCHANGED <<certified, scoring, phase, outcome, result>>
      BY <3>1, Zenon DEF TakeBatch
    <3>3. heap' = merge_topk(heap', K) /\ ExactTopK \cap heap \subseteq heap'
      <4> HIDE DEF m
      <4> QED
        BY <3>1, <3>2, HeapKeeps, Zenon
    <3> QED
      BY <2>1, <3>2, <3>3, Zenon DEF AnswerInv, CertificateCovers, StreamExact
  <2>3. CASE TakeReady(s) /\ m.kind = "ready" /\ s \notin certified /\ m.completed
             /\ scoring \subseteq {fingerprint[s]}
    <3>1. resp[s] # <<>> /\ m = resp[s][1] /\ resp[s] \in Seq(Responses)
      BY <2>1, <2>3, MessageTaken, Zenon DEF TypeOK
    <3>2. 1 \in 1..Len(resp[s])
      BY <3>1, Taken
    <3>3. ASSUME NEW h \in Answers(s) PROVE h \in heap
      <4>1. Kept(s, h, 1)
        BY <2>3, <3>1, <3>2, Zenon DEF NothingLost
      <4>2. ~ \E i \in 1..1 : resp[s][i].kind = "batch"
        BY <2>3, <3>1
      <4> QED
        BY <4>1, <4>2, Zenon DEF Kept
    <3>4. /\ certified' = certified \cup {s} /\ scoring' = {fingerprint[s]}
          /\ UNCHANGED <<phase, heap, outcome, result>>
      BY <2>3, Zenon DEF TakeReady
    <3>5. CertificateCovers'
      BY <3>3, <3>4, Zenon DEF AnswerInv, CertificateCovers, Answers
    <3>6. ASSUME NEW t \in certified' PROVE scoring' = {fingerprint'[t]}
      BY <2>1, <2>3, <3>4, <3>6, Zenon DEF AnswerInv
    <3> QED
      BY <2>1, <3>4, <3>5, <3>6, Zenon DEF AnswerInv, StreamExact
  <2>4. CASE \E why : cancel_with(why)
    BY <2>1, <2>4, AnswerAbandon, Zenon DEF cancel_with
  <2> QED
    BY <1>2, <2>2, <2>3, <2>4, Zenon DEF RecvScan
<1>3. CASE ScanEnds
  <2>1. CASE known
    <3>1. /\ phase' \in {"ask", "resolve"} /\ certified = Active /\ outcome # "ok"
          /\ UNCHANGED <<heap, certified, scoring, fingerprint, outcome, result>>
      BY <1>3, <2>1, Zenon DEF ScanEnds, requestVars, AnswerInv
    <3> QED
      BY <3>1, Zenon DEF AnswerInv, CertificateCovers, StreamExact
  <2>2. CASE ~ known
    BY <1>3, <2>2, AnswerAbandon, Zenon DEF ScanEnds, DropFanout, requestVars, Live
  <2> QED
    BY <2>1, <2>2, Zenon
<1>4. ASSUME NEW s \in Active, Ask(s) PROVE AnswerInv'
  <2>1. /\ phase = "ask" /\ phase' \in {"ask", "resolve"}
        /\ UNCHANGED <<heap, certified, scoring, fingerprint, outcome, result>>
    BY <1>4, Zenon DEF Ask, requestVars
  <2> QED
    BY <2>1, Zenon DEF AnswerInv, CertificateCovers, StreamExact
<1>5. ASSUME NEW s \in Active, RecvResolve(s) PROVE AnswerInv'
  BY <1>1, <1>5, AnswerAbandon, Zenon DEF RecvResolve, cancel_with, requestVars, Live
<1>6. ASSUME NEW s \in Active, AskFails(s) \/ RecvBroken(s) PROVE AnswerInv'
  BY <1>6, AnswerAbandon, Zenon DEF AskFails, RecvBroken, cancel_with, requestVars, Live
<1>7. ASSUME NEW s \in Active, SendStop(s) \/ StreamBreaks(s) PROVE AnswerInv'
  BY <1>1, <1>7, Zenon DEF SendStop, StreamBreaks, requestVars, coordVars
<1>8. CASE Return
  <2>1. /\ phase = "resolve" /\ certified = Active /\ result' = heap
        /\ phase' = "ended" /\ outcome' = "ok"
        /\ UNCHANGED <<heap, certified, scoring, fingerprint>>
    BY <1>8, Zenon DEF Return, AnswerInv, requestVars
  <2>2. ExactTopK \subseteq heap
    <3> SUFFICES ASSUME NEW h \in ExactTopK PROVE h \in heap
      BY Zenon
    <3>1. h \in Hits
      BY Zenon DEF ExactTopK, merge_topk
    <3>2. h.shard \in Shards /\ h \in ShardHits(h.shard)
      BY <3>1, HitType, Zenon
    <3>3. h.shard \in Active
      BY <3>2, StreamSearchAssumption, Zenon DEF Active
    <3> QED
      BY <2>1, <3>2, <3>3, Zenon DEF AnswerInv, CertificateCovers
  <2>3. heap = ExactTopK
    BY Zenon, <2>2, MergeExact DEF TypeOK, AnswerInv
  <2>4. ASSUME NEW s \in Active, NEW t \in Active PROVE fingerprint[s] = fingerprint[t]
    <3>1. scoring = {fingerprint[s]} /\ scoring = {fingerprint[t]}
      BY <2>1, Zenon DEF AnswerInv
    <3> QED
      BY <3>1, Zenon
  <2> QED
    BY <2>1, <2>3, <2>4, Zenon DEF AnswerInv, CertificateCovers, StreamExact
<1>9. CASE CancelEnds
  BY <1>9, Zenon DEF CancelEnds, AnswerInv, CertificateCovers, StreamExact, requestVars
<1>10. CASE IdentityTimeout \/ CallerDrops
  BY <1>10, AnswerAbandon, Zenon DEF IdentityTimeout, CallerDrops, cancel_with, DropFanout, requestVars, Live
<1> QED
  BY <1>2, <1>3, <1>4, <1>5, <1>6, <1>7, <1>8, <1>9, <1>10, Zenon DEF CoordAction, CoordStep

(* Nothing is lost before the scans start.                                  *)
LEMMA LosslessInit == Init => Lossless
<1> SUFFICES ASSUME Init PROVE Lossless
  BY Zenon
<1>1. ValidFloor(InitialFloor) /\ \A s \in Active : s \in Shards /\ Len(Scores[s]) \in Nat
  BY StreamSearchAssumption, CorpusAssumption DEF Active
<1>2. StreamFloorsValid
  BY <1>1 DEF Init, StreamFloorsValid
<1>3. ASSUME NEW s \in Active PROVE NothingLost(s)
  <2>1. /\ node[s].start = 0 /\ ~ node[s].completed /\ resp[s] = <<>>
    BY Zenon DEF Init
  <2>2. ASSUME NEW h \in Answers(s) PROVE ~ (h.slot <= 0)
    <3>1. s \in Shards /\ h \in ShardHits(s)
      BY Zenon DEF Active, Answers
    <3>2. h.slot \in 1..Len(Scores[s])
      BY <3>1 DEF ShardHits
    <3> QED
      BY <1>1, <3>2
  <2>3. 1..Len(resp[s]) = {}
    BY <2>1
  <2> QED
    BY <2>1, <2>2, <2>3, Zenon DEF NothingLost
<1>4. AnswerInv
  BY Zenon DEF Init, AnswerInv, CertificateCovers, StreamExact, merge_topk
<1> QED
  BY <1>2, <1>3, <1>4, Zenon DEF Lossless

(* No step of a node, a pump, a datagram or the coordinator loses a hit of  *)
(* the answer.                                                              *)
LEMMA LosslessStep == TypeOK /\ Lossless /\ [Next]_vars => Lossless'
<1> SUFFICES ASSUME TypeOK, Lossless, [Next]_vars PROVE Lossless'
  BY Zenon
<1>1. StreamFloorsValid /\ AnswerInv /\ \A s \in Active : NothingLost(s)
  BY Zenon DEF Lossless
<1>2. ASSUME NEW s \in Active, NodeAction(s) PROVE Lossless'
  <2>1. StreamFloorsValid'
    BY <1>1, <1>2, FloorsNode, Zenon
  <2>2. UNCHANGED coordVars /\ UNCHANGED requestVars
        /\ \A t \in Active \ {s} : node'[t] = node[t] /\ resp'[t] = resp[t]
    BY <1>2, NodeFrame, Zenon
  <2>3. AnswerInv'
    BY <1>1, <2>2, Zenon DEF AnswerInv, CertificateCovers, StreamExact, coordVars, requestVars
  <2>4. ASSUME NEW t \in Active \ {s} PROVE NothingLost(t)'
    BY <1>1, <2>2, <2>4, LostFrame, Zenon DEF coordVars, NothingLost
  <2>5. NothingLost(s)'
    BY <1>1, <1>2, LostNode, Zenon
  <2> QED
    BY <2>1, <2>3, <2>4, <2>5, Zenon DEF Lossless
<1>3. CASE CoordAction
  BY <1>1, <1>3, FloorsCoord, LostCoord, AnswerStep, Zenon DEF Lossless
<1>4. CASE UNCHANGED vars
  <2>1. UNCHANGED <<fingerprint, node, req, resp, lane, phase, heap, lastFloor, certified, scoring,
                    outcome, result>>
    BY <1>4, Zenon DEF vars, nodeVars, coordVars, requestVars
  <2>2. StreamFloorsValid' /\ AnswerInv'
    BY <1>1, <2>1, Zenon DEF StreamFloorsValid, AnswerInv, CertificateCovers, StreamExact
  <2>3. \A s \in Active : NothingLost(s)'
    BY <1>1, <2>1, LostFrame, Zenon DEF NothingLost
  <2> QED
    BY <2>2, <2>3, Zenon DEF Lossless
<1> QED
  BY <1>2, <1>3, <1>4, NextSplit, Zenon

-----------------------------------------------------------------------------
\* Every floor the search makes up, on the coordinator, in a request channel,
\* in a datagram or on a node, is reached by K admitted hits of the corpus.
THEOREM StreamFloorsAreValid == Spec => []StreamFloorsValid
<1>1. TypeOK /\ Lossless /\ [Next]_vars => (TypeOK /\ Lossless)'
  BY TypeStep, LosslessStep, Zenon
<1>2. Lossless => StreamFloorsValid
  BY Zenon DEF Lossless
<1> QED
  BY <1>1, <1>2, TypeInit, LosslessInit, PTL DEF Spec

\* A certificate the coordinator accepts covers its shard: no hit of the exact
\* answer that lives there is missing from the heap from then on.
THEOREM CertificatesCover == Spec => []CertificateCovers
<1>1. TypeOK /\ Lossless /\ [Next]_vars => (TypeOK /\ Lossless)'
  BY TypeStep, LosslessStep, Zenon
<1>2. Lossless => CertificateCovers
  BY Zenon DEF Lossless, AnswerInv
<1> QED
  BY <1>1, <1>2, TypeInit, LosslessInit, PTL DEF Spec

\* The streaming search answers with the exact top-k under one scoring
\* fingerprint, or not at all.
THEOREM StreamIsExact == Spec => []StreamExact
<1>1. TypeOK /\ Lossless /\ [Next]_vars => (TypeOK /\ Lossless)'
  BY TypeStep, LosslessStep, Zenon
<1>2. Lossless => StreamExact
  BY Zenon DEF Lossless, AnswerInv
<1> QED
  BY <1>1, <1>2, TypeInit, LosslessInit, PTL DEF Spec
=============================================================================
