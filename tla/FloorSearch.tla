---------------------------- MODULE FloorSearch ----------------------------
(***************************************************************************)
(* The floor-sharing fan-out of one vector search: Coordinator::           *)
(* fanout_search, run_shard_with_hedge and run_shard_stream on the         *)
(* coordinator, the search_shard handler and chunked_topk_batch_observed   *)
(* on the nodes.                                                           *)
(*                                                                         *)
(* Every shard is scanned chunk by chunk.  Between chunks the scan adopts  *)
(* the highest floor the coordinator has pushed, prunes below it, and once *)
(* it holds K hits offers its own K-th score.  The coordinator keeps the   *)
(* maximum of the offers and pushes it to all shards.  Floors travel on    *)
(* bounded channels with try_send, so any of them may be dropped; only the *)
(* terminal Done is sent with await.  A shard may have a replica: it is    *)
(* opened when the primary fails, or after hedge_delay, and the first Done *)
(* settles the shard.                                                      *)
(*                                                                         *)
(* An attempt <<s, leg>> is one SearchShard stream.  A scan that the       *)
(* coordinator abandoned goes on in the code, but nothing it does is read  *)
(* by anyone, so its steps end here with the stream.                       *)
(***************************************************************************)
EXTENDS Corpus

CONSTANTS
    Skipped,      \* shards the scan mask proved to hold no matching row
    Replicated,   \* shards with a replica address
    Hedging,      \* hedge_delay is configured
    Deadline,     \* shard_deadline is configured
    ColumnsKnown, \* whether some shard knows every column the filters name: what may be
    KeepTies,     \* tie_complete
    Sharing,      \* shards whose node has share_floors on
    Debounce,     \* floor_min_interval_ms > 0
    WarmupChunks, \* floor_warmup_chunks
    FloorDelta,   \* floor_delta
    ChunkSize,    \* slots per chunk
    RequestCap,   \* capacity of the request channel (8 in the code)
    ResponseCap   \* capacity of the response channel (64 in the code)

ASSUME FloorSearchAssumption ==
    /\ Skipped \subseteq Shards /\ \A s \in Skipped : ShardHits(s) = {}
    /\ Replicated \subseteq Shards
    /\ Sharing \subseteq Shards
    /\ Hedging \in BOOLEAN /\ Deadline \in BOOLEAN
    /\ KeepTies \in BOOLEAN /\ Debounce \in BOOLEAN /\ ColumnsKnown \subseteq BOOLEAN
    /\ WarmupChunks \in Nat /\ FloorDelta \in Nat
    /\ ChunkSize \in Nat \ {0}
    /\ RequestCap \in Nat \ {0} /\ ResponseCap \in Nat \ {0}

Active == Shards \ Skipped
Legs == {"primary", "replica"}
Attempts == Active \X Legs
LegStates == {"idle", "opening", "opened", "seeded", "streaming", "ok", "failed", "dropped"}

VARIABLES
    leg,        \* leg[a]: where run_shard_stream is with attempt a
    stream,     \* stream[a]: the stream of a, its channels and the node's task
    raise,      \* raise[s]: a floor s's task observed as a raise, not yet broadcast
    tracker,    \* the FloorTracker
    gfloor,     \* the broadcast watch cell
    shardRes,   \* shardRes[s]: what run_shard_with_hedge returned
    shardHits,  \* shardHits[s]: the hits of the Done that settled s
    collected,  \* shards whose result the fan-out has received
    outcome,    \* "pending", "ok" or "err"
    result      \* the merged answer

vars == <<leg, stream, raise, tracker, gfloor, shardRes, shardHits, collected, outcome, result>>

Floors == {NegInf} \cup {Score(h) : h \in Hits}

Streams ==
    [seen : Floors,          \* the broadcast value the forwarder has relayed
     inbox : Seq(Floors),    \* floors on their way to the node
     outbox : Seq(Floors),   \* floors on their way to the coordinator
     scan : {"idle", "scanning", "sent"},  \* "sent": Done is in the channel
     start : Nat,            \* slots scanned so far
     heap : SUBSET Hits,     \* the running top-k
     cell : Floors,          \* the watch cell the pump folds pushed floors into
     offers : Nat,           \* floors the scan has offered to publish_floor
     published : Floors]     \* last_published

TypeOK ==
    /\ leg \in [Attempts -> LegStates]
    /\ stream \in [Attempts -> Streams]
    /\ \A a \in Attempts : /\ Len(stream[a].inbox) <= RequestCap
                           /\ Len(stream[a].outbox) <= ResponseCap
                           /\ stream[a].start <= Len(Scores[a[1]])
    /\ raise \in [Active -> Floors]
    /\ tracker \in Floors
    /\ gfloor \in Floors
    /\ shardRes \in [Active -> {"pending", "ok", "err"}]
    /\ shardHits \in [Active -> SUBSET Hits]
    /\ collected \subseteq Active
    /\ outcome \in {"pending", "ok", "err"}
    /\ result \subseteq Hits

NoStream ==
    [seen |-> NegInf, inbox |-> <<>>, outbox |-> <<>>, scan |-> "idle", start |-> 0,
     heap |-> {}, cell |-> NegInf, offers |-> 0, published |-> NegInf]

Init ==
    /\ leg = [a \in Attempts |-> IF a[2] = "primary" THEN "opening" ELSE "idle"]
    /\ stream = [a \in Attempts |-> NoStream]
    /\ raise = [s \in Active |-> NegInf]
    /\ tracker = NegInf
    /\ gfloor = NegInf
    /\ shardRes = [s \in Active |-> "pending"]
    /\ shardHits = [s \in Active |-> {}]
    /\ collected = {}
    /\ outcome = "pending"
    /\ result = {}

-----------------------------------------------------------------------------
(***************************************************************************)
(* The node: the search_shard handler and its scan.                        *)
(***************************************************************************)
\* The stream of a is open on both sides, and its query still wants it.
Live(a) == outcome = "pending" /\ leg[a] \in {"opened", "seeded", "streaming"}

Scanning(a) == Live(a) /\ stream[a].scan = "scanning"

\* mpsc try_send: a message that finds the channel full is dropped.
try_send(channel, message, capacity) ==
    IF Len(channel) < capacity THEN Append(channel, message) ELSE channel

\* A node step changes nothing but its own stream.
OnlyStream(a, new) ==
    /\ stream' = [stream EXCEPT ![a] = new]
    /\ UNCHANGED <<leg, raise, tracker, gfloor, shardRes, shardHits, collected, outcome, result>>

\* The pump task: pushed floors fold into the cell, raises only.
RecvFloor(a) ==
    /\ Scanning(a) /\ stream[a].inbox # <<>>
    /\ OnlyStream(a, [stream[a] EXCEPT !.cell = MaxFloor(@, Head(stream[a].inbox)),
                                       !.inbox = Tail(@)])

\* What publish_floor can do with the floor f offered by stream st.  The
\* share, warmup, delta and debounce gates come in this order.  A full channel
\* drops the message, and the floor still counts as published.
publish_floor(s, st, f) ==
    LET offered == [st EXCEPT !.offers = @ + 1]
        sent == [offered EXCEPT !.published = f, !.outbox = try_send(@, f, ResponseCap)]
        first == st.published = NegInf
    IN  IF s \notin Sharing THEN {st}
        ELSE IF st.offers < WarmupChunks \/ (~first /\ f <= st.published + FloorDelta)
             THEN {offered}
             ELSE IF Debounce /\ ~first THEN {sent, offered} ELSE {sent}

\* The slots of the next chunk that the filters admit.
Chunk(a) ==
    {h \in ShardHits(a[1]) : stream[a].start < h.slot /\ h.slot <= stream[a].start + ChunkSize}

\* The floor the query's candidates are held to in the next chunk.
QueryFloor(s, st) ==
    MaxFloor(IF s \in Sharing THEN st.cell ELSE NegInf,
             IF Cardinality(st.heap) >= K THEN KthScore(st.heap) ELSE NegInf)

\* Mutated form of search_with_options: the threshold is exclusive.
search_with_options_Strict(chunk, threshold) ==
    LET kept == {h \in chunk : Score(h) > threshold}
    IN  IF KeepTies THEN kept ELSE LocalTop(kept, K)

\* One kernel call over a chunk: the best hits at or above its threshold,
\* K of them unless a tie-complete query lifts the cap.
search_with_options(chunk, threshold) ==
    LET kept == {h \in chunk : Score(h) >= threshold}
    IN  IF KeepTies THEN kept ELSE LocalTop(kept, K)

\* The running top-k takes in a chunk's hits.
merge_chunk_hits(heap, hits) ==
    IF KeepTies THEN TieTop(heap \cup hits, K) ELSE LocalTop(heap \cup hits, K)

\* One pass of the scan loop.  The kernel threshold is the minimum over the
\* queries batched into the call, so a neighbour can lower it below this
\* query's own floor; the floor is applied again to what comes back.
ScanChunk(a) ==
    LET s == a[1]
        n == Len(Scores[s])
        st == stream[a]
        floor == QueryFloor(s, st)
        advanced == [st EXCEPT !.start = IF @ + ChunkSize < n THEN @ + ChunkSize ELSE n]
    IN  /\ Scanning(a) /\ st.start < n
        /\ IF Chunk(a) = {}
           THEN OnlyStream(a, advanced)
           ELSE \E threshold \in {NegInf, floor} :
                  LET hits == {h \in search_with_options(Chunk(a), threshold) : Score(h) >= floor}
                      merged == [advanced EXCEPT !.heap = merge_chunk_hits(@, hits)]
                  IN  \E new \in IF Cardinality(merged.heap) >= K
                                 THEN publish_floor(s, merged, KthScore(merged.heap))
                                 ELSE {merged} :
                        OnlyStream(a, new)

\* The terminal Done waits for room in the channel.
SendDone(a) ==
    /\ Scanning(a) /\ stream[a].start = Len(Scores[a[1]])
    /\ Len(stream[a].outbox) < ResponseCap
    /\ OnlyStream(a, [stream[a] EXCEPT !.scan = "sent"])

-----------------------------------------------------------------------------
(***************************************************************************)
(* run_shard_stream: one attempt as the coordinator sees it.               *)
(***************************************************************************)
\* The task of shard s is at an await.  Both attempts of a shard run inside
\* this one task; its only point another task can see half done is between
\* observing a raise and broadcasting it.
Ready(s) == outcome = "pending" /\ shardRes[s] = "pending" /\ raise[s] = NegInf

\* Start reaches the node, which answers the call and begins its scan.
Open(a) ==
    /\ Ready(a[1]) /\ leg[a] = "opening"
    /\ leg' = [leg EXCEPT ![a] = "opened"]
    /\ stream' = [stream EXCEPT ![a].scan = "scanning"]
    /\ UNCHANGED <<raise, tracker, gfloor, shardRes, shardHits, collected, outcome, result>>

\* A late starter is seeded with the floor broadcast so far.
Seed(a) ==
    /\ Ready(a[1]) /\ leg[a] = "opened"
    /\ leg' = [leg EXCEPT ![a] = "seeded"]
    /\ \/ gfloor = NegInf /\ UNCHANGED stream
       \/ gfloor # NegInf /\ stream' = [stream EXCEPT ![a].inbox = try_send(@, gfloor, RequestCap)]
    /\ UNCHANGED <<raise, tracker, gfloor, shardRes, shardHits, collected, outcome, result>>

\* subscribe() marks the current broadcast as seen: a raise that fell between
\* the seed and this step is not relayed.
Subscribe(a) ==
    /\ Ready(a[1]) /\ leg[a] = "seeded"
    /\ leg' = [leg EXCEPT ![a] = "streaming"]
    /\ stream' = [stream EXCEPT ![a].seen = gfloor]
    /\ UNCHANGED <<raise, tracker, gfloor, shardRes, shardHits, collected, outcome, result>>

\* The conflating forwarder, a task of its own, relays the latest broadcast,
\* or drops it when the request channel is full.
Forward(a) ==
    /\ Live(a) /\ leg[a] = "streaming" /\ stream[a].seen # gfloor
    /\ OnlyStream(a, [stream[a] EXCEPT !.seen = gfloor,
                         !.inbox = try_send(@, gfloor, RequestCap)])

\* A FloorUpdate from the shard: FloorTracker::observe, under its mutex.
Observe(a) ==
    /\ Ready(a[1]) /\ leg[a] = "streaming" /\ stream[a].outbox # <<>>
    /\ stream' = [stream EXCEPT ![a].outbox = Tail(@)]
    /\ IF Head(stream[a].outbox) > tracker
       THEN /\ tracker' = Head(stream[a].outbox)
            /\ raise' = [raise EXCEPT ![a[1]] = Head(stream[a].outbox)]
       ELSE UNCHANGED <<tracker, raise>>
    /\ UNCHANGED <<leg, gfloor, shardRes, shardHits, collected, outcome, result>>

\* The raise goes out after the mutex is released: only a strict raise of the
\* broadcast value is stored.
Broadcast(s) ==
    /\ outcome = "pending" /\ raise[s] # NegInf
    /\ gfloor' = MaxFloor(gfloor, raise[s])
    /\ raise' = [raise EXCEPT ![s] = NegInf]
    /\ UNCHANGED <<leg, stream, tracker, shardRes, shardHits, collected, outcome, result>>

-----------------------------------------------------------------------------
(***************************************************************************)
(* run_shard_with_hedge: one shard as the coordinator sees it.  A stream   *)
(* that is over is dropped with everything it holds.                       *)
(***************************************************************************)
Other(a) == <<a[1], IF a[2] = "primary" THEN "replica" ELSE "primary">>

Running(a) == leg[a] \in {"opening", "opened", "seeded", "streaming"}

DropStreams(s) == stream' = [a \in Attempts |-> IF a[1] = s THEN NoStream ELSE stream[a]]

\* Done: the first one settles the shard, and the other attempt is dropped.
RecvDone(a) ==
    /\ Ready(a[1]) /\ leg[a] = "streaming"
    /\ stream[a].scan = "sent" /\ stream[a].outbox = <<>>
    /\ leg' = [leg EXCEPT ![a] = "ok", ![Other(a)] = IF Running(Other(a)) THEN "dropped" ELSE @]
    /\ shardRes' = [shardRes EXCEPT ![a[1]] = "ok"]
    /\ shardHits' = [shardHits EXCEPT ![a[1]] = stream[a].heap]
    /\ DropStreams(a[1])
    /\ UNCHANGED <<raise, tracker, gfloor, collected, outcome, result>>

\* Mutated form of StreamFails: the last attempt fails and nobody is told.
StreamFails_Silent(a) ==
    /\ Ready(a[1]) /\ Running(a)
    /\ leg' = [leg EXCEPT ![a] = "failed"]
    /\ stream' = [stream EXCEPT ![a] = NoStream]
    /\ UNCHANGED <<raise, tracker, gfloor, shardRes, shardHits, collected, outcome, result>>

\* The stream breaks, closes before Done, or answers with an error: go to an
\* unused replica, leave it to an attempt still running, or fail the shard.
StreamFails(a) ==
    /\ Ready(a[1]) /\ Running(a)
    /\ \/ /\ leg[Other(a)] = "idle" /\ a[1] \in Replicated
          /\ leg' = [leg EXCEPT ![a] = "failed", ![Other(a)] = "opening"]
          /\ UNCHANGED shardRes
       \/ /\ Running(Other(a))
          /\ leg' = [leg EXCEPT ![a] = "failed"]
          /\ UNCHANGED shardRes
       \/ /\ leg[Other(a)] = "failed" \/ a[1] \notin Replicated
          /\ leg' = [leg EXCEPT ![a] = "failed"]
          /\ shardRes' = [shardRes EXCEPT ![a[1]] = "err"]
    /\ stream' = [stream EXCEPT ![a] = NoStream]
    /\ UNCHANGED <<raise, tracker, gfloor, shardHits, collected, outcome, result>>

\* hedge_delay passed with the primary still running.
HedgeFires(s) ==
    /\ Ready(s) /\ Hedging /\ s \in Replicated
    /\ Running(<<s, "primary">>) /\ leg[<<s, "replica">>] = "idle"
    /\ leg' = [leg EXCEPT ![<<s, "replica">>] = "opening"]
    /\ UNCHANGED <<stream, raise, tracker, gfloor, shardRes, shardHits, collected, outcome, result>>

\* shard_deadline passed: the attempts are dropped with their future.
DeadlineFires(s) ==
    /\ Ready(s) /\ Deadline
    /\ shardRes' = [shardRes EXCEPT ![s] = "err"]
    /\ leg' = [a \in Attempts |-> IF a[1] = s /\ Running(a) THEN "dropped" ELSE leg[a]]
    /\ DropStreams(s)
    /\ UNCHANGED <<raise, tracker, gfloor, shardHits, collected, outcome, result>>

-----------------------------------------------------------------------------
(***************************************************************************)
(* fanout_search: collect one result per active shard, merge.              *)
(***************************************************************************)
\* The first shard error fails the whole search.
Collect(s) ==
    /\ outcome = "pending" /\ shardRes[s] # "pending" /\ s \notin collected
    /\ IF shardRes[s] = "err"
       THEN outcome' = "err" /\ UNCHANGED collected
       ELSE collected' = collected \cup {s} /\ UNCHANGED outcome
    /\ UNCHANGED <<leg, stream, raise, tracker, gfloor, shardRes, shardHits, result>>

\* A filter on a column no shard knows is refused, not answered with nothing.
RefuseUnknown ==
    /\ outcome = "pending" /\ collected = Active /\ FALSE \in ColumnsKnown
    /\ outcome' = "err"
    /\ UNCHANGED <<leg, stream, raise, tracker, gfloor, shardRes, shardHits, collected, result>>

\* Mutated form of Return: a refused search is answered after all.
Return_AfterRefusal ==
    /\ outcome # "ok" /\ collected = Active /\ TRUE \in ColumnsKnown
    /\ outcome' = "ok"
    /\ result' = merge_topk(UNION {shardHits[s] : s \in Active}, K)
    /\ UNCHANGED <<leg, stream, raise, tracker, gfloor, shardRes, shardHits, collected>>

Return ==
    /\ outcome = "pending" /\ collected = Active /\ TRUE \in ColumnsKnown
    /\ outcome' = "ok"
    /\ result' = merge_topk(UNION {shardHits[s] : s \in Active}, K)
    /\ UNCHANGED <<leg, stream, raise, tracker, gfloor, shardRes, shardHits, collected>>

-----------------------------------------------------------------------------
NodeStep(a) == RecvFloor(a) \/ ScanChunk(a) \/ SendDone(a)

StreamStep(a) == Open(a) \/ Seed(a) \/ Subscribe(a) \/ Forward(a) \/ Observe(a) \/ RecvDone(a)

Next ==
    \/ \E a \in Attempts : NodeStep(a) \/ StreamStep(a) \/ StreamFails(a)
    \/ \E s \in Active : Broadcast(s) \/ HedgeFires(s) \/ DeadlineFires(s) \/ Collect(s)
    \/ Return \/ RefuseUnknown

Spec == Init /\ [][Next]_vars

-----------------------------------------------------------------------------
(***************************************************************************)
(* Safety.                                                                 *)
(***************************************************************************)
\* Losslessness of every floor, wherever it is: in the tracker, broadcast,
\* on its way to or from a node, or adopted by a scan.  At least K admitted
\* hits of the corpus score at or above it, so pruning strictly below it
\* cannot lose a result (chunked.rs, "Losslessness").
FloorsAreLowerBounds ==
    /\ ValidFloor(tracker) /\ ValidFloor(gfloor)
    /\ \A s \in Active : ValidFloor(raise[s])
    /\ \A a \in Attempts :
         /\ ValidFloor(stream[a].seen) /\ ValidFloor(stream[a].cell)
         /\ ValidFloor(stream[a].published)
         /\ \A i \in 1..Len(stream[a].inbox) : ValidFloor(stream[a].inbox[i])
         /\ \A i \in 1..Len(stream[a].outbox) : ValidFloor(stream[a].outbox[i])

\* An answered search returns exactly the top K of the admitted corpus: no
\* floor, dropped message, hedge, failover or batch neighbour changes it.
ExactResult == outcome = "ok" => result = ExactTopK

\* A tie-complete fan-out keeps, across the shard lists, every hit that
\* scores at least the corpus's K-th best score, so the cascade's
\* score-defined cutoff sees whole tie groups.
TieComplete ==
    (outcome = "ok" /\ KeepTies) =>
        TieTop(Hits, K) \subseteq UNION {shardHits[s] : s \in Active}

\* A shard fails only when every attempt it was entitled to failed or its
\* deadline passed; a hedge that fails never takes a live primary with it.
ShardFailureHasCause ==
    \A s \in Active : shardRes[s] = "err" =>
        \/ Deadline
        \/ /\ leg[<<s, "primary">>] = "failed"
           /\ s \in Replicated => leg[<<s, "replica">>] = "failed"

\* The broadcast floor and every floor a scan has adopted only rise, although
\* shard tasks race between observing a raise and broadcasting it.
FloorsOnlyRise ==
    [][/\ tracker' >= tracker /\ gfloor' >= gfloor
       /\ \A a \in Attempts : Live(a)' => /\ stream'[a].cell >= stream[a].cell
                                          /\ stream'[a].published >= stream[a].published]_vars

\* fanout_search gives its caller one answer, the exact one, or one error, and
\* no late Done, floor or hedge changes it after that.
Abstract == INSTANCE ExactSearch WITH Exact <- ExactTopK
Implements == Abstract!Spec

-----------------------------------------------------------------------------

\* Every search is answered or refused.
Terminates == <>(outcome # "pending")
=============================================================================
