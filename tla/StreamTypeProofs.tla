-------------------------- MODULE StreamTypeProofs --------------------------
(***************************************************************************)
(* The types of the streaming exchange, and what each kind of step leaves  *)
(* alone: the facts that the proofs about its answers (StreamSearchProofs) *)
(* and about its refusals (StreamHandshakeProofs) both rest on.            *)
(***************************************************************************)
EXTENDS StreamSearch, CorpusProofs

-----------------------------------------------------------------------------
(***************************************************************************)
(* Types.                                                                  *)
(***************************************************************************)
\* A handler's record keeps its type when fields are replaced.
LEMMA NodeFields ==
    ASSUME NEW n \in Nodes
    PROVE  /\ \A v \in {"scanning", "polled", "scanned", "marked", "waiting", "resolved",
                        "answered", "refused", "timeout", "done"} :
                [n EXCEPT !.scan = v] \in Nodes
           /\ \A v \in Nat : [n EXCEPT !.start = v] \in Nodes
           /\ \A v \in Int : /\ [n EXCEPT !.floor = v] \in Nodes
                             /\ [n EXCEPT !.cell = v] \in Nodes
           /\ \A v \in Nat : [n EXCEPT !.last = v] \in Nodes
           /\ \A v \in BOOLEAN : /\ [n EXCEPT !.cancelled = v] \in Nodes
                                 /\ [n EXCEPT !.ready = v] \in Nodes
                                 /\ [n EXCEPT !.completed = v] \in Nodes
           /\ \A v \in {"running", "selected", "stopped", "failed"} :
                [n EXCEPT !.pump = v] \in Nodes
  BY Zenon DEF Nodes

\* What a step of one handler may do to the types: a new record, a message
\* appended to its response path or taken from its request channel.
LEMMA HandlerTyped ==
    ASSUME TypeOK, NEW s \in Active, NEW n \in Nodes, node' = [node EXCEPT ![s] = n],
           \/ UNCHANGED <<req, resp>>
           \/ /\ req' = [req EXCEPT ![s] = Tail(@)] /\ req[s] # <<>> /\ UNCHANGED resp
           \/ /\ \E m \in Responses : resp' = [resp EXCEPT ![s] = Append(@, m)]
              /\ Room(s) /\ UNCHANGED req,
           NodeUnchanged
    PROVE  TypeOK'
<1>1. node' \in [Active -> Nodes]
  BY Zenon DEF TypeOK
<1>2. req' \in [Active -> Seq(Requests)] /\ \A t \in Active : Len(req'[t]) <= RequestCap
  <2>1. CASE UNCHANGED req
    BY <2>1, Zenon DEF TypeOK
  <2>2. CASE req' = [req EXCEPT ![s] = Tail(@)] /\ req[s] # <<>>
    <3>1. req[s] \in Seq(Requests) /\ Len(req[s]) <= RequestCap /\ req[s] # <<>>
      BY <2>2, Zenon DEF TypeOK
    <3>2. Tail(req[s]) \in Seq(Requests) /\ Len(Tail(req[s])) <= RequestCap
      BY <3>1, StreamSearchAssumption
    <3> QED
      BY <2>2, <3>2, Zenon DEF TypeOK
  <2> QED
    BY <2>1, <2>2, Zenon
<1>3. resp' \in [Active -> Seq(Responses)] /\ \A t \in Active : Len(resp'[t]) <= ResponseCap
  <2>1. CASE UNCHANGED resp
    BY <2>1, Zenon DEF TypeOK
  <2>2. CASE Room(s) /\ \E m \in Responses : resp' = [resp EXCEPT ![s] = Append(@, m)]
    <3>1. PICK m \in Responses : resp' = [resp EXCEPT ![s] = Append(@, m)]
      BY Zenon, <2>2
    <3>2. resp[s] \in Seq(Responses) /\ Len(resp[s]) < ResponseCap
      BY <2>2, Zenon DEF TypeOK, Room
    <3>3. Append(resp[s], m) \in Seq(Responses) /\ Len(Append(resp[s], m)) <= ResponseCap
      BY <3>1, <3>2, StreamSearchAssumption
    <3> QED
      BY <3>1, <3>3, Zenon DEF TypeOK
  <2> QED
    BY <2>1, <2>2, Zenon
<1> QED
  BY <1>1, <1>2, <1>3, Zenon DEF TypeOK, NodeUnchanged, requestVars, coordVars

\* The kernel, the pump, the datagrams and the identity exchange of a node.
LEMMA NodeStepTyped ==
    ASSUME TypeOK, NEW s \in Active, NodeStep(s) \/ PumpStep(s) \/ Datagram(s)
    PROVE  TypeOK'
<1> DEFINE n == node[s]
<1>1. n \in Nodes /\ node \in [Active -> Nodes] /\ Len(Scores[s]) \in Nat
  BY CorpusAssumption DEF TypeOK, Active
<1>2. n.start \in Nat /\ n.floor \in Int /\ n.cell \in Int /\ n.last \in Nat
  BY <1>1, Zenon DEF Nodes
<1>3. CASE Poll(s)
  <2>1. MaxFloor(n.floor, n.cell) \in Int
    BY <1>2, Zenon DEF MaxFloor
  <2> DEFINE new == IF n.cancelled THEN [n EXCEPT !.scan = "scanned"]
                    ELSE [n EXCEPT !.scan = "polled", !.floor = MaxFloor(@, n.cell)]
  <2>2. new \in Nodes
    BY Zenon, <1>1, <2>1 DEF Nodes
  <2>3. node' = [node EXCEPT ![s] = new] /\ UNCHANGED <<req, resp>> /\ NodeUnchanged
    BY <1>1, <1>3, Zenon DEF Poll
  <2> QED
    BY Zenon, <2>2, <2>3, HandlerTyped
<1>4. CASE Emit(s)
  <2> DEFINE stop == [n EXCEPT !.scan = "scanned"]
             go == [n EXCEPT !.scan = "scanning", !.start = @ + ChunkSize]
             new == IF Unit(s) # {} /\ ~rpc[s] THEN stop ELSE go
  <2>0. n.start + ChunkSize \in Nat
    BY <1>2, StreamSearchAssumption
  <2>1. new \in Nodes
    BY Zenon, <1>1, <2>0 DEF Nodes
  <2>2. node' = [node EXCEPT ![s] = new] /\ UNCHANGED req /\ NodeUnchanged
    BY <1>1, <1>4, Zenon DEF Emit
  <2>3. Unit(s) \subseteq Hits
    BY Zenon DEF Unit, Hits, Active
  <2>4. \/ UNCHANGED resp
        \/ Room(s) /\ \E m \in Responses : resp' = [resp EXCEPT ![s] = Append(@, m)]
    <3>1. [kind |-> "batch", hits |-> Unit(s), completed |-> FALSE] \in Responses
      BY <2>3, Zenon DEF Responses
    <3> QED
      BY <1>4, <3>1, Zenon DEF Emit, Reply
  <2> HIDE DEF new
  <2> QED
    BY Zenon, <2>1, <2>2, <2>4, HandlerTyped
<1>5. CASE Covered(s) \/ MarkReady(s) \/ Incomplete(s) \/ Await(s) \/ ResponseClosed(s)
           \/ PumpClosed(s)
  <2>1. \E new \in Nodes : node' = [node EXCEPT ![s] = new]
    <3>1. CASE Covered(s)
      <4>1. node' = [node EXCEPT ![s] = [n EXCEPT !.scan = "scanned", !.completed = ~n.cancelled]]
        BY Zenon, <1>1, <3>1 DEF Covered
      <4>2. [n EXCEPT !.scan = "scanned", !.completed = ~n.cancelled] \in Nodes
        BY Zenon, <1>1 DEF Nodes
      <4> QED
        BY Zenon, <4>1, <4>2
    <3>2. CASE MarkReady(s)
      <4>1. node' = [node EXCEPT ![s] = [n EXCEPT !.scan = "marked", !.ready = TRUE]]
        BY Zenon, <1>1, <3>2 DEF MarkReady
      <4>2. [n EXCEPT !.scan = "marked", !.ready = TRUE] \in Nodes
        BY Zenon, <1>1 DEF Nodes
      <4> QED
        BY Zenon, <4>1, <4>2
    <3>3. CASE Incomplete(s)
      <4>1. node' = [node EXCEPT ![s] =
                       [n EXCEPT !.scan = IF n.pump = "failed" THEN "refused" ELSE "answered"]]
        BY <1>1, <3>3, Zenon DEF Incomplete
      <4>2. [n EXCEPT !.scan = IF n.pump = "failed" THEN "refused" ELSE "answered"] \in Nodes
        BY <1>1, Zenon DEF Nodes
      <4> QED
        BY Zenon, <4>1, <4>2
    <3>4. CASE Await(s)
      <4> DEFINE new == CASE n.pump = "selected" ->
                               [n EXCEPT !.scan = IF n.cancelled THEN "refused" ELSE "resolved"]
                          [] n.pump = "stopped" ->
                               [n EXCEPT !.scan = "answered", !.completed = FALSE]
                          [] n.pump = "failed" -> [n EXCEPT !.scan = "refused"]
      <4>1. node' = [node EXCEPT ![s] = new]
        BY <3>4, Zenon DEF Await
      <4>2. n.pump \in {"selected", "stopped", "failed"}
        BY <1>1, <3>4, Zenon DEF Await, Nodes
      <4>3. new \in Nodes
        BY Zenon, <1>1, <4>2 DEF Nodes
      <4> QED
        BY Zenon, <4>1, <4>3
    <3>5. CASE ResponseClosed(s)
      <4>1. node' = [node EXCEPT ![s] = [n EXCEPT !.scan = "done", !.cancelled = TRUE]]
        BY Zenon, <1>1, <3>5 DEF ResponseClosed
      <4>2. [n EXCEPT !.scan = "done", !.cancelled = TRUE] \in Nodes
        BY Zenon, <1>1 DEF Nodes
      <4> QED
        BY Zenon, <4>1, <4>2
    <3>6. CASE PumpClosed(s)
      <4>1. node' = [node EXCEPT ![s] = [n EXCEPT !.cancelled = TRUE, !.pump = "failed"]]
        BY Zenon, <1>1, <3>6 DEF PumpClosed
      <4>2. [n EXCEPT !.cancelled = TRUE, !.pump = "failed"] \in Nodes
        BY Zenon, <1>1 DEF Nodes
      <4> QED
        BY Zenon, <4>1, <4>2
    <3> QED
      BY <1>5, <3>1, <3>2, <3>3, <3>4, <3>5, <3>6, Zenon
  <2>2. UNCHANGED <<req, resp>> /\ NodeUnchanged
    BY <1>5, Zenon DEF Covered, MarkReady, Incomplete, Await, ResponseClosed, PumpClosed
  <2> QED
    BY Zenon, <2>1, <2>2, HandlerTyped
<1>6. CASE SendReady(s) \/ SendIdentities(s) \/ Finish(s)
  <2>1. \E new \in Nodes : node' = [node EXCEPT ![s] = new]
    <3>1. CASE SendReady(s)
      <4>1. node' = [node EXCEPT ![s] = [n EXCEPT !.scan = "waiting"]]
        BY <1>1, <3>1, Zenon DEF SendReady
      <4> QED
        BY Zenon, <1>1, <4>1, NodeFields
    <3>2. CASE SendIdentities(s)
      <4>1. node' = [node EXCEPT ![s] = [n EXCEPT !.scan = "answered"]]
        BY <1>1, <3>2, Zenon DEF SendIdentities
      <4> QED
        BY Zenon, <1>1, <4>1, NodeFields
    <3>3. CASE Finish(s)
      <4>1. node' = [node EXCEPT ![s] = [n EXCEPT !.scan = "done",
                                                  !.cancelled = @ \/ n.scan # "answered"]]
        BY Zenon, <1>1, <3>3 DEF Finish
      <4>2. [n EXCEPT !.scan = "done", !.cancelled = @ \/ n.scan # "answered"] \in Nodes
        BY Zenon, <1>1 DEF Nodes
      <4> QED
        BY Zenon, <4>1, <4>2
    <3> QED
      BY <1>6, <3>1, <3>2, <3>3, Zenon
  <2>2. Room(s) /\ UNCHANGED req /\ NodeUnchanged
    BY <1>6, Zenon DEF SendReady, SendIdentities, Finish, Reply
  <2>3. \E m \in Responses : resp' = [resp EXCEPT ![s] = Append(@, m)]
    <3>1. n.completed \in BOOLEAN /\ (n.scan = "answered" /\ n.completed) \in BOOLEAN
      BY <1>1, Zenon DEF Nodes
    <3>2. CASE SendReady(s)
      <4>1. [kind |-> "ready", hits |-> {}, completed |-> n.completed] \in Responses
        BY <3>1, Zenon DEF Responses
      <4> QED
        BY Zenon, <3>2, <4>1 DEF SendReady, Reply
    <3>3. CASE SendIdentities(s)
      <4>1. [kind |-> "identities", hits |-> {}, completed |-> FALSE] \in Responses
        BY Zenon DEF Responses
      <4> QED
        BY Zenon, <3>3, <4>1 DEF SendIdentities, Reply
    <3>4. CASE Finish(s)
      <4> DEFINE m == [kind |-> IF n.scan = "answered" THEN "summary" ELSE n.scan, hits |-> {},
                       completed |-> n.scan = "answered" /\ n.completed]
      <4>1. m \in Responses
        BY <3>1, <3>4, Zenon DEF Responses, Finish
      <4> QED
        BY Zenon, <3>4, <4>1 DEF Finish, Reply
    <3> QED
      BY <1>6, <3>2, <3>3, <3>4, Zenon
  <2> QED
    BY Zenon, <2>1, <2>2, <2>3, HandlerTyped
<1>7. CASE PumpRecv(s)
  <2> DEFINE m == Head(req[s])
             new == CASE m.kind = "floor" -> [n EXCEPT !.cell = raise_floor_cell(@, m.floor)]
                      [] m.kind = "stop" -> [n EXCEPT !.cancelled = TRUE, !.pump = "stopped"]
                      [] m.kind = "resolve" ->
                           IF n.ready THEN [n EXCEPT !.pump = "selected"]
                           ELSE [n EXCEPT !.cancelled = TRUE, !.pump = "failed"]
  <2>1. req[s] # <<>> /\ m \in Requests
    BY <1>7 DEF PumpRecv, TypeOK
  <2>2. m.kind \in {"floor", "stop", "resolve"} /\ raise_floor_cell(n.cell, m.floor) \in Int
    BY <1>2, <2>1, Zenon DEF Requests, raise_floor_cell, MaxFloor
  <2>3. node' = [node EXCEPT ![s] = new]
    BY <1>1, <1>7, Zenon DEF PumpRecv
  <2>4. new \in Nodes
    BY Zenon, <1>1, <2>2 DEF Nodes
  <2>5. req' = [req EXCEPT ![s] = Tail(@)] /\ UNCHANGED resp /\ NodeUnchanged
    BY <1>7, Zenon DEF PumpRecv
  <2> QED
    BY Zenon, <2>1, <2>3, <2>4, <2>5, HandlerTyped
<1>8. CASE Datagram(s)
  <2>1. PICK d \in lane[s] :
          /\ node' = [node EXCEPT ![s] =
                [n EXCEPT !.last = IF Signed THEN d.seq ELSE @,
                          !.cell = IF d.kind = "floor" THEN raise_floor_cell(@, d.floor) ELSE @,
                          !.cancelled = @ \/ d.kind = "cancel"]]
          /\ UNCHANGED <<req, resp>> /\ NodeUnchanged
    BY Zenon, <1>1, <1>8 DEF Datagram
  <2>2. d \in Datagrams
    BY <2>1, Zenon DEF TypeOK
  <2>3. d.seq \in Nat /\ raise_floor_cell(n.cell, d.floor) \in Int
    BY <1>2, <2>2, Zenon DEF Datagrams, raise_floor_cell, MaxFloor
  <2>4. [n EXCEPT !.last = IF Signed THEN d.seq ELSE @,
                  !.cell = IF d.kind = "floor" THEN raise_floor_cell(@, d.floor) ELSE @,
                  !.cancelled = @ \/ d.kind = "cancel"] \in Nodes
    BY Zenon, <1>1, <2>3 DEF Nodes
  <2> QED
    BY Zenon, <2>1, <2>4, HandlerTyped
<1> QED
  BY <1>3, <1>4, <1>5, <1>6, <1>7, <1>8, Zenon DEF NodeStep, PumpStep

\* A datagram to every open lane: sequence numbers are counted on.
LEMMA SignalTyped ==
    ASSUME TypeOK, NEW kind \in {"floor", "cancel"}, NEW floor \in Int, send_signal(kind, floor)
    PROVE  lane' \in [Active -> SUBSET Datagrams] /\ seq' \in Nat
<1> DEFINE to == open \cap Lanes
           upTo(s) == {t \in to : t <= s}
           sent(s) == [seq |-> IF Signed THEN seq + Cardinality(upTo(s)) ELSE 0,
                       kind |-> kind, floor |-> floor]
<1>1. IsFiniteSet(Shards) /\ seq \in Nat
  BY CorpusAssumption, Zenon DEF TypeOK
<1>2. Cardinality(to) \in Nat
  <2>1. to \subseteq Shards
    BY Zenon DEF TypeOK, Active
  <2> QED
    BY <1>1, <2>1, FS_Subset, FS_CardinalityType, Zenon
<1>3. ASSUME NEW s \in Active PROVE sent(s) \in Datagrams
  <2>1. upTo(s) \subseteq Shards
    BY Zenon DEF TypeOK, Active
  <2>2. Cardinality(upTo(s)) \in Nat
    BY <1>1, <2>1, FS_Subset, FS_CardinalityType, Zenon
  <2> HIDE DEF upTo
  <2>3. (IF Signed THEN seq + Cardinality(upTo(s)) ELSE 0) \in Nat
    BY <1>1, <2>2
  <2> QED
    BY <2>3, Zenon DEF Datagrams
<1>4. lane' = [s \in Active |-> IF s \notin to THEN lane[s] ELSE lane[s] \cup {sent(s)}]
  BY Zenon DEF send_signal
<1>5. seq' = IF Signed THEN seq + Cardinality(to) ELSE seq
  BY Zenon DEF send_signal
<1>6. lane \in [Active -> SUBSET Datagrams]
  BY Zenon DEF TypeOK
<1> HIDE DEF to, sent
<1> QED
  BY <1>1, <1>2, <1>3, <1>4, <1>5, <1>6

\* A floor pushed to the open streams leaves every request channel in bounds.
LEMMA PushTyped ==
    ASSUME TypeOK, NEW floor \in Int, push_stream_floor(floor)
    PROVE  /\ lane' \in [Active -> SUBSET Datagrams] /\ seq' \in Nat
           /\ req' \in [Active -> Seq(Requests)] /\ \A s \in Active : Len(req'[s]) <= RequestCap
<1>1. lane' \in [Active -> SUBSET Datagrams] /\ seq' \in Nat
  BY SignalTyped, Zenon DEF push_stream_floor
<1> DEFINE m == [kind |-> "floor", floor |-> floor]
           new(s) == IF s \in open /\ Len(req[s]) < RequestCap THEN Append(req[s], m) ELSE req[s]
<1>2. m \in Requests
  BY Zenon DEF Requests
<1>3. ASSUME NEW s \in Active PROVE new(s) \in Seq(Requests) /\ Len(new(s)) <= RequestCap
  <2>1. req[s] \in Seq(Requests) /\ Len(req[s]) <= RequestCap /\ RequestCap \in Nat
    BY StreamSearchAssumption, Zenon DEF TypeOK
  <2> HIDE DEF m
  <2> QED
    BY <1>2, <2>1
<1>4. req' = [s \in Active |-> new(s)]
  BY Zenon DEF push_stream_floor
<1> HIDE DEF new
<1> QED
  BY <1>1, <1>3, <1>4, Zenon

\* The message next taken from a response path, and what is left of the path.
LEMMA ConsumeTyped ==
    ASSUME TypeOK, NEW s \in Active
    PROVE  /\ Message(s).hits \subseteq Hits
           /\ Consume(s) => /\ resp' \in [Active -> Seq(Responses)]
                            /\ \A t \in Active : Len(resp'[t]) <= ResponseCap
<1>1. resp[s] \in Seq(Responses) /\ Len(resp[s]) <= ResponseCap /\ ResponseCap \in Nat
  BY StreamSearchAssumption, Zenon DEF TypeOK
<1>2. CASE resp[s] = <<>>
  BY Zenon, <1>2 DEF TypeOK, Message, Consume
<1>3. CASE resp[s] # <<>>
  <2>1. Head(resp[s]) \in Responses /\ Tail(resp[s]) \in Seq(Responses)
        /\ Len(Tail(resp[s])) <= ResponseCap
    BY <1>1, <1>3
  <2>2. Message(s).hits \subseteq Hits
    BY <1>3, <2>1, Zenon DEF Message, Responses
  <2> QED
    BY Zenon, <1>3, <2>1, <2>2 DEF TypeOK, Consume
<1> QED
  BY <1>2, <1>3, Zenon

\* Every message pushed is a member of the corpus: so is what the heap keeps.
LEMMA HeapTyped ==
    ASSUME TypeOK, NEW hits \in SUBSET Hits
    PROVE  /\ push_hits(hits) \subseteq heap \cup hits /\ push_hits(hits) \subseteq Hits
           /\ Cardinality(push_hits(hits)) = K => /\ StreamFloor(push_hits(hits)) \in Int
                                                  /\ ValidFloor(StreamFloor(push_hits(hits)))
<1> DEFINE new == push_hits(hits)
<1>1. new \subseteq heap \cup hits /\ new \subseteq Hits
  BY Zenon DEF TypeOK, push_hits, merge_topk
<1>2. ASSUME Cardinality(new) = K
      PROVE  StreamFloor(new) \in Int /\ ValidFloor(StreamFloor(new))
  <2>1. new \in SUBSET Hits /\ Cardinality(new) >= K /\ K \in Nat
    BY <1>1, <1>2, CorpusAssumption
  <2> HIDE DEF new
  <2>2. PICK h \in new : KthMerged(new) = Score(h)
    BY <2>1, MergedKth, Zenon
  <2>3. ValidFloor(KthMerged(new))
    BY <2>1, MergedKth, Zenon
  <2>4. Score(h) \in Int /\ NegInf \in Int /\ NegInf < Score(h) - 1
    BY <2>1, <2>2, HitType, Zenon
  <2> DEFINE at == {g \in Hits : Score(g) >= Score(h)}
             below == {g \in Hits : Score(g) >= Score(h) - 1}
  <2>5. Cardinality(at) >= K
    BY <2>2, <2>3, <2>4 DEF ValidFloor
  <2>6. at \subseteq below /\ below \subseteq Hits
    BY <2>4, HitType
  <2>7. Cardinality(at) \in Nat /\ Cardinality(below) \in Nat
        /\ Cardinality(at) <= Cardinality(below)
    BY <2>6, CardinalityMonotone, Zenon
  <2>8. Cardinality(below) >= K
    BY <2>1, <2>5, <2>7
  <2> QED
    BY <2>2, <2>4, <2>8 DEF StreamFloor, ValidFloor
<1> QED
  BY <1>1, <1>2, Zenon

\* Abandoning the search changes what only the coordinator knows.
LEMMA AbandonTyped ==
    ASSUME TypeOK, NEW why \in {"broken", "protocol", "scoring", "columns", "timeout", "dropped"},
           Abandon(why), outcome' \in {"pending", "ok", "err"},
           UNCHANGED <<requestVars, node, req>>,
           resp' \in [Active -> Seq(Responses)], \A s \in Active : Len(resp'[s]) <= ResponseCap,
           rpc' \in [Active -> BOOLEAN], breaks' \in 0..Failures
    PROVE  TypeOK'
<1>1. NegInf \in Int
  BY CorpusAssumption, Zenon
<1>2. lane' \in [Active -> SUBSET Datagrams] /\ seq' \in Nat
  BY <1>1, SignalTyped, Zenon DEF Abandon
<1> QED
  BY <1>2, Zenon DEF Abandon, TypeOK, requestVars

\* The coordinator's handling of one message, its requests and its Stops.
LEMMA CoordStepTyped ==
    ASSUME TypeOK, NEW s \in Active, CoordStep(s)
    PROVE  TypeOK'
<1>1. CASE RecvScan(s)
  <2> DEFINE m == Message(s)
  <2>1. /\ m.hits \subseteq Hits
        /\ resp' \in [Active -> Seq(Responses)] /\ \A t \in Active : Len(resp'[t]) <= ResponseCap
    BY <1>1, ConsumeTyped, Zenon DEF RecvScan
  <2>2. UNCHANGED <<requestVars, rpc, breaks, node>>
    BY <1>1, Zenon DEF RecvScan
  <2>3. CASE TakeBatch(m.hits)
    <3> DEFINE new == push_hits(m.hits)
    <3>1. new \subseteq Hits
      BY <2>1, HeapTyped, Zenon
    <3>2. /\ lastFloor' \in Int /\ seq' \in Nat /\ lane' \in [Active -> SUBSET Datagrams]
          /\ req' \in [Active -> Seq(Requests)]
          /\ \A t \in Active : Len(req'[t]) <= RequestCap
      <4>1. CASE Cardinality(new) = K /\ StreamFloor(new) > lastFloor
        <5>1. StreamFloor(new) \in Int
          BY <2>1, <4>1, HeapTyped, Zenon
        <5>2. lastFloor' = StreamFloor(new) /\ push_stream_floor(StreamFloor(new))
          BY <2>3, <4>1, Zenon DEF TakeBatch
        <5> QED
          BY <5>1, <5>2, PushTyped, Zenon
      <4>2. CASE ~ (Cardinality(new) = K /\ StreamFloor(new) > lastFloor)
        BY <2>3, <4>2, Zenon DEF TakeBatch, TypeOK
      <4> QED
        BY <4>1, <4>2, Zenon
    <3> QED
      BY <2>1, <2>2, <2>3, <3>1, <3>2, Zenon DEF TakeBatch, TypeOK, requestVars
  <2>4. CASE TakeReady(s)
    BY <2>1, <2>2, <2>4, Zenon DEF TakeReady, TypeOK, requestVars
  <2>5. ASSUME NEW why \in {"scoring", "timeout", "protocol"}, cancel_with(why), UNCHANGED req
        PROVE  TypeOK'
    <3>1. Abandon(why) /\ outcome' \in {"pending", "ok", "err"}
      BY <2>5, Zenon DEF cancel_with, TypeOK
    <3>2. rpc' \in [Active -> BOOLEAN] /\ breaks' \in 0..Failures
      BY <2>2, Zenon DEF TypeOK
    <3> QED
      BY <2>1, <2>2, <2>5, <3>1, <3>2, AbandonTyped, Zenon DEF requestVars
  <2> QED
    BY <1>1, <2>3, <2>4, <2>5, Zenon DEF RecvScan
<1>2. CASE Ask(s) \/ SendStop(s)
  <2>1. NegInf \in Int /\ RequestCap \in Nat
    BY CorpusAssumption, StreamSearchAssumption, Zenon
  <2>2. PICK m \in Requests : req' = [req EXCEPT ![s] = Append(@, m)] /\ Len(req[s]) < RequestCap
    <3>1. /\ [kind |-> "resolve", floor |-> NegInf] \in Requests
          /\ [kind |-> "stop", floor |-> NegInf] \in Requests
      BY <2>1, Zenon DEF Requests
    <3> QED
      BY <1>2, <3>1, Zenon DEF Ask, SendStop
  <2>3. req[s] \in Seq(Requests)
    BY Zenon DEF TypeOK
  <2>4. Append(req[s], m) \in Seq(Requests) /\ Len(Append(req[s], m)) <= RequestCap
    BY <2>1, <2>2, <2>3
  <2>5. req' \in [Active -> Seq(Requests)] /\ \A t \in Active : Len(req'[t]) <= RequestCap
    BY <2>2, <2>4, Zenon DEF TypeOK
  <2>6. /\ asked' \subseteq Active /\ stopping' \subseteq Active
        /\ phase' \in {"scan", "ask", "resolve", "cancel", "ended"}
    BY <1>2, Zenon DEF Ask, SendStop, TypeOK
  <2> QED
    BY <1>2, <2>5, <2>6 DEF Ask, SendStop, TypeOK, requestVars
<1>3. CASE AskFails(s) \/ RecvBroken(s)
  <2>1. /\ Abandon("broken") /\ outcome' \in {"pending", "ok", "err"}
        /\ UNCHANGED <<requestVars, rpc, breaks, nodeVars>>
    BY <1>3, Zenon DEF AskFails, RecvBroken, cancel_with, TypeOK
  <2>2. /\ UNCHANGED <<requestVars, node, req>>
        /\ resp' \in [Active -> Seq(Responses)] /\ \A t \in Active : Len(resp'[t]) <= ResponseCap
        /\ rpc' \in [Active -> BOOLEAN] /\ breaks' \in 0..Failures
    BY <2>1, Zenon DEF TypeOK, requestVars, nodeVars
  <2> QED
    BY <2>1, <2>2, AbandonTyped, Zenon
<1>4. CASE RecvResolve(s)
  <2> DEFINE m == Message(s)
  <2>1. resp' \in [Active -> Seq(Responses)] /\ \A t \in Active : Len(resp'[t]) <= ResponseCap
    BY <1>4, ConsumeTyped, Zenon DEF RecvResolve
  <2>2. UNCHANGED <<requestVars, rpc, breaks, node, req>>
    BY <1>4, Zenon DEF RecvResolve
  <2>3. CASE m.kind = "identities" /\ s \notin received
    BY <1>4, <2>1, <2>2, <2>3, Zenon DEF RecvResolve, TypeOK, requestVars
  <2>4. CASE ~ (m.kind = "identities" /\ s \notin received)
             /\ m.kind = "summary" /\ s \in received \ terminal /\ m.completed
    BY <1>4, <2>1, <2>2, <2>4 DEF RecvResolve, TypeOK, requestVars
  <2>5. ASSUME NEW why \in {"timeout", "protocol"}, cancel_with(why)
        PROVE  TypeOK'
    <3>1. Abandon(why) /\ outcome' \in {"pending", "ok", "err"}
      BY <2>5, Zenon DEF cancel_with, TypeOK
    <3>2. rpc' \in [Active -> BOOLEAN] /\ breaks' \in 0..Failures
      BY <2>2, Zenon DEF TypeOK
    <3> QED
      BY <2>1, <2>2, <3>1, <3>2, AbandonTyped, Zenon DEF requestVars
  <2> QED
    BY <1>4, <2>3, <2>4, <2>5, Zenon DEF RecvResolve
<1> QED
  BY <1>1, <1>2, <1>3, <1>4, Zenon DEF CoordStep

\* The coordinator's own steps and the failures around it.
LEMMA OtherStepTyped ==
    ASSUME TypeOK,
           \/ ScanEnds \/ Return \/ CancelEnds \/ IdentityTimeout \/ CallerDrops
           \/ \E s \in Active : StreamBreaks(s) \/ NodeTimeout(s)
    PROVE  TypeOK'
<1>1. ASSUME NEW why \in {"columns", "timeout", "dropped"}, cancel_with(why) \/ DropFanout(why),
             UNCHANGED <<requestVars, rpc, nodeVars>>, breaks' \in 0..Failures
      PROVE  TypeOK'
  <2>1. Abandon(why) /\ outcome' \in {"pending", "ok", "err"}
    BY <1>1, Zenon DEF cancel_with, DropFanout, TypeOK
  <2>2. /\ UNCHANGED <<requestVars, node, req>>
        /\ resp' \in [Active -> Seq(Responses)] /\ \A t \in Active : Len(resp'[t]) <= ResponseCap
        /\ rpc' \in [Active -> BOOLEAN] /\ breaks' \in 0..Failures
    BY <1>1, Zenon DEF TypeOK, requestVars, nodeVars
  <2> QED
    BY <1>1, <2>1, <2>2, AbandonTyped, Zenon
<1>2. ASSUME Fault PROVE breaks' \in 0..Failures
  BY <1>2, StreamSearchAssumption DEF Fault, TypeOK
<1>3. CASE ScanEnds
  <2>1. CASE known
    BY Zenon, <1>3, <2>1 DEF ScanEnds, TypeOK, requestVars, nodeVars
  <2>2. CASE ~ known
    BY <1>1, <1>3, <2>2, Zenon DEF ScanEnds, TypeOK
  <2> QED
    BY <2>1, <2>2, Zenon
<1>4. CASE Return
  BY <1>4, Zenon DEF Return, TypeOK, requestVars, nodeVars
<1>5. CASE CancelEnds
  BY <1>5, Zenon DEF CancelEnds, TypeOK, requestVars, nodeVars
<1>6. CASE IdentityTimeout \/ CallerDrops
  BY <1>1, <1>2, <1>6, Zenon DEF IdentityTimeout, CallerDrops
<1>7. ASSUME NEW s \in Active, StreamBreaks(s) PROVE TypeOK'
  BY <1>2, <1>7, Zenon DEF StreamBreaks, TypeOK, requestVars, nodeVars, coordVars
<1>8. ASSUME NEW s \in Active, NodeTimeout(s) PROVE TypeOK'
  <2> DEFINE n == [node[s] EXCEPT !.scan = "timeout", !.cancelled = TRUE]
  <2>0. node \in [Active -> Nodes] /\ node[s] \in Nodes
    BY Zenon DEF TypeOK
  <2>1. n \in Nodes
    BY Zenon, <2>0 DEF Nodes
  <2>2. node' = [node EXCEPT ![s] = n]
    BY Zenon, <1>8, <2>0 DEF NodeTimeout
  <2>3. node' \in [Active -> Nodes]
    BY <2>0, <2>1, <2>2, Zenon
  <2> QED
    BY <1>2, <1>8, <2>3 DEF NodeTimeout, TypeOK, requestVars, coordVars
<1> QED
  BY <1>3, <1>4, <1>5, <1>6, <1>7, <1>8, Zenon

\* One step of the whole system keeps the types.
LEMMA TypeStep == TypeOK /\ [Next]_vars => TypeOK'
<1> SUFFICES ASSUME TypeOK, [Next]_vars PROVE TypeOK'
  BY Zenon
<1>1. CASE Next
  BY <1>1, NodeStepTyped, CoordStepTyped, OtherStepTyped, Zenon DEF Next
<1>2. CASE UNCHANGED vars
  BY <1>2 DEF TypeOK, vars, requestVars, nodeVars, coordVars
<1> QED
  BY <1>1, <1>2, Zenon

\* The search starts well typed.
LEMMA TypeInit == Init => TypeOK
<1> SUFFICES ASSUME Init PROVE TypeOK
  BY Zenon
<1> DEFINE n == [scan |-> "scanning", start |-> 0, floor |-> InitialFloor, cell |-> InitialFloor,
                 cancelled |-> FALSE, last |-> 0, ready |-> FALSE, completed |-> FALSE,
                 pump |-> "running"]
<1>1. InitialFloor \in Int /\ Failures \in Nat /\ RequestCap \in Nat /\ ResponseCap \in Nat
  BY StreamSearchAssumption, Zenon
<1>2. n \in Nodes
  BY <1>1, Zenon DEF Nodes
<1>3. node \in [Active -> Nodes]
  BY <1>2, Zenon DEF Init
<1>4. /\ req \in [Active -> Seq(Requests)] /\ \A s \in Active : Len(req[s]) <= RequestCap
      /\ resp \in [Active -> Seq(Responses)] /\ \A s \in Active : Len(resp[s]) <= ResponseCap
  BY <1>1 DEF Init
<1>5. lane \in [Active -> SUBSET Datagrams] /\ rpc \in [Active -> BOOLEAN] /\ breaks \in 0..Failures
  BY <1>1 DEF Init
<1>6. /\ phase \in {"scan", "ask", "resolve", "cancel", "ended"} /\ open \subseteq Active
      /\ cause \in {"none", "broken", "protocol", "scoring", "columns", "timeout", "dropped"}
      /\ outcome \in {"pending", "ok", "err"} /\ lastFloor \in Int /\ seq \in Nat
  BY <1>1, Zenon DEF Init
<1>7. heap = {} /\ certified = {} /\ scoring = {} /\ asked = {} /\ received = {} /\ terminal = {}
      /\ stopping = {} /\ result = {}
  BY Zenon DEF Init
<1>8. fingerprint \in [Active -> Fingerprints] /\ known \in ColumnsKnown
  BY Zenon DEF Init
<1> QED
  BY <1>3, <1>4, <1>5, <1>6, <1>7, <1>8, Zenon DEF TypeOK

-----------------------------------------------------------------------------
(***************************************************************************)
(* What a step changes.                                                    *)
(***************************************************************************)
NodeAction(s) == NodeStep(s) \/ PumpStep(s) \/ Datagram(s) \/ NodeTimeout(s)

\* A step of one node leaves the others and the coordinator alone.
LEMMA NodeFrame ==
    ASSUME TypeOK, NEW s \in Active, NodeAction(s)
    PROVE  /\ UNCHANGED <<requestVars, lane, rpc, coordVars>>
           /\ \A t \in Active \ {s} : node'[t] = node[t] /\ req'[t] = req[t] /\ resp'[t] = resp[t]
           /\ breaks' = breaks \/ (NodeTimeout(s) /\ breaks \in Nat /\ breaks' = breaks + 1)
<1>1. node \in [Active -> Nodes] /\ req \in [Active -> Seq(Requests)]
      /\ resp \in [Active -> Seq(Responses)] /\ breaks \in Nat
  BY StreamSearchAssumption DEF TypeOK
<1>2. CASE NodeStep(s)
  BY <1>1, <1>2 DEF NodeStep, Poll, Emit, Covered, MarkReady, Incomplete, SendReady, Await,
     SendIdentities, Finish, ResponseClosed, Reply, NodeUnchanged
<1>3. CASE PumpStep(s)
  BY <1>1, <1>3, Zenon DEF PumpStep, PumpRecv, PumpClosed, NodeUnchanged
<1>4. CASE Datagram(s)
  BY <1>1, <1>4, Zenon DEF Datagram, NodeUnchanged
<1>5. CASE NodeTimeout(s)
  BY <1>1, <1>5, Zenon DEF NodeTimeout, Fault
<1> QED
  BY <1>2, <1>3, <1>4, <1>5, Zenon DEF NodeAction

\* The scan moves on only by emitting, certifies only what it has covered,
\* and appends to its response path.
LEMMA ScanFields ==
    ASSUME TypeOK, NEW s \in Active, NodeAction(s)
    PROVE  /\ Emit(s) \/ node'[s].start = node[s].start
           /\ node'[s].completed => node[s].completed \/ node[s].start >= Len(Scores[s])
           /\ \/ resp'[s] = resp[s]
              \/ Emit(s) \/ SendReady(s) \/ SendIdentities(s) \/ Finish(s)
<1>1. node \in [Active -> Nodes] /\ node[s] \in Nodes
  BY Zenon DEF TypeOK
<1>2. CASE Poll(s)
  BY <1>1, <1>2, Zenon DEF Poll, Nodes
<1>3. CASE Emit(s)
  BY Zenon, <1>1, <1>3 DEF Emit, Nodes
<1>4. CASE Covered(s) \/ MarkReady(s) \/ Incomplete(s)
  BY <1>1, <1>4 DEF Covered, MarkReady, Incomplete, Nodes
<1>5. CASE SendReady(s) \/ SendIdentities(s) \/ Finish(s)
  <2>1. CASE SendReady(s) \/ SendIdentities(s)
    BY Zenon, <1>1, <2>1 DEF SendReady, SendIdentities, Nodes
  <2>2. CASE Finish(s)
    BY <1>1, <2>2, Zenon DEF Finish, Nodes
  <2> QED
    BY <1>5, <2>1, <2>2, Zenon
<1>6. CASE Await(s)
  BY <1>1, <1>6, Zenon DEF Await, Nodes
<1>7. CASE ResponseClosed(s) \/ PumpClosed(s) \/ NodeTimeout(s)
  <2>1. CASE ResponseClosed(s) \/ PumpClosed(s)
    BY <1>1, <2>1 DEF ResponseClosed, PumpClosed, Nodes
  <2>2. CASE NodeTimeout(s)
    BY <1>1, <2>2, Zenon DEF NodeTimeout, Nodes
  <2> QED
    BY <1>7, <2>1, <2>2, Zenon
<1>8. CASE PumpRecv(s)
  <2>1. Head(req[s]) \in Requests
    BY <1>8 DEF PumpRecv, TypeOK
  <2> QED
    BY <1>1, <1>8, <2>1, Zenon DEF PumpRecv, Nodes, Requests
<1>9. CASE Datagram(s)
  BY <1>1, <1>9 DEF Datagram, Nodes
<1> QED
  BY <1>2, <1>3, <1>4, <1>5, <1>6, <1>7, <1>8, <1>9, Zenon DEF NodeAction, NodeStep, PumpStep

\* The kernel's floor comes from the cell, and the cell from a request or a
\* datagram.
LEMMA FloorFields ==
    ASSUME TypeOK, NEW s \in Active, NodeAction(s)
    PROVE  /\ \/ node'[s].floor = node[s].floor
              \/ node'[s].floor = MaxFloor(node[s].floor, node[s].cell)
           /\ \/ node'[s].cell = node[s].cell
              \/ /\ req[s] # <<>> /\ Head(req[s]).kind = "floor"
                 /\ node'[s].cell = MaxFloor(node[s].cell, Head(req[s]).floor)
              \/ \E d \in lane[s] : /\ d.kind = "floor"
                                    /\ node'[s].cell = MaxFloor(node[s].cell, d.floor)
           /\ \/ req'[s] = req[s]
              \/ req[s] # <<>> /\ req'[s] = Tail(req[s])
<1>1. node \in [Active -> Nodes] /\ node[s] \in Nodes /\ req \in [Active -> Seq(Requests)]
  BY Zenon DEF TypeOK
<1>2. CASE Poll(s)
  BY <1>1, <1>2, Zenon DEF Poll, Nodes
<1>3. CASE Emit(s)
  BY <1>1, <1>3, Zenon DEF Emit, Nodes
<1>4. CASE Covered(s) \/ MarkReady(s) \/ Incomplete(s)
  BY <1>1, <1>4 DEF Covered, MarkReady, Incomplete, Nodes
<1>5. CASE SendReady(s) \/ SendIdentities(s) \/ Finish(s)
  <2>1. CASE SendReady(s) \/ SendIdentities(s)
    BY Zenon, <1>1, <2>1 DEF SendReady, SendIdentities, Nodes
  <2>2. CASE Finish(s)
    BY <1>1, <2>2, Zenon DEF Finish, Nodes
  <2> QED
    BY <1>5, <2>1, <2>2, Zenon
<1>6. CASE Await(s)
  BY <1>1, <1>6, Zenon DEF Await, Nodes
<1>7. CASE ResponseClosed(s) \/ PumpClosed(s) \/ NodeTimeout(s)
  <2>1. CASE ResponseClosed(s) \/ PumpClosed(s)
    BY <1>1, <2>1 DEF ResponseClosed, PumpClosed, Nodes
  <2>2. CASE NodeTimeout(s)
    BY <1>1, <2>2, Zenon DEF NodeTimeout, Nodes
  <2> QED
    BY <1>7, <2>1, <2>2, Zenon
<1>8. CASE PumpRecv(s)
  <2>1. Head(req[s]) \in Requests /\ req[s] # <<>>
    BY <1>8 DEF PumpRecv, TypeOK
  <2> QED
    BY <1>1, <1>8, <2>1 DEF PumpRecv, Nodes, Requests, raise_floor_cell
<1>9. CASE Datagram(s)
  BY <1>1, <1>9 DEF Datagram, Nodes, raise_floor_cell
<1> QED
  BY <1>2, <1>3, <1>4, <1>5, <1>6, <1>7, <1>8, <1>9, Zenon DEF NodeAction, NodeStep, PumpStep

\* The coordinator's steps, and the failures that are not a node's.
CoordAction ==
    \/ \E s \in Active : CoordStep(s) \/ StreamBreaks(s)
    \/ ScanEnds \/ Return \/ CancelEnds \/ IdentityTimeout \/ CallerDrops

\* The search is going on.
Live == phase \in {"scan", "ask", "resolve"}

\* What the coordinator takes from a response path.
LEMMA MessageTaken ==
    ASSUME TypeOK, NEW s \in Active, Consume(s)
    PROVE  /\ \A t \in Active \ {s} : resp'[t] = resp[t]
           /\ resp[s] = <<>> => resp'[s] = resp[s] /\ Message(s).kind = "closed"
           /\ resp[s] # <<>> => /\ resp'[s] = Tail(resp[s]) /\ Message(s) = resp[s][1]
                                /\ Message(s) \in Responses
<1>1. resp \in [Active -> Seq(Responses)] /\ resp[s] \in Seq(Responses)
  BY Zenon DEF TypeOK
<1>2. CASE resp[s] = <<>>
  BY <1>1, <1>2, Zenon DEF Consume, Message
<1>3. CASE resp[s] # <<>>
  <2>1. Head(resp[s]) = resp[s][1] /\ resp[s][1] \in Responses
    BY <1>1, <1>3, Taken, Zenon
  <2> QED
    BY <1>1, <1>3, <2>1, Zenon DEF Consume, Message
<1> QED
  BY <1>2, <1>3, Zenon

\* Every step is a node's, the coordinator's, or none.
LEMMA NextSplit ==
    ASSUME [Next]_vars
    PROVE  (\E s \in Active : NodeAction(s)) \/ CoordAction \/ UNCHANGED vars
  BY Zenon DEF Next, NodeAction, CoordAction

-----------------------------------------------------------------------------
\* The types of the exchange hold for ever.
THEOREM StreamTypeCorrect == Spec => []TypeOK
  BY TypeInit, TypeStep, PTL DEF Spec
=============================================================================
