---------------------------- MODULE StreamSearch ----------------------------
(***************************************************************************)
(* The streaming fan-out of one vector search: Coordinator::               *)
(* fanout_stream_search, StreamFanout, and the stream_search handler.      *)
(*                                                                         *)
(* A shard holds no top-k.  It emits every admitted slot at or above its   *)
(* floor, then certifies that its scan completed (IdentityReady).  The     *)
(* only heap is the coordinator's; when its K-th score tightens, the score *)
(* one step below it is pushed to every open stream, first as a datagram   *)
(* and then on the request channel.  Once every shard has certified, the   *)
(* coordinator asks each for the identities of its hits and waits for the  *)
(* matching terminal Summary.                                              *)
(*                                                                         *)
(* The response path of a shard (channel, RPC, reader, merged lane) is one *)
(* bounded queue.  A datagram stays in its lane for ever: it may be lost,  *)
(* late, repeated or overtaken.                                            *)
(***************************************************************************)
EXTENDS Corpus, Sequences

CONSTANTS
    Skipped,       \* shards the scan mask proved to hold no matching row
    InitialFloor,  \* initial_floor, the seed of a hybrid query
    ColumnsKnown,  \* whether some shard knows every column the filters name
    Fingerprints,  \* scoring fingerprints a shard may report
    Lanes,         \* shards with a UDP lane
    Signed,        \* a UDP key is configured
    Failures,      \* how many breaks, timeouts and dropped callers there may be
    ChunkSize,     \* slots per kernel unit
    RequestCap,    \* capacity of the request channel (64 in the code)
    ResponseCap    \* messages the response path holds

Active == Shards \ Skipped

ASSUME StreamSearchAssumption ==
    /\ Skipped \subseteq Shards /\ \A s \in Skipped : ShardHits(s) = {}
    /\ InitialFloor \in Int /\ NegInf <= InitialFloor /\ ValidFloor(InitialFloor)
    /\ Lanes \subseteq Active
    /\ ColumnsKnown \subseteq BOOLEAN /\ Signed \in BOOLEAN
    /\ Failures \in Nat
    /\ ChunkSize \in Nat \ {0}
    /\ RequestCap \in Nat \ {0} /\ ResponseCap \in Nat \ {0}

VARIABLES
    fingerprint,  \* fingerprint[s]: what shard s scores with
    known,        \* every filter column is known
    node,         \* node[s]: the handler of shard s
    req,          \* req[s]: the request channel
    resp,         \* resp[s]: the response path
    lane,         \* lane[s]: datagrams ever sent to s
    rpc,          \* rpc[s]: the stream is up
    breaks,       \* failures so far
    phase,        \* "scan", "ask", "resolve", "cancel", "ended"
    open,         \* shards whose request sender the coordinator holds
    stopping,     \* shards a Stop is still to be enqueued for
    heap,         \* the coordinator's top-k
    lastFloor,    \* last_floor
    seq,          \* udp_seq
    certified,    \* shards whose IdentityReady was accepted
    asked,        \* shards ResolveIdentities was sent to
    scoring,      \* fingerprints accepted so far
    received,     \* shards whose identities arrived
    terminal,     \* shards whose Summary matched their certificate
    cause,        \* why the search was refused
    outcome, result

requestVars == <<fingerprint, known>>
nodeVars == <<node, req, resp>>
coordVars == <<phase, open, stopping, heap, lastFloor, seq, certified, scoring, asked,
               received, terminal, cause, outcome, result>>
vars == <<requestVars, lane, rpc, breaks, nodeVars, coordVars>>

Requests == [kind : {"floor", "stop", "resolve"}, floor : Int]
Responses == [kind : {"batch", "ready", "identities", "summary", "refused", "timeout"},
              hits : SUBSET Hits, completed : BOOLEAN]
Datagrams == [seq : Nat, kind : {"floor", "cancel"}, floor : Int]

Nodes ==
    [scan : {"scanning", "polled", "scanned", "marked", "waiting", "resolved", "answered",
             "refused", "timeout", "done"},
     start : Nat,           \* slots scanned so far
     floor : Int,        \* the kernel's floor
     cell : Int,         \* StreamSignals.floor
     cancelled : BOOLEAN,   \* StreamSignals.cancelled
     last : Nat,            \* StreamSignals.last_seq
     ready : BOOLEAN,       \* identity_ready
     completed : BOOLEAN,   \* summary.completed
     pump : {"running", "selected", "stopped", "failed"}]

TypeOK ==
    /\ fingerprint \in [Active -> Fingerprints] /\ known \in ColumnsKnown
    /\ node \in [Active -> Nodes]
    /\ req \in [Active -> Seq(Requests)] /\ \A s \in Active : Len(req[s]) <= RequestCap
    /\ resp \in [Active -> Seq(Responses)] /\ \A s \in Active : Len(resp[s]) <= ResponseCap
    /\ lane \in [Active -> SUBSET Datagrams]
    /\ rpc \in [Active -> BOOLEAN]
    /\ breaks \in 0..Failures
    /\ phase \in {"scan", "ask", "resolve", "cancel", "ended"}
    /\ open \subseteq Active /\ stopping \subseteq Active
    /\ heap \subseteq Hits
    /\ lastFloor \in Int /\ seq \in Nat
    /\ certified \subseteq Active /\ scoring \subseteq Fingerprints /\ asked \subseteq Active
    /\ received \subseteq Active /\ terminal \subseteq received
    /\ cause \in {"none", "broken", "protocol", "scoring", "columns", "timeout", "dropped"}
    /\ outcome \in {"pending", "ok", "err"}
    /\ result \subseteq Hits

Init ==
    /\ fingerprint \in [Active -> Fingerprints] /\ known \in ColumnsKnown
    /\ node = [s \in Active |->
                 [scan |-> "scanning", start |-> 0, floor |-> InitialFloor, cell |-> InitialFloor,
                  cancelled |-> FALSE, last |-> 0, ready |-> FALSE, completed |-> FALSE,
                  pump |-> "running"]]
    /\ req = [s \in Active |-> <<>>]
    /\ resp = [s \in Active |-> <<>>]
    /\ lane = [s \in Active |-> {}]
    /\ rpc = [s \in Active |-> TRUE]
    /\ breaks = 0
    /\ phase = "scan"
    /\ open = Active /\ stopping = {}
    /\ heap = {} /\ lastFloor = InitialFloor /\ seq = 0
    /\ certified = {} /\ scoring = {} /\ asked = {} /\ received = {} /\ terminal = {}
    /\ cause = "none" /\ outcome = "pending" /\ result = {}

-----------------------------------------------------------------------------
(* The node: the kernel, the request pump, the datagrams, the exchange.    *)

Room(s) == Len(resp[s]) < ResponseCap

Reply(s, kind, hits, completed) ==
    /\ rpc[s] /\ Room(s)
    /\ resp' = [resp EXCEPT ![s] =
                  Append(@, [kind |-> kind, hits |-> hits, completed |-> completed])]

\* raise_floor_cell: a max-fold.
raise_floor_cell(cell, floor) == MaxFloor(cell, floor)

NodeUnchanged == UNCHANGED <<requestVars, lane, rpc, breaks, coordVars>>

\* The control callback, before each unit: stop when cancelled, else adopt
\* the cell.
Poll(s) ==
    /\ node[s].scan = "scanning" /\ node[s].start < Len(Scores[s])
    /\ node' = [node EXCEPT ![s] =
          IF @.cancelled THEN [@ EXCEPT !.scan = "scanned"]
          ELSE [@ EXCEPT !.scan = "polled", !.floor = MaxFloor(node[s].floor, node[s].cell)]]
    /\ UNCHANGED <<req, resp>> /\ NodeUnchanged

Unit(s) == {h \in ShardHits(s) : /\ node[s].start < h.slot
                                 /\ h.slot <= node[s].start + ChunkSize
                                 /\ Score(h) >= node[s].floor}

\* The unit's candidates at or above the floor; blocking_send waits for room
\* and stops the scan when the response is closed.
Emit(s) ==
    /\ node[s].scan = "polled"
    /\ IF Unit(s) = {}
       THEN UNCHANGED resp
       ELSE \/ Reply(s, "batch", Unit(s), FALSE)
            \/ ~rpc[s] /\ UNCHANGED resp
    /\ node' = [node EXCEPT ![s] =
          IF Unit(s) # {} /\ ~rpc[s] THEN [@ EXCEPT !.scan = "scanned"]
          ELSE [@ EXCEPT !.scan = "scanning", !.start = node[s].start + ChunkSize]]
    /\ UNCHANGED req /\ NodeUnchanged

\* The kernel covered every slot: the summary says completed unless a cancel
\* came in meanwhile.
Covered(s) ==
    /\ node[s].scan = "scanning" /\ node[s].start >= Len(Scores[s])
    /\ node' = [node EXCEPT ![s].scan = "scanned", ![s].completed = ~node[s].cancelled]
    /\ UNCHANGED <<req, resp>> /\ NodeUnchanged

\* Mutated form of MarkReady: identity_ready is not stored.
MarkReady_Unset(s) ==
    /\ node[s].scan = "scanned" /\ node[s].completed
    /\ node' = [node EXCEPT ![s].scan = "marked"]
    /\ UNCHANGED <<req, resp>> /\ NodeUnchanged

\* The token is dropped; identity_ready is stored before IdentityReady is sent.
MarkReady(s) ==
    /\ node[s].scan = "scanned" /\ node[s].completed
    /\ node' = [node EXCEPT ![s].scan = "marked", ![s].ready = TRUE]
    /\ UNCHANGED <<req, resp>> /\ NodeUnchanged

\* A scan that did not complete: the pump's error when it has one, else a
\* Summary that certifies nothing.
Incomplete(s) ==
    /\ node[s].scan = "scanned" /\ ~node[s].completed
    /\ node' = [node EXCEPT ![s].scan = IF node[s].pump = "failed" THEN "refused" ELSE "answered"]
    /\ UNCHANGED <<req, resp>> /\ NodeUnchanged

SendReady(s) ==
    /\ node[s].scan = "marked"
    /\ Reply(s, "ready", {}, node[s].completed)
    /\ node' = [node EXCEPT ![s].scan = "waiting"]
    /\ UNCHANGED req /\ NodeUnchanged

\* What the pump returned decides the rest of the exchange.
Await(s) ==
    /\ node[s].scan = "waiting" /\ node[s].pump # "running"
    /\ node' = [node EXCEPT ![s] =
          CASE @.pump = "selected" ->
                 [@ EXCEPT !.scan = IF node[s].cancelled THEN "refused" ELSE "resolved"]
            [] @.pump = "stopped" -> [@ EXCEPT !.scan = "answered", !.completed = FALSE]
            [] @.pump = "failed" -> [@ EXCEPT !.scan = "refused"]]
    /\ UNCHANGED <<req, resp>> /\ NodeUnchanged

SendIdentities(s) ==
    /\ node[s].scan = "resolved"
    /\ Reply(s, "identities", {}, FALSE)
    /\ node' = [node EXCEPT ![s].scan = "answered"]
    /\ UNCHANGED req /\ NodeUnchanged

\* The handler's last message: the Summary, or the error of the exchange.
Finish(s) ==
    /\ node[s].scan \in {"answered", "refused", "timeout"}
    /\ Reply(s, IF node[s].scan = "answered" THEN "summary" ELSE node[s].scan, {},
             node[s].scan = "answered" /\ node[s].completed)
    /\ node' = [node EXCEPT ![s].scan = "done",
                            ![s].cancelled = @ \/ node[s].scan # "answered"]
    /\ UNCHANGED req /\ NodeUnchanged

\* tx.closed() wins the select, and a failed send ends the exchange.
ResponseClosed(s) ==
    /\ node[s].scan \in {"marked", "waiting", "resolved", "answered", "refused", "timeout"}
    /\ ~rpc[s]
    /\ node' = [node EXCEPT ![s].scan = "done", ![s].cancelled = TRUE]
    /\ UNCHANGED <<req, resp>> /\ NodeUnchanged

\* One message of the request stream.
PumpRecv(s) ==
    /\ node[s].pump = "running" /\ node[s].scan # "done" /\ req[s] # <<>>
    /\ req' = [req EXCEPT ![s] = Tail(@)]
    /\ node' = [node EXCEPT ![s] =
          CASE Head(req[s]).kind = "floor" ->
                 [@ EXCEPT !.cell = raise_floor_cell(node[s].cell, Head(req[s]).floor)]
            [] Head(req[s]).kind = "stop" -> [@ EXCEPT !.cancelled = TRUE, !.pump = "stopped"]
            [] Head(req[s]).kind = "resolve" ->
                 IF @.ready THEN [@ EXCEPT !.pump = "selected"]
                 ELSE [@ EXCEPT !.cancelled = TRUE, !.pump = "failed"]]
    /\ UNCHANGED resp /\ NodeUnchanged

\* The request stream ended: the RPC is gone, or every sender is and the
\* channel is drained.
PumpClosed(s) ==
    /\ node[s].pump = "running" /\ node[s].scan # "done"
    /\ ~rpc[s] \/ (req[s] = <<>> /\ s \notin open \cup stopping)
    /\ node' = [node EXCEPT ![s].cancelled = TRUE, ![s].pump = "failed"]
    /\ UNCHANGED <<req, resp>> /\ NodeUnchanged

\* apply_stream_datagram: the token is registered while the scan runs, and a
\* signed frame must be newer than the last one applied (accept_seq).
Datagram(s) ==
    \E d \in lane[s] :
      /\ node[s].scan \in {"scanning", "polled", "scanned"}
      /\ Signed => d.seq > node[s].last
      /\ node' = [node EXCEPT ![s] =
            [@ EXCEPT !.last = IF Signed THEN d.seq ELSE node[s].last,
                      !.cell = IF d.kind = "floor" THEN raise_floor_cell(node[s].cell, d.floor)
                               ELSE node[s].cell,
                      !.cancelled = node[s].cancelled \/ d.kind = "cancel"]]
      /\ UNCHANGED <<req, resp>> /\ NodeUnchanged

-----------------------------------------------------------------------------
(* The coordinator.                                                        *)

\* send_signal to every open lane, in shard order.
send_signal(kind, floor) ==
    LET to == open \cap Lanes
    IN  /\ lane' = [s \in Active |-> IF s \notin to THEN lane[s] ELSE lane[s] \cup
              {[seq |-> IF Signed THEN seq + Cardinality({t \in to : t <= s}) ELSE 0,
                kind |-> kind, floor |-> floor]}]
        /\ seq' = IF Signed THEN seq + Cardinality(to) ELSE seq

\* Drop unfinished streams: the datagrams go first, Stops follow.
Abandon(why) ==
    /\ send_signal("cancel", NegInf)
    /\ phase' = "cancel" /\ cause' = why
    /\ open' = {} /\ stopping' = open
    /\ UNCHANGED <<heap, lastFloor, certified, scoring, asked, received, terminal, result>>

\* cancel_with: the error is returned once the Stops were given their grace.
cancel_with(why) == Abandon(why) /\ UNCHANGED outcome

\* Drop for StreamFanout: the error is already out, the Stops are spawned.
DropFanout(why) == Abandon(why) /\ outcome' = "err"

\* The K-th score of a full heap, one step down.
StreamFloor(S) == KthMerged(S) - 1

\* push_stream_floor: the datagram, then try_send.
push_stream_floor(floor) ==
    /\ send_signal("floor", floor)
    /\ req' = [s \in Active |->
          IF s \in open /\ Len(req[s]) < RequestCap
          THEN Append(req[s], [kind |-> "floor", floor |-> floor]) ELSE req[s]]

\* Mutated form of push_hits: an entry with the worst survivor's score never
\* replaces it.
push_hits_FirstWins(hits) ==
    LET keep == merge_topk(heap \cup hits, K)
    IN  IF \E h \in heap \ keep, g \in keep \ heap : Score(h) = Score(g) THEN heap ELSE keep

\* Mutated form of push_hits: the heap grows to one entry too many.
push_hits_OffByOne(hits) == merge_topk(heap \cup hits, K + 1)

\* Each record enters a heap that is not full or displaces its worst survivor.
push_hits(hits) == merge_topk(heap \cup hits, K)

\* A batch is folded into the heap; a tightened K-th score is pushed.
TakeBatch(hits) ==
    LET new == push_hits(hits)
    IN  /\ heap' = new
        /\ IF Cardinality(new) = K /\ StreamFloor(new) > lastFloor
           THEN lastFloor' = StreamFloor(new) /\ push_stream_floor(StreamFloor(new))
           ELSE UNCHANGED <<lastFloor, lane, seq, req>>
        /\ UNCHANGED <<phase, open, stopping, certified, scoring, asked, received, terminal,
                       cause, outcome, result>>

TakeReady(s) ==
    /\ certified' = certified \cup {s}
    /\ scoring' = {fingerprint[s]}
    /\ UNCHANGED <<lane, req, phase, open, stopping, heap, lastFloor, seq, asked, received,
                   terminal, cause, outcome, result>>

\* next_message: what the response path of s holds next.  A handler that
\* ended closes it; that is an error before the terminal Summary.
Arrived(s) == resp[s] # <<>> \/ (node[s].scan = "done" /\ rpc[s] /\ s \notin terminal)
Message(s) == IF resp[s] # <<>> THEN Head(resp[s])
              ELSE [kind |-> "closed", hits |-> {}, completed |-> FALSE]
Consume(s) == resp' = [resp EXCEPT ![s] = IF @ = <<>> THEN @ ELSE Tail(@)]

\* The loop of fanout_stream_search.
RecvScan(s) ==
    LET m == Message(s)
    IN  /\ phase = "scan" /\ certified # Active /\ Arrived(s)
        /\ Consume(s)
        /\ IF m.kind = "batch" /\ s \notin certified THEN TakeBatch(m.hits)
           ELSE IF m.kind = "ready" /\ s \notin certified /\ m.completed
           THEN IF scoring \subseteq {fingerprint[s]} THEN TakeReady(s)
                ELSE cancel_with("scoring") /\ UNCHANGED req
           ELSE cancel_with(IF m.kind = "timeout" THEN "timeout" ELSE "protocol") /\ UNCHANGED req
        /\ UNCHANGED <<requestVars, rpc, breaks, node>>

\* refuse_unknown, after the last certificate.
ScanEnds ==
    /\ phase = "scan" /\ certified = Active
    /\ IF known
       THEN /\ phase' = IF open = {} THEN "resolve" ELSE "ask"
            /\ UNCHANGED <<lane, open, stopping, heap, lastFloor, seq, certified, scoring, asked,
                           received, terminal, cause, outcome, result>>
       ELSE DropFanout("columns")
    /\ UNCHANGED <<requestVars, rpc, breaks, nodeVars>>

\* ResolveIdentities to one open stream after the other.
Ask(s) ==
    /\ phase = "ask" /\ s \in open \ asked /\ \A t \in open \ asked : s <= t
    /\ Len(req[s]) < RequestCap
    /\ req' = [req EXCEPT ![s] = Append(@, [kind |-> "resolve", floor |-> NegInf])]
    /\ asked' = asked \cup {s}
    /\ phase' = IF asked' = open THEN "resolve" ELSE "ask"
    /\ UNCHANGED <<requestVars, rpc, breaks, node, resp, lane, open, stopping, heap, lastFloor,
                   seq, certified, scoring, received, terminal, cause, outcome, result>>

AskFails(s) ==
    /\ phase = "ask" /\ s \in open \ asked /\ \A t \in open \ asked : s <= t
    /\ ~rpc[s] \/ node[s].scan = "done"
    /\ cancel_with("broken")
    /\ UNCHANGED <<requestVars, rpc, breaks, nodeVars>>

\* The loop of resolve_identities: identities once, then the Summary that
\* equals the certificate; mark_completed drops the sender.
RecvResolve(s) ==
    LET m == Message(s)
    IN  /\ phase = "resolve" /\ terminal # Active /\ Arrived(s)
        /\ Consume(s)
        /\ IF m.kind = "identities" /\ s \notin received
           THEN /\ received' = received \cup {s}
                /\ UNCHANGED <<lane, phase, open, stopping, seq, terminal, cause, outcome, heap,
                               lastFloor, certified, scoring, asked, result>>
           ELSE IF m.kind = "summary" /\ s \in received \ terminal /\ m.completed
           THEN /\ terminal' = terminal \cup {s} /\ open' = open \ {s}
                /\ UNCHANGED <<lane, phase, stopping, seq, received, cause, outcome, heap,
                               lastFloor, certified, scoring, asked, result>>
           ELSE cancel_with(IF m.kind = "timeout" THEN "timeout" ELSE "protocol")
        /\ UNCHANGED <<requestVars, rpc, breaks, node, req>>

\* Every Summary matched: the sorted heap is the answer, and dropping the
\* fan-out releases its readers.
Return ==
    /\ phase = "resolve" /\ terminal = Active
    /\ phase' = "ended" /\ outcome' = "ok" /\ result' = heap
    /\ rpc' = [s \in Active |-> FALSE]
    /\ UNCHANGED <<requestVars, breaks, nodeVars, lane, open, stopping, heap, lastFloor, seq,
                   certified, scoring, asked, received, terminal, cause>>

\* Mutated form of RecvBroken: only a break after the certificates is reported.
RecvBroken_Silent(s) ==
    /\ phase = "resolve" /\ terminal # Active
    /\ ~rpc[s]
    /\ cancel_with("broken")
    /\ UNCHANGED <<requestVars, rpc, breaks, nodeVars>>

\* A reader reports that its stream broke.
RecvBroken(s) ==
    /\ \/ phase = "scan" /\ certified # Active
       \/ phase = "resolve" /\ terminal # Active
    /\ ~rpc[s]
    /\ cancel_with("broken")
    /\ UNCHANGED <<requestVars, rpc, breaks, nodeVars>>

\* send_stream_stops: every Stop waits for room in its request channel.
SendStop(s) ==
    /\ s \in stopping
    /\ Len(req[s]) < RequestCap
    /\ req' = [req EXCEPT ![s] = Append(@, [kind |-> "stop", floor |-> NegInf])]
    /\ stopping' = stopping \ {s}
    /\ UNCHANGED <<requestVars, rpc, breaks, node, resp, lane, phase, open, heap, lastFloor, seq,
                   certified, scoring, asked, received, terminal, cause, outcome, result>>

\* The Stops are out or their grace is over: the readers are aborted, which
\* closes every RPC, and the error is returned.
CancelEnds ==
    /\ phase = "cancel"
    /\ phase' = "ended" /\ outcome' = "err" /\ stopping' = {}
    /\ rpc' = [s \in Active |-> FALSE]
    /\ UNCHANGED <<requestVars, breaks, nodeVars, lane, open, heap, lastFloor, seq, certified,
                   scoring, asked, received, terminal, cause, result>>

-----------------------------------------------------------------------------
(* What may go wrong around the search.                                    *)

Fault == breaks < Failures /\ breaks' = breaks + 1

\* A stream breaks: a connection is lost or a node answers with an error.
StreamBreaks(s) ==
    /\ Fault /\ rpc[s]
    /\ rpc' = [rpc EXCEPT ![s] = FALSE]
    /\ UNCHANGED <<requestVars, lane, nodeVars, coordVars>>

\* The node's timeout around the identity exchange.
NodeTimeout(s) ==
    /\ Fault /\ node[s].scan \in {"marked", "waiting", "resolved", "answered"}
    /\ node' = [node EXCEPT ![s].scan = "timeout", ![s].cancelled = TRUE]
    /\ UNCHANGED <<requestVars, lane, rpc, req, resp, coordVars>>

\* The coordinator's timeout around the identity exchange.
IdentityTimeout ==
    /\ Fault /\ phase \in {"ask", "resolve"}
    /\ cancel_with("timeout")
    /\ UNCHANGED <<requestVars, rpc, nodeVars>>

\* The caller goes away and drops the future, fan-out included.
CallerDrops ==
    /\ Fault /\ phase \in {"scan", "ask", "resolve"}
    /\ DropFanout("dropped")
    /\ UNCHANGED <<requestVars, rpc, nodeVars>>

-----------------------------------------------------------------------------
NodeStep(s) ==
    \/ Poll(s) \/ Emit(s) \/ Covered(s) \/ MarkReady(s) \/ Incomplete(s) \/ SendReady(s)
    \/ Await(s) \/ SendIdentities(s) \/ Finish(s) \/ ResponseClosed(s)
PumpStep(s) == PumpRecv(s) \/ PumpClosed(s)
CoordStep(s) ==
    \/ RecvScan(s) \/ Ask(s) \/ AskFails(s) \/ RecvResolve(s) \/ RecvBroken(s)
    \/ SendStop(s)

Next ==
    \/ \E s \in Active :
         \/ NodeStep(s) \/ PumpStep(s) \/ Datagram(s) \/ CoordStep(s)
         \/ StreamBreaks(s) \/ NodeTimeout(s)
    \/ ScanEnds \/ Return \/ CancelEnds
    \/ IdentityTimeout \/ CallerDrops

Spec == Init /\ [][Next]_vars

\* The scan, its pump and the coordinator's tasks are scheduled fairly, and
\* the grace timer fires.  Nothing is assumed of datagrams.
FairSpec ==
    /\ Spec
    /\ \A s \in Active :
         /\ WF_vars(NodeStep(s)) /\ WF_vars(PumpStep(s)) /\ WF_vars(CoordStep(s))
    /\ WF_vars(ScanEnds) /\ WF_vars(Return) /\ WF_vars(CancelEnds)
-----------------------------------------------------------------------------
\* Every floor the search made up, wherever it is (the coordinator, a request
\* channel, a datagram, a node), is reached by K admitted hits: pruning below
\* it loses nothing.
StreamFloorsValid ==
    /\ ValidFloor(lastFloor)
    /\ \A s \in Active :
         /\ ValidFloor(node[s].cell) /\ ValidFloor(node[s].floor)
         /\ \A i \in 1..Len(req[s]) : req[s][i].kind = "floor" => ValidFloor(req[s][i].floor)
         /\ \A d \in lane[s] : d.kind = "floor" => ValidFloor(d.floor)

\* An accepted certificate covers its shard: from then on no hit of the exact
\* answer that lives on the shard is missing from the coordinator's heap,
\* whatever the floors, the cancels and the datagrams did to the scan.
CertificateCovers == \A s \in certified : ExactTopK \cap ShardHits(s) \subseteq heap

\* The streaming search answers with the exact top-k or with an error, and
\* its answer never mixes two scoring fingerprints.
StreamExact ==
    /\ outcome = "ok" => result = ExactTopK
    /\ outcome = "ok" => \A s, t \in Active : fingerprint[s] = fingerprint[t]
    /\ outcome # "ok" => result = {}

\* A search is refused only for a reason outside the protocol: the handshake
\* of certificates, identities and summaries never trips over itself.
RefusalHasCause ==
    /\ cause # "protocol"
    /\ cause \in {"broken", "timeout", "dropped"} => breaks > 0
    /\ cause = "scoring" => \E s, t \in Active : fingerprint[s] # fingerprint[t]
    /\ cause = "columns" => ~known
    /\ outcome = "err" => cause # "none"

\* The search ends, and every node it started is released: the handler ends,
\* so the read guard its scan holds is dropped, also when the search was
\* abandoned while the scan was blocked on a full response channel.
StreamSettles ==
    /\ <>(outcome # "pending")
    /\ <>[](\A s \in Active : node[s].scan = "done")
=============================================================================
