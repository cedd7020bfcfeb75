------------------------ MODULE StreamHandshakeProofs ------------------------
(***************************************************************************)
(* A streaming search is refused only for a cause outside the protocol:    *)
(* the exchange of certificates, identities and summaries never trips over *)
(* itself, whatever the interleaving of nodes, pumps, readers and faults.  *)
(*                                                                         *)
(* The strengthening is Handshake.  It says which messages a response path *)
(* may hold for what the node has done and the coordinator has accepted.   *)
(***************************************************************************)
EXTENDS StreamTypeProofs

-----------------------------------------------------------------------------
\* What a node whose stream is up has done.
NodeAgrees(s) ==
    LET n == node[s]
        q == resp[s]
    IN  /\ n.cancelled => breaks > 0 /\ n.scan \in {"timeout", "done"}
        /\ n.scan = "scanned" => n.completed
        /\ n.scan \in {"marked", "waiting", "resolved", "answered"} => n.completed /\ n.ready
        /\ n.scan # "refused"
        /\ n.scan = "timeout" => breaks > 0
        /\ n.pump \in {"running", "selected"}
        /\ n.pump = "selected" => s \in asked
        /\ n.scan \in {"resolved", "answered"} => n.pump = "selected"
        /\ n.scan = "answered" => \/ q = <<>> /\ s \in received
                                  \/ Len(q) = 1 /\ q[1].kind = "identities"
        /\ n.scan = "done" => /\ breaks > 0 \/ s \in asked
                              /\ \/ s \in terminal
                                 \/ q # <<>> /\ q[Len(q)].kind \in {"summary", "timeout"}

\* What message i of a response path says of the node and the coordinator.
MessageAgrees(s, i) ==
    LET q == resp[s]
    IN  /\ q[i].kind # "refused"
        /\ q[i].kind \in {"batch", "ready"} =>
             /\ s \notin certified
             /\ \A j \in 1..(i - 1) : q[j].kind = "batch"
        /\ q[i].kind = "ready" => q[i].completed /\ node[s].ready
        /\ q[i].kind = "identities" => i = 1 /\ s \in asked /\ s \notin received
        /\ q[i].kind = "summary" =>
             /\ q[i].completed /\ s \notin terminal /\ s \in asked
             /\ \/ i = 1 /\ s \in received
                \/ i = 2 /\ q[1].kind = "identities"
        /\ q[i].kind = "timeout" => breaks > 0
        /\ q[i].kind \in {"summary", "timeout"} => node[s].scan = "done"

\* What a scan that has not answered yet has left on its response path.
ScanAgrees(s) ==
    /\ node[s].scan \in {"scanning", "polled", "scanned", "marked"} =>
         s \notin certified /\ \A i \in 1..Len(resp[s]) : resp[s][i].kind = "batch"
    /\ node[s].scan \in {"scanning", "polled", "scanned", "marked", "waiting", "resolved"} =>
         s \notin received /\ \A i \in 1..Len(resp[s]) : resp[s][i].kind \in {"batch", "ready"}
    /\ s \in terminal => node[s].scan = "done"
    /\ s \in certified => node[s].ready

\* What the coordinator has sent.
SentAgrees(s) ==
    /\ \A i \in 1..Len(req[s]) :
         req[s][i].kind # "stop" /\ (req[s][i].kind = "resolve" => s \in asked)
    /\ \A d \in lane[s] : d.kind = "floor"

(* Node, channels and coordinator agree about one shard.                    *)
ShardAgrees(s) ==
    /\ ~rpc[s] => breaks > 0
    /\ rpc[s] => NodeAgrees(s)
    /\ \A i \in 1..Len(resp[s]) : MessageAgrees(s, i)
    /\ ScanAgrees(s) /\ SentAgrees(s)

\* What the phase of a running search says.
PhaseAgrees ==
    /\ open = Active \ terminal /\ stopping = {}
    /\ asked \subseteq certified
    /\ phase = "scan" => asked = {}
    /\ phase \in {"ask", "resolve"} => certified = Active
    /\ scoring \subseteq {fingerprint[s] : s \in certified}

(* The inductive invariant: while the search runs the two ends agree, and   *)
(* it is given up only for a cause.                                         *)
Handshake ==
    /\ Live => PhaseAgrees /\ \A s \in Active : ShardAgrees(s)
    /\ phase = "cancel" => cause # "none"
    /\ outcome = "err" => phase \in {"cancel", "ended"}
    /\ RefusalHasCause

-----------------------------------------------------------------------------
\* Nothing about a shard changes.
LEMMA ShardFrame ==
    ASSUME NEW t \in Active, ShardAgrees(t), SentAgrees(t)',
           node'[t] = node[t], resp'[t] = resp[t], rpc'[t] = rpc[t], breaks > 0 => breaks' > 0,
           t \in asked => t \in asked', t \in certified' <=> t \in certified,
           t \in received' <=> t \in received, t \in terminal' <=> t \in terminal
    PROVE  ShardAgrees(t)'
<1>1. (~ rpc[t] => breaks > 0)'
  BY Zenon DEF ShardAgrees
<1>2. rpc'[t] => NodeAgrees(t)'
  BY Zenon DEF ShardAgrees, NodeAgrees
<1>3. \A i \in 1..Len(resp'[t]) : MessageAgrees(t, i)'
  BY Zenon DEF ShardAgrees, MessageAgrees
<1>4. ScanAgrees(t)'
  BY Zenon DEF ShardAgrees, ScanAgrees
<1> QED
  BY <1>1, <1>2, <1>3, <1>4, Zenon DEF ShardAgrees

\* A step of a node that leaves its response path alone.
LEMMA QuietStep ==
    ASSUME NEW s \in Active, ShardAgrees(s), SentAgrees(s)', rpc[s] => NodeAgrees(s)',
           UNCHANGED <<rpc, coordVars>>, resp'[s] = resp[s], breaks > 0 => breaks' > 0,
           node[s].ready => node'[s].ready, node[s].scan = "done" => node'[s].scan = "done",
           node'[s].scan \in {"scanning", "polled", "scanned", "marked"} =>
             node[s].scan \in {"scanning", "polled", "scanned", "marked"},
           node'[s].scan \in {"waiting", "resolved"} => node[s].scan \in {"waiting", "resolved"}
    PROVE  ShardAgrees(s)'
<1> USE DEF coordVars
<1>1. \A i \in 1..Len(resp'[s]) : MessageAgrees(s, i)'
  BY DEF ShardAgrees, MessageAgrees
<1>2. ScanAgrees(s)'
  BY Zenon DEF ShardAgrees, ScanAgrees
<1> QED
  BY <1>1, <1>2, Zenon DEF ShardAgrees

\* The requests still on their way after a node's step.
LEMMA SentNode ==
    ASSUME TypeOK, NEW s \in Active, ShardAgrees(s), NodeAction(s)
    PROVE  SentAgrees(s)'
<1>1. lane' = lane /\ asked' = asked /\ req[s] \in Seq(Requests)
  BY NodeFrame, Zenon DEF coordVars, TypeOK
<1>2. CASE req'[s] = req[s]
  BY <1>1, <1>2, Zenon DEF ShardAgrees, SentAgrees
<1>3. CASE req[s] # <<>> /\ req'[s] = Tail(req[s])
  <2>1. /\ Len(req[s]) \in Nat /\ Len(req'[s]) = Len(req[s]) - 1
        /\ \A i \in 1..(Len(req[s]) - 1) : req'[s][i] = req[s][i + 1]
    BY <1>1, <1>3, Taken, Zenon
  <2>2. ASSUME NEW i \in 1..Len(req'[s])
        PROVE  req'[s][i] = req[s][i + 1] /\ i + 1 \in 1..Len(req[s])
    BY <2>1
  <2> QED
    BY <1>1, <2>2, Zenon DEF ShardAgrees, SentAgrees
<1> QED
  BY <1>2, <1>3, FloorFields, Zenon

\* The scan's own steps that send nothing.
LEMMA HandScan ==
    ASSUME TypeOK, NEW s \in Active, ShardAgrees(s),
           Poll(s) \/ Covered(s) \/ MarkReady(s) \/ Incomplete(s) \/ Await(s) \/ ResponseClosed(s)
           \/ NodeTimeout(s)
    PROVE  ShardAgrees(s)'
<1>1. node \in [Active -> Nodes] /\ node[s] \in Nodes
  BY Zenon DEF TypeOK
<1>2. NodeAction(s)
  BY Zenon DEF NodeAction, NodeStep
<1>3. SentAgrees(s)' /\ UNCHANGED <<rpc, coordVars>> /\ (breaks > 0 => breaks' > 0)
  BY <1>2, SentNode, NodeFrame
<1>4. rpc[s] => NodeAgrees(s)
  BY Zenon DEF ShardAgrees
<1>5. CASE Poll(s)
  <2>1. /\ resp'[s] = resp[s] /\ node[s].scan = "scanning"
        /\ node'[s].scan = IF node[s].cancelled THEN "scanned" ELSE "polled"
        /\ node'[s].ready = node[s].ready /\ node'[s].completed = node[s].completed
        /\ node'[s].pump = node[s].pump /\ node'[s].cancelled = node[s].cancelled
    BY <1>1, <1>5, Zenon DEF Poll, Nodes
  <2>2. rpc[s] => NodeAgrees(s)'
    BY <1>3, <1>4, <2>1, Zenon DEF NodeAgrees, coordVars
  <2> QED
    BY <1>3, <2>1, <2>2, QuietStep, Zenon
<1>6. CASE Covered(s)
  <2>1. /\ resp'[s] = resp[s] /\ node[s].scan = "scanning" /\ node'[s].scan = "scanned"
        /\ node'[s].ready = node[s].ready /\ node'[s].completed = ~ node[s].cancelled
        /\ node'[s].pump = node[s].pump /\ node'[s].cancelled = node[s].cancelled
    BY <1>1, <1>6, Zenon DEF Covered, Nodes
  <2>2. rpc[s] => NodeAgrees(s)'
    BY Zenon, <1>3, <1>4, <2>1 DEF NodeAgrees, coordVars
  <2> QED
    BY <1>3, <2>1, <2>2, QuietStep, Zenon
<1>7. CASE MarkReady(s)
  <2>1. /\ resp'[s] = resp[s] /\ node[s].scan = "scanned" /\ node'[s].scan = "marked"
        /\ node'[s].ready /\ node'[s].completed
        /\ node'[s].pump = node[s].pump /\ node'[s].cancelled = node[s].cancelled
    BY <1>1, <1>7, Zenon DEF MarkReady, Nodes
  <2>2. rpc[s] => NodeAgrees(s)'
    BY <1>3, <1>4, <2>1, Zenon DEF NodeAgrees, coordVars
  <2> QED
    BY <1>3, <2>1, <2>2, QuietStep, Zenon
<1>8. CASE Incomplete(s)
  <2>1. /\ resp'[s] = resp[s] /\ node[s].scan = "scanned" /\ ~ node[s].completed
        /\ node'[s].scan \in {"refused", "answered"} /\ node'[s].ready = node[s].ready
    BY <1>1, <1>8, Zenon DEF Incomplete, Nodes
  <2>2. ~ rpc[s]
    BY <1>4, <2>1, Zenon DEF NodeAgrees
  <2> QED
    BY <1>3, <2>1, <2>2, QuietStep, Zenon
<1>9. CASE Await(s)
  <2>1. /\ resp'[s] = resp[s] /\ node[s].scan = "waiting" /\ node[s].pump # "running"
        /\ node'[s].ready = node[s].ready /\ node'[s].scan \in {"refused", "resolved", "answered"}
        /\ node'[s].pump = node[s].pump /\ node'[s].cancelled = node[s].cancelled
        /\ node[s].pump = "selected" =>
             /\ node'[s].scan = IF node[s].cancelled THEN "refused" ELSE "resolved"
             /\ node'[s].completed = node[s].completed
    <3>1. resp'[s] = resp[s] /\ node[s].scan = "waiting" /\ node[s].pump # "running"
      BY <1>9, Zenon DEF Await
    <3>2. CASE node[s].pump = "selected"
      BY <1>1, <1>9, <3>1, <3>2, Zenon DEF Await, Nodes
    <3>3. CASE node[s].pump = "stopped"
      BY <1>1, <1>9, <3>1, <3>3, Zenon DEF Await, Nodes
    <3>4. CASE node[s].pump = "failed"
      BY <1>1, <1>9, <3>1, <3>4, Zenon DEF Await, Nodes
    <3> QED
      BY <1>1, <3>1, <3>2, <3>3, <3>4, Zenon DEF Nodes
  <2>2. rpc[s] => NodeAgrees(s)'
    BY <1>3, <1>4, <2>1, Zenon DEF NodeAgrees, coordVars
  <2> QED
    BY <1>3, <2>1, <2>2, QuietStep, Zenon
<1>10. CASE ResponseClosed(s)
  <2>1. /\ resp'[s] = resp[s] /\ ~ rpc[s] /\ node'[s].scan = "done"
        /\ node'[s].ready = node[s].ready
    BY <1>1, <1>10, Zenon DEF ResponseClosed, Nodes
  <2> QED
    BY <1>3, <2>1, QuietStep, Zenon
<1>11. CASE NodeTimeout(s)
  <2>1. /\ resp'[s] = resp[s] /\ node[s].scan # "done" /\ node'[s].scan = "timeout"
        /\ node'[s].ready = node[s].ready /\ node'[s].pump = node[s].pump
    BY <1>1, <1>11, Zenon DEF NodeTimeout, Nodes
  <2>2. breaks' > 0
    BY <1>11, StreamSearchAssumption DEF NodeTimeout, Fault, TypeOK
  <2>3. rpc[s] => NodeAgrees(s)'
    BY <1>3, <1>4, <2>1, <2>2, Zenon DEF NodeAgrees, coordVars
  <2> QED
    BY <1>3, <2>1, <2>3, QuietStep, Zenon
<1> QED
  BY <1>5, <1>6, <1>7, <1>8, <1>9, <1>10, <1>11, Zenon

\* The pump's steps and the datagrams.
LEMMA HandPump ==
    ASSUME TypeOK, PhaseAgrees, NEW s \in Active, ShardAgrees(s), PumpStep(s) \/ Datagram(s)
    PROVE  ShardAgrees(s)'
<1>1. node \in [Active -> Nodes] /\ node[s] \in Nodes
  BY Zenon DEF TypeOK
<1>2. NodeAction(s)
  BY Zenon DEF NodeAction
<1>3. SentAgrees(s)' /\ UNCHANGED <<rpc, coordVars>> /\ (breaks > 0 => breaks' > 0)
  BY <1>2, SentNode, NodeFrame
<1>4. rpc[s] => NodeAgrees(s)
  BY Zenon DEF ShardAgrees
<1>5. CASE PumpRecv(s)
  <2>1. /\ resp'[s] = resp[s] /\ req[s] # <<>> /\ node[s].pump = "running"
        /\ req[s] \in Seq(Requests)
    BY <1>5, Zenon DEF PumpRecv, TypeOK
  <2>2. Head(req[s]) = req[s][1] /\ 1 \in 1..Len(req[s]) /\ req[s][1] \in Requests
    BY <2>1, Taken
  <2>3. Head(req[s]).kind \in {"floor", "resolve"} /\ (Head(req[s]).kind = "resolve" => s \in asked)
    BY <2>2, Zenon DEF ShardAgrees, SentAgrees, Requests
  <2>4. s \in asked => node[s].ready
    BY Zenon DEF PhaseAgrees, ShardAgrees, ScanAgrees
  <2>5. /\ node'[s].scan = node[s].scan /\ node'[s].ready = node[s].ready
        /\ node'[s].completed = node[s].completed /\ node'[s].cancelled = node[s].cancelled
        /\ node'[s].pump = node[s].pump \/ (s \in asked /\ node'[s].pump = "selected")
    <3>1. CASE Head(req[s]).kind = "floor"
      BY Zenon, <1>1, <1>5, <3>1 DEF PumpRecv, Nodes
    <3>2. CASE Head(req[s]).kind = "resolve"
      BY Zenon, <1>1, <1>5, <2>3, <2>4, <3>2 DEF PumpRecv, Nodes
    <3> QED
      BY <2>3, <3>1, <3>2, Zenon
  <2>6. rpc[s] => NodeAgrees(s)'
    BY <1>3, <1>4, <2>1, <2>5, Zenon DEF NodeAgrees, coordVars
  <2> QED
    BY <1>3, <2>1, <2>5, <2>6, QuietStep, Zenon
<1>6. CASE PumpClosed(s)
  <2>1. /\ resp'[s] = resp[s] /\ node'[s].scan = node[s].scan /\ node'[s].ready = node[s].ready
        /\ node[s].scan # "done" /\ (rpc[s] => s \notin open)
    BY <1>1, <1>6, Zenon DEF PumpClosed, Nodes
  <2>2. ~ rpc[s]
    BY <2>1, Zenon DEF PhaseAgrees, ShardAgrees, ScanAgrees
  <2> QED
    BY <1>3, <2>1, <2>2, QuietStep, Zenon
<1>7. CASE Datagram(s)
  <2>1. PICK d \in lane[s] :
          node' = [node EXCEPT ![s] =
            [@ EXCEPT !.last = IF Signed THEN d.seq ELSE node[s].last,
                      !.cell = IF d.kind = "floor" THEN raise_floor_cell(node[s].cell, d.floor)
                               ELSE node[s].cell,
                      !.cancelled = node[s].cancelled \/ d.kind = "cancel"]]
    BY Zenon, <1>7 DEF Datagram
  <2>2. d.kind = "floor"
    BY Zenon DEF ShardAgrees, SentAgrees
  <2>3. /\ node'[s].scan = node[s].scan /\ node'[s].ready = node[s].ready
        /\ node'[s].completed = node[s].completed /\ node'[s].pump = node[s].pump
        /\ node'[s].cancelled = (node[s].cancelled \/ d.kind = "cancel")
    BY <1>1, <2>1, Zenon DEF Nodes
  <2>4. node'[s].cancelled = node[s].cancelled /\ resp'[s] = resp[s]
    BY Zenon, <1>1, <1>7, <2>2, <2>3 DEF Nodes, Datagram
  <2>5. rpc[s] => NodeAgrees(s)'
    BY <1>3, <1>4, <2>3, <2>4, Zenon DEF NodeAgrees, coordVars
  <2> QED
    BY <1>3, <2>3, <2>4, <2>5, QuietStep, Zenon
<1> QED
  BY <1>5, <1>6, <1>7, Zenon DEF PumpStep

\* A response appended to a path leaves the ones ahead of it in agreement.
LEMMA EarlierAgree ==
    ASSUME TypeOK, NEW s \in Active, ShardAgrees(s), NEW m \in Responses,
           resp' = [resp EXCEPT ![s] = Append(@, m)], UNCHANGED <<rpc, breaks, coordVars>>,
           node[s].ready => node'[s].ready, node[s].scan = "done" => node'[s].scan = "done"
    PROVE  /\ Len(resp[s]) \in Nat /\ Len(resp'[s]) = Len(resp[s]) + 1
           /\ resp'[s][Len(resp[s]) + 1] = m
           /\ \A i \in 1..Len(resp[s]) : resp'[s][i] = resp[s][i] /\ MessageAgrees(s, i)'
<1>1. resp[s] \in Seq(Responses) /\ resp'[s] = Append(resp[s], m)
  BY Zenon DEF TypeOK
<1>2. /\ Len(resp[s]) \in Nat /\ Len(resp'[s]) = Len(resp[s]) + 1
      /\ resp'[s][Len(resp[s]) + 1] = m
      /\ \A i \in 1..Len(resp[s]) : resp'[s][i] = resp[s][i]
  BY <1>1, Appended
<1>3. ASSUME NEW i \in 1..Len(resp[s]) PROVE MessageAgrees(s, i)'
  <2>1. \A j \in 1..(i - 1) : j \in 1..Len(resp[s])
    BY <1>2
  <2>2. resp'[s][i] = resp[s][i] /\ (i = 2 => resp'[s][1] = resp[s][1])
    BY <1>2
  <2>3. \A j \in 1..(i - 1) : resp'[s][j] = resp[s][j]
    BY <1>2, <2>1, Zenon
  <2> QED
    BY <2>2, <2>3 DEF ShardAgrees, MessageAgrees, coordVars
<1> QED
  BY <1>2, <1>3, Zenon

\* The scan sends a batch.
LEMMA HandEmit ==
    ASSUME TypeOK, PhaseAgrees, NEW s \in Active, ShardAgrees(s), Emit(s)
    PROVE  ShardAgrees(s)'
<1>1. node \in [Active -> Nodes] /\ node[s] \in Nodes
  BY Zenon DEF TypeOK
<1>2. NodeAction(s)
  BY Zenon DEF NodeAction, NodeStep
<1>3. SentAgrees(s)' /\ UNCHANGED <<rpc, coordVars>> /\ breaks' = breaks
  BY <1>2, SentNode, Zenon DEF Emit, NodeUnchanged
<1>4. (rpc[s] => NodeAgrees(s)) /\ ScanAgrees(s) /\ (~ rpc[s] => breaks > 0)
  BY Zenon DEF ShardAgrees
<1>5. asked \subseteq certified /\ terminal \subseteq received
  BY Zenon DEF PhaseAgrees, TypeOK
<1>6. PICK n \in Nat : n = Len(resp[s])
  <2>1. resp[s] \in Seq(Responses)
    BY Zenon DEF TypeOK
  <2>2. Len(resp[s]) \in Nat
    BY <2>1
  <2> QED
    BY <2>2, Zenon
<1>7. ShardAgrees(s)'
  <2>1. /\ node[s].scan = "polled" /\ node'[s].scan \in {"scanning", "scanned"}
        /\ rpc[s] => node'[s].scan = "scanning"
        /\ node'[s].ready = node[s].ready /\ node'[s].completed = node[s].completed
        /\ node'[s].pump = node[s].pump /\ node'[s].cancelled = node[s].cancelled
    BY <1>1, Zenon DEF Emit, Nodes
  <2>2. rpc[s] => NodeAgrees(s)'
    BY <1>3, <1>4, <2>1, Zenon DEF NodeAgrees, coordVars
  <2>3. CASE resp'[s] = resp[s]
    BY <1>3, <2>1, <2>2, <2>3, QuietStep, Zenon
  <2>4. CASE Reply(s, "batch", Unit(s), FALSE)
    <3> DEFINE m == [kind |-> "batch", hits |-> Unit(s), completed |-> FALSE]
    <3>1. s \in Shards /\ Unit(s) \subseteq Hits
      BY HitsOfShard, Zenon DEF Unit, Active
    <3>2. m \in Responses /\ m.kind = "batch"
      BY <3>1, Zenon DEF Responses
    <3>3. resp' = [resp EXCEPT ![s] = Append(@, m)]
      BY <2>4, Zenon DEF Reply
    <3> HIDE DEF m
    <3>0. UNCHANGED <<rpc, breaks, coordVars>> /\ node[s].scan # "done"
      BY <1>3, <2>1, Zenon
    <3>10. \A i \in 1..Len(resp[s]) : resp'[s][i] = resp[s][i] /\ MessageAgrees(s, i)'
      BY Zenon, <2>1, <3>0, <3>2, <3>3, EarlierAgree
    <3>14. /\ Len(resp'[s]) = Len(resp[s]) + 1 /\ resp'[s][Len(resp[s]) + 1] = m
          /\ \A i \in 1..Len(resp[s]) : resp'[s][i] = resp[s][i]
      BY Zenon, <2>1, <3>0, <3>2, <3>3, EarlierAgree
    <3>4. /\ Len(resp'[s]) = n + 1 /\ resp'[s][n + 1] = m
          /\ \A i \in 1..n : resp'[s][i] = resp[s][i]
      BY <1>6, <3>14, Zenon
    <3>5. s \notin certified /\ s \notin received /\ \A i \in 1..n : resp[s][i].kind = "batch"
      BY <1>4, <1>6, <2>1, Zenon DEF ScanAgrees
    <3>6. MessageAgrees(s, n + 1)'
      <4>0. (n + 1) - 1 = n
        OBVIOUS
      <4>1. \A j \in 1..((n + 1) - 1) : resp'[s][j].kind = "batch"
        BY Zenon, <3>4, <3>5, <4>0
      <4> QED
        BY <1>3, <3>2, <3>4, <3>5, <4>1, Zenon DEF MessageAgrees, coordVars
    <3>7. \A i \in 1..(n + 1) : i \in 1..n \/ i = n + 1
      OBVIOUS
    <3>8. \A i \in 1..Len(resp'[s]) : MessageAgrees(s, i)' /\ resp'[s][i].kind = "batch"
      BY Zenon, <1>6, <3>2, <3>4, <3>5, <3>6, <3>7, <3>10
    <3>9. ScanAgrees(s)'
      BY <1>3, <1>4, <2>1, <3>5, <3>8, Zenon DEF ScanAgrees, coordVars
    <3> QED
      BY <1>3, <1>4, <2>2, <3>8, <3>9, Zenon DEF ShardAgrees
  <2> QED
    BY Zenon, <2>3, <2>4 DEF Emit
<1> QED
  BY <1>7, Zenon

\* The scan sends the certificate.
LEMMA HandSendReady ==
    ASSUME TypeOK, PhaseAgrees, NEW s \in Active, ShardAgrees(s), SendReady(s)
    PROVE  ShardAgrees(s)'
<1>1. node \in [Active -> Nodes] /\ node[s] \in Nodes
  BY Zenon DEF TypeOK
<1>2. NodeAction(s)
  BY Zenon DEF NodeAction, NodeStep
<1>3. SentAgrees(s)' /\ UNCHANGED <<rpc, coordVars>> /\ breaks' = breaks
  BY <1>2, SentNode, Zenon DEF SendReady, NodeUnchanged
<1>4. (rpc[s] => NodeAgrees(s)) /\ ScanAgrees(s) /\ (~ rpc[s] => breaks > 0)
  BY Zenon DEF ShardAgrees
<1>5. asked \subseteq certified /\ terminal \subseteq received
  BY Zenon DEF PhaseAgrees, TypeOK
<1>6. PICK n \in Nat : n = Len(resp[s])
  <2>1. resp[s] \in Seq(Responses)
    BY Zenon DEF TypeOK
  <2>2. Len(resp[s]) \in Nat
    BY <2>1
  <2> QED
    BY <2>2, Zenon
<1>7. ShardAgrees(s)'
  <2> DEFINE m == [kind |-> "ready", hits |-> {}, completed |-> node[s].completed]
  <2>1. /\ rpc[s] /\ node[s].scan = "marked" /\ node'[s].scan = "waiting"
        /\ node'[s].ready = node[s].ready /\ node'[s].completed = node[s].completed
        /\ node'[s].pump = node[s].pump /\ node'[s].cancelled = node[s].cancelled
    BY <1>1, Zenon DEF SendReady, Reply, Nodes
  <2>2. m \in Responses /\ m.kind = "ready" /\ m.completed = node[s].completed
    BY <1>1, Zenon DEF Responses, Nodes
  <2>3. resp' = [resp EXCEPT ![s] = Append(@, m)]
    BY Zenon DEF SendReady, Reply
  <2> HIDE DEF m
  <2>0. UNCHANGED <<rpc, breaks, coordVars>> /\ node[s].scan # "done"
    BY <1>3, <2>1, Zenon
  <2>12. \A i \in 1..Len(resp[s]) : resp'[s][i] = resp[s][i] /\ MessageAgrees(s, i)'
    BY Zenon, <2>0, <2>1, <2>2, <2>3, EarlierAgree
  <2>14. /\ Len(resp'[s]) = Len(resp[s]) + 1 /\ resp'[s][Len(resp[s]) + 1] = m
        /\ \A i \in 1..Len(resp[s]) : resp'[s][i] = resp[s][i]
    BY Zenon, <2>0, <2>1, <2>2, <2>3, EarlierAgree
  <2>4. /\ Len(resp'[s]) = n + 1 /\ resp'[s][n + 1] = m
        /\ \A i \in 1..n : resp'[s][i] = resp[s][i]
    BY <1>6, <2>14, Zenon
  <2>5. s \notin certified /\ s \notin received /\ \A i \in 1..n : resp[s][i].kind = "batch"
    BY <1>4, <1>6, <2>1, Zenon DEF ScanAgrees
  <2>6. node[s].completed /\ node[s].ready
    BY <1>4, <2>1, Zenon DEF NodeAgrees
  <2>7. MessageAgrees(s, n + 1)'
    <3>0. (n + 1) - 1 = n
      OBVIOUS
    <3>1. \A j \in 1..((n + 1) - 1) : resp'[s][j].kind = "batch"
      BY <2>4, <2>5, <3>0, Zenon
    <3> QED
      BY Zenon, <1>3, <2>1, <2>2, <2>4, <2>5, <2>6, <3>1 DEF MessageAgrees, coordVars
  <2>8. \A i \in 1..(n + 1) : i \in 1..n \/ i = n + 1
    OBVIOUS
  <2>9. \A i \in 1..Len(resp'[s]) : MessageAgrees(s, i)' /\ resp'[s][i].kind \in {"batch", "ready"}
    BY <1>6, <2>2, <2>4, <2>5, <2>7, <2>8, <2>12
  <2>10. ScanAgrees(s)'
    BY <1>3, <1>4, <2>1, <2>5, <2>9, Zenon DEF ScanAgrees, coordVars
  <2>11. NodeAgrees(s)'
    BY <1>3, <1>4, <2>1, <2>6, Zenon DEF NodeAgrees, coordVars
  <2> QED
    BY <1>3, <1>4, <2>9, <2>10, <2>11, Zenon DEF ShardAgrees
<1> QED
  BY <1>7, Zenon

\* The scan sends the identities.
LEMMA HandSendIdentities ==
    ASSUME TypeOK, PhaseAgrees, NEW s \in Active, ShardAgrees(s), SendIdentities(s)
    PROVE  ShardAgrees(s)'
<1>1. node \in [Active -> Nodes] /\ node[s] \in Nodes
  BY Zenon DEF TypeOK
<1>2. NodeAction(s)
  BY Zenon DEF NodeAction, NodeStep
<1>3. SentAgrees(s)' /\ UNCHANGED <<rpc, coordVars>> /\ breaks' = breaks
  BY <1>2, SentNode, Zenon DEF SendIdentities, NodeUnchanged
<1>4. (rpc[s] => NodeAgrees(s)) /\ ScanAgrees(s) /\ (~ rpc[s] => breaks > 0)
  BY Zenon DEF ShardAgrees
<1>5. asked \subseteq certified /\ terminal \subseteq received
  BY Zenon DEF PhaseAgrees, TypeOK
<1>6. PICK n \in Nat : n = Len(resp[s])
  <2>1. resp[s] \in Seq(Responses)
    BY Zenon DEF TypeOK
  <2>2. Len(resp[s]) \in Nat
    BY <2>1
  <2> QED
    BY <2>2, Zenon
<1>7. ShardAgrees(s)'
  <2> DEFINE m == [kind |-> "identities", hits |-> {}, completed |-> FALSE]
  <2>1. /\ rpc[s] /\ node[s].scan = "resolved" /\ node'[s].scan = "answered"
        /\ node'[s].ready = node[s].ready /\ node'[s].completed = node[s].completed
        /\ node'[s].pump = node[s].pump /\ node'[s].cancelled = node[s].cancelled
    BY <1>1, Zenon DEF SendIdentities, Reply, Nodes
  <2>2. m \in Responses /\ m.kind = "identities"
    BY Zenon DEF Responses
  <2>3. resp' = [resp EXCEPT ![s] = Append(@, m)]
    BY Zenon DEF SendIdentities, Reply
  <2> HIDE DEF m
  <2>0. UNCHANGED <<rpc, breaks, coordVars>> /\ node[s].scan # "done"
    BY <1>3, <2>1, Zenon
  <2>14. /\ Len(resp'[s]) = Len(resp[s]) + 1 /\ resp'[s][Len(resp[s]) + 1] = m
    BY Zenon, <2>0, <2>1, <2>2, <2>3, EarlierAgree
  <2>4. /\ Len(resp'[s]) = n + 1 /\ resp'[s][n + 1] = m
    BY <1>6, <2>14, Zenon
  <2>5. s \in asked /\ s \in certified /\ s \notin received
        /\ \A i \in 1..n : resp[s][i].kind \in {"batch", "ready"}
    BY <1>4, <1>5, <1>6, <2>1, Zenon DEF NodeAgrees, ScanAgrees
  <2>6. n = 0
    <3>1. ASSUME n # 0 PROVE FALSE
      <4>1. 1 \in 1..n
        BY <3>1
      <4> QED
        BY <1>6, <2>5, <4>1, Zenon DEF ShardAgrees, MessageAgrees
    <3> QED
      BY <3>1, Zenon
  <2>7. Len(resp'[s]) = 1 /\ resp'[s][1].kind = "identities" /\ resp'[s] # <<>>
    BY <2>2, <2>4, <2>6
  <2>8. \A i \in 1..Len(resp'[s]) : MessageAgrees(s, i)'
    BY <1>3, <2>5, <2>7 DEF MessageAgrees, coordVars
  <2>9. ScanAgrees(s)'
    BY <1>3, <1>4, <2>1, Zenon DEF ScanAgrees, coordVars
  <2>10. NodeAgrees(s)'
    BY <1>3, <1>4, <2>1, <2>7, Zenon DEF NodeAgrees, coordVars
  <2> QED
    BY <1>3, <1>4, <2>8, <2>9, <2>10, Zenon DEF ShardAgrees
<1> QED
  BY <1>7, Zenon

\* The scan sends its last message.
LEMMA HandFinish ==
    ASSUME TypeOK, PhaseAgrees, NEW s \in Active, ShardAgrees(s), Finish(s)
    PROVE  ShardAgrees(s)'
<1>1. node \in [Active -> Nodes] /\ node[s] \in Nodes
  BY Zenon DEF TypeOK
<1>2. NodeAction(s)
  BY Zenon DEF NodeAction, NodeStep
<1>3. SentAgrees(s)' /\ UNCHANGED <<rpc, coordVars>> /\ breaks' = breaks
  BY <1>2, SentNode, Zenon DEF Finish, NodeUnchanged
<1>4. (rpc[s] => NodeAgrees(s)) /\ ScanAgrees(s) /\ (~ rpc[s] => breaks > 0)
  BY Zenon DEF ShardAgrees
<1>5. asked \subseteq certified /\ terminal \subseteq received
  BY Zenon DEF PhaseAgrees, TypeOK
<1>6. PICK n \in Nat : n = Len(resp[s])
  <2>1. resp[s] \in Seq(Responses)
    BY Zenon DEF TypeOK
  <2>2. Len(resp[s]) \in Nat
    BY <2>1
  <2> QED
    BY <2>2, Zenon
<1>7. ShardAgrees(s)'
  <2> DEFINE m == [kind |-> IF node[s].scan = "answered" THEN "summary" ELSE node[s].scan,
                   hits |-> {},
                   completed |-> node[s].scan = "answered" /\ node[s].completed]
  <2>1. /\ rpc[s] /\ node[s].scan \in {"answered", "refused", "timeout"}
        /\ node'[s].scan = "done" /\ node'[s].ready = node[s].ready
        /\ node'[s].completed = node[s].completed /\ node'[s].pump = node[s].pump
        /\ node'[s].cancelled = (node[s].cancelled \/ node[s].scan # "answered")
    BY <1>1, Zenon DEF Finish, Reply, Nodes
  <2>2. node[s].scan \in {"answered", "timeout"}
    BY <1>4, <2>1, Zenon DEF NodeAgrees
  <2>3. /\ m.kind = (IF node[s].scan = "answered" THEN "summary" ELSE "timeout")
        /\ m.completed = (node[s].scan = "answered" /\ node[s].completed)
    BY <2>2, Zenon
  <2>4. m \in Responses
    <3>1. m.completed \in BOOLEAN
      BY <1>1, <2>2, Zenon
    <3>2. m.kind \in {"summary", "timeout"}
      BY <2>3, Zenon
    <3> QED
      BY <3>1, <3>2, Zenon DEF Responses
  <2>5. resp' = [resp EXCEPT ![s] = Append(@, m)]
    BY Zenon DEF Finish, Reply
  <2> HIDE DEF m
  <2>0. UNCHANGED <<rpc, breaks, coordVars>> /\ node[s].scan # "done"
    BY <1>3, <2>1, Zenon
  <2>13. \A i \in 1..Len(resp[s]) : resp'[s][i] = resp[s][i] /\ MessageAgrees(s, i)'
    BY Zenon, <2>0, <2>1, <2>4, <2>5, EarlierAgree
  <2>14. /\ Len(resp'[s]) = Len(resp[s]) + 1 /\ resp'[s][Len(resp[s]) + 1] = m
        /\ \A i \in 1..Len(resp[s]) : resp'[s][i] = resp[s][i]
    BY Zenon, <2>0, <2>1, <2>4, <2>5, EarlierAgree
  <2>6. /\ Len(resp'[s]) = n + 1 /\ resp'[s][n + 1] = m
        /\ \A i \in 1..n : resp'[s][i] = resp[s][i]
    BY <1>6, <2>14, Zenon
  <2>7. s \notin terminal
    BY <1>4, <2>1, Zenon DEF ScanAgrees
  <2>8. MessageAgrees(s, n + 1)'
    <3>1. CASE node[s].scan = "answered"
      <4>1. /\ node[s].completed /\ s \in asked
            /\ \/ n = 0 /\ s \in received
               \/ n = 1 /\ resp[s][1].kind = "identities"
        BY <1>4, <1>6, <2>1, <3>1, Zenon DEF NodeAgrees
      <4>2. m.kind = "summary" /\ m.completed
        BY Zenon, <2>3, <3>1, <4>1
      <4>3. n = 1 => resp'[s][1] = resp[s][1]
        BY <2>6
      <4> QED
        BY <1>3, <2>1, <2>6, <2>7, <4>1, <4>2, <4>3 DEF MessageAgrees, coordVars
    <3>2. CASE node[s].scan = "timeout"
      <4>1. breaks > 0 /\ m.kind = "timeout"
        BY <1>4, <2>1, <2>3, <3>2, Zenon DEF NodeAgrees
      <4> QED
        BY <1>3, <2>1, <2>6, <4>1, Zenon DEF MessageAgrees, coordVars
    <3> QED
      BY <2>2, <3>1, <3>2, Zenon
  <2>9. \A i \in 1..(n + 1) : i \in 1..n \/ i = n + 1
    OBVIOUS
  <2>10. \A i \in 1..Len(resp'[s]) : MessageAgrees(s, i)'
    BY <1>6, <2>6, <2>8, <2>9, <2>13, Zenon
  <2>11. ScanAgrees(s)'
    BY <1>3, <1>4, <2>1, Zenon DEF ScanAgrees, coordVars
  <2>12. NodeAgrees(s)'
    <3>1. resp'[s] # <<>> /\ resp'[s][Len(resp'[s])].kind \in {"summary", "timeout"}
      BY <1>6, <2>3, <2>6
    <3>2. breaks > 0 \/ (s \in asked /\ node[s].scan = "answered")
      BY <1>4, <2>1, <2>2, Zenon DEF NodeAgrees
    <3>3. node'[s].cancelled => breaks > 0
      BY Zenon, <1>4, <2>1, <2>2 DEF NodeAgrees
    <3> QED
      BY <1>3, <1>4, <2>1, <3>1, <3>2, <3>3, Zenon DEF NodeAgrees, coordVars
  <2> QED
    BY <1>3, <1>4, <2>10, <2>11, <2>12, Zenon DEF ShardAgrees
<1> QED
  BY <1>7, Zenon

\* A node's step keeps the handshake.
LEMMA HandNode ==
    ASSUME TypeOK, Handshake, NEW s \in Active, NodeAction(s)
    PROVE  Handshake'
<1>1. /\ UNCHANGED <<requestVars, lane, rpc, coordVars>>
      /\ \A t \in Active \ {s} : node'[t] = node[t] /\ req'[t] = req[t] /\ resp'[t] = resp[t]
      /\ breaks > 0 => breaks' > 0
  BY NodeFrame
<1>2. ASSUME Live PROVE PhaseAgrees' /\ \A t \in Active : ShardAgrees(t)'
  <2>1. PhaseAgrees /\ \A t \in Active : ShardAgrees(t)
    BY <1>2, Zenon DEF Handshake
  <2>2. PhaseAgrees'
    BY <1>1, <2>1, Zenon DEF PhaseAgrees, coordVars, requestVars
  <2>3. ASSUME NEW t \in Active \ {s} PROVE ShardAgrees(t)'
    <3>1. SentAgrees(t)'
      BY <1>1, <2>1, <2>3 DEF ShardAgrees, SentAgrees, coordVars
    <3> QED
      BY <1>1, <2>1, <2>3, <3>1, ShardFrame, Zenon DEF coordVars
  <2>4. ShardAgrees(s)'
    BY <2>1, HandScan, HandPump, HandEmit, HandSendReady, HandSendIdentities, HandFinish, Zenon
       DEF NodeAction, NodeStep
  <2> QED
    BY <2>2, <2>3, <2>4, Zenon
<1>3. Live' => Live
  BY <1>1, Zenon DEF Live, coordVars
<1>4. RefusalHasCause'
  BY <1>1, Zenon DEF Handshake, RefusalHasCause, coordVars, requestVars
<1> QED
  BY <1>1, <1>2, <1>3, <1>4, Zenon DEF Handshake, coordVars

\* Giving the search up keeps it, when there is a cause.
LEMMA HandAbandon ==
    ASSUME TypeOK, Handshake, Live, UNCHANGED requestVars,
           NEW why \in {"broken", "timeout", "dropped", "scoring", "columns"}, Abandon(why),
           outcome' = outcome \/ outcome' = "err",
           why \in {"broken", "timeout", "dropped"} => breaks' > 0,
           why = "scoring" => \E s, t \in Active : fingerprint[s] # fingerprint[t],
           why = "columns" => ~ known
    PROVE  Handshake'
<1>1. phase' = "cancel" /\ cause' = why
  BY Zenon DEF Abandon
<1>2. ~ Live'
  BY <1>1, Zenon DEF Live
<1>3. RefusalHasCause'
  BY <1>1, Zenon DEF RefusalHasCause, requestVars
<1> QED
  BY <1>1, <1>2, <1>3, Zenon DEF Handshake

\* What arrives is a message that agrees: a response path never ends early.
LEMMA FirstMessage ==
    ASSUME TypeOK, NEW s \in Active, ShardAgrees(s), Arrived(s), Consume(s)
    PROVE  /\ resp[s] # <<>> /\ Message(s) = resp[s][1] /\ Message(s) \in Responses
           /\ resp'[s] = Tail(resp[s]) /\ 1 \in 1..Len(resp[s]) /\ MessageAgrees(s, 1)
<1>1. resp[s] # <<>>
  BY Zenon DEF Arrived, ShardAgrees, NodeAgrees
<1>2. resp[s] \in Seq(Responses)
  BY Zenon DEF TypeOK
<1>3. 1 \in 1..Len(resp[s])
  BY <1>1, <1>2, Taken
<1> QED
  BY <1>1, <1>3, MessageTaken, Zenon DEF ShardAgrees

\* What the messages behind the first one say of the first.
LEMMA RestAgrees ==
    ASSUME TypeOK, NEW s \in Active, ShardAgrees(s), resp[s] # <<>>, resp'[s] = Tail(resp[s])
    PROVE  /\ Len(resp[s]) \in Nat /\ Len(resp'[s]) = Len(resp[s]) - 1
           /\ resp'[s] # <<>> => resp'[s][Len(resp'[s])] = resp[s][Len(resp[s])]
           /\ resp'[s] = <<>> => Len(resp[s]) = 1
           /\ \A i \in 1..Len(resp'[s]) :
                /\ \E j \in 1..Len(resp[s]) : resp'[s][i] = resp[s][j]
                /\ resp'[s][i].kind \notin {"refused", "identities"}
                /\ resp'[s][i].kind \in {"batch", "ready"} =>
                     /\ s \notin certified /\ resp[s][1].kind = "batch"
                     /\ \A j \in 1..(i - 1) : resp'[s][j].kind = "batch"
                /\ resp'[s][i].kind = "ready" => resp'[s][i].completed /\ node[s].ready
                /\ resp'[s][i].kind = "summary" =>
                     /\ resp'[s][i].completed /\ s \notin terminal /\ s \in asked
                     /\ i = 1 /\ resp[s][1].kind = "identities"
                /\ resp'[s][i].kind = "timeout" => breaks > 0
                /\ resp'[s][i].kind \in {"summary", "timeout"} => node[s].scan = "done"
<1>1. resp[s] \in Seq(Responses)
  BY Zenon DEF TypeOK
<1>2. PICK n \in Nat : n = Len(resp[s])
  <2>1. Len(resp[s]) \in Nat
    BY <1>1
  <2> QED
    BY <2>1, Zenon
<1>3. /\ n > 0 /\ Len(resp'[s]) = n - 1
      /\ \A i \in 1..(n - 1) : resp'[s][i] = resp[s][i + 1]
  BY <1>1, <1>2, Taken
<1>4. resp'[s] \in Seq(Responses)
  BY <1>1, Taken, Zenon
<1>5. resp'[s] # <<>> => n - 1 \in 1..(n - 1) /\ (n - 1) + 1 = n
  BY <1>3, <1>4
<1>6. resp'[s] # <<>> => resp'[s][Len(resp'[s])] = resp[s][Len(resp[s])]
  BY <1>2, <1>3, <1>5, Zenon
<1>7. ASSUME resp'[s] = <<>> PROVE n = 1
  <2>1. Len(resp'[s]) = 0
    BY Zenon, <1>4, <1>7, Drained
  <2>2. n - 1 = 0
    BY Zenon, <1>3, <2>1
  <2> QED
    BY <2>2
<1>8. ASSUME NEW i \in 1..(n - 1)
      PROVE  /\ i + 1 \in 1..n /\ i + 1 # 1 /\ (i + 1 = 2 => i = 1) /\ resp'[s][i] = resp[s][i + 1]
             /\ MessageAgrees(s, i + 1)
  <2>1. i + 1 \in 1..n /\ i + 1 # 1 /\ (i + 1 = 2 => i = 1)
    BY <1>3
  <2>2. resp'[s][i] = resp[s][i + 1]
    BY <1>3, Zenon
  <2>3. MessageAgrees(s, i + 1)
    BY <1>2, <2>1, Zenon DEF ShardAgrees
  <2> QED
    BY Zenon, <2>1, <2>2, <2>3
<1>9. ASSUME NEW i \in 1..(n - 1), resp'[s][i].kind \in {"batch", "ready"}
      PROVE  /\ s \notin certified /\ resp[s][1].kind = "batch"
             /\ \A j \in 1..(i - 1) : resp'[s][j].kind = "batch"
  <2>1. s \notin certified /\ \A j \in 1..((i + 1) - 1) : resp[s][j].kind = "batch"
    BY Zenon, <1>8, <1>9 DEF MessageAgrees
  <2>2. 1 \in 1..((i + 1) - 1) /\ \A j \in 1..(i - 1) : j + 1 \in 1..((i + 1) - 1) /\ j \in 1..(n - 1)
    BY <1>3
  <2> QED
    BY <1>3, <2>1, <2>2
<1>10. ASSUME NEW i \in 1..(n - 1)
       PROVE  /\ resp'[s][i].kind \notin {"refused", "identities"}
              /\ resp'[s][i].kind = "ready" => resp'[s][i].completed /\ node[s].ready
              /\ resp'[s][i].kind = "summary" =>
                   /\ resp'[s][i].completed /\ s \notin terminal /\ s \in asked
                   /\ i = 1 /\ resp[s][1].kind = "identities"
              /\ resp'[s][i].kind = "timeout" => breaks > 0
              /\ resp'[s][i].kind \in {"summary", "timeout"} => node[s].scan = "done"
  <2>1. /\ i + 1 # 1 /\ (i + 1 = 2 => i = 1) /\ resp'[s][i] = resp[s][i + 1]
        /\ MessageAgrees(s, i + 1)
    BY Zenon, <1>8
  <2> QED
    BY Zenon, <2>1 DEF MessageAgrees
<1> QED
  BY <1>2, <1>3, <1>6, <1>7, <1>8, <1>9, <1>10

\* A floor pushed to the other shards, or nothing at all, is sent.
LEMMA SentPush ==
    ASSUME TypeOK, NEW t \in Active, ShardAgrees(t), asked' = asked, NEW floor \in Int,
           push_stream_floor(floor)
    PROVE  SentAgrees(t)'
<1> DEFINE m == [kind |-> "floor", floor |-> floor]
           to == open \cap Lanes
           d == [seq |-> IF Signed THEN seq + Cardinality({u \in to : u <= t}) ELSE 0,
                 kind |-> "floor", floor |-> floor]
<1>1. m \in Requests /\ m.kind = "floor" /\ d.kind = "floor"
  BY Zenon DEF Requests
<1>2. req[t] \in Seq(Requests)
  BY Zenon DEF TypeOK
<1>3. req'[t] = IF t \in open /\ Len(req[t]) < RequestCap THEN Append(req[t], m) ELSE req[t]
  BY Zenon DEF push_stream_floor
<1>4. lane'[t] = IF t \notin to THEN lane[t] ELSE lane[t] \cup {d}
  BY Zenon DEF push_stream_floor, send_signal
<1> HIDE DEF m, d, to
<1>5. \A e \in lane'[t] : e.kind = "floor"
  BY <1>1, <1>4, Zenon DEF ShardAgrees, SentAgrees
<1>6. ASSUME NEW i \in 1..Len(req'[t])
      PROVE  req'[t][i].kind # "stop" /\ (req'[t][i].kind = "resolve" => t \in asked)
  <2>1. CASE req'[t] = req[t]
    BY <2>1, Zenon DEF ShardAgrees, SentAgrees
  <2>2. CASE req'[t] = Append(req[t], m)
    <3>1. /\ Len(req[t]) \in Nat /\ Len(req'[t]) = Len(req[t]) + 1
          /\ \A j \in 1..Len(req[t]) : req'[t][j] = req[t][j]
          /\ req'[t][Len(req[t]) + 1] = m
      BY <1>1, <1>2, <2>2, Appended
    <3>2. i \in 1..Len(req[t]) \/ i = Len(req[t]) + 1
      BY <3>1
    <3> QED
      BY <1>1, <3>1, <3>2, Zenon DEF ShardAgrees, SentAgrees
  <2> QED
    BY <1>3, <2>1, <2>2, Zenon
<1> QED
  BY <1>5, <1>6, Zenon DEF SentAgrees

\* A batch taken off a response path.
LEMMA HandBatch ==
    ASSUME TypeOK, NEW s \in Active, ShardAgrees(s), resp[s] # <<>>, resp'[s] = Tail(resp[s]),
           resp[s][1].kind = "batch", SentAgrees(s)',
           UNCHANGED <<node, rpc, breaks, certified, asked, received, terminal>>
    PROVE  ShardAgrees(s)'
<1>1. resp[s] \in Seq(Responses) /\ 1 \in 1..Len(resp[s])
  BY Taken DEF TypeOK
<1>2. \A i \in 1..Len(resp'[s]) : MessageAgrees(s, i)'
  BY Zenon, RestAgrees DEF MessageAgrees
<1>3. ScanAgrees(s)'
  BY RestAgrees DEF ShardAgrees, ScanAgrees
<1>4. ASSUME rpc[s] PROVE NodeAgrees(s)'
  <2>1. NodeAgrees(s)
    BY <1>4, Zenon DEF ShardAgrees
  <2>2. node[s].scan # "answered"
    BY <1>1, <2>1, Zenon DEF NodeAgrees
  <2>3. node[s].scan = "done" /\ s \notin terminal =>
          resp'[s] # <<>> /\ resp'[s][Len(resp'[s])].kind \in {"summary", "timeout"}
    BY <1>1, <2>1, RestAgrees, Zenon DEF NodeAgrees
  <2> QED
    BY <2>1, <2>2, <2>3, Zenon DEF NodeAgrees
<1> QED
  BY <1>2, <1>3, <1>4, Zenon DEF ShardAgrees

\* A certificate taken off a response path.
LEMMA HandReady ==
    ASSUME TypeOK, NEW s \in Active, ShardAgrees(s), resp[s] # <<>>, resp'[s] = Tail(resp[s]),
           resp[s][1].kind = "ready", SentAgrees(s)', certified' = certified \cup {s},
           UNCHANGED <<node, rpc, breaks, asked, received, terminal>>
    PROVE  ShardAgrees(s)'
<1>1. resp[s] \in Seq(Responses) /\ 1 \in 1..Len(resp[s])
  BY Taken DEF TypeOK
<1>2. \A i \in 1..Len(resp'[s]) : resp'[s][i].kind = "timeout" /\ MessageAgrees(s, i)'
  <2>1. ASSUME NEW i \in 1..Len(resp'[s]) PROVE resp'[s][i].kind = "timeout"
    <3>1. resp'[s][i] \in Responses
      <4>1. \E j \in 1..Len(resp[s]) : resp'[s][i] = resp[s][j]
        BY RestAgrees
      <4> QED
        BY <1>1, <4>1
    <3>2. resp'[s][i].kind \notin {"refused", "identities", "batch", "ready", "summary"}
      BY Zenon, RestAgrees
    <3> QED
      BY <3>1, <3>2, Zenon DEF Responses
  <2>2. \A i \in 1..Len(resp'[s]) : breaks > 0 /\ node[s].scan = "done"
    BY Zenon, <2>1, RestAgrees
  <2> QED
    BY <2>1, <2>2, Zenon DEF MessageAgrees
<1>3. node[s].scan \notin {"scanning", "polled", "scanned", "marked"} /\ node[s].ready
  BY <1>1, Zenon DEF ShardAgrees, ScanAgrees, MessageAgrees
<1>4. ScanAgrees(s)'
  BY <1>3, RestAgrees DEF ShardAgrees, ScanAgrees
<1>5. ASSUME rpc[s] PROVE NodeAgrees(s)'
  <2>1. NodeAgrees(s)
    BY <1>5, Zenon DEF ShardAgrees
  <2>2. node[s].scan # "answered"
    BY <1>1, <2>1, Zenon DEF NodeAgrees
  <2>3. node[s].scan = "done" /\ s \notin terminal =>
          resp'[s] # <<>> /\ resp'[s][Len(resp'[s])].kind \in {"summary", "timeout"}
    BY <1>1, <2>1, RestAgrees, Zenon DEF NodeAgrees
  <2> QED
    BY <2>1, <2>2, <2>3, Zenon DEF NodeAgrees
<1> QED
  BY <1>2, <1>4, <1>5, Zenon DEF ShardAgrees

\* The identities taken off a response path.
LEMMA HandIdentities ==
    ASSUME TypeOK, NEW s \in Active, ShardAgrees(s), resp[s] # <<>>, resp'[s] = Tail(resp[s]),
           resp[s][1].kind = "identities", SentAgrees(s)', received' = received \cup {s},
           UNCHANGED <<node, rpc, breaks, asked, certified, terminal>>
    PROVE  ShardAgrees(s)'
<1>1. resp[s] \in Seq(Responses) /\ 1 \in 1..Len(resp[s])
  BY Taken DEF TypeOK
<1>2. s \notin received /\ s \notin terminal
  BY <1>1, Zenon DEF ShardAgrees, MessageAgrees, TypeOK
<1>3. ASSUME NEW i \in 1..Len(resp'[s]) PROVE MessageAgrees(s, i)'
  <2>1. resp'[s][i].kind \notin {"refused", "identities", "batch", "ready"}
    BY Zenon, RestAgrees
  <2>2. /\ resp'[s][i].kind = "summary" =>
             resp'[s][i].completed /\ s \notin terminal /\ s \in asked /\ i = 1
        /\ resp'[s][i].kind = "timeout" => breaks > 0
        /\ resp'[s][i].kind \in {"summary", "timeout"} => node[s].scan = "done"
    BY Zenon, RestAgrees
  <2> QED
    BY <2>1, <2>2, Zenon DEF MessageAgrees
<1>4. node[s].scan \notin {"scanning", "polled", "scanned", "marked", "waiting", "resolved"}
  BY <1>1, Zenon DEF ShardAgrees, ScanAgrees
<1>5. ScanAgrees(s)'
  BY <1>4, Zenon DEF ShardAgrees, ScanAgrees
<1>6. ASSUME rpc[s] PROVE NodeAgrees(s)'
  <2>1. NodeAgrees(s)
    BY <1>6, Zenon DEF ShardAgrees
  <2>2. node[s].scan = "answered" => resp'[s] = <<>>
    <3>1. ASSUME node[s].scan = "answered" PROVE Len(resp[s]) = 1
      BY <2>1, <3>1, Zenon DEF NodeAgrees
    <3>2. Len(resp[s]) = 1 => Len(resp'[s]) = 0 /\ resp'[s] \in Seq(Responses)
      BY <1>1, RestAgrees, Taken
    <3>3. Len(resp[s]) = 1 => resp'[s] = <<>>
      BY Zenon, <3>2, Drained
    <3> QED
      BY <3>1, <3>3, Zenon
  <2>3. node[s].scan = "done" =>
          resp'[s] # <<>> /\ resp'[s][Len(resp'[s])].kind \in {"summary", "timeout"}
    BY <1>1, <1>2, <2>1, RestAgrees, Zenon DEF NodeAgrees
  <2> QED
    BY <2>1, <2>2, <2>3, Zenon DEF NodeAgrees
<1> QED
  BY <1>3, <1>5, <1>6, Zenon DEF ShardAgrees

\* The summary taken off a response path.
LEMMA HandSummary ==
    ASSUME TypeOK, NEW s \in Active, ShardAgrees(s), resp[s] # <<>>, resp'[s] = Tail(resp[s]),
           resp[s][1].kind = "summary", SentAgrees(s)', terminal' = terminal \cup {s},
           UNCHANGED <<node, rpc, breaks, asked, certified, received>>
    PROVE  ShardAgrees(s)'
<1>1. resp[s] \in Seq(Responses) /\ 1 \in 1..Len(resp[s])
  BY Taken DEF TypeOK
<1>2. node[s].scan = "done"
  BY <1>1, Zenon DEF ShardAgrees, MessageAgrees
<1>3. ASSUME NEW i \in 1..Len(resp'[s]) PROVE MessageAgrees(s, i)'
  <2>1. resp'[s][i].kind \notin {"refused", "identities", "batch", "ready", "summary"}
    <3>1. /\ resp'[s][i].kind \notin {"refused", "identities"}
          /\ resp'[s][i].kind \in {"batch", "ready"} => resp[s][1].kind = "batch"
          /\ resp'[s][i].kind = "summary" => resp[s][1].kind = "identities"
      BY Zenon, RestAgrees
    <3> QED
      BY <3>1, Zenon
  <2>2. resp'[s][i].kind = "timeout" => breaks > 0
    BY Zenon, RestAgrees
  <2> QED
    BY <1>2, <2>1, <2>2, Zenon DEF MessageAgrees
<1>4. ScanAgrees(s)'
  BY <1>2, Zenon DEF ShardAgrees, ScanAgrees
<1>5. rpc[s] => NodeAgrees(s)'
  BY <1>2, Zenon DEF ShardAgrees, NodeAgrees
<1> QED
  BY <1>3, <1>4, <1>5, Zenon DEF ShardAgrees

\* The loop that takes batches and certificates.
LEMMA HandRecvScan ==
    ASSUME TypeOK, Handshake, NEW s \in Active, RecvScan(s)
    PROVE  Handshake'
<1> DEFINE m == Message(s)
<1>1. /\ phase = "scan" /\ Live /\ Arrived(s) /\ Consume(s)
      /\ UNCHANGED <<requestVars, rpc, breaks, node>>
  BY Zenon DEF RecvScan, Live
<1>2. PhaseAgrees /\ asked = {} /\ \A t \in Active : ShardAgrees(t)
  BY <1>1, Zenon DEF Handshake, PhaseAgrees
<1>3. /\ resp[s] # <<>> /\ m = resp[s][1] /\ m \in Responses
      /\ resp'[s] = Tail(resp[s]) /\ MessageAgrees(s, 1)
  BY <1>1, <1>2, FirstMessage, Zenon
<1>4. \A t \in Active \ {s} : resp'[t] = resp[t]
  BY <1>1, MessageTaken, Zenon
<1>5. m.kind \in {"batch", "ready", "timeout"}
  BY <1>2, <1>3, Zenon DEF MessageAgrees, Responses
<1>6. m.kind \in {"batch", "ready"} => s \notin certified
  BY <1>3, Zenon DEF MessageAgrees
<1>7. m.kind = "ready" => m.completed
  BY <1>3, Zenon DEF MessageAgrees
<1>8. m.kind = "timeout" => breaks > 0
  BY <1>3, Zenon DEF MessageAgrees
<1>9. ASSUME UNCHANGED <<phase, open, stopping, asked, received, terminal, cause, outcome, result>>,
             \A t \in Active : SentAgrees(t)', ShardAgrees(s)', PhaseAgrees',
             certified' = certified \/ certified' = certified \cup {s}
      PROVE  Handshake'
  <2>1. ASSUME NEW t \in Active \ {s} PROVE ShardAgrees(t)'
    <3>1. t \in certified' <=> t \in certified
      BY <1>9, Zenon
    <3> QED
      BY <1>1, <1>2, <1>4, <1>9, <3>1, ShardFrame, Zenon
  <2>2. RefusalHasCause'
    BY <1>1, <1>9, Zenon DEF Handshake, RefusalHasCause, requestVars
  <2> QED
    BY <1>9, <2>1, <2>2, Zenon DEF Handshake
<1>10. CASE m.kind = "batch"
  <2>1. TakeBatch(m.hits) /\ m.hits \in SUBSET Hits
    BY <1>6, <1>10, ConsumeTyped, Zenon DEF RecvScan
  <2>2. UNCHANGED <<phase, open, stopping, certified, scoring, asked, received, terminal,
                    cause, outcome, result>>
    BY <2>1, Zenon DEF TakeBatch
  <2>3. ASSUME NEW t \in Active PROVE SentAgrees(t)'
    <3> DEFINE new == push_hits(m.hits)
    <3>1. CASE Cardinality(new) = K /\ StreamFloor(new) > lastFloor
      <4>1. StreamFloor(new) \in Int /\ push_stream_floor(StreamFloor(new))
        BY <2>1, <3>1, HeapTyped, Zenon DEF TakeBatch
      <4> HIDE DEF new
      <4> QED
        BY <1>2, <2>2, <4>1, SentPush, Zenon
    <3>2. CASE ~ (Cardinality(new) = K /\ StreamFloor(new) > lastFloor)
      <4>1. UNCHANGED <<lane, req>>
        BY <2>1, <3>2, Zenon DEF TakeBatch
      <4> QED
        BY <1>2, <2>2, <4>1, Zenon DEF ShardAgrees, SentAgrees
    <3> QED
      BY <3>1, <3>2, Zenon
  <2>4. ShardAgrees(s)'
    BY <1>1, <1>2, <1>3, <1>10, <2>2, <2>3, HandBatch, Zenon
  <2>5. PhaseAgrees'
    BY <1>1, <1>2, <2>2, Zenon DEF PhaseAgrees, requestVars
  <2> QED
    BY <1>9, <2>2, <2>3, <2>4, <2>5, Zenon
<1>11. CASE m.kind = "ready" /\ scoring \subseteq {fingerprint[s]}
  <2>1. TakeReady(s)
    BY <1>6, <1>7, <1>11, Zenon DEF RecvScan
  <2>2. /\ certified' = certified \cup {s} /\ scoring' = {fingerprint[s]}
        /\ UNCHANGED <<lane, req, phase, open, stopping, asked, received, terminal,
                       cause, outcome, result>>
    BY <2>1, Zenon DEF TakeReady
  <2>3. \A t \in Active : SentAgrees(t)'
    BY <1>2, <2>2, Zenon DEF ShardAgrees, SentAgrees
  <2>4. ShardAgrees(s)'
    BY <1>1, <1>2, <1>3, <1>11, <2>2, <2>3, HandReady, Zenon
  <2>5. PhaseAgrees'
    BY <1>1, <1>2, <2>2, Zenon DEF PhaseAgrees, requestVars
  <2> QED
    BY <1>9, <2>2, <2>3, <2>4, <2>5, Zenon
<1>12. CASE m.kind = "ready" /\ ~ (scoring \subseteq {fingerprint[s]})
  <2>1. cancel_with("scoring")
    BY <1>6, <1>7, <1>12, Zenon DEF RecvScan
  <2>2. \E u, t \in Active : fingerprint[u] # fingerprint[t]
    <3>1. PICK t \in certified : fingerprint[t] # fingerprint[s]
      BY <1>2, <1>12, Zenon DEF PhaseAgrees
    <3>2. t \in Active
      BY Zenon DEF TypeOK
    <3> QED
      BY <3>1, <3>2, Zenon
  <2> QED
    BY <1>1, <2>1, <2>2, HandAbandon, Zenon DEF cancel_with
<1>13. CASE m.kind = "timeout"
  <2>1. cancel_with("timeout")
    BY <1>13, Zenon DEF RecvScan
  <2> QED
    BY <1>1, <1>8, <1>13, <2>1, HandAbandon, Zenon DEF cancel_with
<1> QED
  BY <1>5, <1>10, <1>11, <1>12, <1>13, Zenon

\* The loop that takes identities and summaries.
LEMMA HandRecvResolve ==
    ASSUME TypeOK, Handshake, NEW s \in Active, RecvResolve(s)
    PROVE  Handshake'
<1> DEFINE m == Message(s)
<1>1. /\ phase = "resolve" /\ Live /\ Arrived(s) /\ Consume(s)
      /\ UNCHANGED <<requestVars, rpc, breaks, node, req>>
  BY Zenon DEF RecvResolve, Live
<1>2. PhaseAgrees /\ certified = Active /\ \A t \in Active : ShardAgrees(t)
  BY <1>1, Zenon DEF Handshake, PhaseAgrees
<1>3. /\ resp[s] # <<>> /\ m = resp[s][1] /\ m \in Responses
      /\ resp'[s] = Tail(resp[s]) /\ MessageAgrees(s, 1)
  BY <1>1, <1>2, FirstMessage, Zenon
<1>4. \A t \in Active \ {s} : resp'[t] = resp[t]
  BY <1>1, MessageTaken, Zenon
<1>5. m.kind \in {"identities", "summary", "timeout"}
  BY <1>2, <1>3, Zenon DEF MessageAgrees, Responses
<1>6. m.kind = "identities" => s \notin received
  BY <1>3, Zenon DEF MessageAgrees
<1>7. m.kind = "summary" => m.completed /\ s \in received \ terminal
  BY <1>3, Zenon DEF MessageAgrees
<1>8. m.kind = "timeout" => breaks > 0
  BY <1>3, Zenon DEF MessageAgrees
<1>9. ASSUME UNCHANGED <<lane, phase, stopping, certified, scoring, asked, cause, outcome, result>>,
             ShardAgrees(s)', open' = Active \ terminal',
             received' = received \/ received' = received \cup {s},
             terminal' = terminal \/ terminal' = terminal \cup {s}
      PROVE  Handshake'
  <2>1. ASSUME NEW t \in Active \ {s} PROVE ShardAgrees(t)'
    <3>1. (t \in received' <=> t \in received) /\ (t \in terminal' <=> t \in terminal)
      BY <1>9, Zenon
    <3>2. SentAgrees(t)'
      BY <1>1, <1>2, <1>9, Zenon DEF ShardAgrees, SentAgrees
    <3> QED
      BY <1>1, <1>2, <1>4, <1>9, <3>1, <3>2, ShardFrame, Zenon
  <2>2. PhaseAgrees'
    BY <1>1, <1>2, <1>9, Zenon DEF PhaseAgrees, requestVars
  <2>3. RefusalHasCause'
    BY <1>1, <1>9, Zenon DEF Handshake, RefusalHasCause, requestVars
  <2> QED
    BY <1>9, <2>1, <2>2, <2>3, Zenon DEF Handshake
<1>10. ASSUME UNCHANGED <<lane, asked>> PROVE SentAgrees(s)'
  BY <1>1, <1>2, <1>10, Zenon DEF ShardAgrees, SentAgrees
<1>11. CASE m.kind = "identities"
  <2>1. /\ received' = received \cup {s}
        /\ UNCHANGED <<lane, phase, open, stopping, terminal, cause, outcome, certified, scoring,
                       asked, result>>
    BY <1>6, <1>11, Zenon DEF RecvResolve
  <2>2. ShardAgrees(s)'
    BY <1>1, <1>2, <1>3, <1>10, <1>11, <2>1, HandIdentities, Zenon
  <2>3. open' = Active \ terminal'
    BY <1>2, <2>1, Zenon DEF PhaseAgrees
  <2> QED
    BY <1>9, <2>1, <2>2, <2>3, Zenon
<1>12. CASE m.kind = "summary"
  <2>1. /\ terminal' = terminal \cup {s} /\ open' = open \ {s}
        /\ UNCHANGED <<lane, phase, stopping, received, cause, outcome, certified, scoring,
                       asked, result>>
    BY <1>7, <1>12, Zenon DEF RecvResolve
  <2>2. ShardAgrees(s)'
    BY <1>1, <1>2, <1>3, <1>10, <1>12, <2>1, HandSummary, Zenon
  <2>3. open' = Active \ terminal'
    BY <1>2, <2>1, Zenon DEF PhaseAgrees
  <2> QED
    BY <1>9, <2>1, <2>2, <2>3, Zenon
<1>13. CASE m.kind = "timeout"
  <2>1. cancel_with("timeout")
    BY <1>13, Zenon DEF RecvResolve
  <2> QED
    BY <1>1, <1>8, <1>13, <2>1, HandAbandon, Zenon DEF cancel_with
<1> QED
  BY <1>5, <1>11, <1>12, <1>13, Zenon

\* A request for identities is sent to a shard that certified.
LEMMA HandAsk ==
    ASSUME TypeOK, Handshake, NEW s \in Active, Ask(s)
    PROVE  Handshake'
<1> DEFINE m == [kind |-> "resolve", floor |-> NegInf]
<1>1. /\ phase = "ask" /\ phase' \in {"ask", "resolve"} /\ Live /\ asked' = asked \cup {s}
      /\ req' = [req EXCEPT ![s] = Append(@, m)]
      /\ UNCHANGED <<requestVars, rpc, breaks, node, resp, lane, open, stopping,
                     certified, scoring, received, terminal, cause, outcome, result>>
  BY Zenon DEF Ask, Live
<1>2. PhaseAgrees /\ certified = Active /\ \A t \in Active : ShardAgrees(t)
  BY <1>1, Zenon DEF Handshake, PhaseAgrees
<1>3. PhaseAgrees'
  BY <1>1, <1>2, Zenon DEF PhaseAgrees, requestVars
<1>4. m \in Requests /\ m.kind = "resolve"
  BY CorpusAssumption, Zenon DEF Requests
<1>5. req \in [Active -> Seq(Requests)] /\ req[s] \in Seq(Requests)
  BY Zenon DEF TypeOK
<1> HIDE DEF m
<1>6. SentAgrees(s)'
  <2>1. /\ Len(req[s]) \in Nat /\ Len(req'[s]) = Len(req[s]) + 1
        /\ \A j \in 1..Len(req[s]) : req'[s][j] = req[s][j]
        /\ req'[s][Len(req[s]) + 1] = m
    BY <1>1, <1>4, <1>5, Appended
  <2>2. \A i \in 1..Len(req'[s]) : i \in 1..Len(req[s]) \/ i = Len(req[s]) + 1
    BY <2>1
  <2> QED
    BY <1>1, <1>2, <1>4, <2>1, <2>2 DEF ShardAgrees, SentAgrees
<1>7. ASSUME NEW t \in Active \ {s} PROVE SentAgrees(t)'
  BY <1>1, <1>2, <1>5, Zenon DEF ShardAgrees, SentAgrees
<1>8. ASSUME NEW t \in Active PROVE ShardAgrees(t)'
  BY <1>1, <1>2, <1>6, <1>7, ShardFrame, Zenon
<1>9. RefusalHasCause'
  BY <1>1, Zenon DEF Handshake, RefusalHasCause, requestVars
<1> QED
  BY <1>1, <1>3, <1>8, <1>9, Zenon DEF Handshake

\* The coordinator's steps keep the handshake.
LEMMA HandCoord ==
    ASSUME TypeOK, Handshake, CoordAction
    PROVE  Handshake'
<1>1. Live => PhaseAgrees /\ \A t \in Active : ShardAgrees(t)
  BY Zenon DEF Handshake
<1>2. breaks \in Nat
  BY StreamSearchAssumption DEF TypeOK
<1>3. ASSUME NEW s \in Active, AskFails(s) PROVE Handshake'
  <2>1. /\ Live /\ Abandon("broken") /\ UNCHANGED <<requestVars, breaks, outcome>>
        /\ s \notin asked /\ (~ rpc[s] \/ node[s].scan = "done")
    BY <1>3, Zenon DEF AskFails, cancel_with, Live
  <2>2. breaks > 0
    BY <1>1, <2>1, Zenon DEF ShardAgrees, NodeAgrees
  <2> QED
    BY <2>1, <2>2, HandAbandon, Zenon
<1>4. ASSUME NEW s \in Active, RecvBroken(s) PROVE Handshake'
  <2>1. Live /\ Abandon("broken") /\ UNCHANGED <<requestVars, breaks, outcome>> /\ ~ rpc[s]
    BY <1>4, Zenon DEF RecvBroken, cancel_with, Live
  <2>2. breaks > 0
    BY <1>1, <2>1, Zenon DEF ShardAgrees
  <2> QED
    BY <2>1, <2>2, HandAbandon, Zenon
<1>5. ASSUME NEW s \in Active, SendStop(s) PROVE Handshake'
  <2>1. /\ s \in stopping
        /\ UNCHANGED <<requestVars, breaks, phase, cause, outcome>>
    BY <1>5, Zenon DEF SendStop
  <2>2. ~ Live /\ ~ Live'
    BY <1>1, <2>1, Zenon DEF PhaseAgrees, Live
  <2> QED
    BY <2>1, <2>2, Zenon DEF Handshake, RefusalHasCause, requestVars
<1>6. ASSUME NEW s \in Active, StreamBreaks(s) PROVE Handshake'
  <2>1. /\ breaks' > 0 /\ rpc' = [rpc EXCEPT ![s] = FALSE]
        /\ UNCHANGED <<requestVars, lane, nodeVars, coordVars>>
    BY <1>2, <1>6 DEF StreamBreaks, Fault
  <2>2. ASSUME Live PROVE PhaseAgrees' /\ \A t \in Active : ShardAgrees(t)'
    <3>1. PhaseAgrees'
      BY <1>1, <2>1, <2>2, Zenon DEF PhaseAgrees, coordVars, requestVars
    <3>2. ASSUME NEW t \in Active PROVE SentAgrees(t)'
      BY <1>1, <2>1, <2>2, Zenon DEF ShardAgrees, SentAgrees, coordVars, nodeVars
    <3>3. rpc \in [Active -> BOOLEAN]
      BY Zenon DEF TypeOK
    <3>4. ASSUME NEW t \in Active \ {s} PROVE ShardAgrees(t)'
      BY Zenon, <1>1, <2>1, <2>2, <3>2, <3>3, ShardFrame DEF coordVars, nodeVars
    <3>5. ShardAgrees(s)'
      <4>1. ~ rpc'[s]
        BY <2>1, <3>3, Zenon
      <4>2. \A i \in 1..Len(resp'[s]) : MessageAgrees(s, i)'
        <5>1. \A i \in 1..Len(resp[s]) : MessageAgrees(s, i)
          BY <1>1, <2>2, Zenon DEF ShardAgrees
        <5>2. UNCHANGED <<node, resp, certified, asked, received, terminal>>
          BY <2>1, Zenon DEF coordVars, nodeVars
        <5> QED
          BY <2>1, <5>1, <5>2 DEF MessageAgrees
      <4>3. ScanAgrees(s)'
        BY <1>1, <2>1, <2>2, Zenon DEF ShardAgrees, ScanAgrees, coordVars, nodeVars
      <4> QED
        BY <2>1, <3>2, <4>1, <4>2, <4>3, Zenon DEF ShardAgrees
    <3> QED
      BY <3>1, <3>4, <3>5, Zenon
  <2> QED
    BY <2>1, <2>2, Zenon DEF Handshake, Live, RefusalHasCause, coordVars, requestVars
<1>7. CASE ScanEnds
  <2>1. CASE known
    <3>1. /\ phase = "scan" /\ Live /\ certified = Active /\ phase' \in {"ask", "resolve"}
          /\ UNCHANGED <<requestVars, rpc, breaks, nodeVars, lane, open, stopping, certified, scoring,
                         asked, received, terminal, cause, outcome>>
      BY <1>7, <2>1, Zenon DEF ScanEnds, Live
    <3>2. PhaseAgrees'
      BY <1>1, <3>1, Zenon DEF PhaseAgrees, requestVars
    <3>3. ASSUME NEW t \in Active PROVE ShardAgrees(t)'
      <4>1. SentAgrees(t)'
        BY <1>1, <3>1, Zenon DEF ShardAgrees, SentAgrees, nodeVars
      <4> QED
        BY <1>1, <3>1, <4>1, ShardFrame, Zenon DEF nodeVars
    <3> QED
      BY <3>1, <3>2, <3>3, Zenon DEF Handshake, RefusalHasCause, requestVars
  <2>2. CASE ~ known
    BY <1>7, <2>2, HandAbandon, Zenon DEF ScanEnds, DropFanout, Live
  <2> QED
    BY <2>1, <2>2, Zenon
<1>8. CASE Return
  BY <1>8, Zenon DEF Return, Handshake, Live, RefusalHasCause, requestVars
<1>9. CASE CancelEnds
  BY <1>9, Zenon DEF CancelEnds, Handshake, Live, RefusalHasCause, requestVars
<1>10. CASE IdentityTimeout
  <2>1. Live /\ Abandon("timeout") /\ UNCHANGED <<requestVars, outcome>> /\ breaks' > 0
    BY <1>2, <1>10 DEF IdentityTimeout, Fault, cancel_with, Live
  <2> QED
    BY <2>1, HandAbandon, Zenon
<1>11. CASE CallerDrops
  <2>1. Live /\ Abandon("dropped") /\ UNCHANGED requestVars /\ outcome' = "err" /\ breaks' > 0
    BY <1>2, <1>11 DEF CallerDrops, Fault, DropFanout, Live
  <2> QED
    BY <2>1, HandAbandon, Zenon
<1> QED
  BY <1>3, <1>4, <1>5, <1>6, <1>7, <1>8, <1>9, <1>10, <1>11, HandRecvScan, HandRecvResolve, HandAsk, Zenon
     DEF CoordAction, CoordStep

(* The handshake invariant holds at first.                                  *)
LEMMA HandInit == Init => Handshake
<1> SUFFICES ASSUME Init PROVE Handshake
  BY Zenon
<1>1. PhaseAgrees
  BY Zenon DEF Init, PhaseAgrees
<1>2. ASSUME NEW s \in Active PROVE ShardAgrees(s)
  <2>1. /\ node[s].scan = "scanning" /\ ~ node[s].cancelled /\ node[s].pump = "running"
        /\ resp[s] = <<>> /\ req[s] = <<>> /\ lane[s] = {} /\ rpc[s]
        /\ certified = {} /\ received = {} /\ terminal = {}
    BY Zenon DEF Init
  <2>2. 1..Len(resp[s]) = {} /\ 1..Len(req[s]) = {}
    BY <2>1
  <2> QED
    BY <2>1, <2>2, Zenon DEF ShardAgrees, NodeAgrees, ScanAgrees, SentAgrees
<1>3. RefusalHasCause
  BY Zenon DEF Init, RefusalHasCause
<1> QED
  BY <1>1, <1>2, <1>3, Zenon DEF Init, Handshake

(* Every step keeps the handshake invariant.                                *)
LEMMA HandStep == TypeOK /\ Handshake /\ [Next]_vars => Handshake'
<1> SUFFICES ASSUME TypeOK, Handshake, [Next]_vars PROVE Handshake'
  BY Zenon
<1>1. CASE UNCHANGED vars
  <2>1. UNCHANGED <<requestVars, lane, rpc, breaks, nodeVars, coordVars>>
    BY <1>1, Zenon DEF vars
  <2>2. ASSUME Live PROVE PhaseAgrees' /\ \A t \in Active : ShardAgrees(t)'
    <3>1. PhaseAgrees /\ \A t \in Active : ShardAgrees(t)
      BY <2>2, Zenon DEF Handshake
    <3>2. PhaseAgrees'
      BY <2>1, <3>1, Zenon DEF PhaseAgrees, coordVars, requestVars
    <3>3. ASSUME NEW t \in Active PROVE ShardAgrees(t)'
      <4>1. SentAgrees(t)'
        BY <2>1, <3>1, Zenon DEF ShardAgrees, SentAgrees, coordVars, nodeVars
      <4> QED
        BY <2>1, <3>1, <4>1, ShardFrame, Zenon DEF coordVars, nodeVars
    <3> QED
      BY <3>2, <3>3, Zenon
  <2> QED
    BY <2>1, <2>2, Zenon DEF Handshake, Live, RefusalHasCause, coordVars, requestVars
<1> QED
  BY <1>1, HandNode, HandCoord, NextSplit, Zenon

\* A search is refused only for a cause outside the protocol: a broken stream,
\* a timeout, a caller that went away, two scoring fingerprints or an unknown
\* filter column.  The handshake never refuses a search by itself.
THEOREM RefusalsHaveACause == Spec => []RefusalHasCause
<1>1. TypeOK /\ Handshake /\ [Next]_vars => (TypeOK /\ Handshake)'
  BY TypeStep, HandStep, Zenon
<1>2. Handshake => RefusalHasCause
  BY Zenon DEF Handshake
<1> QED
  BY <1>1, <1>2, TypeInit, HandInit, PTL DEF Spec
=============================================================================
