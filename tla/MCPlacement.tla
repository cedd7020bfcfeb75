----------------------------- MODULE MCPlacement -----------------------------
(* Two things the plane asks of the agents, one at a time: the split of a   *)
(* shard on two nodes, and the placement of copies on three nodes after a   *)
(* failover.                                                                *)
EXTENDS Placement

VARIABLE about

(* One configured shard on the first node, over two hash values.           *)
TwoNodes == 1..2
TwoDomains == [n \in TwoNodes |-> n]
OnFirst == [n \in TwoNodes |->
              IF n = 1 THEN {[shard |-> <<1>>, lo |-> 0, hi |-> 1]} ELSE {}]

(* After the failover: node 2 took a copy by the first action, node 1 died, *)
(* its lease ran out and node 2 was promoted; node 3 is there to take the   *)
(* next copy.                                                               *)
OneCopy == [n \in 1..3 |-> IF n = 1 THEN {[shard |-> <<1>>, lo |-> 0, hi |-> 1]} ELSE {}]
Moves == INSTANCE Placement WITH
  Nodes <- 1..3, Domain <- [n \in 1..3 |-> n], Configured <- OneCopy, MaxHash <- 1, ReplicationFactor <- 2, SplitRows <- 9,
  MergeRows <- 0, CompactSegments <- 9, CompactPercent <- 100, Rows <- {}, Lapsing <- {2}, Crashing <- {}, Dying <- {},
  LostReplies <- FALSE, MaxActions <- 3, MaxTokens <- 4, MaxTopologies <- 4
CopyRecord(n, role) ==
  [shard |-> <<1>>, node |-> n, role |-> role, ready |-> TRUE, lo |-> 0, hi |-> 1,
   generation |-> 0, rows |-> 0, tombstones |-> 0, segments |-> 1, print |-> 1]
FailoverInit ==
  /\ st = [nodes |-> [n \in 1..3 |->
              IF n = 1 THEN [token |-> 1, lapsed |-> TRUE, state |-> "expired", used |-> 0]
              ELSE [token |-> n, lapsed |-> FALSE, state |-> "active", used |-> 0]],
           next_token |-> 4,
           replicas |-> {CopyRecord(1, "replica"), CopyRecord(2, "primary")},
           actions |-> <<>>, next_action |-> 2, completed |-> {1}, generation |-> 2,
           routes |-> <<[node |-> 2, shard |-> <<1>>, lo |-> 0, hi |-> 1, backup |-> 0]>>]
  /\ up = {2, 3}
  /\ lease = [n \in 1..3 |-> n]
  /\ served = [n \in 1..3 |->
       LET c == Moves!ConfiguredCopy([shard |-> <<1>>, lo |-> 0, hi |-> 1]) IN
       CASE n = 1 -> {c} [] n = 2 -> {[c EXCEPT !.placed = TRUE, !.done = 1]} [] n = 3 -> {}]
  /\ splits = [n \in 1..3 |-> {}]
  /\ gone = [n \in 1..3 |-> {}]
  /\ reporter = [n \in 1..3 |-> Moves!IdleReporter]
  /\ worker = [n \in 1..3 |-> Moves!IdleWorker]
  /\ acked = {}

MovesInit == (about = "split" /\ Init) \/ (about = "moves" /\ FailoverInit)
Splitting == about = "split" /\ Next /\ UNCHANGED about
Placing == about = "moves" /\ Moves!Next /\ UNCHANGED about
MovesSpec == MovesInit /\ [][Splitting \/ Placing]_<<about, vars>>

(* The split alone, with the fairness of the plane's and the agents' loops. *)
SplitLiveSpec == about = "split" /\ Init /\ [][Splitting]_<<about, vars>> /\ Fairness

(* A split the plane accepts loses nothing: at that moment every row of the *)
(* source is in the child its hash belongs to, whatever was appended while  *)
(* the children were built and wherever the agent was restarted             *)
(* (execute_split's fence and drain, and the plane's row check).            *)
SplitLosesNothing == [][about = "split" => SplitKeepsRows]_vars

(* An agent drops a copy only when another one is served: whatever stale    *)
(* plan execute_drop reads and whoever was promoted since, some other node  *)
(* serves an installed copy of the shard.                                   *)
DropKeepsACopy == [][about = "moves" => Moves!DropLeavesACopy]_vars
=============================================================================
