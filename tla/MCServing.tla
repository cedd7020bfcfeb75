----------------------------- MODULE MCServing -----------------------------
(* The parts that place and serve shards and share SystemState, side by     *)
(* side.                                                                    *)
EXTENDS PlacementPlane, Relay, LiveReshard, ShardStore

(* Two nodes in two failure domains, two configured shards that tile three  *)
(* hash values, and enough actions for a move, a rewrite and its sequel.    *)
TwoNodes == 1..2
Domains == [n \in TwoNodes |-> n]
TwoShards == [n \in TwoNodes |->
                IF n = 1 THEN {[shard |-> <<1>>, lo |-> 0, hi |-> 0]}
                         ELSE {[shard |-> <<2>>, lo |-> 1, hi |-> 2]}]
Fact(held, tombstones, ready) ==
    [rows |-> held, tombstones |-> tombstones, segments |-> 1,
     ready |-> ready, print |-> 1]
RewriteFacts == {Fact(1, 0, TRUE), Fact(2, 1, TRUE)}

(* The routes of two children change places. *)
TwoMaps == <<<<"a", "b">>, <<"b", "a">>>>
EveryEnd == [batches : 0..1, ends : {"complete", "foreign", "miscounted", "stopped", "lost"}]

(* Rows that tie in score, lack terms, repeat a group or are deleted. *)
FiveRows ==
  {[live |-> TRUE, score |-> 2, terms |-> {"x"}, group |-> "g"],
   [live |-> TRUE, score |-> 1, terms |-> {"x", "y"}, group |-> "h"],
   [live |-> TRUE, score |-> 2, terms |-> {}, group |-> "h"],
   [live |-> FALSE, score |-> 3, terms |-> {"z"}, group |-> "i"]}
Asked == {<<3, 1, 3>>, <<2, 4>>}

(* Logs with a batch of two rows and a delete. *)
Added(first, held) == [op |-> "add", first |-> first, rows |-> held]
Deleted(slot) == [op |-> "delete", first |-> slot, rows |-> <<>>]
TwoLogs == {<<Added(0, <<1, 2>>), Deleted(0), Added(2, <<3>>)>>,
            <<Added(0, <<1>>), Added(1, <<2, 3>>), Deleted(1)>>}

(* The shard's store has variables of its own, which the other parts leave   *)
(* alone.                                                                    *)
Init == StoreInit /\ \/ sys = [part |-> "store"] \/ PlaneInit \/ RelayInit \/ RelayStreamInit
                     \/ RelayMergeInit \/ CutoverInit \/ ReplicaInit \/ TopologyInit
StoreStep == At("store") /\ StoreNext /\ UNCHANGED sys
PlaneStep == PlaneNext /\ UNCHANGED vars
RelayStep == (RelayNext \/ RelayStreamNext \/ RelayMerges) /\ UNCHANGED vars
ReshardStep == (CutoverNext \/ ReplicaNext \/ TopologyNext) /\ UNCHANGED vars
Next == StoreStep \/ PlaneStep \/ RelayStep \/ ReshardStep
Spec == Init /\ [][Next]_<<sys, vars>>

(* A split of a shard that is written meanwhile, by itself. *)
LiveSplitSpec == StoreInit /\ CutoverInit /\ [][CutoverNext /\ UNCHANGED vars]_<<sys, vars>>

(* A relay is to its parent what its children are to it: every token,       *)
(* stream and merged answer is theirs (relay.rs).                          *)
RelayIsOneShard == RelaySpeaksForItsChildren /\ RelayIsTransparent
============================================================================
