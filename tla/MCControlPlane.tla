-------------------------- MODULE MCControlPlane ---------------------------
(* The parts of the control plane that share SystemState, side by side. *)
EXTENDS SourceAuthority, HostedWrites, RaftStore, SnapshotTransfer,
        CapacityStore, CapacityTiers, TLC
CONSTANTS p1, p2, c1, w1, w2, n1, r1, r2

TwoPrincipals == {p1, p2}
OneCollection == {c1}
TwoWorkflows == {w1, w2}
OneNode == {n1}

(* Owners and imports meet in the decision capacity and in the revisions. *)
FourFamilies ==
  {[by |-> {p1, p2}, duplicates |-> 0, kinds |-> kinds] :
     kinds \in {{"Prepare", "Cancel", "ReplaceGrants"}, {"Begin", "Abort", "Recover"}}}
  \cup
  {[by |-> {p}, duplicates |-> 1, kinds |-> kinds] :
     p \in {p1, p2},
     kinds \in {{"Prepare", "ConfirmReady", "Activate"}, {"Begin", "Chunk", "Commit", "Configure"}}}
Interchangeable == Permutations({p1, p2}) \cup Permutations({w1, w2})
                   \cup Permutations(Calls) \cup Permutations({r1, r2})

(* Two leaders; the first also serves a rebuilt image, a corrupt one and,   *)
(* elected again, its first one.                                            *)
TwoLeaders ==
  {[peer |-> "p1", vote |-> 1, image |-> "a"], [peer |-> "p1", vote |-> 1, image |-> "corrupt"],
   [peer |-> "p2", vote |-> 2, image |-> "c"], [peer |-> "p1", vote |-> 3, image |-> "a"],
   [peer |-> "p2", vote |-> 1, image |-> "a"], [peer |-> "p2", vote |-> 2, image |-> "large"]}

(* What an administrator may configure, below what is held included. *)
FourConfigurations ==
  {[cohort |-> 1, records |-> 2, bytes |-> 2, reporters |-> 2],
   [cohort |-> 1, records |-> 1, bytes |-> 2, reporters |-> 2],
   [cohort |-> 1, records |-> 2, bytes |-> 1, reporters |-> 1],
   [cohort |-> 2, records |-> 2, bytes |-> 2, reporters |-> 2]}

(* Two fragments that compete for the free bytes of three nodes, one of     *)
(* them with any copies, in its pool or out of it.                          *)
TwoFragments ==
  {[fragments |->
      <<[id |-> 1, bytes |-> bytes, rate |-> rate, owner |-> 1, complete |-> complete, pool |-> pool],
        [id |-> 2, bytes |-> 2, rate |-> 1, owner |-> 2, complete |-> other, pool |-> 1..3]>>,
    tiers |-> <<[lo |-> 0, hi |-> 1, floor |-> 1], [lo |-> 1, hi |-> 2, floor |-> 2]>>,
    free |-> free, domain |-> domain, eligible |-> 1..3, reported |-> reported, maxMoves |-> moves] :
      bytes \in {1, 2}, rate \in 0..2, complete \in SUBSET (1..3), pool \in {1..3, {2, 3}},
      other \in {{}, {2}, {1, 3}}, free \in {<<0, 3, 1>>, <<2, 2, 3>>, <<3, 1, 2>>, <<1, 1, 3>>},
      domain \in {<<1, 1, 2>>, <<1, 2, 3>>}, reported \in {1..3, {1, 2}}, moves \in {1, 4}}

Init == AuthorityInit \/ WritesInit \/ RaftInit \/ TransferInit \/ CapacityInit \/ TiersInit
Next == AuthorityNext \/ WritesNext \/ RaftNext \/ TransferNext \/ CapacityNext \/ TiersNext
Spec == Init /\ [][Next]_sys

TypeOK ==
  /\ At("authority") => AuthorityTypeOK
  /\ At("writes") => WritesTypeOK
  /\ At("raft") => RaftTypeOK
  /\ At("transfer") => TransferTypeOK
  /\ At("capacity") => CapacityTypeOK
============================================================================
