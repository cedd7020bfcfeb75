----------------------------- MODULE MCProgress -----------------------------
(* Two things that must come to an end, one at a time: a floor-sharing      *)
(* search of three shards, and the placement of the missing copy of a shard *)
(* on two nodes.                                                            *)
EXTENDS FloorSearch, TLC

\* One chunk and two, with a tie at the cutoff, and a third shard whose filter
\* admits nothing.
TinyScores == 0 :> <<3>> @@ 1 :> <<3, 3>> @@ 2 :> <<9>>
TinyAllow == 0 :> {1} @@ 1 :> {1, 2} @@ 2 :> {}
TinyOffsets == 0 :> 1 @@ 1 :> 0 @@ 2 :> 7

VARIABLES st, up, lease, served, splits, gone, reporter, worker, acked
placed == <<st, up, lease, served, splits, gone, reporter, worker, acked>>
OnFirst == [n \in 1..2 |-> IF n = 1 THEN {[shard |-> <<1>>, lo |-> 0, hi |-> 1]} ELSE {}]
Copying == INSTANCE Placement WITH
  Nodes <- 1..2, Domain <- [n \in 1..2 |-> n], Configured <- OnFirst, MaxHash <- 1, ReplicationFactor <- 2, SplitRows <- 9,
  MergeRows <- 0, CompactSegments <- 9, CompactPercent <- 100, Rows <- {0}, Lapsing <- {}, Crashing <- {}, Dying <- {},
  LostReplies <- FALSE, MaxActions <- 2, MaxTokens <- 2, MaxTopologies <- 9

VARIABLE about
everything == <<about, vars, placed>>
ProgressInit ==
  /\ Init /\ Copying!Init
  /\ about \in {"search", "copy"}
Searches == about = "search" /\ Next /\ UNCHANGED <<about, placed>>
Places == about = "copy" /\ Copying!Next /\ UNCHANGED <<about, vars>>

(* The fairness of the search's tasks and of the plane's and the agents'     *)
(* loops (Placement!Fairness), each in the behaviours about it.              *)
Searching(step) == about = "search" /\ step /\ UNCHANGED <<about, placed>>
Placing(step) == about = "copy" /\ step /\ UNCHANGED <<about, vars>>
FairSearch ==
  /\ \A a \in Attempts : /\ WF_everything(Searching(NodeStep(a)))
                         /\ WF_everything(Searching(StreamStep(a)))
  /\ \A s \in Active : /\ WF_everything(Searching(Broadcast(s)))
                       /\ WF_everything(Searching(Collect(s)))
  /\ WF_everything(Searching(Return \/ RefuseUnknown))
FairPlacement ==
  /\ \/ []<>(about = "copy" => Copying!reconcile(st) = st)
     \/ []<><<Placing(Copying!Reconcile)>>_everything
  /\ \A n \in 1..2 : /\ \/ []<>(about = "copy" => ~ Copying!WorkDue(n))
                        \/ []<><<Placing(Copying!WorkStep(n))>>_everything
                     /\ WF_everything(Placing(Copying!Register(n)))
                     /\ WF_everything(Placing(Copying!ReportStep(n)))
ProgressSpec == ProgressInit /\ [][Searches \/ Places]_everything /\ FairSearch /\ FairPlacement

(* Every search is answered or refused (FloorSearch!Terminates).             *)
SearchTerminates == about = "search" => Terminates
(* Every acknowledged row is held by the copy its route leads to, while      *)
(* copies are placed under the appends (Placement!AckedServed).              *)
AckedServed == Copying!AckedServed
(* The reconciler fills a replication deficit: in the end every primary has  *)
(* as many ready copies on active nodes as the policy asks for               *)
(* (Placement!DeficitFilled).                                                *)
DeficitFilled == about = "copy" => Copying!DeficitFilled
=============================================================================
