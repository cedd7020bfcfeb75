------------------------------ MODULE Placement ------------------------------
(***************************************************************************)
(* The control plane and the agents of its nodes (node_agent.rs): the      *)
(* lease loop, the report loop and the worker of every node run side by    *)
(* side, each from a plan it read earlier; nodes restart, die and let      *)
(* leases lapse; replies to completions get lost; and the coordinator      *)
(* appends rows to the copies the plane's topology names.                  *)
(*                                                                         *)
(* A copy's log is the set of rows it holds, and a row hashes to its       *)
(* number.  Installing, catching up and following copy what the source     *)
(* holds at that moment.  Compactions and merges stay pending: this worker *)
(* does not handle them.                                                   *)
(***************************************************************************)
EXTENDS PlacementPlan

CONSTANTS Configured,      \* [Nodes -> set of [shard, lo, hi]]
          Rows,            \* rows clients append, once each
          Lapsing, Crashing, Dying,   \* nodes it may happen to
          LostReplies,     \* BOOLEAN: a completion's reply may get lost
          MaxActions, MaxTokens, MaxTopologies  \* bounds

VARIABLES
    st,         \* the plane's StoredState
    up,         \* nodes whose process has not died for good
    lease,      \* [Nodes -> the token the agent holds, 0: none]
    served,     \* [Nodes -> the copies on the node's disks]
    splits,     \* [Nodes -> split.toml files: [shard, action, built]]
    gone,       \* [Nodes -> retired markers]
    reporter,   \* [Nodes -> the report loop: plan, shards left, report in flight]
    worker,     \* [Nodes -> the worker: plan, actions left, step, outputs]
    acked       \* rows acknowledged to clients
agent == <<lease, served, splits, gone, reporter, worker>>
vars == <<st, up, agent, acked>>

RowHash(row) == row % (MaxHash + 1)

(* What an agent uses of a plan it reads: who holds which copy in which    *)
(* role, range and generation.                                             *)
NoPlan == [replicas |-> {}]
plan_of(replicas) ==
    [replicas |-> {[shard |-> r.shard, node |-> r.node, role |-> r.role, lo |-> r.lo,
                    hi |-> r.hi, generation |-> r.generation] : r \in replicas}]
IdleReporter == [plan |-> NoPlan, left |-> {}, sent |-> {}]
IdleWorker == [plan |-> NoPlan, left |-> <<>>, pc |-> "idle", out |-> {}]

ConfiguredCopy(c) ==
    [shard |-> c.shard, lo |-> c.lo, hi |-> c.hi, placed |-> FALSE,
     rows |-> {}, generation |-> 0, installed |-> TRUE, ready |-> TRUE,
     done |-> 0, fenced |-> FALSE, listed |-> TRUE]

Init ==
    /\ st = [nodes |-> [n \in Nodes |-> NoLease], next_token |-> 1,
             replicas |-> {}, actions |-> <<>>, next_action |-> 1,
             completed |-> {}, routes |-> <<>>, generation |-> 0]
    /\ up = Nodes
    /\ lease = [n \in Nodes |-> 0]
    /\ served = [n \in Nodes |-> {ConfiguredCopy(c) : c \in Configured[n]}]
    /\ splits = [n \in Nodes |-> {}]
    /\ gone = [n \in Nodes |-> {}]
    /\ reporter = [n \in Nodes |-> IdleReporter]
    /\ worker = [n \in Nodes |-> IdleWorker]
    /\ acked = {}

(* The copies in the agent's shards map, which are the ones it serves.     *)
Listed(n, shard) == {c \in served[n] : c.shard = shard /\ c.listed}
Serving(n, shard) == n \in up /\ Listed(n, shard) # {}
TheCopy(n, shard) == CHOOSE c \in Listed(n, shard) : TRUE
SetCopies(n, copies) ==
    served' = [served EXCEPT ![n] =
      {c \in @ : \A d \in copies : c.shard # d.shard} \cup copies]

(* replica_state: the role is the one of the record in the plan read, or   *)
(* primary for a configured copy the plan has no record of.                *)
replica_state(n, c, plan) ==
    LET record == {r \in Copies(plan, c.shard) : r.node = n} IN
    [shard |-> c.shard, node |-> n, ready |-> c.ready, lo |-> c.lo, hi |-> c.hi,
     generation |-> c.generation, rows |-> Cardinality(c.rows),
     tombstones |-> 0, segments |-> 1, print |-> 1,
     role |-> IF record # {} THEN FirstOf(record).role
              ELSE IF c.placed THEN "replica" ELSE "primary"]

(* report_shard_with: a lease the plane does not accept is replaced, and   *)
(* the same report sent again.                                             *)
SendReport(n, replica) ==
    IF validate_lease(st, n, lease[n])
      THEN st' = report(st, replica) /\ UNCHANGED lease
      ELSE /\ st.next_token <= MaxTokens
           /\ st' = report(register(st, n, 0), replica)
           /\ lease' = [lease EXCEPT ![n] = st.next_token]

-----------------------------------------------------------------------------
(* The lease loop, the operator, time and failures.                        *)
Register(n) ==
    /\ n \in up /\ ~validate_lease(st, n, lease[n])
    /\ st.next_token <= MaxTokens
    /\ st' = register(st, n, 0)
    /\ lease' = [lease EXCEPT ![n] = st.next_token]
    /\ UNCHANGED <<up, served, splits, gone, reporter, worker, acked>>

(* A lease expires before it is renewed.                                   *)
Lapse(n) ==
    /\ n \in Lapsing \/ n \notin up
    /\ validate_lease(st, n, st.nodes[n].token)
    /\ st' = [st EXCEPT !.nodes[n].lapsed = TRUE]
    /\ UNCHANGED <<up, agent, acked>>

(* A restart: what is on disk is served again, unless a marker retired it; *)
(* fences and everything in flight are gone.                               *)
Crash(n) ==
    /\ n \in Crashing \cap up /\ st.next_token <= MaxTokens
    /\ lease' = [lease EXCEPT ![n] = 0]
    /\ served' = [served EXCEPT ![n] =
                    {[c EXCEPT !.fenced = FALSE, !.listed = c.shard \notin gone[n]] :
                       c \in @}]
    /\ reporter' = [reporter EXCEPT ![n] = IdleReporter]
    /\ worker' = [worker EXCEPT ![n] = IdleWorker]
    /\ UNCHANGED <<st, up, splits, gone, acked>>

Die(n) ==
    /\ n \in Dying \cap up
    /\ up' = up \ {n}
    /\ reporter' = [reporter EXCEPT ![n] = IdleReporter]
    /\ worker' = [worker EXCEPT ![n] = IdleWorker]
    /\ UNCHANGED <<st, lease, served, splits, gone, acked>>

Reconcile ==
    /\ reconcile(st).next_action <= MaxActions + 1
    /\ reconcile(st).generation <= MaxTopologies
    /\ st' = reconcile(st)
    /\ UNCHANGED <<up, agent, acked>>

(* An append goes to the primary whose route covers the row's hash; rows   *)
(* are numbered in the order they come.                                    *)
Ingest(row) ==
    /\ row \notin acked /\ \A r \in Rows : r < row => r \in acked
    /\ \E i \in DOMAIN st.routes :
         LET route == st.routes[i] IN
         /\ route.lo <= RowHash(row) /\ RowHash(row) <= route.hi
         /\ Serving(route.node, route.shard)
         /\ LET c == TheCopy(route.node, route.shard) IN
            /\ ~c.fenced
            /\ SetCopies(route.node, {[c EXCEPT !.rows = @ \cup {row}]})
    /\ acked' = acked \cup {row}
    /\ UNCHANGED <<st, up, lease, splits, gone, reporter, worker>>

-----------------------------------------------------------------------------
(* The report loop: one plan for a round over the served shards.           *)
Reporting(n, loop) == reporter' = [reporter EXCEPT ![n] = loop]

ReadReportPlan(n) ==
    /\ n \in up /\ lease[n] # 0 /\ reporter[n].left = {} /\ reporter[n].sent = {}
    /\ \E c \in served[n] : c.listed
    /\ Reporting(n, [plan |-> plan_of({r \in st.replicas : r.node = n}), sent |-> {},
                     left |-> {c.shard : c \in {d \in served[n] : d.listed}}])
    /\ UNCHANGED <<st, up, lease, served, splits, gone, worker, acked>>

BuildReport(n) ==
    /\ n \in up /\ reporter[n].left # {} /\ reporter[n].sent = {}
    /\ LET loop == reporter[n]
           shard == CHOOSE s \in loop.left : \A t \in loop.left \ {s} : ShardBefore(s, t)
       IN  Reporting(n, IF ~Serving(n, shard) THEN IdleReporter
                        ELSE [loop EXCEPT !.left = @ \ {shard},
                                !.sent = {replica_state(n, TheCopy(n, shard), loop.plan)}])
    /\ UNCHANGED <<st, up, lease, served, splits, gone, worker, acked>>

DeliverReport(n) ==
    /\ n \in up
    /\ \E replica \in reporter[n].sent : SendReport(n, replica)
    /\ Reporting(n, IF reporter[n].left = {} THEN IdleReporter
                    ELSE [reporter[n] EXCEPT !.sent = {}])
    /\ UNCHANGED <<up, served, splits, gone, worker, acked>>

-----------------------------------------------------------------------------
(* The worker: run_once reads the plan and takes the actions in order.     *)
At(n, pc) == n \in up /\ worker[n].pc = pc
TheAction(n) == Head(worker[n].left)
SourceIn(n) == FirstOf(SourceOf(worker[n].plan, TheAction(n)))
Working(n, w) == worker' = [worker EXCEPT ![n] = w]
Goto(n, pc) == Working(n, [worker[n] EXCEPT !.pc = pc])

(* The action is done or has failed for this pass.                         *)
Skip(n) ==
    LET rest == Tail(worker[n].left) IN
    Working(n, [worker[n] EXCEPT !.left = rest, !.out = {},
                  !.pc = IF rest = <<>> THEN "follow" ELSE Head(rest).kind])

Mine(n) == SelectSeq(st.actions, LAMBDA a :
             a.target = n /\ a.kind \in {"copy", "drop", "split"})
Following(c) == c.listed /\ c.placed /\ c.ready /\ c.done # 0
Primaries(n, replicas, shard) ==
    {r \in replicas : r.shard = shard /\ r.role = "primary" /\ r.node # n}
PassDue(n) ==
    /\ lease[n] # 0
    /\ \/ Mine(n) # <<>>
       \/ \E c \in served[n] : Following(c) /\ Primaries(n, st.replicas, c.shard) # {}

(* A pass with nothing to do and nothing to follow changes nothing.        *)
RunOnce(n) ==
    /\ At(n, "idle") /\ PassDue(n)
    /\ Working(n, [plan |-> plan_of(st.replicas), left |-> Mine(n), out |-> {},
                   pc |-> IF Mine(n) = <<>> THEN "follow" ELSE Head(Mine(n)).kind])
    /\ UNCHANGED <<st, up, lease, served, splits, gone, reporter, acked>>

(* sync_once copies a log the copy is a prefix of.                         *)
Synced(c, from) == IF c.rows \subseteq from.rows THEN [c EXCEPT !.rows = from.rows] ELSE c

(* Placed copies that finished their bootstrap follow the plan's primary.  *)
Follow(n) ==
    /\ At(n, "follow")
    /\ LET primaries(shard) == Primaries(n, worker[n].plan.replicas, shard)
           followed(c) == IF /\ Following(c)
                             /\ primaries(c.shard) # {}
                             /\ Serving(FirstOf(primaries(c.shard)).node, c.shard)
                            THEN Synced(c, TheCopy(FirstOf(primaries(c.shard)).node,
                                                   c.shard))
                            ELSE c
       IN  served' = [served EXCEPT ![n] = {followed(c) : c \in @}]
    /\ Working(n, IdleWorker)
    /\ UNCHANGED <<st, up, lease, splits, gone, reporter, acked>>

Kids(shard) == {Child(shard, 0), Child(shard, 1)}

(* CompletePlacementAction: the plane completes under one lock acquisition *)
(* and reconciles under the next, before it replies.                       *)
SendCompletion(n) ==
    /\ At(n, "complete")
    /\ LET a == TheAction(n)
           after == complete_action(st, n, lease[n], a.id, worker[n].out)
           taken == \E kid \in Kids(a.shard) : Copies(st, kid) # {}
       IN  IF validate_lease(st, n, lease[n]) /\ a.id \in after.completed
             THEN /\ after.next_action <= MaxActions + 1
                  /\ st' = after /\ Goto(n, "reply") /\ UNCHANGED lease
           ELSE IF a.kind = "split" /\ ~taken
             \* A failed precondition: the source reports once more.
             THEN /\ SendReport(n, replica_state(n, TheCopy(n, a.shard), worker[n].plan))
                  /\ Skip(n)
           ELSE Skip(n) /\ UNCHANGED <<st, lease>>
    /\ UNCHANGED <<up, served, splits, gone, reporter, acked>>

Reply(n) ==
    /\ At(n, "reply")
    /\ reconcile(st).next_action <= MaxActions + 1
    /\ reconcile(st).generation <= MaxTopologies
    /\ st' = reconcile(st)
    /\ \/ IF TheAction(n).kind = "drop" THEN Skip(n) ELSE Goto(n, "completed")
       \/ LostReplies /\ Skip(n)
    /\ UNCHANGED <<up, lease, served, splits, gone, reporter, acked>>

-----------------------------------------------------------------------------
(* execute_copy.                                                           *)
Planned(n) ==
    /\ SourceOf(worker[n].plan, TheAction(n)) # {}
    /\ SourceIn(n).generation = TheAction(n).source_generation

PlacedCopy(shard, lo, hi, generation) ==
    [shard |-> shard, lo |-> lo, hi |-> hi, placed |-> TRUE, rows |-> {},
     generation |-> generation, installed |-> FALSE, ready |-> FALSE,
     done |-> 0, fenced |-> FALSE, listed |-> TRUE]

(* Mutant: whatever is served under the shard's name is taken for a copy   *)
(* whose installation finished.                                            *)
StartCopyResumed(n) ==
    /\ At(n, "copy")
    /\ LET a == TheAction(n)
       IN  IF ~Planned(n) THEN Skip(n) /\ UNCHANGED served
           ELSE /\ IF Listed(n, a.shard) = {}
                     THEN SetCopies(n, {PlacedCopy(a.shard, SourceIn(n).lo, SourceIn(n).hi,
                                                   a.target_generation)})
                     ELSE UNCHANGED served
                /\ Goto(n, "compare")
    /\ UNCHANGED <<st, up, lease, splits, gone, reporter, acked>>

StartCopy(n) ==
    /\ At(n, "copy")
    /\ LET a == TheAction(n)
           c == TheCopy(n, a.shard)
       IN  IF ~Planned(n) THEN Skip(n) /\ UNCHANGED served
           ELSE IF Listed(n, a.shard) = {}
             THEN /\ SetCopies(n, {PlacedCopy(a.shard, SourceIn(n).lo, SourceIn(n).hi,
                                              a.target_generation)})
                  /\ Goto(n, "install")
           ELSE IF ~c.placed THEN Skip(n) /\ UNCHANGED served
           ELSE /\ Goto(n, IF c.installed /\ c.generation = a.target_generation
                             THEN "catch_up" ELSE "install")
                /\ UNCHANGED served
    /\ UNCHANGED <<st, up, lease, splits, gone, reporter, acked>>

(* A step of the copy that reads the source's listener: without it, or     *)
(* when the copy vanished, the action fails for this pass.                 *)
FromSource(n, step(_, _)) ==
    LET a == TheAction(n) IN
    IF Listed(n, a.shard) # {} /\ Serving(SourceIn(n).node, a.shard)
      THEN step(TheCopy(n, a.shard), TheCopy(SourceIn(n).node, a.shard))
      ELSE Skip(n) /\ UNCHANGED <<st, lease, served>>

Install(n) ==
    /\ At(n, "install")
    /\ FromSource(n, LAMBDA c, source :
         /\ SetCopies(n, {[c EXCEPT !.installed = TRUE, !.ready = FALSE,
                             !.generation = TheAction(n).target_generation,
                             !.rows = source.rows]})
         /\ Goto(n, "catch_up")
         /\ UNCHANGED <<st, lease>>)
    /\ UNCHANGED <<up, splits, gone, reporter, acked>>

CatchUp(n) ==
    /\ At(n, "catch_up")
    /\ FromSource(n, LAMBDA c, source :
         /\ SetCopies(n, {Synced(c, source)})
         /\ IF c.rows \subseteq source.rows THEN Goto(n, "ready") ELSE Skip(n)
         /\ UNCHANGED <<st, lease>>)
    /\ UNCHANGED <<up, splits, gone, reporter, acked>>

MarkReady(n) ==
    /\ At(n, "ready")
    /\ FromSource(n, LAMBDA c, source :
         IF c.rows # source.rows
           THEN Goto(n, "catch_up") /\ UNCHANGED <<st, lease, served>>
           ELSE /\ SetCopies(n, {[c EXCEPT !.ready = TRUE]})
                /\ SendReport(n, replica_state(n, [c EXCEPT !.ready = TRUE],
                                               worker[n].plan))
                /\ Goto(n, "compare"))
    /\ UNCHANGED <<up, splits, gone, reporter, acked>>

(* Sync once more and compare with the source's live health.               *)
Compare(n) ==
    /\ At(n, "compare")
    /\ FromSource(n, LAMBDA c, source :
         /\ SetCopies(n, {Synced(c, source)})
         /\ IF c.rows \subseteq source.rows
              THEN Working(n, [worker[n] EXCEPT !.pc = "complete",
                     !.out = {[replica_state(n, Synced(c, source), worker[n].plan)
                                 EXCEPT !.role = "replica", !.ready = TRUE]}])
              ELSE Skip(n)
         /\ UNCHANGED <<st, lease>>)
    /\ UNCHANGED <<up, splits, gone, reporter, acked>>

CopyCompleted(n) ==
    /\ At(n, "completed") /\ TheAction(n).kind = "copy"
    /\ IF Listed(n, TheAction(n).shard) = {} THEN UNCHANGED served
       ELSE SetCopies(n, {[TheCopy(n, TheAction(n).shard)
                             EXCEPT !.done = TheAction(n).id]})
    /\ Skip(n)
    /\ UNCHANGED <<st, up, lease, splits, gone, reporter, acked>>

-----------------------------------------------------------------------------
(* execute_drop.                                                           *)
Drop(n) ==
    /\ At(n, "drop")
    /\ LET a == TheAction(n)
           record == {r \in Copies(worker[n].plan, a.shard) :
                        r.node = n /\ r.role = "primary"}
       IN  IF record # {} \/ \E c \in Listed(n, a.shard) : ~c.placed
             THEN Skip(n) /\ UNCHANGED served
             ELSE /\ served' = [served EXCEPT ![n] = @ \ Listed(n, a.shard)]
                  /\ Goto(n, "complete")
    /\ UNCHANGED <<st, up, lease, splits, gone, reporter, acked>>

-----------------------------------------------------------------------------
(* execute_split.                                                          *)
Middle(a) == a.lo + (a.hi - a.lo) \div 2

(* The children's copies, holding the source's rows of their ranges.       *)
ChildCopies(a, source) ==
    LET kid(i, lo, hi) ==
          [PlacedCopy(Child(a.shard, i), lo, hi, a.target_generation) EXCEPT
             !.installed = TRUE,
             !.rows = {row \in source.rows : lo <= RowHash(row) /\ RowHash(row) <= hi}]
    IN  {kid(0, a.lo, Middle(a)), kid(1, Middle(a) + 1, a.hi)}

SplitOf(n, a) == {s \in splits[n] : s.shard = a.shard}

(* Choose the children, or take up the split split.toml describes.         *)
StartSplit(n) ==
    /\ At(n, "split")
    /\ LET a == TheAction(n)
           primary == {r \in Copies(worker[n].plan, a.shard) :
                         /\ r.node = n /\ r.role = "primary"
                         /\ r.generation = a.source_generation}
           old == SplitOf(n, a)
           taken == \E kid \in Kids(a.shard) :
                      Listed(n, kid) # {} \/ Copies(worker[n].plan, kid) # {}
           ours == [shard |-> a.shard, action |-> a.id, built |-> FALSE]
       IN  IF primary = {} \/ a.lo >= a.hi \/ Listed(n, a.shard) = {}
             THEN Skip(n) /\ UNCHANGED splits
           ELSE IF old = {} /\ ~taken
             THEN /\ splits' = [splits EXCEPT ![n] = @ \cup {ours}]
                  /\ Goto(n, "build")
           ELSE IF [ours EXCEPT !.built = TRUE] \in old
                     /\ \A kid \in Kids(a.shard) : Listed(n, kid) # {}
             THEN Goto(n, "tail") /\ UNCHANGED splits
           ELSE IF ours \in old THEN Goto(n, "build") /\ UNCHANGED splits
           ELSE Skip(n) /\ UNCHANGED splits
    /\ UNCHANGED <<st, up, lease, served, gone, reporter, acked>>

(* The source served here; when it is gone the step fails for this pass.   *)
TheSource(n) == TheCopy(n, TheAction(n).shard)

Build(n) ==
    /\ At(n, "build")
    /\ SetCopies(n, ChildCopies(TheAction(n), TheSource(n)))
    /\ splits' = [splits EXCEPT ![n] =
                    {[s EXCEPT !.built = @ \/ s.shard = TheAction(n).shard] : s \in @}]
    /\ Goto(n, "tail")
    /\ UNCHANGED <<st, up, lease, gone, reporter, acked>>

(* The children after one more pass of the tail.                           *)
TailedChildren(n) ==
    {[TheCopy(n, k.shard) EXCEPT !.rows = k.rows] :
       k \in ChildCopies(TheAction(n), TheSource(n))}

(* Mutant: the source still takes appends.                                 *)
TailWithoutFence(n) ==
    /\ At(n, "tail")
    /\ SetCopies(n, TailedChildren(n))
    /\ Goto(n, "drain")
    /\ UNCHANGED <<st, up, lease, splits, gone, reporter, acked>>

TailAndFence(n) ==
    /\ At(n, "tail")
    /\ SetCopies(n, TailedChildren(n) \cup {[TheSource(n) EXCEPT !.fenced = TRUE]})
    /\ Goto(n, "drain")
    /\ UNCHANGED <<st, up, lease, splits, gone, reporter, acked>>

(* With the source fenced the last rows reach the children, and the source *)
(* reports its final counts.                                               *)
DrainSource(n) ==
    /\ At(n, "drain")
    /\ SetCopies(n, TailedChildren(n))
    /\ SendReport(n, replica_state(n, TheSource(n), worker[n].plan))
    /\ Working(n, [worker[n] EXCEPT !.pc = "complete",
         !.out = {[replica_state(n, k, worker[n].plan) EXCEPT
                     !.role = "primary", !.ready = TRUE,
                     !.generation = TheAction(n).target_generation] :
                  k \in TailedChildren(n)}])
    /\ UNCHANGED <<up, splits, gone, reporter, acked>>

(* The children are ready, and the source leaves the shards map ...        *)
SplitCompleted(n) ==
    /\ At(n, "completed") /\ TheAction(n).kind = "split"
    /\ SetCopies(n, {[TheCopy(n, kid) EXCEPT !.ready = TRUE, !.done = TheAction(n).id] :
                       kid \in Kids(TheAction(n).shard)}
                    \cup {[TheSource(n) EXCEPT !.listed = FALSE]})
    /\ Goto(n, "retire")
    /\ UNCHANGED <<st, up, lease, splits, gone, reporter, acked>>

(* ... and then, for good, the disk or the configuration.                  *)
Retire(n) ==
    /\ At(n, "retire")
    /\ LET c == CHOOSE d \in served[n] : d.shard = TheAction(n).shard
       IN  /\ served' = IF c.placed THEN [served EXCEPT ![n] = @ \ {c}] ELSE served
           /\ gone' = IF c.placed THEN gone
                      ELSE [gone EXCEPT ![n] = @ \cup {c.shard}]
    /\ Skip(n)
    /\ UNCHANGED <<st, up, lease, splits, reporter, acked>>

-----------------------------------------------------------------------------
ReportStep(n) == ReadReportPlan(n) \/ BuildReport(n) \/ DeliverReport(n)
CopyStep(n) ==
    StartCopy(n) \/ Install(n) \/ CatchUp(n) \/ MarkReady(n) \/ Compare(n) \/ CopyCompleted(n)
SplitStep(n) ==
    \/ StartSplit(n) \/ Build(n) \/ TailAndFence(n) \/ DrainSource(n)
    \/ SplitCompleted(n) \/ Retire(n)
WorkStep(n) ==
    \/ RunOnce(n) \/ Follow(n) \/ SendCompletion(n) \/ Reply(n)
    \/ CopyStep(n) \/ Drop(n) \/ SplitStep(n)

Next ==
    \/ Reconcile
    \/ \E row \in Rows : Ingest(row)
    \/ \E n \in Nodes : \/ Register(n) \/ Lapse(n) \/ Crash(n) \/ Die(n)
                        \/ ReportStep(n) \/ WorkStep(n)

(* The reconciler and every loop of a live agent run on timers, and a dead *)
(* node's lease runs out.  For the reconciler and the worker weak fairness *)
(* is spelled out: again and again there is nothing to do, or a step.      *)
WorkDue(n) == n \in up /\ (worker[n].pc # "idle" \/ PassDue(n))

Fairness ==
    /\ []<>(reconcile(st) = st) \/ []<><<Reconcile>>_vars
    /\ \A n \in Nodes : /\ []<>~WorkDue(n) \/ []<><<WorkStep(n)>>_vars
                        /\ WF_vars(Register(n)) /\ WF_vars(ReportStep(n))
                        /\ WF_vars(n \notin up /\ Lapse(n))

-----------------------------------------------------------------------------
(* Every copy on a disk is well formed: a copy is ready only once it is    *)
(* installed, only the source of a split is fenced, and a node has one     *)
(* copy of a shard.                                                        *)
TypeOK ==
    /\ \A n \in Nodes : lease[n] < st.next_token
    /\ \A n \in Nodes : \A c \in served[n] :
         /\ c.rows \subseteq Rows /\ c.lo <= c.hi
         /\ c.ready => c.installed
         /\ c.fenced => \E s \in splits[n] : s.shard = c.shard /\ s.built
         /\ \A d \in served[n] : c.shard = d.shard => c = d

(* Every acknowledged row is held by the copy its route leads to, while    *)
(* copies are placed and shards are split under the appends.               *)
AckedServed ==
    st.routes # <<>> =>
      \A row \in acked : \E i \in DOMAIN st.routes :
        /\ st.routes[i].lo <= RowHash(row) /\ RowHash(row) <= st.routes[i].hi
        /\ \E c \in served[st.routes[i].node] :
             c.shard = st.routes[i].shard /\ row \in c.rows

(* A split the plane accepts loses nothing: at that moment every row of    *)
(* the source is in the child its hash belongs to, whatever was appended   *)
(* while the children were built and wherever the agent was restarted      *)
(* (execute_split's fence and drain, and the plane's row check).           *)
SplitKeepsRows ==
    \A n \in Nodes :
      At(n, "complete") /\ TheAction(n).kind = "split" /\ worker'[n].pc = "reply"
      => \A row \in TheSource(n).rows : \E k \in served[n] :
           /\ k.shard \in Kids(TheAction(n).shard) /\ row \in k.rows
           /\ k.lo <= RowHash(row) /\ RowHash(row) <= k.hi

(* The reconciler fills a replication deficit: in the end every primary    *)
(* has as many ready copies on active nodes as the policy asks for.        *)
FullyReplicated ==
    \E p \in st.replicas :
      /\ p.role = "primary" /\ active_node(st, p.node)
      /\ Cardinality({r \in Copies(st, p.shard) :
           /\ r.ready /\ SameContract(r, p) /\ active_node(st, r.node)
           /\ Serving(r.node, r.shard)}) >= ReplicationFactor

DeficitFilled == <>[]FullyReplicated

(* An agent drops a copy only when another one is served: whatever stale   *)
(* plan execute_drop reads and whoever was promoted since, some other node *)
(* serves an installed copy of the shard.                                  *)
DropLeavesACopy ==
    \A n \in Nodes : At(n, "drop") /\ served'[n] # served[n] =>
      \E m \in Nodes \ {n} : /\ Serving(m, TheAction(n).shard)
                           /\ TheCopy(m, TheAction(n).shard).installed

(* A split ends: the source of a split does not stay fenced for ever.      *)
FencedSource == \E n \in Nodes : \E c \in served[n] : c.fenced /\ c.listed
SplitFinishes == FencedSource ~> ~FencedSource

=============================================================================
