---------------------------- MODULE PlacementPlan ----------------------------
(***************************************************************************)
(* What the control plane decides about shard copies (control_plane.rs):   *)
(* leases, reports, the reconciler that plans copies, drops, splits,       *)
(* compactions, merges and rebalancing moves, the completion of a planned  *)
(* action, and the routes a state asks for.  Every operator maps a stored  *)
(* state to the next one; a refused request leaves it alone.               *)
(*                                                                         *)
(* How the state is persisted and how its topology reaches the coordinator *)
(* is the subject of ControlStore.  Here a lease is live until it lapses   *)
(* (expires_unix_ms <= now), listeners are named by shard and node, the    *)
(* two fingerprints are one, disk use is in percent, and a copy's bytes    *)
(* are its rows.                                                           *)
(***************************************************************************)
EXTENDS Naturals, Sequences, FiniteSets, SequencesExt, FiniteSetsExt

CONSTANTS Nodes,             \* node ids, numbers in the order of the names
          Domain,            \* [Nodes -> failure domain]
          MaxHash,           \* u64::MAX
          ReplicationFactor,
          SplitRows,
          MergeRows,
          CompactSegments,
          CompactPercent     \* compact_tombstone_ppm

ASSUME PlacementConstants ==
    /\ Nodes \subseteq Nat \ {0} /\ IsFiniteSet(Nodes)
    /\ MaxHash \in Nat /\ ReplicationFactor \in Nat \ {0}
    /\ SplitRows \in Nat /\ MergeRows \in Nat
    /\ CompactSegments \in Nat \ {0} /\ CompactPercent \in 1..100

Hashes == 0..MaxHash
RebalanceGap == 15
NoNode == 0
NoShard == <<>>

(* A shard id is a root number followed by one digit per split it came     *)
(* from: <<7, 0>> is "7-0".                                                *)
Child(shard, i) == Append(shard, i)

ShardBefore(s, t) ==
    \/ IsStrictPrefix(s, t)
    \/ \E i \in 1..Min({Len(s), Len(t)}) :
         /\ s[i] < t[i]
         /\ \A j \in 1..(i - 1) : s[j] = t[j]

(* The order of the replicas' map: shard id, then node id.                 *)
KeyBefore(r, q) ==
    \/ ShardBefore(r.shard, q.shard)
    \/ r.shard = q.shard /\ r.node < q.node

(* Iterator::find, and the last of a set: max_by_key keeps the last of     *)
(* equal elements.                                                         *)
FirstOf(set) == CHOOSE r \in set : \A q \in set \ {r} : KeyBefore(r, q)
LastOf(set) == CHOOSE r \in set : \A q \in set \ {r} : KeyBefore(q, r)

Copies(state, shard) == {r \in state.replicas : r.shard = shard}
active_node(state, n) == state.nodes[n].state = "active"

-----------------------------------------------------------------------------
(* Leases.                                                                 *)
NoLease == [state |-> "absent", token |-> 0, lapsed |-> FALSE, used |-> 0]

validate_lease(state, n, token) ==
    /\ state.nodes[n].state # "absent"
    /\ token # 0 /\ token = state.nodes[n].token
    /\ ~state.nodes[n].lapsed

register(state, n, used) ==
    [state EXCEPT
       !.next_token = @ + 1,
       !.nodes[n] = [state |-> "active", token |-> state.next_token,
                     lapsed |-> FALSE, used |-> used]]

renew(state, n, used) == [state EXCEPT !.nodes[n].lapsed = FALSE,
                                       !.nodes[n].used = used]

drain(state, n) == [state EXCEPT !.nodes[n].state = "draining"]

(* report: the reported facts, role included, replace the record.          *)
Insert(replicas, replica) ==
    {r \in replicas : ~(r.shard = replica.shard /\ r.node = replica.node)}
      \cup {replica}

report(state, replica) ==
    IF replica.lo > replica.hi \/ replica.tombstones > replica.rows THEN state
    ELSE [state EXCEPT !.replicas = Insert(@, replica)]

-----------------------------------------------------------------------------
(* The reconciler.                                                         *)
expire(state) ==
    [state EXCEPT !.nodes =
       [n \in Nodes |-> [state.nodes[n] EXCEPT
                           !.state = IF state.nodes[n].lapsed THEN "expired" ELSE @]]]

SetPrimary(replicas, shard, n) ==
    {IF r.shard = shard
       THEN [r EXCEPT !.role = IF r.node = n THEN "primary" ELSE "replica"]
       ELSE r : r \in replicas}

SameContract(r, q) == r.generation = q.generation /\ r.print = q.print

ReadyPrimaries(state, shard) ==
    {r \in Copies(state, shard) : r.ready /\ r.role = "primary"}

(* Mutant: a replica takes over from a primary that is served.             *)
promote_always(state, shard) ==
    LET candidates == {r \in Copies(state, shard) :
                         r.ready /\ r.role = "replica" /\ active_node(state, r.node)}
    IN  IF candidates = {} THEN state
        ELSE [state EXCEPT !.replicas = SetPrimary(@, shard, LastOf(candidates).node)]

(* The first ready primary is on no active node: the newest ready replica  *)
(* on one takes over.                                                      *)
promote(state, shard) ==
    LET primaries == ReadyPrimaries(state, shard)
        candidates == {r \in Copies(state, shard) :
                         r.ready /\ r.role = "replica" /\ active_node(state, r.node)}
        newest == {r \in candidates : \A q \in candidates :
                     q.generation <= r.generation}
    IN  IF \/ primaries # {} /\ active_node(state, FirstOf(primaries).node)
           \/ candidates = {}
          THEN state
          ELSE [state EXCEPT !.replicas =
                  SetPrimary(@, shard, LastOf(newest).node)]

Action(kind, shard, target, generation, peer, reason) ==
    [kind |-> kind, shard |-> shard.shard, source |-> shard.node,
     source_generation |-> shard.generation, target |-> target,
     target_generation |-> generation, reason |-> reason,
     lo |-> shard.lo, hi |-> shard.hi,
     peer |-> IF peer = {} THEN NoShard ELSE FirstOf(peer).shard,
     peer_generation |-> IF peer = {} THEN 0 ELSE FirstOf(peer).generation]

(* push_action: at most one pending action per kind, shard and target.     *)
push_action(state, action) ==
    IF \E i \in DOMAIN state.actions :
         /\ state.actions[i].kind = action.kind
         /\ state.actions[i].shard = action.shard
         /\ state.actions[i].target = action.target
      THEN state
      ELSE [state EXCEPT
              !.next_action = @ + 1,
              !.actions = Append(@, action @@ [id |-> state.next_action])]

(* Another failure domain first, then the emptier disk, then the name.     *)
Preferred(state, source, n, m) ==
    LET same(x) == IF Domain[x] = Domain[source] THEN 1 ELSE 0
        used(x) == state.nodes[x].used
    IN  \/ same(n) < same(m)
        \/ same(n) = same(m) /\ used(n) < used(m)
        \/ same(n) = same(m) /\ used(n) = used(m) /\ n <= m

choose_target(state, excluded, source) ==
    LET open == {n \in Nodes : active_node(state, n)} \ excluded IN
    {n \in open : \A m \in open : Preferred(state, source, n, m)}

(* Mutant: one copy too few is enough.                                     *)
plan_copy_one_short(state, primary) ==
    LET copies == {r \in Copies(state, primary.shard) :
                     r.ready /\ SameContract(r, primary)}
        targets == choose_target(state, {r.node : r \in copies}, primary.node)
    IN  IF Cardinality(copies) + 1 < ReplicationFactor /\ targets # {}
          THEN push_action(state, Action("copy", primary, CHOOSE n \in targets : TRUE,
                                         primary.generation, {}, "deficit"))
          ELSE state

plan_copy(state, primary) ==
    LET copies == {r \in Copies(state, primary.shard) :
                     r.ready /\ SameContract(r, primary)}
        serving == state.nodes[primary.node].state
        targets == choose_target(state, {r.node : r \in copies}, primary.node)
    IN  IF /\ Cardinality(copies) < ReplicationFactor \/ serving # "active"
           /\ targets # {}
          THEN push_action(state,
                 Action("copy", primary, CHOOSE n \in targets : TRUE,
                        primary.generation, {},
                        IF serving = "active" THEN "deficit" ELSE "replace"))
          ELSE state

(* A split or a compaction, where the primary is served and no copy of the *)
(* shard is pending.                                                       *)
plan_rewrite(state, primary) ==
    IF \/ ~active_node(state, primary.node)
       \/ \E i \in DOMAIN state.actions :
            state.actions[i].shard = primary.shard
              /\ state.actions[i].kind = "copy"
      THEN state
    ELSE IF primary.rows > SplitRows /\ primary.lo < primary.hi
      THEN push_action(state, Action("split", primary, primary.node,
                                     primary.generation + 1, {}, "rows"))
    ELSE IF \/ primary.segments >= CompactSegments
            \/ /\ primary.rows > 0
               /\ primary.tombstones * 100 >= primary.rows * CompactPercent
      THEN push_action(state, Action("compact", primary, primary.node,
                                     primary.generation + 1, {}, "segments"))
      ELSE state

ReconcileShard(state, shard) ==
    LET promoted == promote(state, shard)
        primaries == ReadyPrimaries(promoted, shard)
    IN  IF primaries = {} THEN promoted
        ELSE plan_rewrite(plan_copy(promoted, FirstOf(primaries)), FirstOf(primaries))

(* Adjacent small primaries that no pending action names.                  *)
PlanMerge(state, left, right) ==
    IF /\ left.hi + 1 = right.lo
       /\ left.rows + right.rows <= MergeRows
       /\ left.print = right.print
       /\ \A i \in DOMAIN state.actions :
            {state.actions[i].shard, state.actions[i].peer}
              \cap {left.shard, right.shard} = {}
      THEN push_action(state,
             Action("merge", left, left.node,
                    Max({left.generation, right.generation}) + 1,
                    {right}, "small"))
      ELSE state

ByRange(set) ==
    SetToSortSeq(set, LAMBDA r, q : \/ r.lo < q.lo
                                    \/ r.lo = q.lo /\ KeyBefore(r, q))

plan_merges(state) ==
    LET primaries == ByRange({r \in state.replicas : r.role = "primary" /\ r.ready})
        merge(s, i) == PlanMerge(s, primaries[i], primaries[i + 1])
    IN  FoldLeft(merge, state, [i \in 1..(Len(primaries) - 1) |-> i])

(* One primary of the fullest active node moves to the emptiest.           *)
plan_rebalance(state) ==
    LET open == {n \in Nodes : active_node(state, n)}
        used(n) == state.nodes[n].used
        high == Max({n \in open : \A m \in open : used(m) <= used(n)})
        low == Min({n \in open : \A m \in open : used(m) >= used(n)})
        movable == {r \in state.replicas :
                      /\ r.role = "primary" /\ r.ready /\ r.node = high
                      /\ \A q \in Copies(state, r.shard) : q.node # low
                      /\ \A i \in DOMAIN state.actions :
                           state.actions[i].shard # r.shard}
        largest == {r \in movable : \A q \in movable : q.rows <= r.rows}
    IN  IF open = {} THEN state
        ELSE IF high # low /\ used(high) >= used(low) + RebalanceGap
                  /\ movable # {}
          THEN push_action(state, Action("copy", LastOf(largest), low,
                             LastOf(largest).generation, {}, "rebalance"))
          ELSE state

(* Mutant: the last range may end early.                                   *)
complete_open_end(sorted) == sorted # <<>> /\ sorted[1].lo = 0

(* The ranges start at 0, each where the one before it ended, and the last *)
(* ends at the last hash value, after which the expected start is 0.       *)
complete(sorted) ==
    /\ sorted # <<>>
    /\ sorted[1].lo = 0
    /\ \A i \in 1..(Len(sorted) - 1) :
         sorted[i + 1].lo = (sorted[i].hi + 1) % (MaxHash + 1)
    /\ sorted[Len(sorted)].hi = MaxHash

(* desired_routes: one route per shard with a ready primary on an active   *)
(* node, if together they leave no gap; else no decision.                  *)
desired_routes(state) ==
    LET served == {r \in state.replicas : r.ready /\ active_node(state, r.node)}
        shards == {r.shard : r \in {q \in served : q.role = "primary"}}
        primary(s) == FirstOf({r \in served : r.shard = s /\ r.role = "primary"})
        backups(s) == {r \in served : /\ r.shard = s /\ r.role = "replica"
                                      /\ SameContract(r, primary(s))}
        backup(s) == IF backups(s) = {} THEN NoNode ELSE FirstOf(backups(s)).node
        sorted == ByRange({primary(s) : s \in shards})
        route(r) == [shard |-> r.shard, node |-> r.node,
                     backup |-> backup(r.shard), lo |-> r.lo, hi |-> r.hi]
    IN  IF complete(sorted) THEN [i \in DOMAIN sorted |-> route(sorted[i])] ELSE <<>>

decide_topology(state) ==
    LET routes == desired_routes(state) IN
    IF routes = <<>> \/ routes = state.routes THEN state
    ELSE [state EXCEPT !.routes = routes, !.generation = @ + 1]

(* reconcile_locked.                                                       *)
reconcile(state) ==
    LET alive == expire(state)
        shards == SetToSortSeq({r.shard : r \in alive.replicas}, ShardBefore)
        planned == FoldLeft(ReconcileShard, alive, shards)
    IN  decide_topology(plan_rebalance(plan_merges(planned)))

-----------------------------------------------------------------------------
(* complete_action.                                                        *)
Pending(state, id) == {a \in Range(state.actions) : a.id = id}

(* The record the action was planned from, or a primary of the shard.      *)
SourceOf(state, action) ==
    LET named == {r \in Copies(state, action.shard) : r.node = action.source}
        primaries == {r \in Copies(state, action.shard) : r.role = "primary"}
    IN  IF named # {} THEN named ELSE IF primaries # {} THEN {FirstOf(primaries)}
        ELSE {}

Live(r) == r.rows - r.tombstones

(* checked_output, and no shard id twice.                                  *)
checked_output(n, outputs) ==
    /\ \A r \in outputs : /\ r.ready /\ r.node = n
                          /\ r.lo <= r.hi /\ r.tombstones <= r.rows
    /\ \A r, q \in outputs : r.shard = q.shard => r = q

(* The outputs in the order of their ranges, each starting after the one   *)
(* before it, where the value after the last is 0.                         *)
require_range_tiling(outputs, lo, hi) ==
    LET before(r, q) == \/ r.lo < q.lo
                        \/ r.lo = q.lo /\ r.hi < q.hi
                        \/ r.lo = q.lo /\ r.hi = q.hi /\ KeyBefore(r, q)
        sorted == SetToSortSeq(outputs, before)
    IN
    /\ sorted # <<>> /\ sorted[1].lo = lo
    /\ \A i \in 1..(Len(sorted) - 1) :
         sorted[i + 1].lo = (sorted[i].hi + 1) % (MaxHash + 1)
    /\ Max({r.hi : r \in outputs}) = hi
    /\ hi # MaxHash => sorted[Len(sorted)].hi = hi

Rewritten(output, source, action) ==
    /\ output.generation = action.target_generation
    /\ output.print = source.print

CopyFits(action, source, outputs) ==
    /\ Cardinality(outputs) = 1
    /\ \A out \in outputs :
         /\ Rewritten(out, source, action) /\ out.role = "replica"
         /\ out.shard = source.shard /\ out.lo = source.lo /\ out.hi = source.hi
         /\ out.rows = source.rows /\ out.tombstones = source.tombstones

CompactFits(action, source, outputs) ==
    /\ Cardinality(outputs) = 1
    /\ \A out \in outputs :
         /\ Rewritten(out, source, action) /\ out.role = "primary"
         /\ out.shard = source.shard /\ out.lo = source.lo /\ out.hi = source.hi
         /\ out.rows = Live(source) /\ out.tombstones = 0

SplitFits(state, action, source, outputs) ==
    /\ Cardinality(outputs) >= 2
    /\ require_range_tiling(outputs, source.lo, source.hi)
    /\ \A out \in outputs :
         /\ Rewritten(out, source, action)
         /\ out.role = "primary" /\ out.tombstones = 0
         /\ out.shard # source.shard => Copies(state, out.shard) = {}
    /\ MapThenSumSet(LAMBDA r : r.rows, outputs) = Live(source)

PeerOf(state, action) ==
    {r \in Copies(state, action.peer) : r.role = "primary"}

MergeFits(state, action, source, outputs) ==
    /\ Cardinality(outputs) = 1
    /\ PeerOf(state, action) # {}
    /\ LET peer == FirstOf(PeerOf(state, action)) IN
       /\ peer.generation = action.peer_generation
       /\ peer.print = source.print /\ source.hi + 1 = peer.lo
       /\ \A out \in outputs :
            /\ Rewritten(out, source, action) /\ out.role = "primary"
            /\ out.lo = source.lo /\ out.hi = peer.hi
            /\ out.tombstones = 0 /\ out.rows = Live(source) + Live(peer)
            /\ out.shard \in {source.shard, peer.shard}
                 \/ Copies(state, out.shard) = {}

(* What an accepted completion does to the records.  A copy that replaces  *)
(* its source is promoted, and the source is to be dropped.                *)
Finish(state, action) ==
    [state EXCEPT !.actions = SelectSeq(@, LAMBDA a : a.id # action.id),
                  !.completed = @ \cup {action.id}]

Without(state, shards) == {r \in state.replicas : r.shard \notin shards}

CompleteCopy(state, action, source, outputs) ==
    LET out == CHOOSE r \in outputs : TRUE
        copied == [state EXCEPT !.replicas = Insert(@, out)]
        moved == [copied EXCEPT !.replicas = SetPrimary(@, source.shard, out.node)]
    IN  IF active_node(state, source.node) /\ action.reason # "rebalance"
          THEN copied
          ELSE push_action(moved, Action("drop", source, source.node,
                                         source.generation, {}, "replaced"))

CompleteDrop(state, source) ==
    [state EXCEPT !.replicas = @ \ {r \in Copies(state, source.shard) :
                                      r.node = source.node}]

CompleteRewrite(state, shards, outputs) ==
    [state EXCEPT !.replicas = Without(state, shards) \cup outputs]

(* The state after complete_action, or the same state if it refuses.       *)
complete_action(state, n, token, id, outputs) ==
    IF \/ ~validate_lease(state, n, token)
       \/ id \in state.completed
       \/ Pending(state, id) = {}
      THEN state
    ELSE LET action == CHOOSE a \in Pending(state, id) : TRUE IN
      IF action.target # n \/ SourceOf(state, action) = {} THEN state
      ELSE LET source == CHOOSE r \in SourceOf(state, action) : TRUE IN
        IF \/ source.generation # action.source_generation
           \/ ~checked_output(n, outputs) THEN state
        ELSE IF action.kind = "copy" /\ CopyFits(action, source, outputs)
          THEN Finish(CompleteCopy(state, action, source, outputs), action)
        ELSE IF action.kind = "drop" /\ outputs = {}
          THEN Finish(CompleteDrop(state, source), action)
        ELSE IF action.kind = "compact" /\ CompactFits(action, source, outputs)
          THEN Finish(CompleteRewrite(state, {source.shard}, outputs), action)
        ELSE IF action.kind = "split" /\ SplitFits(state, action, source, outputs)
          THEN Finish(CompleteRewrite(state, {source.shard}, outputs), action)
        ELSE IF action.kind = "merge" /\ MergeFits(state, action, source, outputs)
          THEN Finish(CompleteRewrite(state, {source.shard, action.peer}, outputs),
                      action)
        ELSE state
=============================================================================
