---------------------------- MODULE LiveReshard ----------------------------
(* A shard is split while it is written: children are built from its log as  *)
(* it is, caught up by passes over the rest, and a cutover freezes routed  *)
(* writes for the last pass, writes the new shard map and publishes it.      *)
(* Beside it the same log feeds a replica by position.  Topology generation  *)
(* 1 routes to the source, 2 to the children.  A row is its number; a record *)
(* of the log is a row, or 0 for a delete.  The maps that are published are  *)
(* checked apart.                                                            *)
EXTENDS SystemState, Integers, Sequences, FiniteSets, FiniteSetsExt, SequencesExt

CONSTANTS
    RoutedRows,      \* rows that may be written
    BaseRows,      \* rows of the log when the split starts
    MaxFreezes,    \* freezes of a behaviour
    MaxMishaps,    \* crashes, lost calls, rotations and deletes of a behaviour
    ReplicaLogs,   \* the logs the replica may be fed: sequences of
                   \* [op, first, rows]
    LastHash,      \* u64::MAX
    PlacedLeaves,  \* the codes of the placement tree's leaves
    MapShards      \* shards of the maps that are proposed

LiveChildren == {1, 2}
route(row) == 1 + (row % 2)
Mine(seq, c) == SelectSeq(seq, LAMBDA row : row # 0 /\ route(row) = c)
BaseLog == [i \in 1..BaseRows |-> i]
NoPass == [at |-> "idle", cutover |-> FALSE, token |-> {}, skip |-> <<0, 0>>, todo |-> <<>>,
           clock |-> 0, expect |-> 0, applied |-> <<0, 0>>]

CutoverInit ==
    sys = [part |-> "cutover", log |-> BaseLog, synced |-> BaseRows, generation |-> 1, deleted |-> FALSE,
           child |-> [c \in LiveChildren |-> [rows |-> <<>>, flushed |-> 0]],
           state |-> [clock |-> 0, base |-> <<0, 0>>, applied |-> <<0, 0>>],
           file |-> 1, served |-> 1, pending |-> FALSE, guard |-> {}, tokens |-> 0, waiting |-> FALSE,
           write |-> {}, issued |-> BaseRows, acked |-> {}, tool |-> [NoPass EXCEPT !.at = "cutoff"], mishaps |-> 0,
           exposed |-> FALSE, holed |-> FALSE]

Mishap == sys.mishaps < MaxMishaps
Tool(at) == At("cutover") /\ sys.tool.at = at

----------------------------------------------------------------------------
(* routed_ingest_mapped_bound: the gate is held for reading from the look at *)
(* the topology to the answer.  A waiting freeze holds new writers back.     *)
GateOpen_WhileFrozen == ~sys.waiting
GateOpen == sys.guard = {} /\ ~sys.waiting
BeginRoutedWrite ==
    /\ At("cutover") /\ GateOpen /\ sys.write = {} /\ sys.issued < RoutedRows
    /\ sys' = [sys EXCEPT !.issued = @ + 1,
                          !.write = {[row |-> sys.issued + 1, routes |-> sys.served, at |-> "routed"]}]
ApplyRoutedWrite ==
    /\ At("cutover")
    /\ \E w \in sys.write :
         /\ w.at = "routed"
         /\ sys' = [sys EXCEPT
              !.write = {[w EXCEPT !.at = "applied"]},
              !.log = IF w.routes = 1 THEN Append(@, w.row) ELSE @,
              !.child = IF w.routes = 1 THEN @ ELSE [@ EXCEPT ![route(w.row)].rows = Append(@, w.row)]]
AckRoutedWrite ==
    /\ At("cutover")
    /\ \E w \in sys.write : w.at = "applied" /\ sys' = [sys EXCEPT
         !.write = {}, !.acked = IF w.routes = 1 THEN @ \cup {w.row} ELSE @]

(* The source alone: its unsynced tail is lost, its log rotates, a row is    *)
(* deleted.                                                                  *)
SourceCrash ==
    /\ At("cutover") /\ Mishap /\ sys.synced < Len(sys.log)
    /\ LET lost == ToSet(SubSeq(sys.log, sys.synced + 1, Len(sys.log)))
       IN  sys' = [sys EXCEPT !.mishaps = @ + 1, !.log = SubSeq(@, 1, sys.synced), !.write = {},
                     !.acked = @ \ lost,
                     !.holed = \/ @
                               \/ sys.tool.at = "replay" /\ sys.tool.clock > sys.synced
                               \/ \E c \in LiveChildren : lost \cap ToSet(sys.child[c].rows) # {}]
SourceRotates ==
    /\ At("cutover") /\ Mishap /\ sys.served = 1
    /\ sys' = [sys EXCEPT !.mishaps = @ + 1, !.generation = @ + 1]
SourceDeletes ==
    /\ At("cutover") /\ Mishap /\ sys.served = 1
    /\ sys' = [sys EXCEPT !.mishaps = @ + 1, !.log = Append(@, 0), !.deleted = TRUE]
ChildCrash(c) ==
    /\ At("cutover") /\ Mishap /\ sys.served = 1 /\ sys.child[c].flushed < Len(sys.child[c].rows)
    /\ sys' = [sys EXCEPT !.mishaps = @ + 1, !.child[c].rows = SubSeq(@, 1, sys.child[c].flushed),
                          !.holed = @ \/ sys.tool.at \in {"read", "apply"}]

----------------------------------------------------------------------------
(* split_stable_logs: the last clock of the log is the cutoff, then the log  *)
(* is replayed to its end as it is by then; a delete leaves no row.          *)
ReadCutoff ==
    /\ Tool("cutoff")
    /\ sys' = [sys EXCEPT !.tool.at = "replay", !.tool.clock = Len(sys.log)]
ReplayBase ==
    /\ Tool("replay")
    /\ sys' = [sys EXCEPT !.tool.at = "built", !.child = [c \in LiveChildren |->
                 [rows |-> Mine(sys.log, c), flushed |-> Len(Mine(sys.log, c))]]]
(* The children are served, and what was built is written down. *)
RecordBaseline ==
    /\ Tool("built")
    /\ sys' = [sys EXCEPT !.tool = NoPass,
                  !.state = [clock |-> sys.tool.clock, applied |-> <<0, 0>>,
                             base |-> [c \in 1..2 |-> Len(sys.child[c].rows)]]]
Building == sys.tool.at \in {"cutoff", "replay", "built"}

(* atomic_live_cutover asks for the freeze; catch-up alone does without.     *)
StartCatchUp ==
    /\ Tool("idle") /\ sys.served = 1 /\ sys.file = 1
    /\ \/ sys' = [sys EXCEPT !.tool = [NoPass EXCEPT !.at = "health"]]
       \/ ~sys.pending /\ sys.tokens < MaxFreezes /\ sys' = [sys EXCEPT !.tool = [NoPass EXCEPT !.at = "freezing", !.cutover = TRUE],
                                             !.pending = TRUE, !.waiting = TRUE]

(* freeze_topology_writes has the gate once the writers before it are done.  *)
freeze_topology_writes ==
    /\ At("cutover") /\ sys.waiting /\ sys.write = {}
    /\ LET token == sys.tokens + 1
       IN  sys' = IF sys.served # 1
             THEN [sys EXCEPT !.waiting = FALSE, !.pending = FALSE,
                              !.tool = IF sys.tool.at = "freezing" THEN NoPass ELSE @]
             ELSE [sys EXCEPT !.waiting = FALSE, !.guard = {token}, !.tokens = token,
                              !.tool = IF @.at = "freezing" THEN [@ EXCEPT !.token = {token}, !.at = "health"]
                                       ELSE @]

(* The source's and the children's health: what a pass before this one added *)
(* past the checkpoint is skipped.                                           *)
Failed(tool) == IF tool.cutover /\ sys.file = 1 THEN [tool EXCEPT !.at = "abort", !.todo = <<>>] ELSE NoPass
BaseOf(c) == sys.state.base[c]
CheckHealth ==
    /\ Tool("health")
    /\ LET behind == \E c \in LiveChildren : Len(sys.child[c].rows) < BaseOf(c) + sys.state.applied[c]
           skip == [c \in 1..2 |-> Len(sys.child[c].rows) - (BaseOf(c) + sys.state.applied[c])]
       IN  sys' = [sys EXCEPT !.tool =
             IF sys.generation # 1 \/ sys.deleted \/ behind THEN Failed(@)
             ELSE [@ EXCEPT !.at = "read", !.skip = skip, !.applied = sys.state.applied]]

(* read_wal: the source syncs its log first, and exports that prefix. *)
read_wal ==
    /\ Tool("read")
    /\ LET n == Len(sys.log)
           rest == SubSeq(sys.log, sys.state.clock + 1, n)
       IN  sys' = IF sys.generation # 1 \/ sys.state.clock > n THEN [sys EXCEPT !.tool = Failed(@)]
                  ELSE [sys EXCEPT !.synced = n,
                          !.tool = IF 0 \in ToSet(rest) THEN Failed(@)
                                   ELSE [@ EXCEPT !.at = "apply", !.todo = rest, !.clock = n, !.expect = n]]

(* catch_up_children_once, a row: skipped if the child has it, else added. *)
Skips(c) == sys.tool.skip[c] > 0
ApplyToChild ==
    /\ Tool("apply") /\ sys.tool.todo # <<>>
    /\ LET row == Head(sys.tool.todo)
           c == route(row)
       IN  sys' = [sys EXCEPT
             !.child = IF Skips(c) THEN @ ELSE [@ EXCEPT ![c].rows = Append(@, row)],
             !.tool = [@ EXCEPT !.todo = Tail(@), !.applied[c] = @ + 1,
                                !.skip[c] = IF Skips(c) THEN @ - 1 ELSE @]]
FlushAndVerify ==
    /\ Tool("apply") /\ sys.tool.todo = <<>>
    /\ LET total == Len(sys.child[1].rows) + Len(sys.child[2].rows)
           reconciled == \A c \in LiveChildren : sys.tool.skip[c] = 0
       IN  sys' = IF ~reconciled THEN [sys EXCEPT !.tool = Failed(@)]
                  ELSE [sys EXCEPT !.child = [c \in LiveChildren |-> [@[c] EXCEPT !.flushed = Len(sys.child[c].rows)]],
                          !.tool = IF total # @.expect THEN Failed(@) ELSE [@ EXCEPT !.at = "save"]]
WriteState ==
    /\ Tool("save")
    /\ sys' = [sys EXCEPT !.state = [@ EXCEPT !.clock = sys.tool.clock, !.applied = sys.tool.applied],
                          !.tool = IF @.cutover THEN [@ EXCEPT !.at = "map"] ELSE NoPass]
WriteMap ==
    /\ Tool("map")
    /\ sys' = [sys EXCEPT !.file = 2, !.tool.at = "publish"]

(* publish_topology and abort_topology_cutover: only with the freeze's token. *)
publish_topology ==
    /\ Tool("publish")
    /\ sys' = IF sys.guard = sys.tool.token /\ sys.guard # {} /\ sys.served < 2
                THEN [sys EXCEPT !.served = 2, !.guard = {}, !.pending = FALSE, !.tool = NoPass]
                ELSE [sys EXCEPT !.tool = NoPass]
abort_topology_cutover ==
    /\ Tool("abort")
    /\ sys' = IF sys.guard = sys.tool.token /\ sys.guard # {}
                THEN [sys EXCEPT !.guard = {}, !.pending = FALSE, !.tool = NoPass]
                ELSE [sys EXCEPT !.tool = NoPass]

(* The tool dies, or a call of it is lost on the way.  A freeze request that *)
(* is dropped while it waits leaves the cutover pending without a guard.     *)
ToolStops ==
    /\ At("cutover") /\ Mishap /\ sys.tool.at # "idle"
    /\ sys' = [sys EXCEPT !.mishaps = @ + 1, !.waiting = FALSE,
                          !.tool = IF Building THEN [NoPass EXCEPT !.at = "cutoff"] ELSE NoPass]

(* reload_topology: a newer map on disk, refused while a cutover is pending. *)
reload_topology ==
    /\ At("cutover") /\ sys.file > sys.served /\ ~sys.pending
    /\ sys' = [sys EXCEPT !.served = sys.file]
CoordinatorRestarts ==
    /\ At("cutover") /\ Mishap
    /\ sys' = [sys EXCEPT !.mishaps = @ + 1, !.served = sys.file, !.pending = FALSE, !.guard = {},
                          !.waiting = FALSE, !.write = {},
                          !.exposed = @ \/ (sys.tool.cutover /\ sys.tool.token # {} /\ sys.file = 1)]

CutoverNext ==
    \/ BeginRoutedWrite \/ ApplyRoutedWrite \/ AckRoutedWrite
    \/ SourceCrash \/ SourceRotates \/ SourceDeletes \/ (\E c \in LiveChildren : ChildCrash(c))
    \/ ReadCutoff \/ ReplayBase \/ RecordBaseline
    \/ StartCatchUp \/ freeze_topology_writes \/ CheckHealth \/ read_wal \/ ApplyToChild \/ FlushAndVerify
    \/ WriteState \/ WriteMap \/ publish_topology \/ abort_topology_cutover \/ ToolStops
    \/ reload_topology \/ CoordinatorRestarts

----------------------------------------------------------------------------
(* sync_once: one replica of the shard, by position.  The replica holds its  *)
(* rows, its dead and how much of both is flushed; the cursor is the file.   *)
NoSync == [at |-> "idle", todo |-> <<>>, clock |-> 0, tip |-> 0, dirty |-> FALSE]
ReplicaInit ==
    \E records \in ReplicaLogs :
      sys = [part |-> "replica", log |-> records, tip |-> 0, generation |-> 1, cursor |-> [generation |-> 0, clock |-> 0],
             rows |-> <<>>, dead |-> {}, kept |-> [rows |-> <<>>, dead |-> {}], sync |-> NoSync, mishaps |-> 0,
             holed |-> FALSE]

(* What a prefix of the log holds. *)
RowsOfPrefix(records, n) == FlattenSeq([i \in 1..n |-> IF records[i].op = "add" THEN records[i].rows ELSE <<>>])
DeadOfPrefix(records, n) == {records[i].first : i \in {j \in 1..n : records[j].op = "delete"}}

SourceAppends ==
    /\ At("replica") /\ sys.tip < Len(sys.log)
    /\ sys' = [sys EXCEPT !.tip = @ + 1]
WalRotates ==
    /\ At("replica") /\ Mishap /\ sys.generation = 1
    /\ sys' = [sys EXCEPT !.mishaps = @ + 1, !.generation = 2]

sync_once ==
    /\ At("replica") /\ sys.sync.at = "idle" /\ sys.cursor.clock < sys.tip
    /\ sys.cursor.clock # 0 => sys.cursor.generation = sys.generation
    /\ sys.generation = 1
    /\ sys' = [sys EXCEPT !.sync = [at |-> "apply", todo |-> SubSeq(sys.log, sys.cursor.clock + 1, sys.tip),
                                    clock |-> sys.tip, tip |-> Len(sys.rows), dirty |-> FALSE]]

(* A batch below the tip is there already, at the tip it is added row by row *)
(* and the replica must give it the ids of the log, else the pass fails.     *)
ReplicateRecord ==
    /\ At("replica") /\ sys.sync.at = "apply" /\ sys.sync.todo # <<>>
    /\ LET r == Head(sys.sync.todo)
           done == [sys.sync EXCEPT !.todo = Tail(@), !.dirty = TRUE]
           part == [sys.sync EXCEPT !.todo[1] = [r EXCEPT !.first = @ + 1, !.rows = Tail(@)],
                                    !.tip = @ + 1, !.dirty = TRUE]
           whole == r.op = "add" => r.first + Len(r.rows) <= sys.sync.tip
       IN  sys' = CASE r.op = "delete" -> [sys EXCEPT !.dead = @ \cup {r.first}, !.sync = done]
                    [] r.op = "add" /\ r.first < sys.sync.tip ->
                         [sys EXCEPT !.sync = IF whole THEN done ELSE NoSync]
                    [] r.op = "add" /\ r.first > sys.sync.tip -> [sys EXCEPT !.sync = NoSync]
                    [] OTHER ->
                         IF Len(sys.rows) # r.first
                           THEN [sys EXCEPT !.rows = Append(@, Head(r.rows)), !.sync = NoSync]
                           ELSE [sys EXCEPT !.rows = Append(@, Head(r.rows)),
                                            !.sync = IF Len(r.rows) = 1 THEN [done EXCEPT !.tip = @ + 1] ELSE part]

(* The replica flushes, its counts are compared with the prefix's, and then  *)
(* the cursor is written.                                                    *)
FlushReplica ==
    /\ At("replica") /\ sys.sync.at = "apply" /\ sys.sync.todo = <<>>
    /\ sys' = [sys EXCEPT !.kept = IF sys.sync.dirty THEN [rows |-> sys.rows, dead |-> sys.dead] ELSE @,
                          !.sync.at = "verify"]
VerifyReplica ==
    /\ At("replica") /\ sys.sync.at = "verify"
    /\ LET n == sys.sync.clock
       IN  sys' = IF /\ Len(sys.rows) = Len(RowsOfPrefix(sys.log, n))
                     /\ Cardinality(sys.dead) = Cardinality(DeadOfPrefix(sys.log, n))
                    THEN [sys EXCEPT !.sync.at = "save"] ELSE [sys EXCEPT !.sync = NoSync]
SaveCursor ==
    /\ At("replica") /\ sys.sync.at = "save"
    /\ sys' = [sys EXCEPT !.cursor = [generation |-> 1, clock |-> sys.sync.clock], !.sync = NoSync]
ReplicaCrash ==
    /\ At("replica") /\ Mishap
    /\ sys' = [sys EXCEPT !.mishaps = @ + 1, !.rows = sys.kept.rows, !.dead = sys.kept.dead,
                          !.holed = @ \/ (sys.sync.at = "apply" /\ sys.rows # sys.kept.rows)]
SyncStops ==
    /\ At("replica") /\ Mishap /\ sys.sync.at # "idle"
    /\ sys' = [sys EXCEPT !.mishaps = @ + 1, !.sync = NoSync]

ReplicaNext ==
    \/ SourceAppends \/ WalRotates \/ sync_once \/ ReplicateRecord \/ FlushReplica \/ VerifyReplica
    \/ SaveCursor \/ ReplicaCrash \/ SyncStops

----------------------------------------------------------------------------
(* build_topology: a proposed map, with a placement tree or without, of      *)
(* routes [lo, hi, leaf, addr] (leaf 0: none).                               *)
TopologyInit ==
    \E n \in 1..MapShards, tree, ranged \in BOOLEAN :
      \E routes \in [1..n -> [lo : 0..LastHash, hi : 0..LastHash, leaf : {0} \cup PlacedLeaves, addr : {0}]],
         alias \in BOOLEAN :
        sys = [part |-> "topology", tree |-> tree, ranged |-> ranged, at |-> "proposed", routed |-> {},
               map |-> [i \in 1..n |-> [routes[i] EXCEPT !.addr = IF alias /\ i > 1 THEN i - 1 ELSE i]]]

(* check_hash_tiling and validate_child_ranges: sorted by their low ends the *)
(* ranges follow each other from 0 to the last hash.                         *)
check_hash_tiling(ranges) ==
    LET sorted == SortSeq(ranges, LAMBDA a, b : a.lo < b.lo)
    IN  \A i \in DOMAIN sorted :
          /\ sorted[i].lo = IF i = 1 THEN 0 ELSE sorted[i - 1].hi + 1
          /\ IF i = Len(sorted) THEN sorted[i].hi = LastHash ELSE sorted[i].hi < LastHash

RoutesOfLeaf(map, code) == SelectSeq(map, LAMBDA r : r.leaf = code)
Accepts(map, tree, ranged) ==
    /\ IF tree THEN {map[i].leaf : i \in DOMAIN map} = PlacedLeaves
               ELSE \A i \in DOMAIN map : map[i].leaf = 0
    /\ \A i, j \in DOMAIN map : map[i].addr = map[j].addr => i = j
    /\ ranged => \A i \in DOMAIN map : map[i].lo <= map[i].hi
    /\ ranged => IF tree THEN \A code \in PlacedLeaves : check_hash_tiling(RoutesOfLeaf(map, code))
                         ELSE check_hash_tiling(map)
build_topology ==
    /\ At("topology") /\ sys.at = "proposed"
    /\ sys' = [sys EXCEPT !.at = IF Accepts(sys.map, sys.tree, sys.ranged) THEN "live" ELSE "refused"]

(* route_stable_key_in: the first shard of the leaf whose range has the      *)
(* hash; refused without ranges, and unless a leaf is given just when there  *)
(* is a tree.                                                                *)
route_stable_key_in ==
    /\ At("topology") /\ sys.at = "live" /\ sys.ranged
    /\ \E hash \in 0..LastHash, leaf \in IF sys.tree THEN PlacedLeaves ELSE {0} :
         LET found == {i \in DOMAIN sys.map : /\ sys.map[i].leaf = leaf
                                             /\ sys.map[i].lo <= hash /\ hash <= sys.map[i].hi}
         IN  sys' = [sys EXCEPT !.at = "routed", !.routed = found]

TopologyNext == build_topology \/ route_stable_key_in

----------------------------------------------------------------------------
HoldsOnce(seq, row) == Cardinality({i \in DOMAIN seq : seq[i] = row}) = 1

(* Whoever crashes in between, once the children are served they hold every  *)
(* row that was acknowledged before and that the source still has, once each *)
(* and in the child its key routes to; and a replica's cursor stands for a   *)
(* prefix the replica has on disk, row for row.  Left out are the three      *)
(* sequences the code does not survive: a child or replica that restarts     *)
(* between two calls of a pass, a source that loses unsynced rows the        *)
(* children were built from, and a coordinator that restarts under a freeze. *)
(* A map goes live only if it gives every hash of every leaf to one shard,   *)
(* and every such map may.                                                   *)
CatchUpLosesNothing ==
    /\ At("topology") =>
         LET owners(code, hash) == {i \in DOMAIN sys.map : /\ sys.map[i].leaf = code
                                                          /\ hash \in sys.map[i].lo..sys.map[i].hi}
             codes == IF sys.tree THEN PlacedLeaves ELSE {0}
             meant == /\ \A i \in DOMAIN sys.map : sys.map[i].leaf \in codes
                      /\ \A i, j \in DOMAIN sys.map : sys.map[i].addr = sys.map[j].addr => i = j
                      /\ \A code \in codes : \E i \in DOMAIN sys.map : sys.map[i].leaf = code
                      /\ sys.ranged => /\ \A i \in DOMAIN sys.map : sys.map[i].lo <= sys.map[i].hi
                                       /\ \A code \in codes, hash \in 0..LastHash :
                                            Cardinality(owners(code, hash)) = 1
         IN  /\ sys.at \in {"live", "routed"} => meant
             /\ sys.at = "refused" => ~meant
             /\ sys.at = "routed" => Cardinality(sys.routed) = 1
    /\ At("cutover") /\ sys.served = 2 /\ ~sys.exposed /\ ~sys.holed =>
         \A row \in sys.acked : HoldsOnce(sys.child[route(row)].rows, row)
    /\ At("replica") /\ sys.cursor.clock > 0 /\ ~sys.holed =>
         LET n == sys.cursor.clock
         IN  /\ IsPrefix(RowsOfPrefix(sys.log, n), sys.kept.rows)
             /\ DeadOfPrefix(sys.log, n) \subseteq sys.kept.dead
             /\ sys.kept.dead \subseteq DeadOfPrefix(sys.log, Len(sys.log))

(* "it returns the exact source high watermarks included in the child        *)
(* images": the images of split_stable_logs hold the rows up to the cutoff   *)
(* and no others.                                                            *)
CutoffIsExact ==
    Tool("built") =>
      \A c \in LiveChildren : sys.child[c].rows = Mine(SubSeq(sys.log, 1, sys.tool.clock), c)
============================================================================
