--------------------------- MODULE OfflineReshard ---------------------------
(* reshard.rs: logs are rewritten into the images of other shards, by the    *)
(* hash of the row's id, by the hash of its stable key, by the code of its   *)
(* placement or by a column, or compacted and merged.  A log is its bucket   *)
(* count, its binding and its records [op, id, key, clock]; key 0 is none    *)
(* and clock 0 a record older than the clock.  Hashes are the numbers below  *)
(* HashSpace.                                                                *)
EXTENDS SystemState, Integers, Sequences, FiniteSets, FiniteSetsExt, SequencesExt

CONSTANTS
    HashSpace,     \* 2^64
    id_hash,       \* fnv1a64 of an id
    key_hash,      \* stable_routing_hash of a key
    code_of,       \* the placement code of an id's document, a set of at most one
    column_of,     \* its value in the partition column, likewise
    ReshardInputs, \* sequences of logs
    ReshardAsks    \* what is asked of them

NoBound == HashSpace * 100
bucket_of(id, n) == id_hash[id] \div (HashSpace \div n)
BucketLo(i, n) == i * (HashSpace \div n)
BucketHi(i, n) == (i + 1) * (HashSpace \div n) - 1
PowerOfTwo(n) == n \in {1, 2, 4, 8}
Ascending(ids) == SetToSortSeq(ids, <)

----------------------------------------------------------------------------
(* Replay: what the records of some buckets leave. *)
EmptyReplay == [ok |-> TRUE, vectors |-> {}, documents |-> {}, deleted |-> {}, keys |-> {}]
KeyConflict(out, r) == r.key # 0 /\ \E p \in out.keys : p[1] = r.id /\ p[2] # r.key
WithKey(out, r) == IF r.key = 0 THEN out.keys ELSE out.keys \cup {<<r.id, r.key>>}
replay_record(out, r, upto, vectors_only) ==
    IF ~out.ok \/ (upto # NoBound /\ r.clock = 0) THEN [out EXCEPT !.ok = FALSE]
    ELSE IF r.clock > upto THEN out
    ELSE CASE r.op = "vector" -> IF r.id \in out.vectors \/ KeyConflict(out, r) THEN [out EXCEPT !.ok = FALSE]
                                 ELSE [out EXCEPT !.vectors = @ \cup {r.id}, !.keys = WithKey(out, r)]
           [] r.op = "document" -> IF vectors_only THEN out
                                   ELSE IF r.id \in out.documents \/ KeyConflict(out, r) THEN [out EXCEPT !.ok = FALSE]
                                   ELSE [out EXCEPT !.documents = @ \cup {r.id}, !.keys = WithKey(out, r)]
           [] OTHER -> [out EXCEPT !.deleted = @ \cup {r.id}]    \* a delete, or the old id of a replacement

(* A bucket's file holds the records of its ids. *)
BucketFile(gen, b) == SelectSeq(gen.records, LAMBDA r : bucket_of(r.id, gen.buckets) = b)
replay_buckets(gen, first, count, upto, vectors_only, out) ==
    FoldLeft(LAMBDA o, r : replay_record(o, r, upto, vectors_only), out,
             FlattenSeq([i \in 1..count |-> BucketFile(gen, first + i - 1)]))
replay_gens(gens, first, count, vectors_only) ==
    FoldLeft(LAMBDA o, g : replay_buckets(g, first, count, NoBound, vectors_only, o), EmptyReplay, gens)
compact(out) == [out EXCEPT !.vectors = @ \ out.deleted, !.documents = @ \ out.deleted, !.deleted = {},
                            !.keys = {p \in @ : p[1] \notin out.deleted}]
IdsOf(out) == out.vectors \cup out.documents
replay_counts(out) == [present |-> Cardinality(IdsOf(out)), tombstoned |-> Cardinality(out.deleted \cap IdsOf(out))]
(* Part of a replay. *)
ShareOf(out, ids) == [out EXCEPT !.vectors = @ \cap ids, !.documents = @ \cap ids,
                                 !.keys = {p \in @ : p[1] \in ids}]

(* The inputs must be of one configuration, whole, and bound to one plan. *)
require_inputs(gens, one_geometry) ==
    /\ gens # <<>>
    /\ \A i \in DOMAIN gens : gens[i].whole /\ gens[i].config = gens[1].config
    /\ one_geometry => \A i \in DOMAIN gens : gens[i].buckets = gens[1].buckets
read_gens_binding(gens) == Cardinality(UNION {gens[i].binding : i \in DOMAIN gens}) <= 1

----------------------------------------------------------------------------
(* An image: its rows in slot order, its hash range and its first slot. *)
Refused == [ok |-> FALSE, images |-> <<>>, before |-> 0, tombstones |-> 0]
Built(images) == [Refused EXCEPT !.ok = TRUE, !.images = images]
child_order(out) == Ascending(out.vectors) \o Ascending(out.documents \ out.vectors)
finish_child_ordered(out, order, shard, base, lo, hi) ==
    [shard |-> shard, base |-> base, lo |-> lo, hi |-> hi,
     rows |-> [i \in DOMAIN order |-> [id |-> order[i], vector |-> order[i] \in out.vectors,
                                       document |-> order[i] \in out.documents]]]
finish_child(out, shard, base, lo, hi) ==
    LET live == compact(out) IN finish_child_ordered(live, child_order(live), shard, base, lo, hi)
OfShards(n, image(_)) == [i \in 1..n |-> image(i - 1)]

(* split_logs: whole bucket ranges, or every row by its hash when there are  *)
(* more children than buckets.                                               *)
split_logs(gens, ask) ==
    LET n == ask.n
        buckets == gens[1].buckets
        per_child == buckets \div n
        own(i) == replay_gens(gens, i * per_child, per_child, FALSE)
        all == compact(replay_gens(gens, 0, buckets, FALSE))
        share(i) == ShareOf(all, {id \in IdsOf(all) : bucket_of(id, n) = i})
    IN  IF ~PowerOfTwo(n) \/ ~require_inputs(gens, TRUE) \/ ~read_gens_binding(gens) THEN Refused
        ELSE IF n <= buckets
          THEN IF \E i \in 0..(n - 1) : ~own(i).ok THEN Refused
               ELSE Built(OfShards(n, LAMBDA i : finish_child(own(i), i, ask.base + i * ask.stride,
                                                   BucketLo(i * per_child, buckets),
                                                   IF i + 1 = n THEN HashSpace - 1
                                                   ELSE BucketHi((i + 1) * per_child - 1, buckets))))
          ELSE IF ~all.ok THEN Refused
               ELSE Built(OfShards(n, LAMBDA i : finish_child(share(i), i, ask.base + i * ask.stride,
                                                   BucketLo(i, n), BucketHi(i, n))))

(* split_logs_segmented: a bucket at a time, and of each bucket an image for *)
(* every shard it has rows of; a shard's slots end where the next one's      *)
(* begin.                                                                    *)
AddSegment(out, bucket, shard, ask) ==
    LET share == ShareOf(bucket, {id \in IdsOf(bucket) : bucket_of(id, ask.n) = shard})
        held == Cardinality(IdsOf(share))
        end == out.next[shard + 1] + held
    IN  IF held = 0 \/ ~out.ok THEN out
        ELSE IF end > ask.base + (shard + 1) * ask.stride THEN [out EXCEPT !.ok = FALSE]
        ELSE [out EXCEPT !.next[shard + 1] = end,
                         !.images = Append(@, finish_child(share, shard, out.next[shard + 1],
                                                BucketLo(shard, ask.n), BucketHi(shard, ask.n)))]
split_logs_segmented(gens, ask) ==
    LET read(b) == compact(replay_gens(gens, b, 1, FALSE))
        add(out, b) == IF ~read(b).ok THEN [out EXCEPT !.ok = FALSE]
                       ELSE FoldLeft(LAMBDA o, i : AddSegment(o, read(b), i - 1, ask), out, [i \in 1..ask.n |-> i])
        done == FoldLeft(LAMBDA o, b : add(o, b - 1),
                         [ok |-> TRUE, images |-> <<>>, next |-> OfShards(ask.n, LAMBDA i : ask.base + i * ask.stride)],
                         [b \in 1..gens[1].buckets |-> b])
    IN  IF ~PowerOfTwo(ask.n) \/ ask.stride = 0 \/ ~require_inputs(gens, TRUE) \/ ~read_gens_binding(gens) \/ ~done.ok
        THEN Refused ELSE Built(done.images)

(* split_stable_logs, split_stable_logs_ranged: by the hash of the key, into *)
(* equal parts or given ranges; the logs may differ in their bucket counts.  *)
ReplayWhole(gens) ==
    compact(FoldLeft(LAMBDA o, g : replay_buckets(g, 0, g.buckets, NoBound, FALSE, o), EmptyReplay, gens))
KeyOf(out, id) == {p[2] : p \in {q \in out.keys : q[1] = id}}
HashesOf(out, id) == {key_hash[k] : k \in KeyOf(out, id)}
EqualRanges(n) == OfShards(n, LAMBDA i : <<BucketLo(i, n), BucketHi(i, n)>>)
adjacent(ranges) == \A i \in 1..(Len(ranges) - 1) : ranges[i][2] + 1 = ranges[i + 1][1]
split_stable(gens, ranges, ask) ==
    LET all == ReplayWhole(gens)
        child_of(id) == {i \in DOMAIN ranges : \E h \in HashesOf(all, id) : ranges[i][1] <= h /\ h <= ranges[i][2]}
        share(i) == ShareOf(all, {id \in IdsOf(all) : i = Min(child_of(id))})
    IN  IF \/ ~require_inputs(gens, FALSE) \/ ~read_gens_binding(gens) \/ ~all.ok
           \/ \E id \in IdsOf(all) : KeyOf(all, id) = {} \/ child_of(id) = {}
        THEN Refused
        ELSE Built([i \in DOMAIN ranges |-> finish_child(share(i), i - 1, ask.base + (i - 1) * ask.stride, ranges[i][1], ranges[i][2])])
split_stable_logs(gens, ask) ==
    IF ~PowerOfTwo(ask.n) THEN Refused
    ELSE split_stable(gens, EqualRanges(ask.n), ask)
split_stable_logs_ranged(gens, ask) ==
    IF Len(ask.ranges) < 2 \/ ~adjacent(ask.ranges) \/ \E i \in DOMAIN ask.ranges : ask.ranges[i][1] > ask.ranges[i][2]
    THEN Refused ELSE split_stable(gens, ask.ranges, ask)

(* split_placement_logs: by the code the document carries; what has none, or *)
(* one no range covers, goes to the default child if there is one.           *)
NoRange(r) == r[1] > r[2]
validate_placement_children(ranges, default) ==
    /\ ranges # <<>> /\ default \subseteq DOMAIN ranges
    /\ \A i \in DOMAIN ranges : NoRange(ranges[i]) => i \in default
    /\ LET sorted == SortSeq(SelectSeq(ranges, LAMBDA r : ~NoRange(r)), LAMBDA r, q : r[1] < q[1])
       IN  \A i \in 1..(Len(sorted) - 1) : sorted[i + 1][1] > sorted[i][2]
split_placement_logs(gens, ask) ==
    LET all == ReplayWhole(gens)
        codes(id) == IF id \in all.documents THEN code_of[id] ELSE {}
        covering(id) == {i \in DOMAIN ask.ranges : \E c \in codes(id) : ask.ranges[i][1] <= c /\ c <= ask.ranges[i][2]}
        child_of(id) == IF covering(id) # {} THEN {Min(covering(id))} ELSE ask.default
        share(i) == ShareOf(all, {id \in IdsOf(all) : i \in child_of(id)})
    IN  IF \/ ~validate_placement_children(ask.ranges, ask.default)
           \/ ~require_inputs(gens, FALSE) \/ ~read_gens_binding(gens) \/ ~all.ok
           \/ \E id \in IdsOf(all) : child_of(id) = {}
        THEN Refused
        ELSE Built([i \in DOMAIN ask.ranges |->
                      finish_child(share(i), i - 1, ask.base + (i - 1) * ask.stride, 0, HashSpace - 1)])

(* merge: one image, at the lowest slot of the inputs. *)
merge_logs(gens, ask) ==
    LET all == replay_gens(gens, 0, gens[1].buckets, FALSE)
    IN  IF ~require_inputs(gens, TRUE) \/ ~read_gens_binding(gens) \/ ~all.ok THEN Refused
        ELSE Built(<<finish_child(all, 0, Min({gens[i].slot : i \in DOMAIN gens}), 0, HashSpace - 1)>>)

----------------------------------------------------------------------------
(* compact_log: the prefix of one log up to a clock, as one image or one per *)
(* bucket with the slots of one after the other.                             *)
ReplayThrough(gen, first, count, ask) == replay_buckets(gen, first, count, ask.cutoff, FALSE, EmptyReplay)
emit_rows(out, live, order) ==
    [out EXCEPT !.images = Append(@, finish_child_ordered(live, order, 0, out.next, 0, HashSpace - 1)),
                !.next = @ + Len(order)]
NothingBuilt == [ok |-> TRUE, images |-> <<>>, next |-> 0, before |-> 0, tombstones |-> 0]
Counting(out, replayed) ==
    [out EXCEPT !.before = @ + replay_counts(replayed).present, !.tombstones = @ + replay_counts(replayed).tombstoned]
Finished(out) == IF out.ok THEN [ok |-> TRUE, images |-> out.images, before |-> out.before, tombstones |-> out.tombstones]
                 ELSE Refused
CompactBucket(out, replayed) ==
    LET live == compact(replayed)
    IN  IF ~replayed.ok \/ ~out.ok THEN [out EXCEPT !.ok = FALSE]
        ELSE IF IdsOf(live) = {} THEN Counting(out, replayed)
        ELSE emit_rows(Counting(out, replayed), live, child_order(live))
compact_log(gens, ask) ==
    LET gen == gens[1]
        whole == ReplayThrough(gen, 0, gen.buckets, ask)
        live == compact(whole)
    IN  IF ~require_inputs(<<gen>>, FALSE) THEN Refused
        ELSE IF ask.segmented
          THEN Finished(FoldLeft(LAMBDA o, b : CompactBucket(o, ReplayThrough(gen, b - 1, 1, ask)), NothingBuilt,
                                 [b \in 1..gen.buckets |-> b]))
          ELSE IF ~whole.ok THEN Refused
               ELSE Finished(emit_rows(Counting(NothingBuilt, whole), live, child_order(live)))

(* cut_partitions: a run of equal keys moves to the next partition as one    *)
(* unless it is longer than the bound.                                       *)
PushIf(cut, ids, bound) ==
    IF cut.current # <<>> /\ Len(cut.current) + Len(ids) > bound
    THEN [parts |-> Append(cut.parts, cut.current), current |-> <<>>] ELSE cut
ChunksOf(ids, bound) ==
    [i \in 1..((Len(ids) + bound - 1) \div bound) |->
       SubSeq(ids, (i - 1) * bound + 1, IF i * bound < Len(ids) THEN i * bound ELSE Len(ids))]
AddPiece(cut, piece, bound) == [PushIf(cut, piece, bound) EXCEPT !.current = @ \o piece]
AddRun(cut, run, bound) ==
    FoldLeft(LAMBDA c, p : AddPiece(c, p, bound), PushIf(cut, run, bound), ChunksOf(run, bound))
cut_partitions(runs, unkeyed, bound) ==
    LET cut == FoldLeft(LAMBDA c, r : AddRun(c, r, bound), [parts |-> <<>>, current |-> <<>>], runs)
    IN  cut.parts \o (IF cut.current = <<>> THEN <<>> ELSE <<cut.current>>) \o ChunksOf(unkeyed, bound)

(* compact_log_partitioned: the keys are read, cut, the rows of a partition  *)
(* spilled and each spill built, vectors first.                              *)
partition_key_of(live, id) == IF id \in live.documents THEN column_of[id] ELSE {}
RunsByKey(live) ==
    LET keys == UNION {partition_key_of(live, id) : id \in IdsOf(live)}
        sorted == Ascending(keys)
    IN  [i \in DOMAIN sorted |-> Ascending({id \in IdsOf(live) : sorted[i] \in partition_key_of(live, id)})]
compact_log_partitioned(gens, ask) ==
    LET gen == gens[1]
        whole == ReplayThrough(gen, 0, gen.buckets, ask)
        live == compact(whole)
        parts == cut_partitions(RunsByKey(live), Ascending({id \in IdsOf(live) : partition_key_of(live, id) = {}}), ask.bound)
        spilled(p) == ShareOf(live, ToSet(p))
        held(p) == Max({Cardinality(spilled(p).vectors), Cardinality(spilled(p).documents)})
        order(p) == SelectSeq(p, LAMBDA id : id \in live.vectors) \o SelectSeq(p, LAMBDA id : id \notin live.vectors)
        build(out, p) == IF held(p) # Len(p) THEN [out EXCEPT !.ok = FALSE] ELSE emit_rows(out, spilled(p), order(p))
    IN  IF ~require_inputs(<<gen>>, FALSE) \/ ~whole.ok \/ RunsByKey(live) = <<>> THEN Refused
        ELSE Finished(FoldLeft(build, Counting(NothingBuilt, whole), parts))

----------------------------------------------------------------------------
ReshardInit ==
    \E gens \in ReshardInputs, ask \in ReshardAsks :
      sys = [part |-> "reshard", gens |-> gens, ask |-> ask, at |-> "asked", out |-> Refused]

Reshard(op, result) ==
    /\ At("reshard") /\ sys.at = "asked" /\ sys.ask.op = op
    /\ sys' = [sys EXCEPT !.at = "done", !.out = result]
ReshardNext ==
    \/ At("reshard") /\ Reshard("split", split_logs(sys.gens, sys.ask))
    \/ At("reshard") /\ Reshard("segmented", split_logs_segmented(sys.gens, sys.ask))
    \/ At("reshard") /\ Reshard("stable", split_stable_logs(sys.gens, sys.ask))
    \/ At("reshard") /\ Reshard("ranged", split_stable_logs_ranged(sys.gens, sys.ask))
    \/ At("reshard") /\ Reshard("placement", split_placement_logs(sys.gens, sys.ask))
    \/ At("reshard") /\ Reshard("merge", merge_logs(sys.gens, sys.ask))
    \/ At("reshard") /\ Reshard("compact", compact_log(sys.gens, sys.ask))
    \/ At("reshard") /\ Reshard("partitioned", compact_log_partitioned(sys.gens, sys.ask))

----------------------------------------------------------------------------
(* What the logs say, read record by record. *)
Compacts == {"compact", "partitioned"}
LogsAsked == IF sys.ask.op \in Compacts THEN <<sys.gens[1]>> ELSE sys.gens
RecordsOf(op) ==
    {r \in UNION {ToSet(LogsAsked[i].records) : i \in DOMAIN LogsAsked} :
       r.op = op /\ (sys.ask.op \in Compacts => r.clock <= sys.ask.cutoff)}
Gone == {r.id : r \in RecordsOf("delete") \cup RecordsOf("replace")}
LiveWith(op) == {r.id : r \in RecordsOf(op)} \ Gone
LiveRows == {[id |-> id, vector |-> id \in LiveWith("vector"), document |-> id \in LiveWith("document")] :
               id \in LiveWith("vector") \cup LiveWith("document")}
KeysLogged(id) == {r.key : r \in {q \in RecordsOf("vector") \cup RecordsOf("document") : q.id = id}} \ {0}
Images == sys.out.images
AllRows == FlattenSeq([i \in DOMAIN Images |-> Images[i].rows])
RowsIn(i) == {Images[i].rows[j] : j \in DOMAIN Images[i].rows}
SlotsOf(i) == Images[i].base..(Images[i].base + Len(Images[i].rows) - 1)

BelongsIn(i, id) ==
    LET image == Images[i]
        covered(hash) == image.lo <= hash /\ hash <= image.hi
    IN  CASE sys.ask.op \in {"split", "segmented"} -> covered(id_hash[id])
          [] sys.ask.op \in {"stable", "ranged"} -> \E k \in KeysLogged(id) : covered(key_hash[k])
          [] sys.ask.op = "placement" ->
               LET codes == IF id \in LiveWith("document") THEN code_of[id] ELSE {}
                   takes(r) == \E c \in codes : c \in r[1]..r[2]
               IN  IF \E j \in DOMAIN sys.ask.ranges : takes(sys.ask.ranges[j]) THEN takes(sys.ask.ranges[i])
                   ELSE i \in sys.ask.default
          [] OTHER -> TRUE

ValuesIn(i) == UNION {IF r.document THEN column_of[r.id] ELSE {} : r \in RowsIn(i)}
InColumnOrder ==
    LET keyed == {i \in DOMAIN Images : ValuesIn(i) # {}}
        occurs(v) == Cardinality({r \in LiveRows : r.document /\ v \in column_of[r.id]})
    IN  /\ \A i \in DOMAIN Images : Len(Images[i].rows) <= sys.ask.bound
        /\ \A i \in keyed : \A r \in RowsIn(i) : r.document /\ column_of[r.id] # {}
        /\ \A i \in keyed, j \in DOMAIN Images : i < j /\ j \in keyed => Max(ValuesIn(i)) <= Min(ValuesIn(j))
        /\ \A i, j \in keyed : \A v \in ValuesIn(i) \cap ValuesIn(j) : i # j => occurs(v) > sys.ask.bound
        /\ \A i \in keyed, j \in DOMAIN Images \ keyed : i < j

MayRefuse ==
    \/ \E i \in DOMAIN LogsAsked : ~LogsAsked[i].whole \/ LogsAsked[i].config # LogsAsked[1].config
    \/ Cardinality(UNION {LogsAsked[i].binding : i \in DOMAIN LogsAsked}) > 1
    \/ \E i, j \in DOMAIN LogsAsked :    \* the same row in two inputs
         i # j /\ \E r \in ToSet(LogsAsked[i].records), q \in ToSet(LogsAsked[j].records) : r.id = q.id /\ r.op = q.op
    \/ sys.ask.op \in {"split", "segmented", "merge"} /\ \E i \in DOMAIN LogsAsked : LogsAsked[i].buckets # LogsAsked[1].buckets
    \/ sys.ask.op = "segmented" /\ \E s \in 0..(sys.ask.n - 1) :
         Cardinality({r \in LiveRows : bucket_of(r.id, sys.ask.n) = s}) > sys.ask.stride
    \/ sys.ask.op \in {"stable", "ranged"} /\ \E r \in LiveRows : KeysLogged(r.id) = {}
    \/ sys.ask.op = "ranged" /\ \E r \in LiveRows : \A i \in DOMAIN sys.ask.ranges :
         \A k \in KeysLogged(r.id) : key_hash[k] \notin sys.ask.ranges[i][1]..sys.ask.ranges[i][2]
    \/ sys.ask.op = "placement" /\ ~validate_placement_children(sys.ask.ranges, sys.ask.default)
    \/ sys.ask.op = "placement" /\ sys.ask.default = {} /\ \E r \in LiveRows :
         ~r.document \/ \A i \in DOMAIN sys.ask.ranges : code_of[r.id] \cap (sys.ask.ranges[i][1]..sys.ask.ranges[i][2]) = {}
    \/ sys.ask.op = "partitioned" /\ \A r \in LiveRows : ~r.document \/ column_of[r.id] = {}
    \/ sys.ask.op \in Compacts /\ \E r \in ToSet(sys.gens[1].records) : r.clock = 0 /\ sys.ask.cutoff # NoBound

(* A reshard keeps every live row of its logs, whole and once, in the image  *)
(* its hash, key or code belongs to; the hash ranges of the children tile    *)
(* the space; slots never collide; a compaction's slots are dense, in the    *)
(* column's order when one is asked for, with runs of a value kept together, *)
(* and its counts add up.  It refuses only logs it cannot carry over.        *)
ReshardKeepsRows ==
    At("reshard") /\ sys.at = "done" =>
      IF ~sys.out.ok THEN MayRefuse
      ELSE /\ IsInjective(AllRows) /\ ToSet(AllRows) = LiveRows
           /\ \A i \in DOMAIN Images : \A r \in RowsIn(i) : BelongsIn(i, r.id)
           /\ \A i \in DOMAIN Images, j, k \in DOMAIN AllRows :
                j < k /\ k <= Len(Images[i].rows) => (Images[i].rows[k].vector => Images[i].rows[j].vector)
           /\ sys.ask.op \in {"split", "stable"} => \A h \in 0..(HashSpace - 1) :
                Cardinality({i \in DOMAIN Images : Images[i].lo <= h /\ h <= Images[i].hi}) = 1
           /\ sys.ask.op \in Compacts \cup {"segmented"} =>
                \A i, j \in DOMAIN Images : i # j => SlotsOf(i) \cap SlotsOf(j) = {}
           /\ sys.ask.op \in Compacts =>
                /\ UNION {SlotsOf(i) : i \in DOMAIN Images} = 0..(Len(AllRows) - 1)
                /\ sys.out.before - sys.out.tombstones = Len(AllRows)
           /\ sys.ask.op = "partitioned" => InColumnOrder
=============================================================================
