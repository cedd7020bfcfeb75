---------------------------- MODULE TreeReshard ----------------------------
(* split_placement_tree_logs and compact_segments_partitioned: every live    *)
(* row of some shards is routed under a new placement tree (a compaction     *)
(* has one child), spilled into its child's buckets, and the buckets are     *)
(* built and placed one after the other, or by threads.  A row is [doc,      *)
(* vector, leaf, was, cut, key, stamp]: its leaf in the new tree and the     *)
(* code it carries, its value in the cut column and the hash of its key      *)
(* (sets of at most one), and the declaration its columns are derived under. *)
EXTENDS OfflineReshard

CONSTANTS TreeSources,   \* sequences of shards: [offset, segments, sealed, dead, overlay, deleted, tables]
          TreeAsks       \* options of a split or a compaction

----------------------------------------------------------------------------
(* The sources.  segments are sequences of rows, of which the first `sealed` *)
(* are in the catalog; deleted is what the log deletes, dead and overlay     *)
(* what the segments' and the shard's live documents say.                    *)
SealedRows(shard) == FlattenSeq(SubSeq(shard.segments, 1, shard.sealed))
LoggedRows(shard) == FlattenSeq(shard.segments)
is_live_LogUnread(shard, label) == label \notin shard.dead /\ label \notin shard.overlay
is_live(shard, label) == label \notin shard.dead /\ label \notin shard.overlay /\ label \notin shard.deleted
(* A compaction is given the overlay of the serving shard, which holds what  *)
(* the log deletes.                                                          *)
live_at(shard, label) == label \notin shard.dead /\ label \notin shard.deleted
wal_row_watermark(shard) == Len(LoggedRows(shard))
open_segment_sources(sources) ==
    /\ \A i \in DOMAIN sources :
         /\ sources[i].catalog
         /\ wal_row_watermark(sources[i]) <= Len(SealedRows(sources[i]))
         /\ sources[i].tables = sources[1].tables
    /\ \E i \in DOMAIN sources : sources[i].sealed > 0
CompactsSegments(shard) ==
    /\ shard.catalog /\ shard.sealed > 0
    /\ \A i \in 1..Len(SealedRows(shard)) : SealedRows(shard)[i].vector
reconstruct_row(shard, label, r) ==
    [id |-> shard.offset + label, doc |-> r.doc, vector |-> r.vector, leaf |-> r.leaf, was |-> r.was,
     cut |-> r.cut, key |-> r.key, stamp |-> r.stamp]
(* The rows in the order the passes meet them. *)
RowsFrom(ask, shard) ==
    LET rows == IF ask.source = "logs" THEN LoggedRows(shard) ELSE SealedRows(shard)
        live == SelectSeq([i \in DOMAIN rows |-> i],
                          LAMBDA i : CASE ask.source = "logs" -> (i - 1) \notin shard.deleted
                                       [] ask.op = "compact" -> live_at(shard, i - 1)
                                       [] OTHER -> is_live(shard, i - 1))
    IN  [i \in DOMAIN live |-> reconstruct_row(shard, live[i] - 1, rows[live[i]])]
SourceRows(ask, sources) == FlattenSeq([i \in DOMAIN sources |-> RowsFrom(ask, sources[i])])

----------------------------------------------------------------------------
(* The children: the shards of a leaf tile the hashes. *)
tree_children(leaves) ==
    FlattenSeq([l \in DOMAIN leaves |-> [s \in 1..leaves[l] |->
      [code |-> l, lo |-> BucketLo(s - 1, leaves[l]),
       hi |-> IF s = leaves[l] THEN HashSpace - 1 ELSE BucketHi(s - 1, leaves[l])]]])
ChildrenOf(ask) == IF ask.op = "compact" THEN <<[code |-> 0, lo |-> 0, hi |-> HashSpace - 1]>> ELSE tree_children(ask.leaves)
TreeOptionsFit(ask, sources) ==
    LET children == ChildrenOf(ask)
    IN  /\ \A l \in DOMAIN ask.leaves : PowerOfTwo(ask.leaves[l])
        /\ ask.only \subseteq DOMAIN children /\ (ask.only # {} => ask.layout = "segmented")
        /\ ask.threads > 1 => ask.source = "segments" /\ ask.layout = "segmented"
        /\ ask.queue # {0}
        /\ ask.memory # {} => ask.layout = "segmented"
        /\ Len(ask.offsets) = Len(children) /\ sources # <<>>
        /\ ask.rows_per_cut # {} => ask.layout = "segmented" /\ 0 \notin ask.rows_per_cut
DeclarationFits(ask) ==
    CASE ask.derive = "none" -> TRUE
      [] ask.derive = "key" -> ask.declared # {} /\ ask.source = "logs"
      [] ask.derive = "cut" -> ask.declared # {} /\ ask.rows_per_cut = {}
      [] OTHER -> ask.declared # {}
Accepts(ask, sources) ==
    /\ TreeOptionsFit(ask, sources) /\ DeclarationFits(ask)
    /\ ask.op = "compact" => CompactsSegments(sources[1])
    /\ ask.op = "tree" /\ ask.source = "segments" =>
         open_segment_sources(sources) /\ \A l \in DOMAIN ask.leaves : ask.leaves[l] = 1

(* rederive and route: the declaration the children are written under        *)
(* restamps the row; a row derived under one is not written under none.      *)
rederive(ask, r) == [r EXCEPT !.stamp = IF ask.declared = {} THEN r.stamp ELSE CHOOSE d \in ask.declared : TRUE]
route(ask, r) ==
    LET children == ChildrenOf(ask)
        of_leaf == {i \in DOMAIN children : children[i].code = r.leaf}
    IN  IF ask.op = "compact" THEN {1}
        ELSE IF Cardinality(of_leaf) = 1 THEN of_leaf
        ELSE {i \in of_leaf : \E h \in r.key : children[i].lo <= h /\ h <= children[i].hi}
Routable(ask, r) == r.doc /\ (ask.op = "tree" /\ ask.declared = {} => r.stamp = 0) /\ route(ask, r) # {}
ChildOf(ask, r) == CHOOSE i \in route(ask, r) : TRUE

----------------------------------------------------------------------------
(* ChildCutPlan: the cuts of a child, each up to a bound; a value with more  *)
(* rows than a cut takes has cuts of its own.                                *)
CutOpened(p, key) == [p EXCEPT !.bounds = Append(@, key - 1), !.current = 0, !.open = FALSE]
CutLongRun(p, key, count, rows) ==
    LET closed == IF p.open THEN CutOpened(p, key) ELSE p
        cuts == (count + rows - 1) \div rows
    IN  [closed EXCEPT !.long = @ \cup {[key |-> key, first |-> Len(closed.bounds), cuts |-> cuts]},
                       !.bounds = @ \o [i \in 1..cuts |-> key]]
CutShortRun(p, key, count, rows) ==
    LET room == IF p.open /\ p.current + count > rows THEN CutOpened(p, key) ELSE p
    IN  [room EXCEPT !.open = TRUE, !.current = @ + count]
MaxKey == 1000
NoCuts == [bounds |-> <<>>, long |-> {}, current |-> 0, open |-> FALSE]
CutPlan(rows, per_cut) ==
    LET keys == Ascending(UNION {rows[i].cut : i \in DOMAIN rows})
        count(key) == Cardinality({i \in DOMAIN rows : key \in rows[i].cut})
        done == FoldLeft(LAMBDA p, k : IF count(k) > per_cut THEN CutLongRun(p, k, count(k), per_cut)
                                       ELSE CutShortRun(p, k, count(k), per_cut), NoCuts, keys)
        bounds == IF done.open THEN Append(done.bounds, MaxKey) ELSE done.bounds
    IN  [bounds |-> bounds, long |-> done.long,
         buckets |-> Len(bounds) + (IF \E i \in DOMAIN rows : rows[i].cut = {} THEN 1 ELSE 0)]
CutBucket(plan, buckets, r, per_cut) ==
    LET key == CHOOSE k \in r.cut : TRUE
        runs == {run \in plan.long : run.key \in r.cut}
        filed == Len(SelectSeq(FlattenSeq(buckets), LAMBDA q : q.cut = r.cut))
        below == Cardinality({i \in DOMAIN plan.bounds : plan.bounds[i] < key})
    IN  IF r.cut = {} THEN Len(plan.bounds)
        ELSE IF runs # {} THEN LET run == CHOOSE x \in runs : TRUE
                               IN  run.first + Min({filed \div per_cut, run.cuts - 1})
        ELSE below

(* plan_cuts, and the files the spill keeps open at once. *)
PlansOf(ask, rows) ==
    [c \in DOMAIN ChildrenOf(ask) |->
       IF ask.rows_per_cut = {} THEN [bounds |-> <<>>, long |-> {}, buckets |-> ask.spill_buckets]
       ELSE CutPlan(SelectSeq(rows, LAMBDA r : ChildOf(ask, r) = c), CHOOSE n \in ask.rows_per_cut : TRUE)]
SpillFiles(plans) == FoldLeft(LAMBDA n, p : n + 2 * p.buckets, 0, plans)
FilesFit(ask, plans, sources) ==
    \A limit \in ask.files :
      SpillFiles(plans) + (IF ask.source = "segments" THEN FoldLeft(LAMBDA n, s : n + 2 * s.sealed, 0, sources) ELSE 0) <= limit

(* file_row: the row, carrying its child's code, into a bucket of the child. *)
file_row(ask, plans, spill, r) ==
    LET c == ChildOf(ask, r)
        bucket == 1 + (IF ask.rows_per_cut = {} THEN bucket_of(r.id, ask.spill_buckets)
                       ELSE CutBucket(plans[c], spill[c], r, CHOOSE n \in ask.rows_per_cut : TRUE))
        written == [r EXCEPT !.was = IF ask.op = "compact" THEN r.was ELSE r.leaf]
    IN  [spill EXCEPT ![c][bucket] = Append(@, written)]
EmptySpill(plans) == [c \in DOMAIN plans |-> [b \in 1..plans[c].buckets |-> <<>>]]
Spilled(ask, plans, rows) == FoldLeft(LAMBDA s, r : file_row(ask, plans, s, r), EmptySpill(plans), rows)
MemoryFits(ask, spill) ==
    \A budget \in ask.memory, c \in (IF ask.only = {} THEN DOMAIN spill ELSE ask.only) :
      \A b \in DOMAIN spill[c] : Len(spill[c][b]) * ask.threads <= budget

----------------------------------------------------------------------------
(* Building.  plan holds the nonempty buckets of the child in hand and where *)
(* their slots begin; threads take them in order and hand the images over    *)
(* in done, the main thread places them in order.                            *)
NonEmpty(spill, c) == SelectSeq([b \in DOMAIN spill[c] |-> b], LAMBDA b : spill[c][b] # <<>>)
BuildPlan(spill, c, offset) ==
    LET buckets == NonEmpty(spill, c)
        before(i) == FoldLeft(LAMBDA n, b : n + Len(spill[c][b]), 0, SubSeq(buckets, 1, i - 1))
    IN  [i \in DOMAIN buckets |-> [bucket |-> buckets[i], slot |-> offset + before(i)]]
slot_bound(ask, c) == {o \in ToSet(ask.offsets) : o > ask.offsets[c]}
BuildOrder(ask, rows) ==
    LET before(r, q) == IF r.vector # q.vector THEN r.vector
                        ELSE IF ask.op = "tree" \/ r.cut = q.cut THEN r.id < q.id
                        ELSE IF r.cut = {} \/ q.cut = {} THEN q.cut = {}
                        ELSE \A k \in r.cut, l \in q.cut : k < l
    IN  SortSeq(rows, before)
ImageOf(ask, c, item, spill) == [child |-> c, slot |-> item.slot, rows |-> BuildOrder(ask, spill[c][item.bucket])]
Vectors(image) == Len(SelectSeq(image.rows, LAMBDA r : r.vector))
check_slot_bound(ask, image) ==
    \A bound \in slot_bound(ask, image.child) : image.slot + Len(image.rows) <= bound
PlaceAccepts(ask, image) ==
    IF ask.op = "compact" THEN \A i, j \in DOMAIN image.rows : i # j => image.rows[i].id # image.rows[j].id
    ELSE /\ check_slot_bound(ask, image)
         /\ ask.layout = "segmented" => Vectors(image) \in {0, Len(image.rows)}

Threaded(ask) == ask.threads > 1
queue_of(ask, plan) ==
    LET most == IF plan = <<>> THEN 1 ELSE Len(plan)
    IN  Min({most} \cup (IF ask.queue = {} THEN {ask.threads} ELSE ask.queue))
threads_of(ask, plan) == Min({ask.threads, IF plan = <<>> THEN 1 ELSE Len(plan)})
TreeIdle == [plan |-> <<>>, next |-> 1, done |-> {}, stop |-> FALSE, workers |-> <<>>, placed |-> 0, held |-> {}]
StartChild(ask, spill, c) ==
    LET plan == BuildPlan(spill, c, ask.offsets[c])
    IN  [TreeIdle EXCEPT !.plan = plan, !.workers = [w \in 1..threads_of(ask, plan) |-> [at |-> "looking", item |-> 0]]]

TreeInit ==
    \E ask \in TreeAsks, sources \in TreeSources, fails \in {{}, {1}, {2}} :
      sys = [part |-> "tree", ask |-> ask,
             sources |-> IF ask.op = "compact" THEN <<Head(sources)>> ELSE sources, fails |-> fails,
             at |-> "asked", spill |-> <<>>, child |-> 1, b |-> TreeIdle, images |-> <<>>, moved |-> 0]

TreeRefuse == sys' = [sys EXCEPT !.at = "refused", !.b = TreeIdle]
(* Both passes over the sources, and what is checked before, between and     *)
(* after them.                                                               *)
TreeSpill ==
    LET ask == sys.ask
        rows == SourceRows(ask, sys.sources)
        stamped == [i \in DOMAIN rows |-> rederive(ask, rows[i])]
        plans == PlansOf(ask, stamped)
        spill == Spilled(ask, plans, stamped)
    IN  /\ At("tree") /\ sys.at = "asked"
        /\ IF \/ ~Accepts(ask, sys.sources)
              \/ \E i \in DOMAIN rows : ~Routable(ask, rows[i])
              \/ ~IsInjective([i \in DOMAIN rows |-> rows[i].id])
              \/ ask.op = "compact" /\ \A i \in DOMAIN rows : rows[i].cut = {}
              \/ ~FilesFit(ask, plans, sys.sources) \/ ~MemoryFits(ask, spill)
           THEN TreeRefuse
           ELSE sys' = [sys EXCEPT !.at = "building", !.spill = spill, !.b = StartChild(ask, spill, 1),
                          !.moved = Len(SelectSeq(stamped, LAMBDA r : ask.op = "tree" /\ r.was # r.leaf))]

Skipped == sys.ask.only # {} /\ sys.child \notin sys.ask.only
Children == Len(ChildrenOf(sys.ask))
(* The next child, or the end. *)
TreeAdvance(images) ==
    sys' = [sys EXCEPT !.images = images, !.child = @ + 1,
                       !.at = IF sys.child = Children THEN "done" ELSE @,
                       !.b = IF sys.child = Children THEN TreeIdle ELSE StartChild(sys.ask, sys.spill, sys.child + 1)]
TreeBuilding == At("tree") /\ sys.at = "building"
SkipChild == TreeBuilding /\ Skipped /\ TreeAdvance(sys.images)

(* A single image of the whole child, or its segments one by one. *)
ImagesAlone ==
    IF sys.ask.layout = "segmented"
    THEN [i \in DOMAIN sys.b.plan |-> ImageOf(sys.ask, sys.child, sys.b.plan[i], sys.spill)]
    ELSE <<[child |-> sys.child, slot |-> sys.ask.offsets[sys.child],
            rows |-> BuildOrder(sys.ask, FlattenSeq(sys.spill[sys.child]))]>>
BuildAlone ==
    /\ TreeBuilding /\ ~Skipped /\ ~Threaded(sys.ask)
    /\ IF \/ sys.ask.layout # "segmented" /\ \E c \in DOMAIN sys.spill : Len(FlattenSeq(sys.spill[c])) > sys.ask.most
          \/ sys.fails \cap DOMAIN ImagesAlone # {}
          \/ \E i \in DOMAIN ImagesAlone : ~PlaceAccepts(sys.ask, ImagesAlone[i])
       THEN TreeRefuse ELSE TreeAdvance(sys.images \o ImagesAlone)

(* A worker: waits for room in done, claims the next bucket, builds it, and  *)
(* stops everything when that fails.                                         *)
InThreads == TreeBuilding /\ ~Skipped /\ Threaded(sys.ask)
WorkerAt(w, at) == InThreads /\ w \in DOMAIN sys.b.workers /\ sys.b.workers[w].at = at
WorkerGoes(w, at) == sys' = [sys EXCEPT !.b.workers[w].at = at]
WorkerLooks(w) ==
    /\ WorkerAt(w, "looking")
    /\ sys.b.stop \/ Cardinality(sys.b.done) < queue_of(sys.ask, sys.b.plan)
    /\ WorkerGoes(w, IF sys.b.stop THEN "gone" ELSE "ready")
WorkerClaims(w) ==
    /\ WorkerAt(w, "ready")
    /\ IF sys.b.stop THEN WorkerGoes(w, "gone")
       ELSE sys' = [sys EXCEPT !.b.next = @ + 1,
                      !.b.workers[w] = [at |-> IF sys.b.next > Len(sys.b.plan) THEN "gone" ELSE "building", item |-> sys.b.next]]
WorkerBuilds(w) ==
    LET i == sys.b.workers[w].item
        ok == i \notin sys.fails
    IN  /\ WorkerAt(w, "building")
        /\ sys' = [sys EXCEPT !.b.done = @ \cup {[item |-> i, ok |-> ok]},
                              !.b.workers[w].at = IF ok THEN "looking" ELSE "failing"]
WorkerFails(w) == WorkerAt(w, "failing") /\ sys' = [sys EXCEPT !.b.workers[w].at = "gone", !.b.stop = TRUE]

(* The main thread: takes the next result in order, places it, or ends with  *)
(* the first error; the scope ends when the workers are gone.                *)
ResultsAt(i) == {r \in sys.b.done : r.item = i}
MainWaits == sys.b.held = {} /\ sys.b.placed < Len(sys.b.plan)
MainTakes ==
    /\ InThreads /\ MainWaits /\ ResultsAt(sys.b.placed + 1) # {}
    /\ sys' = [sys EXCEPT !.b.held = ResultsAt(sys.b.placed + 1), !.b.done = @ \ ResultsAt(sys.b.placed + 1)]
MainGivesUp ==
    /\ InThreads /\ MainWaits /\ ResultsAt(sys.b.placed + 1) = {} /\ sys.b.stop
    /\ sys' = [sys EXCEPT !.b.held = {[item |-> sys.b.placed + 1, ok |-> FALSE]}]
MainPlaces ==
    \E r \in sys.b.held :
      LET image == ImageOf(sys.ask, sys.child, sys.b.plan[r.item], sys.spill)
      IN  IF r.ok /\ PlaceAccepts(sys.ask, image)
          THEN sys' = [sys EXCEPT !.images = Append(@, image), !.b.held = {}, !.b.placed = @ + 1]
          ELSE /\ ~sys.b.stop \/ \A w \in DOMAIN sys.b.workers : sys.b.workers[w].at = "gone"
               /\ IF sys.b.stop THEN TreeRefuse ELSE sys' = [sys EXCEPT !.b.stop = TRUE]
MainEnds ==
    /\ sys.b.placed = Len(sys.b.plan) /\ \A w \in DOMAIN sys.b.workers : sys.b.workers[w].at = "gone"
    /\ TreeAdvance(sys.images)

TreeNext ==
    \/ TreeSpill \/ SkipChild \/ BuildAlone
    \/ \E w \in 1..3 : WorkerLooks(w) \/ WorkerClaims(w) \/ WorkerBuilds(w) \/ WorkerFails(w)
    \/ MainTakes \/ MainGivesUp \/ (InThreads /\ MainPlaces) \/ (InThreads /\ MainEnds)

----------------------------------------------------------------------------
(* What the shards hold: a row not deleted in the log is live. *)
TreeLiveRows ==
    UNION {LET shard == sys.sources[i]
               rows == IF sys.ask.op = "compact" THEN SealedRows(shard) ELSE LoggedRows(shard)
           IN  {reconstruct_row(shard, l - 1, rows[l]) : l \in {j \in DOMAIN rows : (j - 1) \notin shard.deleted}} :
           i \in DOMAIN sys.sources}
LiveOf(c) ==
    {r \in TreeLiveRows : sys.ask.op = "tree" =>
       LET child == ChildrenOf(sys.ask)[c]
       IN  /\ child.code = r.leaf
           /\ sys.ask.leaves[r.leaf] > 1 => \E h \in r.key : h \in child.lo..child.hi}
SegmentsOf(c) == SelectSeq(sys.images, LAMBDA image : image.child = c)
ChildRows(c) == FlattenSeq([i \in DOMAIN SegmentsOf(c) |-> SegmentsOf(c)[i].rows])
StampOf(r) == IF sys.ask.declared = {} THEN r.stamp ELSE CHOOSE d \in sys.ask.declared : TRUE
Written(r) == [r EXCEPT !.stamp = StampOf(r), !.was = IF sys.ask.op = "tree" THEN r.leaf ELSE r.was]
CutsInOrder(c, per_cut) ==
    LET segments == SegmentsOf(c)
        values(i) == UNION {segments[i].rows[j].cut : j \in DOMAIN segments[i].rows}
        keyed == {i \in DOMAIN segments : values(i) # {}}
        occurs(v) == Cardinality({r \in LiveOf(c) : v \in r.cut})
    IN  /\ \A i \in keyed : Len(segments[i].rows) <= per_cut /\ \A j \in DOMAIN segments[i].rows : segments[i].rows[j].cut # {}
        /\ \A i, j \in keyed : i < j => Max(values(i)) <= Min(values(j))
        /\ \A i, j \in keyed : i # j => \A v \in values(i) \cap values(j) : occurs(v) > per_cut
        /\ \A i \in keyed, j \in DOMAIN segments \ keyed : i < j
ChildIsWhole(c) ==
    /\ IsInjective(ChildRows(c)) /\ ToSet(ChildRows(c)) = {Written(r) : r \in LiveOf(c)}
    /\ \A i \in DOMAIN SegmentsOf(c) :
         /\ SegmentsOf(c)[i].slot = sys.ask.offsets[c] + Len(FlattenSeq([j \in 1..(i - 1) |-> SegmentsOf(c)[j].rows]))
         /\ \A d \in DOMAIN sys.ask.offsets : sys.ask.offsets[d] > sys.ask.offsets[c] =>
              SegmentsOf(c)[i].slot + Len(SegmentsOf(c)[i].rows) <= sys.ask.offsets[d]
    /\ \A per_cut \in sys.ask.rows_per_cut : CutsInOrder(c, per_cut)
CanMove ==
    \/ sys.b.placed = Len(sys.b.plan) /\ \A w \in DOMAIN sys.b.workers : sys.b.workers[w].at = "gone"
    \/ MainWaits /\ (ResultsAt(sys.b.placed + 1) # {} \/ sys.b.stop)
    \/ sys.b.held # {}
    \/ \E w \in DOMAIN sys.b.workers :
         \/ sys.b.workers[w].at \in {"ready", "building", "failing"}
         \/ sys.b.workers[w].at = "looking" /\ (sys.b.stop \/ Cardinality(sys.b.done) < queue_of(sys.ask, sys.b.plan))
TreeMayRefuse ==
    \/ sys.fails # {} \/ ~Accepts(sys.ask, sys.sources)
    \/ \E r \in TreeLiveRows : ~r.doc \/ (sys.ask.op = "tree" /\ r.stamp # 0 /\ sys.ask.declared = {})
    \/ \E r \in TreeLiveRows : sys.ask.op = "tree" /\ sys.ask.leaves[r.leaf] > 1 /\ r.key = {}
    \/ \E i, j \in DOMAIN sys.sources : i # j /\ sys.sources[i].offset = sys.sources[j].offset
    \/ sys.ask.op = "compact" /\ \A r \in TreeLiveRows : r.cut = {}
    \/ \E r, q \in TreeLiveRows : r.vector # q.vector
    \/ \E c \in DOMAIN ChildrenOf(sys.ask) :
         \/ \E d \in DOMAIN sys.ask.offsets : sys.ask.offsets[d] > sys.ask.offsets[c] /\ sys.ask.offsets[c] + Cardinality(LiveOf(c)) > sys.ask.offsets[d]
         \/ sys.ask.layout # "segmented" /\ Cardinality(LiveOf(c)) > sys.ask.most
    \/ \E budget \in sys.ask.memory : Cardinality(TreeLiveRows) * sys.ask.threads > budget
    \/ sys.ask.files # {}

(* A split under a new tree, or a compaction of sealed segments, that ends   *)
(* well has every live row of its sources (deletes still only in the log     *)
(* included) exactly once, in the child of its leaf and hash, under the      *)
(* child's code and the declaration; slots run on from the child's offset    *)
(* and stay below the next child's; the cuts follow their column.  Threads   *)
(* never hold more than the queue and one image each, and never all wait.    *)
TreeSplitKeepsRows ==
    At("tree") =>
      /\ sys.at = "building" /\ Threaded(sys.ask) =>
           /\ Cardinality(sys.b.done) < queue_of(sys.ask, sys.b.plan) + Len(sys.b.workers)
           /\ Skipped \/ CanMove
      /\ sys.at = "done" =>
           /\ \A c \in DOMAIN ChildrenOf(sys.ask) :
                IF sys.ask.only # {} /\ c \notin sys.ask.only THEN SegmentsOf(c) = <<>> ELSE ChildIsWhole(c)
           /\ sys.moved = Cardinality({r \in TreeLiveRows : sys.ask.op = "tree" /\ r.was # r.leaf})
      /\ sys.at = "refused" => TreeMayRefuse

----------------------------------------------------------------------------
(* build_child: the vectors and documents of a child become its images.      *)
(* Vectors take the slots in their order, a document the slot of its vector  *)
(* or the next spare one; the texts are analyzed in batches and each result  *)
(* is put on the field it is of, or the analysis a segment already holds is  *)
(* transplanted.  A document is [id, text, spec, cased, fields, phrase,      *)
(* positions, bigrams, columns, source, chunk]; text 0 has no terms, spec 0  *)
(* is none.                                                                  *)

CONSTANTS ImageInputs,    \* [vectors, documents, table, pinned, columns, contract, transplant, analyzer]
          AnalyzeBatch    \* ANALYZE_BATCH

NoAnalysis == [of |-> 0, spec |-> 0, kind |-> "plain", ordinals |-> FALSE]
Analysis(text, spec, kind, ordinals) == [of |-> text, spec |-> spec, kind |-> kind, ordinals |-> ordinals]
HasTerms(a) == a.of # 0
(* Fingerprints, sets of at most one: the spec and what was derived from it. *)
fingerprint_of(spec, kind) == IF spec = 0 THEN {} ELSE {<<spec, <<kind>>>>}
bigram_fingerprint(print) == {<<p[1], Append(p[2], "bigram")>> : p \in print}

----------------------------------------------------------------------------
(* Slots: parent_ids, then the ids of the documents without a vector. *)
LocalSlots(vectors, documents) ==
    vectors \o SelectSeq([i \in DOMAIN documents |-> documents[i].id], LAMBDA id : id \notin ToSet(vectors))
SlotOf(rows, id) == CHOOSE i \in DOMAIN rows : rows[i] = id
Mapped(input) ==
    LET rows == LocalSlots(input.vectors, input.documents)
    IN  SortSeq([i \in DOMAIN input.documents |-> [slot |-> SlotOf(rows, input.documents[i].id), doc |-> input.documents[i]]],
                LAMBDA a, b : a.slot < b.slot)

(* The field table: the one given, or body and the fields the documents and  *)
(* the bound contract name; the columns likewise.                            *)
FieldsNamed(doc) ==
    {doc.fields[i].field : i \in DOMAIN doc.fields} \cup doc.phrase \cup {b[2] : b \in doc.bigrams}
FieldTable(input) ==
    IF input.table # {} THEN input.table
    ELSE {"body"} \cup UNION {FieldsNamed(input.documents[i]) : i \in DOMAIN input.documents} \cup DOMAIN input.contract
ColumnTable(input) ==
    IF input.columns # {} THEN input.columns
    ELSE UNION {{c[1] : c \in input.documents[i].columns} : i \in DOMAIN input.documents}

(* One column holds one term identity: set_analysis_fingerprint. *)
set_analysis_fingerprint(prints, field, print) ==
    IF print = {} \/ ~prints.ok THEN prints
    ELSE IF prints.held[field] = {} THEN [prints EXCEPT !.held[field] = print]
    ELSE IF prints.held[field] = print THEN prints
    ELSE [prints EXCEPT !.ok = FALSE]
PinFingerprints(input) ==
    LET start == [ok |-> DOMAIN input.contract \subseteq FieldTable(input),
                  held |-> [f \in FieldTable(input) |-> {p[2] : p \in {q \in input.pinned : q[1] = f}}]]
        bound == SetToSeq(DOMAIN input.contract \cap FieldTable(input))
    IN  FoldLeft(LAMBDA p, f : set_analysis_fingerprint(p, f, fingerprint_of(input.contract[f], "plain")), start, bound)

----------------------------------------------------------------------------
(* A batch: documents until their texts reach the batch size, at least one;  *)
(* the texts go to the analyzer in one list and come back in its order.      *)
TextsOf(doc) ==
    <<[text |-> doc.text, spec |-> doc.spec, dual |-> doc.cased # {}]>>
    \o [i \in DOMAIN doc.fields |-> [text |-> doc.fields[i].text, spec |-> doc.fields[i].spec, dual |-> FALSE]]
Entries(mapped, i, j) == FoldLeft(LAMBDA n, m : n + 1 + Len(m.doc.fields), 0, SubSeq(mapped, i, j))
BatchEnd(mapped, i) ==
    Min({j \in i..Len(mapped) : Entries(mapped, i, j) >= AnalyzeBatch} \cup {Len(mapped)})
BatchTexts(mapped, i, j) == FlattenSeq([d \in 1..(j - i + 1) |-> TextsOf(mapped[i + d - 1].doc)])
Analyze(analyzer, batch) ==
    [i \in 1..(IF analyzer = "short" THEN Len(batch) - 1 ELSE Len(batch)) |->
       [body |-> Analysis(batch[i].text, batch[i].spec, "plain", analyzer # "bare"),
        cased |-> IF batch[i].dual /\ analyzer # "bare"
                  THEN {Analysis(batch[i].text, batch[i].spec, "cased", TRUE)} ELSE {}]]

(* The fields of one document from its share of the results, in turn: body,  *)
(* cased twin, named fields, phrase field, bigram columns.                   *)
Put(fields, f, a) == [fields EXCEPT ![f] = a]
DocumentFields(input, table, doc, results) ==
    LET body == Put([f \in table |-> NoAnalysis], "body", results[1].body)
        cased == FoldLeft(LAMBDA fs, c : Put(fs, c, CHOOSE a \in results[1].cased : TRUE), body, SetToSeq(doc.cased))
        named == FoldLeft(LAMBDA fs, i : Put(fs, doc.fields[i].field, results[i + 1].body), cased, [i \in DOMAIN doc.fields |-> i])
        phrased == FoldLeft(LAMBDA fs, f : Put(fs, f, Analysis(doc.text, 0, "phrase", FALSE)), named, SetToSeq(doc.phrase))
    IN  FoldLeft(LAMBDA fs, b : IF ~HasTerms(fs[b[1]]) THEN fs
                                ELSE Put(fs, b[2], Analysis(fs[b[1]].of, fs[b[1]].spec, "bigram", TRUE)),
                 phrased, SetToSeq(doc.bigrams))
FieldsResolve(table, doc, results) ==
    /\ doc.cased \subseteq table /\ (doc.cased # {} => results[1].cased # {})
    /\ {doc.fields[i].field : i \in DOMAIN doc.fields} \subseteq table
    /\ doc.phrase \subseteq table /\ Cardinality(doc.phrase) <= 1
    /\ {b[1] : b \in doc.bigrams} \subseteq table
PositionsKept(doc, fields) ==
    /\ \A f \in doc.positions : HasTerms(fields[f]) => fields[f].ordinals
    /\ \A b \in doc.bigrams : HasTerms(fields[b[1]]) => fields[b[1]].ordinals
DocumentPrints(prints, doc) ==
    LET body == set_analysis_fingerprint(prints, "body", fingerprint_of(doc.spec, "plain"))
        cased == FoldLeft(LAMBDA p, c : set_analysis_fingerprint(p, c, fingerprint_of(doc.spec, "cased")), body, SetToSeq(doc.cased))
        named == FoldLeft(LAMBDA p, f : set_analysis_fingerprint(p, f.field, fingerprint_of(f.spec, "plain")), cased, doc.fields)
    IN  FoldLeft(LAMBDA p, b : set_analysis_fingerprint(p, b[2], bigram_fingerprint(p.held[b[1]])), named,
                 SetToSeq(doc.bigrams))

(* Under a transplant the segment's fields are taken by the source id, one   *)
(* for every field of the table, and the document may carry no text of its   *)
(* own for them.                                                             *)
Transplantable(input, doc) ==
    /\ doc.id \in DOMAIN input.transplant /\ DOMAIN input.transplant[doc.id] = FieldTable(input)
    /\ doc.fields = <<>> /\ doc.cased = {} /\ doc.phrase = {}
SourceWhole(doc) == doc.chunk # {} => doc.source # {}
Row(m, fields) == [id |-> m.doc.id, fields |-> fields, columns |-> m.doc.columns, source |-> m.doc.source]

----------------------------------------------------------------------------
ImageInit ==
    \E input \in ImageInputs :
      sys = [part |-> "image", input |-> input, at |-> "start", mapped |-> <<>>, done |-> 0,
             prints |-> [ok |-> TRUE, held |-> <<>>], rows |-> <<>>]
ImageRefuses == sys' = [sys EXCEPT !.at = "refused"]
StartImage ==
    LET table == FieldTable(sys.input)
        mapped == Mapped(sys.input)
    IN  /\ At("image") /\ sys.at = "start"
        /\ IF \/ "body" \notin table
              \/ \E i \in DOMAIN mapped : ~(mapped[i].doc.positions \subseteq table)
              \/ ~PinFingerprints(sys.input).ok
           THEN ImageRefuses
           ELSE sys' = [sys EXCEPT !.at = "batches", !.mapped = mapped, !.prints = PinFingerprints(sys.input),
                                   !.rows = [i \in DOMAIN LocalSlots(sys.input.vectors, sys.input.documents) |-> {}]]

ImageBatch ==
    LET first == sys.done + 1
        last == BatchEnd(sys.mapped, first)
        results == Analyze(sys.input.analyzer, BatchTexts(sys.mapped, first, last))
        table == FieldTable(sys.input)
        share(i) == LET skip == Entries(sys.mapped, first, i - 1)
                    IN  SubSeq(results, skip + 1, skip + 1 + Len(sys.mapped[i].doc.fields))
        fields(i) == IF sys.input.transplant # <<>> THEN sys.input.transplant[sys.mapped[i].doc.id]
                     ELSE DocumentFields(sys.input, table, sys.mapped[i].doc, share(i))
        resolves(i) == IF sys.input.transplant # <<>> THEN Transplantable(sys.input, sys.mapped[i].doc)
                       ELSE FieldsResolve(table, sys.mapped[i].doc, share(i))
        batch == [i \in 1..(last - first + 1) |-> sys.mapped[first + i - 1]]
        prints == FoldLeft(LAMBDA p, m : DocumentPrints(p, m.doc), sys.prints, batch)
    IN  /\ At("image") /\ sys.at = "batches" /\ sys.done < Len(sys.mapped)
        /\ IF \/ sys.input.transplant = <<>> /\ Len(results) # Entries(sys.mapped, first, last)
              \/ \E i \in first..last :
                   \/ ~resolves(i) \/ ~PositionsKept(sys.mapped[i].doc, fields(i)) \/ ~SourceWhole(sys.mapped[i].doc)
                   \/ ~({c[1] : c \in sys.mapped[i].doc.columns} \subseteq ColumnTable(sys.input))
              \/ ~prints.ok
           THEN ImageRefuses
           ELSE sys' = [sys EXCEPT !.done = last, !.prints = prints,
                          !.rows = [s \in DOMAIN @ |->
                             IF \E i \in first..last : sys.mapped[i].slot = s
                             THEN LET i == CHOOSE j \in first..last : sys.mapped[j].slot = s
                                  IN  {Row(sys.mapped[i], fields(i))}
                             ELSE @[s]]]
FinishImage == At("image") /\ sys.at = "batches" /\ sys.done = Len(sys.mapped) /\ sys' = [sys EXCEPT !.at = "built"]
ImageNext == StartImage \/ ImageBatch \/ FinishImage

----------------------------------------------------------------------------
(* What a field of a document should hold. *)
Sources(doc, f) == {b[1] : b \in {c \in doc.bigrams : c[2] = f}}
TextIn(doc, f) ==
    LET named == {i \in DOMAIN doc.fields : doc.fields[i].field = f}
    IN  IF doc.phrase = {f} THEN {Analysis(doc.text, 0, "phrase", FALSE)}
        ELSE IF named # {} THEN {Analysis(doc.fields[Max(named)].text, doc.fields[Max(named)].spec, "plain", TRUE)}
        ELSE IF f \in doc.cased THEN {Analysis(doc.text, doc.spec, "cased", TRUE)}
        ELSE IF f = "body" THEN {Analysis(doc.text, doc.spec, "plain", TRUE)}
        ELSE {}
Expected(doc, f) ==
    LET paired == {[a EXCEPT !.kind = "bigram"] : a \in {t \in UNION {TextIn(doc, g) : g \in Sources(doc, f)} : HasTerms(t)}}
    IN  IF paired # {} THEN paired ELSE TextIn(doc, f)
SameAnalysis(a, e) == a.of = e.of /\ a.kind = e.kind /\ (a.kind # "phrase" => a.spec = e.spec)
FieldIsRight(doc, f, a) ==
    IF sys.input.transplant # <<>> THEN a = sys.input.transplant[doc.id][f]
    ELSE IF Expected(doc, f) = {} THEN a = NoAnalysis
    ELSE \A e \in Expected(doc, f) : SameAnalysis(a, e)
AnalysesOf(f) == {r.fields[f] : r \in UNION {sys.rows[s] : s \in DOMAIN sys.rows}}
OneIdentity(f) ==
    \A a, b \in AnalysesOf(f) : HasTerms(a) /\ HasTerms(b) /\ a.spec # 0 /\ b.spec # 0 => a.spec = b.spec /\ a.kind = b.kind
Docs == ToSet(sys.input.documents)
ImageMayRefuse ==
    LET input == sys.input
        table == FieldTable(input)
    IN  \/ input.analyzer # "whole" \/ "body" \notin table \/ ~(DOMAIN input.contract \subseteq table)
        \/ \E d \in Docs : ~((FieldsNamed(d) \cup d.cased \cup d.positions \cup {b[1] : b \in d.bigrams}) \subseteq table)
        \/ \E d \in Docs : Cardinality(d.phrase) > 1 \/ (d.chunk # {} /\ d.source = {}) \/ ~({c[1] : c \in d.columns} \subseteq ColumnTable(input))
        \/ \E d \in Docs : input.transplant # <<>> /\ ~Transplantable(input, d)
        \/ \E d \in Docs, f \in table : \E a \in TextIn(d, f) : f \in d.positions /\ a.kind = "phrase"
        \/ \E d, e \in Docs, f \in table : \E a \in TextIn(d, f), b \in TextIn(e, f) :
              a.spec # 0 /\ b.spec # 0 /\ (a.spec # b.spec \/ a.kind # b.kind)
        \/ \E d \in Docs, f \in table : \E a \in TextIn(d, f) :
              a.spec # 0 /\ (f \in DOMAIN input.contract \/ \E q \in input.pinned : q[1] = f)
        \/ \E d \in Docs : \E b \in d.bigrams : \E a \in TextIn(d, b[2]) : TRUE

(* A child's images agree row by row: the document at a vector's slot is of  *)
(* the vector's source id, every document is there once, each of its fields  *)
(* holds the analysis of its own text under its own spec wherever the        *)
(* batches fell, its columns and source came along, and a field never mixes  *)
(* two analyzers; only records that cannot be carried over are refused.      *)
ImageIsFaithful ==
    At("image") =>
      /\ sys.at = "built" =>
           /\ \A s \in DOMAIN sys.rows, r \in UNION {sys.rows[t] : t \in DOMAIN sys.rows} :
                r \in sys.rows[s] /\ s <= Len(sys.input.vectors) => r.id = sys.input.vectors[s]
           /\ \A d \in Docs : \E s \in DOMAIN sys.rows : \E r \in sys.rows[s] :
                /\ r.id = d.id /\ r.columns = d.columns /\ r.source = d.source
                /\ \A f \in FieldTable(sys.input) : FieldIsRight(d, f, r.fields[f])
           /\ Cardinality({s \in DOMAIN sys.rows : sys.rows[s] # {}}) = Len(sys.input.documents)
           /\ sys.input.transplant = <<>> => \A f \in FieldTable(sys.input) : OneIdentity(f)
      /\ sys.at = "refused" => ImageMayRefuse
=============================================================================
