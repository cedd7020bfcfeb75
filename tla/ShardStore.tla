------------------------------ MODULE ShardStore ------------------------------
(***************************************************************************)
(* One shard on disk, in the segment layout with a write-ahead log: rows   *)
(* are applied and then logged, tails are sealed into the catalog, Flush   *)
(* makes everything durable, compaction rewrites the log and the catalog   *)
(* beside the live shard and cuts over, and the process crashes anywhere   *)
(* and is opened again (node.rs, wal.rs, segments.rs, live_docs.rs and     *)
(* compaction.rs).                                                         *)
(*                                                                         *)
(* A row is a document with its vector and one log record; its content is  *)
(* the number of the append that wrote it.  A slot is a position in rows,  *)
(* counted from 1.  A log file is fsynced up to a prefix; a crash keeps    *)
(* that and any longer prefix of every file.                               *)
(***************************************************************************)
EXTENDS Integers, Sequences, FiniteSets, SequencesExt

CONSTANTS SealTailDocs,    \* --seal-tail-docs, 0: only Flush seals
          TailBound, MaxTailPasses,            \* limits of the compaction's tail
          MaxRows, MaxDeletes, MaxFlushes, MaxCompactions, MaxCrashes  \* bounds

VARIABLES
    up,         \* "up", "down", or "refused": open returned an error
    rows,       \* the rows served, by slot: sealed, frozen and tail
    dead,       \* live_docs: the slots tombstoned
    sealed,     \* rows of the segments the shard serves
    frozen,     \* rows of the frozen part after them, 0: none
    seal,       \* the seal in flight, which holds seal_lock
    flush,      \* [Flushers -> [at, want]]
    comp,       \* the compaction in flight with its shadow
    gate,       \* mutation_gate is held for writing
    lock,       \* who keeps the state's write lock from one step to the next
    pending,    \* pending_compaction
    log,        \* on disk: the WAL generations, the last one is written
    synced,     \* how many records of the last generation are fsynced
    catalog,    \* on disk: segments.json with the segments it names
    staged,     \* on disk: generations of segment directories
    sidecar,    \* on disk: the live-docs overlay
    marker,     \* on disk: the commit marker and the manifest's backup
    workdir,    \* on disk: the work directory of a compaction
    seen        \* history: what clients did and were told, and the bounds
memory == <<rows, dead, sealed, frozen, seal, flush, comp, gate, lock, pending>>
disk == <<log, synced, catalog, staged, sidecar, marker, workdir>>
vars == <<up, memory, disk, seen>>

Flushers == {"rpc", "closing"}
NoSeal == [owner |-> "none"]
NoComp == [at |-> "idle"]
NoMarker == [old |-> 0]
IdleFlush == [f \in Flushers |-> [at |-> "idle", rows |-> {}, dead |-> {}]]

Written == Len(rows)
Slots == 1..Written
Content(seq, slots) == {seq[i] : i \in slots}
LiveRows == Content(rows, Slots \ dead)
Gen == Len(log)
Wal == log[Gen]

-----------------------------------------------------------------------------
(* The log.  Records of an id are in the file of its bucket, markers in a  *)
(* file of their own.                                                      *)
bucket_of(r) == IF r.op = "flush" THEN 2 ELSE r.id % 2
high_watermark(l) ==
    IF l = <<>> THEN 0 ELSE CHOOSE c \in {r.clock : r \in Range(l)} :
                              \A r \in Range(l) : r.clock <= c
Record(l, op, id, content) ==
    [clock |-> high_watermark(l) + 1, op |-> op, id |-> id, content |-> content]
append_routed(op, id, content) ==
    log' = [log EXCEPT ![Gen] = Append(@, Record(@, op, id, content))]

(* The records at the given positions.                                     *)
Only(l, at) ==
    LET order == SetToSortSeq(at, LAMBDA i, j : i < j)
    IN  [k \in 1..Cardinality(at) |-> l[order[k]]]

(* Every file is cut at its first row beyond the cutoff.                   *)
truncate_records_at_or_above(l, cutoff) ==
    Only(l, {i \in DOMAIN l : \A j \in 1..i :
               bucket_of(l[j]) = bucket_of(l[i]) =>
                 ~(l[j].op = "add" /\ l[j].id > cutoff)})

(* Replay up to a clock: the ids added and not deleted.                    *)
Through(l, clock) == {r \in Range(l) : r.clock <= clock}
Surviving(records) ==
    {r \in records : r.op = "add" /\ \A d \in records : d.op = "delete" => d.id # r.id}
DuplicateIds(l) ==
    \E i, j \in DOMAIN l : /\ i # j /\ l[i].op = "add" /\ l[j].op = "add"
                           /\ l[i].id = l[j].id

(* A compaction numbers the survivors densely, bucket by bucket.           *)
child_order(records) ==
    SetToSortSeq(Surviving(records), LAMBDA a, b :
      bucket_of(a) < bucket_of(b) \/ (bucket_of(a) = bucket_of(b) /\ a.id < b.id))

StoreInit ==
    /\ up = "up" /\ rows = <<>> /\ dead = {} /\ sealed = 0 /\ frozen = 0
    /\ seal = NoSeal /\ flush = IdleFlush /\ comp = NoComp
    /\ gate = FALSE /\ lock = "none" /\ pending = FALSE
    /\ log = << <<>> >> /\ synced = 0
    /\ catalog = [epoch |-> 0, rows |-> <<>>, dead |-> {}]
    /\ staged = {} /\ sidecar = [rows |-> 0, dead |-> {}, gen |-> 1]
    /\ marker = NoMarker /\ workdir = FALSE
    /\ seen = [issued |-> 0, deleted |-> {}, flushed |-> {}, flushedDead |-> {},
               torn |-> {}, unlogged |-> {}, overlaid |-> FALSE, deletes |-> 0, flushes |-> 0,
               crashes |-> 0]

-----------------------------------------------------------------------------
(* Writes.  Each holds mutation_gate for reading and the state's write     *)
(* lock, applies and then logs.                                            *)
Unlocked == up = "up" /\ lock = "none"
MayWrite == Unlocked /\ ~gate

tail_full ==
    SealTailDocs > 0 /\ Written - sealed - frozen >= SealTailDocs

(* claim_ingest lets one stream in; a stream of one document.  A full tail *)
(* is sealed before the next document is applied.                          *)
AddDocuments ==
    /\ MayWrite /\ ~tail_full /\ seal.owner # "ingest"
    /\ seen.issued < MaxRows
    /\ rows' = Append(rows, seen.issued + 1)
    /\ append_routed("add", Written + 1, seen.issued + 1)
    /\ seen' = [seen EXCEPT !.issued = @ + 1]
    /\ UNCHANGED <<up, dead, sealed, frozen, seal, flush, comp, gate, lock, pending,
                   synced, catalog, staged, sidecar, marker, workdir>>

(* DeleteDocuments, and CommitReplacements for the old id: only the first  *)
(* delete of a slot is logged.                                             *)
Delete(id) ==
    /\ MayWrite /\ id \in Slots \ dead /\ seen.deletes < MaxDeletes
    /\ dead' = dead \cup {id}
    /\ append_routed("delete", id, 0)
    /\ seen' = [seen EXCEPT !.deletes = @ + 1, !.deleted = @ \cup {rows[id]}]
    /\ UNCHANGED <<up, rows, sealed, frozen, seal, flush, comp, gate, lock, pending, synced, catalog, staged, sidecar, marker, workdir>>

-----------------------------------------------------------------------------
(* Sealing, in steps: freeze the tail or take up what a failed seal left,  *)
(* with the shard's write lock; move the new segment's directory into      *)
(* place; publish the manifest; and adopt it with the write lock again.    *)
ToSeal == IF frozen > 0 THEN frozen ELSE Written - sealed
freeze_tail(owner) ==
    /\ Unlocked /\ seal = NoSeal
    /\ frozen' = ToSeal
    /\ seal' = [owner |-> owner, at |-> "stage",
                dead |-> dead \cap ((sealed + 1)..(sealed + ToSeal))]

SealIfDue ==
    /\ tail_full
    /\ freeze_tail("ingest")
    /\ UNCHANGED <<up, rows, dead, sealed, flush, comp, gate, lock, pending, disk, seen>>

(* Whoever asked for the seal goes on, or gets the error; a compaction     *)
(* whose closing flush failed leaves its cutover pending.                  *)
SealReturns(ok) ==
    /\ seal' = NoSeal
    /\ flush' = [f \in Flushers |->
                   IF f # seal.owner THEN flush[f]
                   ELSE IF ok THEN [flush[f] EXCEPT !.at = "write"] ELSE IdleFlush[f]]
    /\ comp' = IF seal.owner = "closing" /\ ~ok THEN NoComp ELSE comp

NextSegment == catalog.epoch + 1

StageSegment ==
    /\ up = "up" /\ seal # NoSeal /\ seal.at = "stage"
    /\ NextSegment \notin staged
    /\ staged' = staged \cup {NextSegment}
    /\ seal' = [seal EXCEPT !.at = "publish"]
    /\ UNCHANGED <<up, rows, dead, sealed, frozen, flush, comp, gate, lock, pending, log, synced, catalog, sidecar, marker, workdir, seen>>

(* A directory of that name which the manifest does not know: "recovery is *)
(* required".                                                              *)
SealRefused ==
    /\ up = "up" /\ seal # NoSeal /\ seal.at = "stage"
    /\ NextSegment \in staged
    /\ SealReturns(FALSE)
    /\ UNCHANGED <<up, rows, dead, sealed, frozen, gate, lock, pending, disk, seen>>

PublishSegment ==
    /\ up = "up" /\ seal # NoSeal /\ seal.at = "publish"
    /\ catalog' = [epoch |-> NextSegment, dead |-> catalog.dead \cup seal.dead,
                   rows |-> SubSeq(rows, 1, sealed + frozen)]
    /\ seal' = [seal EXCEPT !.at = "adopt"]
    /\ UNCHANGED <<up, rows, dead, sealed, frozen, flush, comp, gate, lock, pending, log, synced, staged, sidecar, marker, workdir, seen>>

republish ==
    /\ Unlocked /\ seal # NoSeal /\ seal.at = "adopt"
    /\ sealed' = sealed + frozen /\ frozen' = 0
    /\ SealReturns(TRUE)
    /\ UNCHANGED <<up, rows, dead, gate, lock, pending, disk, seen>>

-----------------------------------------------------------------------------
(* flush_index, called by the Flush RPC, which holds mutation_gate for     *)
(* reading, and by a compaction after its cutover, which does not.         *)
Flushing(f, at) == [flush EXCEPT ![f].at = at]

FlushWal(f) ==
    /\ Unlocked /\ flush[f].at = "idle"
    /\ IF f = "rpc" THEN ~gate /\ seen.flushes < MaxFlushes
       ELSE comp.at = "closing"
    /\ synced' = Len(Wal)
    /\ flush' = [flush EXCEPT ![f] = [at |-> "seal", rows |-> LiveRows,
                                      dead |-> seen.deleted]]
    /\ seen' = IF f = "rpc" THEN [seen EXCEPT !.flushes = @ + 1] ELSE seen
    /\ UNCHANGED <<up, rows, dead, sealed, frozen, seal, comp, gate, lock, pending, log, catalog, staged, sidecar, marker, workdir>>

FlushSeal(f) ==
    /\ flush[f].at = "seal"
    /\ IF ToSeal > 0
         THEN freeze_tail(f) /\ flush' = Flushing(f, "sealing")
         ELSE /\ Unlocked /\ seal = NoSeal
              /\ flush' = Flushing(f, "write") /\ UNCHANGED <<frozen, seal>>
    /\ UNCHANGED <<up, rows, dead, sealed, comp, gate, lock, pending, disk, seen>>

(* From here to the end with the write lock: the overlay of every row ...  *)
FlushLiveDocs(f) ==
    /\ Unlocked /\ flush[f].at = "write"
    /\ sidecar' = [rows |-> Written, dead |-> dead, gen |-> Gen]
    /\ lock' = f /\ flush' = Flushing(f, "commit")
    /\ UNCHANGED <<up, rows, dead, sealed, frozen, seal, comp, gate, pending, log, synced, catalog, staged, marker, workdir, seen>>

(* ... a pending cutover becomes final ...                                 *)
FlushCommit(f) ==
    /\ flush[f].at = "commit"
    /\ marker' = IF pending THEN NoMarker ELSE marker
    /\ pending' = FALSE /\ flush' = Flushing(f, "mark")
    /\ UNCHANGED <<up, rows, dead, sealed, frozen, seal, comp, gate, lock, log,
                   synced, catalog, staged, sidecar, workdir, seen>>

(* ... and the marker record, after which the flush is acknowledged.       *)
FlushDone(f) ==
    /\ flush[f].at = "mark"
    /\ append_routed("flush", 0, 0)
    /\ synced' = Len(Wal) + 1
    /\ lock' = "none" /\ flush' = [flush EXCEPT ![f] = IdleFlush[f]]
    /\ comp' = IF f = "closing" THEN NoComp ELSE comp
    /\ workdir' = IF f = "closing" THEN FALSE ELSE workdir
    /\ seen' = [seen EXCEPT !.flushed = @ \cup flush[f].rows,
                            !.flushedDead = @ \cup flush[f].dead]
    /\ UNCHANGED <<up, rows, dead, sealed, frozen, seal, gate, pending, catalog,
                   staged, sidecar, marker>>

-----------------------------------------------------------------------------
(* compact_shard: the log through a cutoff becomes a dense shadow with a   *)
(* log of its own; passes over the live log's tail bring it near; with the *)
(* gate and the seal lock held a last pass makes it equal, and under the   *)
(* write lock it takes the live shard's place.                             *)
Preflight ==
    /\ Unlocked /\ comp = NoComp /\ ~pending /\ ~workdir /\ Gen <= MaxCompactions
    /\ comp' = [at |-> "build", upto |-> high_watermark(Wal)]
    /\ synced' = Len(Wal) /\ workdir' = TRUE
    /\ UNCHANGED <<up, rows, dead, sealed, frozen, seal, flush, gate, lock, pending, log, catalog, staged, sidecar, marker, seen>>

Renumbered(order) ==
    [k \in 1..Len(order) |->
       [clock |-> k, op |-> "add", id |-> k, content |-> order[k].content]]

(* compact_log, which refuses an id logged twice.                          *)
Build ==
    /\ up = "up" /\ comp.at = "build"
    /\ LET order == child_order(Through(Wal, comp.upto)) IN
       comp' = IF DuplicateIds(Wal) THEN NoComp
               ELSE [at |-> "tail", upto |-> comp.upto, passes |-> 0,
                     dense |-> Len(order), dead |-> {}, log |-> Renumbered(order),
                     rows |-> [k \in 1..Len(order) |-> order[k].content],
                     ids |-> [k \in 1..Len(order) |-> order[k].id]]
    /\ UNCHANGED <<up, rows, dead, sealed, frozen, seal, flush, gate, lock, pending, disk, seen>>

(* One record of the tail on the shadow; an id the map does not know, or a *)
(* row already dead, is an error.                                          *)
ShadowId(c, id) == {k \in DOMAIN c.ids : c.ids[k] = id}
(* Mutant: the shadow's log gets the live shard's id of a deleted row.     *)
apply_to_shadow_unmapped(c, r) ==
    IF c = NoComp \/ r.op = "flush" THEN c
    ELSE IF r.op = "add"
      THEN [c EXCEPT !.rows = Append(@, r.content), !.ids = Append(@, r.id),
                     !.log = Append(@, Record(@, "add", Len(c.rows) + 1, r.content))]
    ELSE IF ShadowId(c, r.id) = {} THEN NoComp
    ELSE LET k == CHOOSE i \in ShadowId(c, r.id) : TRUE IN
         [c EXCEPT !.dead = @ \cup {k}, !.log = Append(@, Record(@, "delete", r.id, 0))]

apply_to_shadow(c, r) ==
    IF c = NoComp \/ r.op = "flush" THEN c
    ELSE IF r.op = "add"
      THEN [c EXCEPT !.rows = Append(@, r.content), !.ids = Append(@, r.id),
                     !.log = Append(@, Record(@, "add", Len(c.rows) + 1, r.content))]
    ELSE IF ShadowId(c, r.id) \ c.dead = {} THEN NoComp
      ELSE LET k == CHOOSE i \in ShadowId(c, r.id) : TRUE IN
           [c EXCEPT !.dead = @ \cup {k}, !.log = Append(@, Record(@, "delete", k, 0))]

(* ClockedTail::read_through and apply_pass: the records after upto, which *)
(* must be there without a gap.                                            *)
TailRecords(c) == {r \in Range(Wal) : r.clock > c.upto}
TailGap(c) == {r.clock : r \in TailRecords(c)} # (c.upto + 1)..high_watermark(Wal)
apply_pass(c) ==
    IF TailGap(c) THEN NoComp
    ELSE LET done == FoldLeft(apply_to_shadow, c,
                       SetToSortSeq(TailRecords(c), LAMBDA a, b : a.clock < b.clock))
         IN  IF done = NoComp THEN NoComp
             ELSE [done EXCEPT !.upto = high_watermark(Wal)]

(* A pass that finds few records is the last one without the gate; too     *)
(* many passes, and the compaction gives up.                               *)
TailPass ==
    /\ Unlocked /\ comp.at = "tail"
    /\ synced' = Len(Wal)
    /\ LET next == apply_pass(comp)
           few == Cardinality(TailRecords(comp)) < TailBound
       IN  comp' = IF next = NoComp \/ (~few /\ comp.passes + 1 = MaxTailPasses)
                     THEN NoComp
                   ELSE [next EXCEPT !.passes = @ + 1,
                                     !.at = IF few THEN "gate" ELSE "tail"]
    /\ UNCHANGED <<up, rows, dead, sealed, frozen, seal, flush, gate, lock, pending, log, catalog, staged, sidecar, marker, workdir, seen>>

(* Writers and Flush calls that hold the gate for reading are waited for.  *)
TakeGate ==
    /\ up = "up" /\ comp.at = "gate" /\ flush["rpc"].at = "idle"
    /\ gate' = TRUE /\ comp' = [comp EXCEPT !.at = "fence"]
    /\ UNCHANGED <<up, rows, dead, sealed, frozen, seal, flush, lock, pending, disk, seen>>

(* Mutant: the cutover does not wait for the last pass.                    *)
FenceWithoutPass ==
    /\ Unlocked /\ comp.at = "fence" /\ seal = NoSeal
    /\ synced' = Len(Wal)
    /\ comp' = [comp EXCEPT !.at = "wal"]
    /\ gate' = gate /\ lock' = "compact"
    /\ marker' = [old |-> Gen, catalog |-> catalog]
    /\ UNCHANGED <<up, rows, dead, sealed, frozen, seal, flush, pending, log,
                   catalog, staged, sidecar, workdir, seen>>

(* The last pass; the fence holds because nobody can write.  Then install, *)
(* under the write lock: the manifest's backup and the marker ...          *)
Fence ==
    /\ Unlocked /\ comp.at = "fence" /\ seal = NoSeal
    /\ synced' = Len(Wal)
    /\ LET next == apply_pass(comp)
       IN  IF next = NoComp
             THEN /\ comp' = NoComp /\ gate' = FALSE
                  /\ UNCHANGED <<lock, marker>>
             ELSE /\ comp' = [next EXCEPT !.at = "wal"]
                  /\ lock' = "compact" /\ UNCHANGED gate
                  /\ marker' = [old |-> Gen, catalog |-> catalog]
    /\ UNCHANGED <<up, rows, dead, sealed, frozen, seal, flush, pending, log,
                   catalog, staged, sidecar, workdir, seen>>

(* ... the rewritten generation moves into the WAL directory ...           *)
InstallWal ==
    /\ up = "up" /\ comp.at = "wal"
    /\ log' = Append(log, comp.log) /\ synced' = Len(comp.log)
    /\ comp' = [comp EXCEPT !.at = "publish"]
    /\ UNCHANGED <<up, rows, dead, sealed, frozen, seal, flush, gate, lock, pending, catalog, staged, sidecar, marker, workdir, seen>>

(* Mutant: the cutover is final before the closing flush.                  *)
CutOverFinal ==
    /\ up = "up" /\ comp.at = "publish"
    /\ catalog' = [epoch |-> NextSegment, dead |-> {},
                   rows |-> SubSeq(comp.rows, 1, comp.dense)]
    /\ rows' = comp.rows /\ dead' = comp.dead /\ sealed' = comp.dense /\ frozen' = 0
    /\ marker' = NoMarker /\ gate' = FALSE /\ lock' = "none"
    /\ comp' = [at |-> "closing"]
    /\ UNCHANGED <<up, seal, flush, pending, log, synced, staged, sidecar, workdir, seen>>

(* ... and the compacted set is published and the shadow swapped in.       *)
CutOver ==
    /\ up = "up" /\ comp.at = "publish"
    /\ catalog' = [epoch |-> NextSegment, dead |-> {},
                   rows |-> SubSeq(comp.rows, 1, comp.dense)]
    /\ rows' = comp.rows /\ dead' = comp.dead /\ sealed' = comp.dense /\ frozen' = 0
    /\ pending' = TRUE /\ gate' = FALSE /\ lock' = "none"
    /\ comp' = [at |-> "closing"]
    /\ UNCHANGED <<up, seal, flush, log, synced, staged, sidecar, marker,
                   workdir, seen>>

(* recover_interrupted: back to the manifest and the generation the marker *)
(* names.                                                                  *)
RolledBack ==
    [catalog |-> IF marker = NoMarker THEN catalog ELSE marker.catalog,
     log |-> IF marker = NoMarker THEN log ELSE SubSeq(log, 1, marker.old)]

(* An I/O error during install is rolled back at once.                     *)
InstallFails ==
    /\ up = "up" /\ comp.at \in {"wal", "publish"}
    /\ catalog' = RolledBack.catalog /\ log' = RolledBack.log
    /\ synced' = Len(log[marker.old])
    /\ marker' = NoMarker /\ comp' = NoComp /\ gate' = FALSE /\ lock' = "none"
    /\ UNCHANGED <<up, rows, dead, sealed, frozen, seal, flush, pending, staged,
                   sidecar, workdir, seen>>

-----------------------------------------------------------------------------
(* A crash loses memory, and of every log file a suffix that was not       *)
(* fsynced.                                                                *)
Crash ==
    /\ up = "up" /\ seen.crashes < MaxCrashes
    /\ \E kept \in [0..2 -> synced..Len(Wal)] :
         log' = [log EXCEPT ![Gen] =
                   Only(@, {i \in DOMAIN @ : i <= kept[bucket_of(@[i])]})]
    /\ synced' = Len(log'[Gen])
    /\ up' = "down"
    /\ rows' = <<>> /\ dead' = {} /\ sealed' = 0 /\ frozen' = 0
    /\ seal' = NoSeal /\ flush' = IdleFlush /\ comp' = NoComp
    /\ gate' = FALSE /\ lock' = "none" /\ pending' = FALSE
    /\ seen' = [seen EXCEPT !.crashes = @ + 1]
    /\ UNCHANGED <<catalog, staged, sidecar, marker, workdir>>

(* Where log and catalog disagree about a row: rows of the catalog that    *)
(* the log does not have, or that only one of the two has deleted.         *)
Disagree(cat, gone, l) ==
    LET logged(op, i) == \E r \in Range(l) : r.op = op /\ r.id = i
    IN  {cat[i] : i \in {j \in DOMAIN cat :
           ~logged("add", j) \/ logged("delete", j) # (j \in gone)}}

(* Rows the catalog deleted and the log never heard of again: a seal       *)
(* publishes deletes before anyone syncs their records.                    *)
Unlogged(cat, gone, l) ==
    {cat[i] : i \in {j \in gone \cap DOMAIN cat :
                       ~\E r \in Range(l) : r.op = "delete" /\ r.id = j}}

(* NodeServiceImpl::open: an interrupted cutover is rolled back, the       *)
(* catalog read, the log cut to the rows it has, and the overlay loaded,   *)
(* which must not describe more rows than there are.                       *)
Open ==
    /\ up = "down"
    /\ LET back == RolledBack
           cat == back.catalog
           wal == truncate_records_at_or_above(back.log[Len(back.log)], Len(cat.rows))
           gone == cat.dead \cup sidecar.dead
           overlaid == marker # NoMarker /\ sidecar.gen > marker.old
           live == Content(cat.rows, DOMAIN cat.rows \ gone)
       IN  /\ catalog' = cat /\ marker' = NoMarker
           /\ log' = [back.log EXCEPT ![Len(back.log)] = wal]
           /\ synced' = Len(wal)
           /\ IF sidecar.rows > Len(cat.rows)
                THEN up' = "refused" /\ UNCHANGED <<rows, dead, sealed, seen>>
                ELSE /\ up' = "up" /\ rows' = cat.rows /\ dead' = gone
                     /\ sealed' = Len(cat.rows)
                     /\ seen' = [seen EXCEPT !.deleted = @ \ live,
                          !.torn = @ \cup Disagree(cat.rows, gone, wal),
                          !.unlogged = @ \cup Unlogged(cat.rows, gone, wal),
                          !.overlaid = @ \/ overlaid]
    /\ UNCHANGED <<frozen, seal, flush, comp, gate, lock, pending, staged,
                   sidecar, workdir>>

SealStep == SealIfDue \/ StageSegment \/ SealRefused \/ PublishSegment \/ republish
FlushStep(f) ==
    FlushWal(f) \/ FlushSeal(f) \/ FlushLiveDocs(f) \/ FlushCommit(f) \/ FlushDone(f)
CompactStep ==
    \/ Preflight \/ Build \/ TailPass \/ TakeGate \/ Fence \/ InstallWal \/ CutOver
    \/ InstallFails

StoreNext ==
    \/ AddDocuments \/ \E id \in Slots : Delete(id)
    \/ SealStep \/ (\E f \in Flushers : FlushStep(f)) \/ CompactStep
    \/ Crash \/ Open

-----------------------------------------------------------------------------

(* Flush is the durability point, across seals, compactions, rollbacks and *)
(* crashes: a row served when an acknowledged Flush began is served by     *)
(* every shard that opens later, until it is deleted, and a row deleted by *)
(* then stays deleted.  Left out are rows on which a reopened log and      *)
(* catalog disagreed, because a seal publishes rows and deletes whose log  *)
(* records no one synced, and rollbacks that met the overlay of the        *)
(* generation they undid, whose rows have other numbers.                   *)
FlushIsDurable ==
    up = "up" =>
      /\ seen.flushed \ seen.deleted \subseteq LiveRows \cup seen.torn
      /\ seen.overlaid \/ seen.flushedDead \cap LiveRows \subseteq seen.unlogged

(* Replaying the log gives the rows the shard serves, in the live          *)
(* generation and in one that a compaction rewrote beside the writers.     *)
LogIsHistory ==
    Unlocked /\ seen.crashes = 0 =>
      {r.content : r \in Surviving(Range(Wal))} = LiveRows

(* A cutover serves the same rows before and after, whatever was written,  *)
(* deleted and sealed while the shadow was built.                          *)
CutoverKeepsRows ==
    [][comp.at = "publish" /\ rows' # rows /\ up' = "up" =>
         LiveRows \ seen.torn = LiveRows' \ seen.torn]_vars

(* "A restarted node with the same config comes back": open accepts what   *)
(* any crash left on the disk.                                             *)
Reopens == up # "refused"

=============================================================================
