----------------------------- MODULE ShardReads -----------------------------
(* The reads a shard serves while it is written: most take the shard's lock  *)
(* once, a collapsed scan takes it four times with a parent map that other   *)
(* reads share, a coalesced scan is validated under one lock and run under   *)
(* another, and a stream answers identities after its lock is gone.  Slots   *)
(* count from 1; a slot's content is its document (the number of its         *)
(* generation), and its parent, term and visibility follow from both.        *)
EXTENDS SystemState, Integers, Sequences, FiniteSets, FiniteSetsExt, SequencesExt

CONSTANTS
    Readers, FreeReaders,  \* reads in flight; the ones that take any route, the
                           \* others run the collapsed scans that share the map
    MaxShardWrites,
    WrittenSlots,          \* slots that are deleted, or get another document
    EpochLimit,            \* the last epoch of an incarnation
    AskedIds               \* candidate ids a request may name: sequences of slots

(* Of a slot in a generation: parent 0 stands for the slot's own tag. *)
ParentOf(s, g) == IF s = 1 /\ g = 0 THEN 0 ELSE 1 + ((s + g) % 2)
HasTerm(s, g) == ((s + g) % 2) = 1
Visible(s, g) == s # 2 \/ g = 1

Claim(v) == [inc |-> v.inc, epoch |-> v.epoch]
DocSlots(v) == 1..v.docs
VectorSlots(v) == 1..v.vectors
PhysicalRows(v) == Max({v.docs, v.vectors})

----------------------------------------------------------------------------
(* The selections the routes make, each as its handler does. *)

(* resolve_shard_filters: tombstones always; a filter passes no slot past    *)
(* the documents.                                                            *)
resolve_shard_filters(v, rows, view) ==
    {s \in 1..rows : s \notin v.dead /\ (view => s <= v.docs /\ Visible(s, v.gen[s]))}

(* vector_scan_filters: under a view the rows past the documents go too. *)
vector_scan_filters(v, view) ==
    {s \in resolve_shard_filters(v, v.vectors, view) : view => s \in DocSlots(v)}

(* visible_candidate_slots: the named slots, once each, in range and live. *)
visible_candidate_slots(v, view, ids, rows) ==
    {s \in ToSet(ids) : /\ s <= rows /\ s \notin v.dead
                        /\ view => s \in DocSlots(v) /\ Visible(s, v.gen[s])}

HitFacts(slots) == {<<"hit", s, 0>> : s \in slots}
Identities(v, slots) == {<<"doc", s, v.gen[s]>> : s \in slots \cap DocSlots(v)}
Parents(parents, slots) == {<<"parent", s, parents[s]>> : s \in slots}
Counted(n) == {<<"count", 0, n>>}
LexicalSlots(v, slots) == {s \in slots \cap DocSlots(v) : HasTerm(s, v.gen[s])}

search_shard(v, view) ==
    LET slots == vector_scan_filters(v, view) IN HitFacts(slots) \cup Identities(v, slots)
browse_shard(v, view) ==
    LET slots == resolve_shard_filters(v, v.docs, view) IN HitFacts(slots) \cup Identities(v, slots)
resolve_filter_bitmap(v, view) == HitFacts(resolve_shard_filters(v, v.docs, view))
resolve_lexical_bitmap(v, view) ==
    HitFacts({s \in DocSlots(v) : /\ HasTerm(s, v.gen[s]) /\ s \notin v.dead
                                  /\ view => s \in resolve_shard_filters(v, v.docs, TRUE)})
resolve_vector_bitmap(v, view) ==
    HitFacts({s \in VectorSlots(v) : /\ s \notin v.dead
                                     /\ view => s <= v.docs /\ s \in resolve_shard_filters(v, v.vectors, TRUE)})
bm25_query(v, view) ==
    LET slots == LexicalSlots(v, resolve_shard_filters(v, v.docs, view))
    IN  HitFacts(slots) \cup Identities(v, slots)
aggregate_shard(v, view) == Counted(Cardinality(resolve_shard_filters(v, v.docs, view)))
quantile_counts_of(v, view) ==
    Counted(Cardinality({s \in DocSlots(v) : s \in resolve_shard_filters(v, v.docs, view)}))

(* term_stats: the live documents and the frequency of the term; without     *)
(* deletes and a view the store's own totals.                                *)
term_stats(v, view) ==
    LET admitted == IF v.dead \cap DocSlots(v) = {} /\ ~view THEN DocSlots(v)
                    ELSE {s \in DocSlots(v) : s \notin v.dead /\ (view => Visible(s, v.gen[s]))}
    IN  Counted(Cardinality(admitted)) \cup {<<"df", 0, Cardinality(LexicalSlots(v, admitted))>>}

(* scan_dictionary: without a view the dictionary's own frequencies, with    *)
(* the number of tombstones they still count.                                *)
suggest_terms(v, view) ==
    IF view THEN {<<"df", 0, Cardinality({s \in resolve_shard_filters(v, v.docs, TRUE) : HasTerm(s, v.gen[s])})>>,
                  <<"tombstoned", 0, 0>>}
    ELSE {<<"df", 0, Cardinality(LexicalSlots(v, DocSlots(v)))>>,
          <<"tombstoned", 0, Cardinality(v.dead)>>}

compute_legs(v, view) ==
    LET allow == vector_scan_filters(v, view)
        bm25 == LexicalSlots(v, resolve_shard_filters(v, v.docs, view))
    IN  HitFacts(allow) \cup {<<"lexical", s, 0>> : s \in bm25}

fetch_identities(v, view, ids) ==
    LET slots == visible_candidate_slots(v, view, ids, PhysicalRows(v))
    IN  HitFacts(slots) \cup Identities(v, slots)
fetch_rows(v, view, ids) ==
    LET slots == {s \in ToSet(ids) \cap DocSlots(v) : s \notin v.dead /\ (view => Visible(s, v.gen[s]))}
    IN  HitFacts(slots) \cup Identities(v, slots)
vector_rescore(v, view, ids) == HitFacts(visible_candidate_slots(v, view, ids, v.vectors))
exact_vector_rescore(v, view, ids) ==
    HitFacts(visible_candidate_slots(v, view, ids, PhysicalRows(v)) \cap VectorSlots(v))
bm25_rescore(v, view, ids) ==
    LET slots == LexicalSlots(v, visible_candidate_slots(v, view, ids, v.docs))
    IN  HitFacts(slots) \cup Identities(v, slots)
get_documents(v, ids) ==
    LET slots == {s \in ToSet(ids) \cap DocSlots(v) : s \notin v.dead}
    IN  HitFacts(slots) \cup Identities(v, slots)
LineageParent(v, s) == IF s \in DocSlots(v) THEN ParentOf(s, v.gen[s]) ELSE 0
resolve_parents(v, view, ids) ==
    LET slots == {s \in ToSet(ids) : /\ s <= PhysicalRows(v) /\ s \notin v.dead
                                     /\ view => s <= v.docs /\ Visible(s, v.gen[s])}
    IN  HitFacts(slots) \cup {<<"parent", s, LineageParent(v, s)>> : s \in slots}

WholeRoutes == {"search_shard", "browse_shard", "filter_bitmap", "lexical_bitmap", "vector_bitmap",
                "bm25_query", "aggregate", "quantile", "term_stats", "suggest", "legs"}
NamedRoutes == {"identities", "rows", "rescore", "exact", "bm25_rescore", "documents", "parents"}
(* The routes that check a claim when the request carries one. *)
Claiming == {"search_shard", "bm25_query", "aggregate", "quantile", "legs", "identities", "rows",
             "rescore", "exact", "bm25_rescore", "parents"}

OnceAnswer(v, route, view, ids) ==
    CASE route = "search_shard"   -> search_shard(v, view)
      [] route = "browse_shard"   -> browse_shard(v, view)
      [] route = "filter_bitmap"  -> resolve_filter_bitmap(v, view)
      [] route = "lexical_bitmap" -> resolve_lexical_bitmap(v, view)
      [] route = "vector_bitmap"  -> resolve_vector_bitmap(v, view)
      [] route = "bm25_query"     -> bm25_query(v, view)
      [] route = "aggregate"      -> aggregate_shard(v, view)
      [] route = "quantile"       -> quantile_counts_of(v, view)
      [] route = "term_stats"     -> term_stats(v, view)
      [] route = "suggest"        -> suggest_terms(v, view)
      [] route = "legs"           -> compute_legs(v, view)
      [] route = "identities"     -> fetch_identities(v, view, ids)
      [] route = "rows"           -> fetch_rows(v, view, ids)
      [] route = "rescore"        -> vector_rescore(v, view, ids)
      [] route = "exact"          -> exact_vector_rescore(v, view, ids)
      [] route = "bm25_rescore"   -> bm25_rescore(v, view, ids)
      [] route = "documents"      -> get_documents(v, ids)
      [] route = "parents"        -> resolve_parents(v, view, ids)

----------------------------------------------------------------------------
Now == sys.past[Len(sys.past)]
IdleRead == [route |-> "", view |-> FALSE, ids |-> <<>>, pinned |-> {}, at |-> "idle", since |-> 0,
             size |-> 0, map |-> {}, held |-> {}, facts |-> {}]

ReadsInit ==
    sys = [part |-> "reads", writes |-> 0, cache |-> {},
           past |-> <<[inc |-> 1, epoch |-> EpochLimit - 1, docs |-> 2, vectors |-> 2,
                       gen |-> <<0, 0, 0>>, dead |-> {}]>>,
           read |-> [r \in Readers |-> IdleRead]]

(* advance_stats_epoch: past the last epoch a new incarnation begins. *)
Incarnations == {sys.past[i].inc : i \in DOMAIN sys.past}
Advance(v) == IF v.epoch < EpochLimit THEN [v EXCEPT !.epoch = @ + 1]
              ELSE [v EXCEPT !.inc = Max(Incarnations) + 1, !.epoch = 1]
Write(v) == /\ sys.writes < MaxShardWrites
            /\ sys' = [sys EXCEPT !.writes = @ + 1, !.past = Append(@, Advance(v))]

IngestDocument == At("reads") /\ Now.docs < 3 /\ Write([Now EXCEPT !.docs = @ + 1])
IngestVector == At("reads") /\ Now.vectors < 3 /\ Write([Now EXCEPT !.vectors = @ + 1])
DeleteSlot == At("reads") /\ \E s \in (WrittenSlots \cap DocSlots(Now)) \ Now.dead : Write([Now EXCEPT !.dead = @ \cup {s}])
(* A generation of the same size with other documents in the same slots. *)
AdoptGeneration ==
    At("reads") /\ \E s \in WrittenSlots \cap DocSlots(Now) : Now.gen[s] = 0 /\ Write([Now EXCEPT !.gen[s] = 1, !.dead = {}])
(* A restart: a new incarnation, and what was in memory is gone. *)
ReopenShard ==
    /\ At("reads") /\ sys.writes < MaxShardWrites
    /\ sys' = [sys EXCEPT !.writes = @ + 1, !.cache = {},
                          !.past = Append(@, [Now EXCEPT !.inc = Max(Incarnations) + 1, !.epoch = 1]),
                          !.read = [r \in Readers |-> IdleRead]]

----------------------------------------------------------------------------
Put(r, read) == sys' = [sys EXCEPT !.read[r] = read]
Met(pinned) == \A c \in pinned : c = Claim(Now)
Reading(r, at) == sys.read[r].at = at
Answer(r, facts) == [sys.read[r] EXCEPT !.at = "done", !.facts = facts, !.map = {}, !.size = 0]

(* A route that takes the lock once: it answers, or a claim it was given is  *)
(* no longer the shard's and it refuses.  It shares nothing with the others, *)
(* so it is taken alone.                                                     *)
ReadOnce(r) ==
    /\ At("reads") /\ r \in FreeReaders /\ sys.cache = {} /\ \A q \in Readers : Reading(q, "idle")
    /\ \E route \in WholeRoutes \cup NamedRoutes, view \in BOOLEAN,
          ids \in AskedIds, i \in DOMAIN sys.past :
         LET pinned == IF route \in Claiming THEN {Claim(sys.past[i])} ELSE {}
             asked == IF route \in NamedRoutes THEN ids ELSE <<>>
             scoped == view /\ route # "documents"
         IN  /\ i < Len(sys.past) => i = Len(sys.past) - 1
             /\ IF Met(pinned)
                  THEN Put(r, [IdleRead EXCEPT !.route = route, !.view = scoped, !.ids = asked,
                                 !.pinned = pinned, !.since = Len(sys.past), !.at = "done",
                                 !.facts = OnceAnswer(Now, route, scoped, asked)])
                  ELSE UNCHANGED sys

(* The routes of several locks; those without the shared map are taken alone *)
(* too.                                                                      *)
SharingRoutes == {"", "collapsed", "stream_collapsed"}
StartRead(r) ==
    /\ At("reads") /\ Reading(r, "idle") /\ \A q \in Readers : sys.read[q].route \in SharingRoutes
    /\ \E route \in IF r \in FreeReaders THEN {"collapsed", "stream_collapsed", "coalesced", "stream"} ELSE {"collapsed"},
          view, pins \in BOOLEAN :
      /\ (view \/ pins) => r \in FreeReaders
      /\ route \notin SharingRoutes => \A q \in Readers : Reading(q, "idle")
      /\ Put(r, [IdleRead EXCEPT !.route = route, !.view = view, !.since = Len(sys.past),
                   !.pinned = IF pins THEN {Claim(Now)} ELSE {},
                   !.at = CASE route = "coalesced" -> "queued"
                            [] route = "stream"    -> "scan"
                            [] OTHER               -> "size"])

MeasureIndex(r) ==
    /\ At("reads") /\ Reading(r, "size")
    /\ Put(r, [sys.read[r] EXCEPT !.size = Now.vectors, !.at = "parents"])

(* parent_map: the shared map when it is of this claim and size, and         *)
(* otherwise one built under the lock.                                       *)
parent_map(r) ==
    /\ At("reads") /\ Reading(r, "parents")
    /\ LET n == sys.read[r].size
           hit == {m \in sys.cache : m.claim = Claim(Now) /\ Len(m.rows) = n}
           built == [claim |-> Claim(Now), rows |-> [s \in 1..n |-> LineageParent(Now, s)]]
       IN  Put(r, [sys.read[r] EXCEPT !.map = IF hit # {} THEN hit ELSE {built},
                                      !.at = IF hit # {} THEN "scan" ELSE "publish"])

publish_parent_map(r) ==
    /\ At("reads") /\ Reading(r, "publish")
    /\ IF \A m \in sys.read[r].map : m.claim = Claim(Now)
         THEN sys' = [sys EXCEPT !.cache = sys.read[r].map, !.read[r].at = "scan"]
         ELSE Put(r, IdleRead)

(* The scan's own checks: the map is of this claim and of this size, and the *)
(* request's claim is met.                                                   *)
ScanAdmits_BySize(read) ==
    /\ \A m \in read.map : Len(m.rows) = Now.vectors
    /\ Met(read.pinned)
ScanAdmits(read) ==
    /\ \A m \in read.map : m.claim = Claim(Now) /\ Len(m.rows) = Now.vectors
    /\ Met(read.pinned)

(* A stream keeps the identities of the scan's rows for a later request.     *)
ScanUnderLock(r) ==
    /\ At("reads") /\ Reading(r, "scan")
    /\ LET read == sys.read[r]
           slots == vector_scan_filters(Now, read.view)
           parents == UNION {Parents(m.rows, slots) : m \in read.map}
       IN  IF ~ScanAdmits(read) THEN Put(r, IdleRead)
           ELSE IF read.route = "collapsed"
             THEN Put(r, Answer(r, HitFacts(slots) \cup Identities(Now, slots) \cup parents))
             ELSE Put(r, [read EXCEPT !.at = "identities", !.facts = HitFacts(slots) \cup parents,
                                      !.held = {Identities(Now, slots)}, !.map = {}, !.size = 0])

resolve_until(r) ==
    /\ At("reads") /\ Reading(r, "identities")
    /\ LET read == sys.read[r]
       IN  Put(r, [read EXCEPT !.at = "done", !.facts = @ \cup UNION read.held, !.held = {}])

(* run_scan_batch: every queued job under one lock; a job whose claim is not *)
(* met fails alone.                                                          *)
run_scan_batch ==
    /\ At("reads") /\ \E r \in Readers : Reading(r, "queued")
    /\ sys' = [sys EXCEPT !.read = [r \in Readers |->
                 IF ~Reading(r, "queued") THEN @[r]
                 ELSE IF ~Met(@[r].pinned) THEN IdleRead
                 ELSE Answer(r, search_shard(Now, @[r].view))]]

Deliver(r) == At("reads") /\ Reading(r, "done") /\ Put(r, IdleRead)

ReadsNext ==
    \/ IngestDocument \/ IngestVector \/ DeleteSlot \/ AdoptGeneration \/ ReopenShard \/ run_scan_batch
    \/ \E r \in Readers : \/ ReadOnce(r) \/ StartRead(r) \/ MeasureIndex(r) \/ parent_map(r)
                          \/ publish_parent_map(r) \/ ScanUnderLock(r) \/ resolve_until(r) \/ Deliver(r)

----------------------------------------------------------------------------
(* What a reader may see of a version, and what a route says of it. *)
Seen(v, view) == {s \in 1..PhysicalRows(v) : s \notin v.dead /\ (view => s <= v.docs /\ Visible(s, v.gen[s]))}
AnswersFrom(read, v) ==
    LET seen == Seen(v, read.view)
        named == IF read.route \in NamedRoutes THEN ToSet(read.ids) ELSE 1..PhysicalRows(v)
        vectorial == {"search_shard", "vector_bitmap", "rescore", "exact", "legs", "collapsed",
                      "coalesced", "stream", "stream_collapsed"}
        whole == {"identities", "parents"}
        lexical == {"lexical_bitmap", "bm25_query", "bm25_rescore"}
        domain == IF read.route \in vectorial THEN 1..v.vectors
                  ELSE IF read.route \in whole THEN 1..PhysicalRows(v) ELSE 1..v.docs
        slots == {s \in seen \cap domain \cap named : read.route \in lexical => HasTerm(s, v.gen[s])}
        told(kind) == {f \in read.facts : f[1] = kind}
        counting == {"aggregate", "quantile", "term_stats"}
        df == Cardinality({s \in seen \cap (1..v.docs) : HasTerm(s, v.gen[s])})
    IN  /\ {f[2] : f \in told("hit")} = IF read.route \in counting \cup {"suggest"} THEN {} ELSE slots
        /\ \A f \in told("doc") : f[2] \in slots /\ f[2] <= v.docs /\ f[3] = v.gen[f[2]]
        /\ \A f \in told("parent") : f[2] \in slots /\ f[3] = LineageParent(v, f[2])
        /\ \A f \in told("count") : f[3] = Cardinality(slots)
        /\ \A f \in told("lexical") : f[2] \in seen /\ HasTerm(f[2], v.gen[f[2]])
        /\ \A f \in told("df") :
             IF read.route = "term_stats" THEN f[3] = df
             ELSE \E t \in told("tombstoned") : f[3] >= df /\ f[3] <= df + t[3]

(* Every read answers from one version of the shard that was current while   *)
(* it ran, the one it was pinned to if it was: its hits, identities, parents *)
(* and counts are those of that version, deleted and invisible rows appear   *)
(* in none of them, and the routes agree on what is there.  No claim is ever *)
(* used for two versions.                                                    *)
ReadsAreOneVersion ==
    At("reads") =>
      /\ \A i, j \in DOMAIN sys.past : Claim(sys.past[i]) = Claim(sys.past[j]) => i = j
      /\ \A r \in Readers : Reading(r, "done") =>
           \E i \in DOMAIN sys.past : /\ i >= sys.read[r].since
                                      /\ \A c \in sys.read[r].pinned : c = Claim(sys.past[i])
                                      /\ AnswersFrom(sys.read[r], sys.past[i])
============================================================================
