------------------------------- MODULE Relay -------------------------------
(* A relay coordinator: it stands as one node for the children its shard    *)
(* map names.  The map arrives from a feed while requests are in flight, a  *)
(* statistics token stands for one version of every child, and a stream is  *)
(* completed only when every child completed its own.                       *)
EXTENDS Integers, Sequences, FiniteSets, FiniteSetsExt, SequencesExt, Functions, SystemState
CONSTANTS RelayMaps,       \* the children, in route order, of every map revision
          RelayChildren,   \* the nodes below the relay
          RetainedTokens,  \* RETAINED_TOKENS
          MaxChanges,      \* bound: changes of the children's versions
          MaxLives,        \* bound: starts of the relay
          MaxAsks,         \* bound: requests
          RelayScripts     \* what one child sends on a stream

Absent == [none |-> TRUE]

----------------------------------------------------------------------------
(* Map feed and statistics tokens *)

RelayInit ==
  sys = [part |-> "relay",
         published |-> 1, signal |-> FALSE, map |-> 1,
         version |-> [c \in RelayChildren |-> [life |-> 1, epoch |-> 1]],
         life |-> 1,                   \* stats_incarnation: drawn anew by every start
         incarnation |-> 1,            \* of the registry: the clock, which may repeat
         counter |-> 0, registry |-> <<>>,
         issued |-> {},                \* the tokens callers hold
         asks |-> 0, changes |-> 0,
         asked |-> Absent, answer |-> Absent]

(* published_map: an applied revision, announced by the watch. *)
PublishMap ==
  /\ At("relay") /\ sys.published < Len(RelayMaps)
  /\ sys' = [sys EXCEPT !.published = @ + 1, !.signal = TRUE]

(* The consumer takes a newer frame only. *)
offer(held, frame) == IF frame > held THEN frame ELSE held

(* The follower task: one signal stands for every revision up to now. *)
refresh ==
  /\ At("relay") /\ sys.signal
  /\ sys' = [sys EXCEPT !.signal = FALSE, !.map = offer(@, sys.published)]

(* A child's rows change, or its process starts again. *)
ChildChanges(c) ==
  /\ At("relay") /\ sys.changes < MaxChanges
  /\ LET changed == [sys EXCEPT !.changes = @ + 1]
     IN \/ sys' = [changed EXCEPT !.version[c].epoch = @ + 1]
        \/ sys' = [changed EXCEPT !.version[c] = [life |-> @.life + 1, epoch |-> 1]]

(* with_map: nothing of a registry outlives its process. *)
RelayRestarts ==
  /\ At("relay") /\ sys.life < MaxLives
  /\ \E incarnation \in {sys.incarnation, sys.incarnation + 1} :
       sys' = [sys EXCEPT !.life = @ + 1, !.incarnation = incarnation, !.counter = 0,
                          !.registry = <<>>, !.asked = Absent,
                          !.map = sys.published, !.signal = FALSE]

(* The tuple a retained token names; none once it was evicted. *)
lookup(registry, token) ==
  LET at == {i \in DOMAIN registry : registry[i].token = token}
  IN IF at = {} THEN Absent ELSE registry[CHOOSE i \in at : \A j \in at : j <= i].tuple

(* The read routes: may the caller claim a version, are ids routed by the   *)
(* children's slot ranges, and does the answer carry a receipt.             *)
Route(claims, ranges, receipt) == [claims |-> claims, ranges |-> ranges, receipt |-> receipt]
term_stats == Route(FALSE, FALSE, TRUE)
bm25_query == Route(TRUE, FALSE, FALSE)
bm25_phrase_query == Route(TRUE, FALSE, FALSE)
get_documents == Route(FALSE, TRUE, FALSE)
resolve_parents == Route(TRUE, TRUE, TRUE)
bm25_rescore == Route(TRUE, TRUE, TRUE)
fetch_values == Route(TRUE, TRUE, TRUE)
vector_rescore == Route(TRUE, TRUE, TRUE)
exact_vector_rescore == Route(TRUE, TRUE, TRUE)
aggregate_shard == Route(TRUE, FALSE, TRUE)
quantile_counts == Route(TRUE, FALSE, TRUE)
browse_shard == Route(TRUE, FALSE, TRUE)
evaluate_boolean == Route(TRUE, FALSE, TRUE)
shard_legs == Route(TRUE, FALSE, TRUE)
resolve_filter_bitmap == Route(FALSE, TRUE, TRUE)
resolve_lexical_bitmap == Route(FALSE, TRUE, TRUE)
resolve_vector_bitmap == Route(FALSE, TRUE, TRUE)
expand_term_prefix == Route(FALSE, FALSE, FALSE)
suggest_terms == Route(FALSE, FALSE, FALSE)
get_vector_backend == Route(FALSE, FALSE, FALSE)
health == Route(FALSE, TRUE, FALSE)

Routes == {term_stats, bm25_query, bm25_phrase_query, get_documents, resolve_parents,
           bm25_rescore, fetch_values, vector_rescore, exact_vector_rescore, aggregate_shard,
           quantile_counts, browse_shard, evaluate_boolean, shard_legs, resolve_filter_bitmap,
           resolve_lexical_bitmap, resolve_vector_bitmap, expand_term_prefix, suggest_terms,
           get_vector_backend, health}

(* pin: the request is answered from this map, whatever the feed brings.    *)
pin(route, claimed) ==
  /\ At("relay") /\ sys.asked = Absent /\ sys.asks < MaxAsks
  /\ claimed # Absent => route.claims
  /\ sys' = [sys EXCEPT !.asks = @ + 1, !.answer = Absent, !.asked =
               [route |-> route, claimed |-> claimed, map |-> sys.map, stage |-> "claims",
                claims |-> <<>>, shares |-> [i \in DOMAIN RelayMaps[sys.map] |-> Absent]]]

(* A token of an earlier process is taken for one of this process. *)
check_AnyLife(claimed) == TRUE

(* StatsIncarnation::check *)
check(claimed) == claimed.life = sys.life

(* token_tuple: retained, and issued under the map that is current now. *)
TokenHolds(claimed) ==
  LET tuple == lookup(sys.registry, claimed.token)
  IN check(claimed) /\ tuple # Absent /\ tuple.map = sys.map

(* child_claims: no token claims nothing of any child. *)
child_claims ==
  /\ At("relay") /\ sys.asked # Absent /\ sys.asked.stage = "claims"
  /\ LET claimed == sys.asked.claimed
         n == Len(RelayMaps[sys.asked.map])
         claims == IF claimed = Absent THEN [i \in 1 .. n |-> Absent]
                   ELSE lookup(sys.registry, claimed.token).epochs
     IN sys' = IF /\ claimed # Absent => TokenHolds(claimed)
                  /\ Len(claims) = n
               THEN [sys EXCEPT !.asked.stage = IF sys.asked.route.ranges THEN "ranges" ELSE "fan",
                                !.asked.claims = claims]
               ELSE [sys EXCEPT !.asked = Absent]

(* children_health: a round of its own, before the ids are routed. *)
children_health ==
  /\ At("relay") /\ sys.asked # Absent /\ sys.asked.stage = "ranges"
  /\ sys' = [sys EXCEPT !.asked.stage = "fan"]

(* fan_out: a child answers from one version of itself, or refuses the      *)
(* claim, which ends the request.                                           *)
ChildShare ==
  /\ At("relay") /\ sys.asked # Absent /\ sys.asked.stage = "fan"
  /\ \E i \in DOMAIN sys.asked.shares :
       /\ sys.asked.shares[i] = Absent
       /\ LET version == sys.version[RelayMaps[sys.asked.map][i]]
          IN sys' = IF sys.asked.claims[i] \in {Absent, version}
                    THEN [sys EXCEPT !.asked.shares[i] = version]
                    ELSE [sys EXCEPT !.asked = Absent]

(* Every tuple gets a number of its own; an equal one keeps its number and  *)
(* becomes the newest, and the oldest is forgotten past the bound.          *)
allocate(tuple) ==
  LET at == {i \in DOMAIN sys.registry : sys.registry[i].tuple = tuple}
      entry == IF at # {} THEN sys.registry[CHOOSE i \in at : TRUE]
               ELSE [token |-> <<sys.incarnation, sys.counter + 1>>, tuple |-> tuple]
      longer == Append(SelectSeq(sys.registry, LAMBDA e : e # entry), entry)
      drop == IF Len(longer) > RetainedTokens THEN Len(longer) - RetainedTokens ELSE 0
  IN [token |-> entry.token, counter |-> IF at = {} THEN sys.counter + 1 ELSE sys.counter,
      registry |-> SubSeq(longer, drop + 1, Len(longer))]

still_current(asked) == asked.map = sys.map

(* read_receipt: every child's share, of the version that was claimed,      *)
(* under the map that was pinned; a route without a receipt still refuses   *)
(* a map that moved.                                                        *)
read_receipt ==
  /\ At("relay") /\ sys.asked # Absent /\ sys.asked.stage = "fan"
  /\ \A i \in DOMAIN sys.asked.shares : sys.asked.shares[i] # Absent
  /\ LET asked == sys.asked
         tuple == [map |-> asked.map, children |-> RelayMaps[asked.map], epochs |-> asked.shares]
         receipt == allocate(tuple)
         answered == [sys EXCEPT !.asked = Absent,
                                 !.answer = [claimed |-> asked.claimed, tuple |-> tuple]]
     IN sys' = IF ~still_current(asked) THEN [sys EXCEPT !.asked = Absent]
               ELSE IF ~asked.route.receipt THEN answered
               ELSE [answered EXCEPT
                      !.counter = receipt.counter, !.registry = receipt.registry,
                      !.issued = @ \cup {[token |-> receipt.token, life |-> sys.life,
                                          tuple |-> tuple]}]

RelayNext ==
  \/ PublishMap \/ refresh \/ RelayRestarts
  \/ \E c \in RelayChildren : ChildChanges(c)
  \/ At("relay") /\ \E route \in Routes, claimed \in sys.issued \cup {Absent} : pin(route, claimed)
  \/ child_claims \/ children_health \/ ChildShare \/ read_receipt

(* An answer given under a token was read from exactly the versions of the  *)
(* children that the token stood for when it was issued, in spite of        *)
(* evictions, map changes and restarts that repeat the registry's numbers   *)
(* (token_tuple, child_claims, read_receipt); a token of one process names  *)
(* one tuple; and with no change announced the relay holds the last         *)
(* published map.                                                           *)
RelayServesOneVersion == At("relay") =>
  /\ sys.answer # Absent /\ sys.answer.claimed # Absent =>
       sys.answer.tuple = sys.answer.claimed.tuple
  /\ \A a, b \in sys.issued : a.token = b.token /\ a.life = b.life => a.tuple = b.tuple
  /\ ~sys.signal => sys.map = sys.published

----------------------------------------------------------------------------
(* Streams: "vector" (relay_stream), "identity" (relay_stream with identity *)
(* limits), "bm25" (relay_bm25_stream) and "shard" (relay_shard_search,     *)
(* whose batches are floors and whose Done is always complete).  A child's script is how many    *)
(* batches it sends and how it ends: complete, complete under another       *)
(* fingerprint, complete with a wrong count, stopped, or lost without an    *)
(* end.                                                                     *)

Legs == 1 .. 2

RelayStreamInit == \E mode \in {"vector", "identity", "bm25", "shard"}, script \in [Legs -> RelayScripts] :
  /\ mode = "shard" => \A c \in Legs : script[c].ends \in {"complete", "lost"}
  /\ sys = [part |-> "relaystream", mode |-> mode, script |-> script,
            forwarded |-> [c \in Legs |-> 0], ended |-> {}, fingerprint |-> "",
            stop |-> FALSE, late |-> FALSE, moved |-> FALSE, closed |-> FALSE,
            selected |-> "no", ready |-> FALSE, final |-> "open"]

StreamOpen == At("relaystream") /\ sys.final = "open"

(* The parent stops the stream, its deadline passes, it goes away, or the   *)
(* map moves.                                                               *)
StreamDisturbed ==
  /\ StreamOpen
  /\ \/ sys.mode # "shard" /\ sys' = [sys EXCEPT !.stop = TRUE]
     \/ sys' = [sys EXCEPT !.late = TRUE]
     \/ sys' = [sys EXCEPT !.moved = TRUE]
     \/ sys' = [sys EXCEPT !.closed = TRUE]

(* The request pump: a selection before IdentityReady cancels the stream. *)
ParentSelects ==
  /\ StreamOpen /\ sys.mode \in {"vector", "identity"} /\ sys.selected = "no"
  /\ sys' = IF sys.mode = "identity" /\ sys.ready
            THEN [sys EXCEPT !.selected = "yes"]
            ELSE [sys EXCEPT !.selected = "early", !.stop = TRUE]

(* The order of the biased select: a stop outranks the rest on a vector     *)
(* stream, and yields to them on a BM25 stream.                             *)
Interrupted == sys.stop \/ sys.late \/ sys.moved
Waiting == sys.ended # Legs \/ sys.mode = "identity"

RelayStreamEnds ==
  /\ StreamOpen
  /\ \/ /\ sys.closed \/ (Waiting /\ (sys.late \/ (sys.moved /\ ~(sys.stop /\ sys.mode # "bm25"))))
        /\ sys' = [sys EXCEPT !.final = "error"]
     \/ /\ Waiting /\ sys.stop /\ (sys.mode = "bm25" => ~sys.late /\ ~sys.moved)
        /\ sys' = [sys EXCEPT !.final = "incomplete"]

FingerprintOf(c) == IF sys.script[c].ends = "foreign" THEN "g" ELSE "f"

(* A child's last message: a lost end, another fingerprint and, on a vector *)
(* stream, an unfinished scan fail the whole stream.                        *)
ChildEnd(c) ==
  IF \/ sys.script[c].ends = "lost"
     \/ (sys.script[c].ends = "stopped" /\ sys.mode # "bm25")
     \/ sys.fingerprint \notin {"", FingerprintOf(c)}
  THEN [sys EXCEPT !.final = "error"]
  ELSE [sys EXCEPT !.ended = @ \cup {c}, !.fingerprint = FingerprintOf(c)]

(* next_message: batches are passed on as they arrive. *)
ChildMessage(c) ==
  /\ StreamOpen /\ ~Interrupted /\ c \notin sys.ended
  /\ sys' = IF sys.forwarded[c] < sys.script[c].batches
            THEN [sys EXCEPT !.forwarded[c] = @ + 1]
            ELSE ChildEnd(c)

(* After the last child: a BM25 stream checks the map and the certified     *)
(* counts once more, an identity stream first offers and resolves the       *)
(* selection.                                                               *)
relay_stream ==
  /\ StreamOpen /\ sys.ended = Legs /\ sys.mode = "vector"
  /\ sys' = [sys EXCEPT !.final = "complete"]

IdentityExchange ==
  /\ StreamOpen /\ sys.ended = Legs /\ sys.mode = "identity"
  /\ \/ ~sys.ready /\ sys' = [sys EXCEPT !.ready = TRUE]
     \/ /\ sys.ready /\ sys.selected = "yes"
        /\ sys' = [sys EXCEPT !.final = "complete"]

relay_bm25_stream ==
  /\ StreamOpen /\ sys.ended = Legs /\ sys.mode = "bm25"
  /\ sys' = [sys EXCEPT !.final =
       IF sys.moved \/ \E c \in Legs : sys.script[c].ends = "miscounted" THEN "error"
       ELSE IF \E c \in Legs : sys.script[c].ends = "stopped" THEN "incomplete"
       ELSE "complete"]

relay_shard_search ==
  /\ StreamOpen /\ sys.ended = Legs /\ sys.mode = "shard"
  /\ sys' = [sys EXCEPT !.final = IF sys.moved THEN "error" ELSE "complete"]

RelayStreamNext ==
  \/ StreamDisturbed \/ ParentSelects \/ RelayStreamEnds
  \/ \E c \in Legs : ChildMessage(c)
  \/ relay_stream \/ IdentityExchange \/ relay_bm25_stream \/ relay_shard_search

(* A relay certifies a stream as complete only after it has passed on every *)
(* batch of every child, each child has certified its own scan under one    *)
(* scoring fingerprint, a BM25 stream's counts agree, the map has not moved *)
(* at the end of a BM25 or shard stream,                                   *)
(* and an identity stream's selection came after its readiness.             *)
RelayCertifiesWhole == At("relaystream") /\ sys.final = "complete" =>
  /\ \A c \in Legs : /\ sys.forwarded[c] = sys.script[c].batches
                     /\ sys.script[c].ends \notin {"lost", "stopped"}
                     /\ FingerprintOf(c) = FingerprintOf(1)
  /\ sys.mode \in {"bm25", "shard"} => ~sys.moved
  /\ sys.mode = "bm25" => \A c \in Legs : sys.script[c].ends # "miscounted"
  /\ sys.mode = "identity" => sys.selected = "yes"

(* What a relay says of its children, in an answer under a token or in a    *)
(* certificate at the end of a stream, is what they said (read_receipt,     *)
(* relay_stream, relay_bm25_stream).                                        *)
RelaySpeaksForItsChildren == RelayServesOneVersion /\ RelayCertifiesWhole

----------------------------------------------------------------------------
(* What a relay makes of its children's answers.  A node answers for the    *)
(* rows of its slot range; a relay over contiguous children answers for     *)
(* their union, so its answer must be the one a single node holding all the *)
(* rows would give, at any depth of relays.  Every merge is translated as   *)
(* it is computed, from the shares alone.                                   *)
CONSTANTS RelayRows,    \* row contents: [live, score, terms, group]
          RowCount,     \* slots of the collection
          Depths,       \* depth, k, cap, max_groups and max_scan of a request
          Selections    \* ids a caller asks for, in its order

RelayMergeInit ==
  \E rows \in [1 .. RowCount -> RelayRows], depth \in Depths,
     cuts \in {c \in (0 .. RowCount) \X (0 .. RowCount) : c[1] <= c[2]} :
    sys = [part |-> "relaymerge", rows |-> rows, depth |-> depth, cuts |-> cuts,
           merged |-> FALSE]

----------------------------------------------------------------------------
(* The answer of one node for the slots lo + 1 .. hi *)

Better(rows, a, b) == \/ rows[a].score > rows[b].score
                      \/ rows[a].score = rows[b].score /\ a < b
Ranked(rows, ids) == SetToSortSeq(ids, LAMBDA a, b : Better(rows, a, b))
Truncated(s, k) == SubSeq(s, 1, IF Len(s) < k THEN Len(s) ELSE k)
LiveIds(rows, lo, hi) == {i \in lo + 1 .. hi : rows[i].live}
TermsOf(rows, ids) == UNION {rows[i].terms : i \in ids}
Frequency(rows, ids) == [t \in TermsOf(rows, ids) |-> Cardinality({i \in ids : t \in rows[i].terms})]

(* A list past its bound is answered by its length alone. *)
Bounded(list, bound) ==
  [count |-> Cardinality(DOMAIN list), list |-> IF Cardinality(DOMAIN list) > bound THEN <<>> ELSE list]
GroupsOf(rows, ids) == {rows[i].group : i \in ids}
Counts(rows, ids) == [g \in GroupsOf(rows, ids) |-> Cardinality({i \in ids : rows[i].group = g})]

(* More groups than max_groups refuse the request. *)
WithinGroups(counts, bound) ==
  IF Cardinality(DOMAIN counts) > bound THEN [ok |-> FALSE] ELSE [ok |-> TRUE, counts |-> counts]

NodeAnswer(rows, lo, hi, depth) ==
  LET ids == LiveIds(rows, lo, hi)
  IN [offset |-> lo, span |-> hi - lo,
      candidates |-> Truncated(Ranked(rows, ids), depth),
      matched |-> Cardinality(ids),
      page |-> Truncated(SetToSortSeq(ids, <), depth),
      terms |-> Bounded(Frequency(rows, ids), depth),
      groups |-> WithinGroups(Counts(rows, ids), depth),
      bits |-> {i - lo - 1 : i \in ids}]

----------------------------------------------------------------------------
(* The merges of a relay; shares are in child order *)

Sums(shares) == FoldSeq(LAMBDA s, total : s + total, 0, shares)
Each(shares, F(_)) == [i \in DOMAIN shares |-> F(shares[i])]
Joined(f, g) == [x \in DOMAIN f \cup DOMAIN g |->
                   (IF x \in DOMAIN f THEN f[x] ELSE 0) + (IF x \in DOMAIN g THEN g[x] ELSE 0)]

(* Children are answered for in slot order, with neither gap nor overlap;   *)
(* children that start at the same slot stay in route order, so an empty    *)
(* one that follows the others is refused.                                  *)
merge_health(shares) ==
  LET at == SetToSortSeq(DOMAIN shares, LAMBDA i, j :
              \/ shares[i].offset < shares[j].offset
              \/ shares[i].offset = shares[j].offset /\ i < j)
      order == [i \in DOMAIN at |-> shares[at[i]]]
  IN [ok |-> \A i \in 1 .. Len(order) - 1 :
               order[i].offset + order[i].span = order[i + 1].offset,
      offset |-> order[1].offset,
      span |-> Sums(Each(shares, LAMBDA s : s.span))]

(* merge_boolean_responses, merge_bm25_responses: the candidates of all,    *)
(* by score and then id, down to the depth.                                 *)
merge_candidates(rows, shares, depth) ==
  Truncated(SortSeq(FlattenSeq(Each(shares, LAMBDA s : s.candidates)),
                    LAMBDA a, b : Better(rows, a, b)), depth)

merge_browse_pages(shares, depth) ==
  Truncated(SortSeq(FlattenSeq(Each(shares, LAMBDA s : s.page)), <), depth)

(* merge_prefix_expansions, merge_suggest_terms: a child past the bound     *)
(* stands for a union past it.                                              *)
merge_suggest_terms(shares, bound) ==
  LET past == {shares[i].terms.count : i \in {j \in DOMAIN shares : shares[j].terms.count > bound}}
  IN IF past # {} THEN [count |-> Max(past), list |-> <<>>]
     ELSE Bounded(FoldSeq(LAMBDA s, union : Joined(s.terms.list, union), <<>>, shares), bound)

(* merge_aggregate_shares: the bound on groups holds for the union. *)
merge_aggregate_shares(shares, bound) ==
  IF \E i \in DOMAIN shares : ~shares[i].groups.ok THEN [ok |-> FALSE]
  ELSE WithinGroups(FoldSeq(LAMBDA s, union : Joined(s.groups.counts, union), <<>>, shares), bound)

(* concat_bitmaps: labels are relative to the lowest child. *)
concat_bitmaps(shares) ==
  LET base == Min({shares[i].offset : i \in DOMAIN shares})
  IN UNION {{shares[i].offset - base + bit : bit \in shares[i].bits} : i \in DOMAIN shares}

RelayAnswer(rows, shares, depth) ==
  LET whole == merge_health(shares)
  IN [offset |-> whole.offset, span |-> whole.span,
      candidates |-> merge_candidates(rows, shares, depth),
      matched |-> Sums(Each(shares, LAMBDA s : s.matched)),
      page |-> merge_browse_pages(shares, depth),
      terms |-> merge_suggest_terms(shares, depth),
      groups |-> merge_aggregate_shares(shares, depth),
      bits |-> concat_bitmaps(shares)]

----------------------------------------------------------------------------
(* Routes by id: every id goes to the child whose range holds it, and the   *)
(* rows come back in the caller's order, one for every time it asked.       *)

child_of_id(ranges, id) ==
  {c \in DOMAIN ranges : id > ranges[c].offset /\ id <= ranges[c].offset + ranges[c].span}
route_ids(ranges, ids, c) == SelectSeq(ids, LAMBDA id : c \in child_of_id(ranges, id))

in_caller_order(ids, items) ==
  LET asked(i) == Cardinality({j \in 1 .. i : ids[j] = ids[i]})
      found(id) == Cardinality({j \in DOMAIN items : items[j] = id})
      kept == SelectSeq([i \in DOMAIN ids |-> i], LAMBDA i : asked(i) <= found(ids[i]))
  IN [i \in DOMAIN kept |-> ids[kept[i]]]

Fetched(rows, ranges, ids) ==
  in_caller_order(ids, FlattenSeq([c \in DOMAIN ranges |->
    SelectSeq(route_ids(ranges, ids, c), LAMBDA id : rows[id].live)]))

(* One answer of a relay over a relay of two children, and a third child.   *)
RelayMerges ==
  /\ At("relaymerge") /\ ~sys.merged
  /\ LET share(lo, hi) == NodeAnswer(sys.rows, lo, hi, sys.depth)
         a == share(0, sys.cuts[1])
         b == share(sys.cuts[1], sys.cuts[2])
         c == share(sys.cuts[2], RowCount)
         inner == RelayAnswer(sys.rows, <<b, a>>, sys.depth)
     IN sys' = [sys EXCEPT !.merged = TRUE] @@
               [answer |->
                  [tree |-> RelayAnswer(sys.rows, <<inner, c>>, sys.depth),
                   contiguous |-> merge_health(<<b, a>>).ok /\ merge_health(<<inner, c>>).ok,
                   rows |-> [s \in Selections |-> Fetched(sys.rows, <<inner, c>>, s)]]]

(* The answer of a tree of relays is the answer of one node holding all the *)
(* rows: the same candidates, page, counts, groups and membership bits; a   *)
(* list past its bound is past it at every level; and rows fetched by id    *)
(* come back once for every time the caller named them, in its order.       *)
RelayIsTransparent == At("relaymerge") /\ sys.merged =>
  LET flat == NodeAnswer(sys.rows, 0, RowCount, sys.depth)
      tree == sys.answer.tree
  IN /\ [tree EXCEPT !.terms = 0] = [flat EXCEPT !.terms = 0]
     /\ sys.cuts[1] \in 1 .. sys.cuts[2] - 1 => sys.answer.contiguous
     /\ tree.terms.list = flat.terms.list
     /\ tree.terms.count > sys.depth <=> flat.terms.count > sys.depth
     /\ \A s \in Selections : sys.answer.rows[s] = SelectSeq(s, LAMBDA id : sys.rows[id].live)
=============================================================================
