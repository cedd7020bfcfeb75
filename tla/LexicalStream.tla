---------------------------- MODULE LexicalStream ---------------------------
(***************************************************************************)
(* A streamed BM25 query: the shards scan (BlockMax), publish their k-th   *)
(* best and every candidate that clears the floor; the coordinator folds   *)
(* the floors into one cell, ranks the candidates, sends the cell back to   *)
(* the shards, and joins the winners with the shards' own top-k when all    *)
(* have completed (node.rs bm25_query_stream, coordinator.rs               *)
(* stream_bm25_shard and bm25_query_round).                                *)
(***************************************************************************)
EXTENDS SystemState, BlockMax

CONSTANTS
  CANDIDATE_BATCH,   \* candidates a shard holds back before it sends them
  LexicalQueries     \* the queries: [shards, q, store, offset, breaks]

Shards == DOMAIN sys.store
GlobalId(s, doc) == sys.offset[s] + doc

(* What a shard's response carries: its heap, scores as single precision.  *)
Response(s, heap) ==
  {[id |-> GlobalId(s, e.doc), shard |-> s, score |-> F32(e.score)] : e \in heap}

(* Higher score first, then the lower vector id (cmp_hits).                *)
Before(a, b) == a.score > b.score \/ (a.score = b.score /\ a.id < b.id)

Leading(hits, k) == {h \in hits : Cardinality({o \in hits : Before(o, h)}) < k}

NodeStart(store, q) ==
  LET scan == ScanStart(store, q) IN
  [scan |-> scan, seen |-> NoFloor, published |-> NoFloor, cancelled |-> FALSE,
   count |-> 0, closed |-> FALSE,
   pending |-> {[doc |-> e.doc, score |-> F32(e.score)] : e \in scan.heap}]

StreamedInit ==
  \E query \in LexicalQueries :
    sys = [part |-> "lexical_stream", store |-> query.store, q |-> query.q,
           offset |-> query.offset, breaks |-> query.breaks,
           node |-> [s \in DOMAIN query.store |-> NodeStart(query.store[s], query.q[s])],
           up |-> [s \in DOMAIN query.store |-> << >>],
           cell |-> query.q[1].min, sent |-> [s \in DOMAIN query.store |-> query.q[1].min],
           heap |-> {}, received |-> [s \in DOMAIN query.store |-> 0],
           results |-> [s \in DOMAIN query.store |-> {}], completed |-> {}, answer |-> "none",
           winners |-> {}]

K == sys.q[1].k

-----------------------------------------------------------------------------
(* The shard.                                                              *)

Batched(node, emitted) == [node EXCEPT !.pending = @ \cup emitted]

(* Send what is held back once it fills a batch, or at the end.            *)
Flushed(node, all) ==
  IF node.pending # {} /\ (all \/ Cardinality(node.pending) >= CANDIDATE_BATCH)
  THEN [node |-> [node EXCEPT !.pending = {}, !.count = @ + Cardinality(node.pending)],
        sends |-> <<[kind |-> "batch", hits |-> node.pending]>>]
  ELSE [node |-> node, sends |-> << >>]

(* The hook publishes a seed above the last one it published, unless the    *)
(* debounce or a full channel holds it back.                               *)
Published(node, seeds, held) ==
  IF held \/ seeds = {} \/ \A v \in seeds : v <= node.published
  THEN [node |-> node, sends |-> << >>]
  ELSE [node |-> [node EXCEPT !.published = CHOOSE v \in seeds : TRUE],
        sends |-> <<[kind |-> "floor", floor |-> CHOOSE v \in seeds : TRUE]>>]

(* One turn of the scan: the floor exchange, then the step the bounds       *)
(* allow.                                                                  *)
Scan(s, held) ==
  LET node == sys.node[s]
      told == Published(node, OfferedSeed(sys.q[s], node.scan), held)
      adopted == Adopt(node.scan, IF node.cancelled THEN Cancelled ELSE node.seen)
  IN  /\ ~ node.scan.ended
      /\ held => OfferedSeed(sys.q[s], node.scan) # {}
      /\ \E turn \in {ScanTurn(sys.store[s], sys.q[s], adopted)} :
           LET out == Flushed(Batched([told.node EXCEPT !.scan = turn.scan], turn.emitted), FALSE)
           IN  sys' = [sys EXCEPT !.node[s] = out.node,
                                  !.up[s] = @ \o told.sends \o out.sends]

(* The scan is over: the rest of the candidates, then the completion.       *)
Complete(s) ==
  LET node == sys.node[s]
      out == Flushed(node, TRUE)
      end == [kind |-> "end", completed |-> ~ node.cancelled, count |-> out.node.count,
              hits |-> Response(s, node.scan.heap)]
  IN  /\ node.scan.ended /\ ~ node.closed
      /\ sys' = [sys EXCEPT !.node[s] = [out.node EXCEPT !.closed = TRUE],
                            !.up[s] = (@ \o out.sends) \o <<end>>]

-----------------------------------------------------------------------------
(* The coordinator.                                                        *)

(* A raise of the cell goes to the shard, which keeps the highest it has    *)
(* been sent.                                                              *)
ForwardFloor(s) ==
  /\ sys.answer = "none"
  /\ sys.cell > sys.sent[s]
  /\ ~ sys.node[s].scan.ended
  /\ sys' = [sys EXCEPT !.sent[s] = sys.cell, !.node[s].seen = MaxOf(@, sys.cell)]

Raise(cell, v) == IF v > cell THEN v ELSE cell

HeapSeed(heap, k) ==
  IF Cardinality(heap) < k \/ k = 0 THEN NoFloor
  ELSE floor_seed(Min({h.score : h \in heap}))

Fail(why) ==
  sys' = [sys EXCEPT !.answer = why,
                     !.node = [s \in Shards |-> [sys.node[s] EXCEPT !.cancelled = TRUE]],
                     !.up = [s \in Shards |-> << >>]]

Received(s) == [sys EXCEPT !.up[s] = Tail(@)]

TakeBatch(s, hits) ==
  LET heap == Leading(sys.heap \cup {[id |-> GlobalId(s, h.doc), shard |-> s,
                                      score |-> h.score] : h \in hits}, K)
  IN  sys' = [Received(s) EXCEPT !.heap = heap, !.received[s] = @ + Cardinality(hits),
                                 !.cell = Raise(@, HeapSeed(heap, K))]

TakeEnd(s, end) ==
  IF ~ end.completed THEN Fail("cancelled")
  ELSE IF end.count # sys.received[s] THEN Fail("data_loss: count")
  ELSE sys' = [Received(s) EXCEPT !.results[s] = end.hits, !.completed = @ \cup {s}]

Receive(s) ==
  /\ sys.answer = "none"
  /\ sys.up[s] # << >>
  /\ LET m == Head(sys.up[s]) IN
       \/ m.kind = "floor" /\ sys' = [Received(s) EXCEPT !.cell = Raise(@, m.floor)]
       \/ m.kind = "batch" /\ TakeBatch(s, m.hits)
       \/ m.kind = "end" /\ TakeEnd(s, m)

(* Every shard has completed: each winner must be in its shard's own top-k, *)
(* with the score it was streamed with.                                    *)
Answer ==
  LET certified == UNION {sys.results[s] : s \in Shards} IN
  /\ sys.answer = "none"
  /\ sys.completed = Shards
  /\ IF sys.heap \subseteq certified
     THEN sys' = [sys EXCEPT !.answer = "hits", !.winners = sys.heap]
     ELSE Fail("data_loss: winner")

(* A shard's stream breaks: the query fails and the other scans are told    *)
(* to stop.                                                                *)
Break ==
  /\ sys.breaks
  /\ sys.answer = "none"
  /\ Fail("unavailable")

StreamedNext ==
  /\ At("lexical_stream")
  /\ \/ \E s \in Shards, held \in BOOLEAN : Scan(s, held)
     \/ \E s \in Shards : Complete(s) \/ ForwardFloor(s) \/ Receive(s)
     \/ Answer
     \/ Break

-----------------------------------------------------------------------------
(* What the answer must be: the best k of every matching row of every       *)
(* shard, by the score as it is answered.                                  *)
Floor == IF sys.q[1].min = 0 THEN NoFloor ELSE sys.q[1].min

Rows(s) ==
  {[doc |-> d, score |-> Score(sys.store[s], sys.q[s], d)] :
     d \in Matched(sys.store[s], sys.q[s]) \cap sys.q[s].pass}

Candidates == UNION {Response(s, filter_to_floor(Rows(s), Floor)) : s \in Shards}

ExactAnswer == Leading(Candidates, K)

(* Above the last score the hits are the exact ones; at it, as many.       *)
ExactButForTies(hits) ==
  LET last == Min({h.score : h \in ExactAnswer} \cup {Cancelled})
      above(set) == {h \in set : h.score > last}
  IN  /\ hits \subseteq Candidates
      /\ Cardinality(hits) = Cardinality(ExactAnswer)
      /\ above(hits) = above(ExactAnswer)

(* Two rows of a shard that only double precision tells apart.             *)
TiedInSinglePrecision(s) ==
  \E a, b \in Rows(s) : a.score # b.score /\ F32(a.score) = F32(b.score)

(* No scan that ran to its end missed a row of the shard's own top-k that   *)
(* the floor it ended with lets through, whatever blocks and groups it      *)
(* skipped and whenever the floor rose.                                    *)
ScansAreExact ==
  \A s \in Shards :
    LET node == sys.node[s] IN
    node.scan.ended /\ ~ node.cancelled
      => filter_to_floor(node.scan.heap, node.scan.floor)
           = filter_to_floor(Best(Rows(s), sys.q[s].k), node.scan.floor)

NothingScanned ==
  \A s \in Shards : /\ sys.up[s] = << >> /\ sys.node[s].count = 0
                     /\ sys.node[s].scan.heap = {} /\ sys.node[s].seen = NoFloor

(* The cursor walk over given rows finds every score the postings hold.     *)
WalksAgree ==
  \A s \in Shards :
    LET store == sys.store[s]
        plain == [sys.q[s] EXCEPT !.chain = << >>]
    IN  \A candidates \in {<<0, 2, 3>>, <<1, store.rows - 1>>, <<store.rows - 2>>} :
          score_candidates_plain(store, plain, candidates)
            = [d \in ToSet(candidates) |-> Score(store, plain, d)]

(* A streamed BM25 query answers the exact top k, however floors and        *)
(* candidates cross; it refuses only when single precision hid the order    *)
(* of two rows, or its stream broke; and the pruned scans it rests on lose  *)
(* no row (bm25.rs top_k_pruned_chained_filtered_stats_streaming,           *)
(* coordinator.rs bm25_query_round).                                       *)
LexicalStreamIsExact ==
  At("lexical_stream") =>
    /\ sys.answer = "hits" =>
         IF \E s \in Shards : TiedInSinglePrecision(s)
         THEN ExactButForTies(sys.winners)
         ELSE sys.winners = ExactAnswer
    /\ sys.answer \notin {"cancelled", "data_loss: count"}
    /\ sys.answer = "data_loss: winner" => \E s \in Shards : TiedInSinglePrecision(s)
    /\ ScansAreExact
    /\ NothingScanned => WalksAgree

(* Every global winner is in its shard's own top-k (bm25.rs, CandidateHook: *)
(* the local scorer retains the same frontier).                            *)
WinnersAreCertified == At("lexical_stream") => sys.answer # "data_loss: winner"
=============================================================================
