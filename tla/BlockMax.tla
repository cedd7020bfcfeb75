------------------------------ MODULE BlockMax ------------------------------
(***************************************************************************)
(* The block-max BM25 scorer of one shard: the impact skip runs of a term  *)
(* (postings.rs), the cursor that walks them across the shard's sealed     *)
(* parts, the score chain and its bound (scorefn.rs), and the pruned       *)
(* top-k scan with its floor seeding (bm25.rs), next to the exhaustive     *)
(* scorer it must agree with.                                              *)
(*                                                                         *)
(* Scores are integers.  tf_norm is an integer function with the one       *)
(* property the code's proof rests on, non-decreasing in tf and            *)
(* non-increasing in the document length.  A single-precision score is a   *)
(* multiple of Ulp: F32 rounds to the nearest.                             *)
(***************************************************************************)
EXTENDS Integers, Sequences, SequencesExt, FiniteSets, FiniteSetsExt

CONSTANTS
  BLOCK,          \* postings per level-0 block (128 in the code)
  LEVEL1_FACTOR,  \* level-0 blocks per level-1 group (32 in the code)
  MAX_FRONTIER    \* impact pairs a record keeps (8 in the code)

NoFloor == -1000        \* f64::NEG_INFINITY
Cancelled == 1000       \* f32::INFINITY, what the hook of a cancelled scan says
NoDoc == 1000           \* u32::MAX, the doc id of an exhausted cursor
Ulp == 3

F32(score) == Ulp * ((score + 1) \div Ulp)

(* One ULP below a positive single-precision score, nothing otherwise.     *)
floor_seed(kth) == IF kth > 0 THEN kth - Ulp ELSE 0

Sum(f) == FoldSet(LAMBDA i, acc : acc + f[i], 0, DOMAIN f)

tf_norm(tf, dl) == (12 * tf) \div (tf + dl)

-----------------------------------------------------------------------------
(* Skip runs.                                                              *)

CollapseOnce(kept) ==
  LET gap(i) == (kept[i + 1][1] - kept[i][1]) + (kept[i + 1][2] - kept[i][2])
      best == CHOOSE i \in 1 .. Len(kept) - 1 :
                \A j \in 1 .. Len(kept) - 1 :
                  gap(i) < gap(j) \/ (gap(i) = gap(j) /\ i <= j)
  IN  SubSeq(kept, 1, best - 1) \o <<<<kept[best + 1][1], kept[best][2]>>>>
        \o SubSeq(kept, best + 2, Len(kept))

RECURSIVE Collapse(_)
Collapse(kept) ==
  IF Len(kept) > MAX_FRONTIER THEN Collapse(CollapseOnce(kept)) ELSE kept

RECURSIVE Staircase(_)
Staircase(pairs) ==
  IF pairs = {} THEN << >>
  ELSE LET least == CHOOSE p \in pairs : \A q \in pairs : p[1] <= q[1]
       IN  <<least>> \o Staircase(pairs \ {least})

Undominated(pairs) ==
  Staircase({p \in pairs : ~ \E q \in pairs \ {p} : q[1] >= p[1] /\ q[2] <= p[2]})

(* The undominated (tf, dl) pairs of a set, by rising tf; past the cap the  *)
(* closest neighbours become their dominating corner.                      *)
pareto_frontier(pairs) ==
  Collapse(Undominated(pairs))

Chunk(seq, size, i) ==
  SubSeq(seq, (i - 1) * size + 1, IF i * size < Len(seq) THEN i * size ELSE Len(seq))

Chunks(seq, size) ==
  [i \in 1 .. ((Len(seq) + size - 1) \div size) |-> Chunk(seq, size, i)]

BlockRecord(block) ==
  [last |-> block[Len(block)].doc,
   pairs |-> pareto_frontier({<<block[i].tf, block[i].dl>> : i \in DOMAIN block})]

GroupRecord(group) ==
  [last |-> group[Len(group)].last,
   pairs |-> pareto_frontier(UNION {ToSet(group[i].pairs) : i \in DOMAIN group})]

(* The skip run of one term in one part: its postings in document order,   *)
(* a record per block and a record per group of blocks.                    *)
SkipRunBuilder(postings) ==
  LET blocks == Chunks(postings, BLOCK)
      l0 == [i \in DOMAIN blocks |-> BlockRecord(blocks[i])]
      groups == Chunks(l0, LEVEL1_FACTOR)
  IN  [postings |-> postings, l0 |-> l0,
       l1 |-> [i \in DOMAIN groups |-> GroupRecord(groups[i])]]

-----------------------------------------------------------------------------
(* A cursor over the skip runs of a term, one part after the other: parts   *)
(* is a sequence of [base, rows, run] by rising base, cur the position     *)
(*   at      the part                                                      *)
(*   pos     the posting of the part, from 0                               *)
(*   block   the level-0 block of the part, from 0                         *)
(*   group   the level-1 group of the part, from 0                         *)
(*   blocks_before, groups_before   those of the parts already passed      *)

df_of(parts) == Sum([i \in DOMAIN parts |-> Len(parts[i].run.postings)])

Exhausted(parts, cur) == cur.at > Len(parts)

InnerExhausted(parts, cur) == cur.pos >= Len(parts[cur.at].run.postings)

(* Moving to the next part without carrying the counters.                  *)
NextPart_Uncounted(parts, cur) ==
  [at |-> cur.at + 1, pos |-> 0, block |-> 0, group |-> 0,
   blocks_before |-> 0, groups_before |-> 0]

NextPart(parts, cur) ==
  [at |-> cur.at + 1, pos |-> 0, block |-> 0, group |-> 0,
   blocks_before |-> cur.blocks_before + Len(parts[cur.at].run.l0),
   groups_before |-> cur.groups_before + Len(parts[cur.at].run.l1)]

settle(parts, cur) ==
  IF ~ Exhausted(parts, cur) /\ InnerExhausted(parts, cur)
  THEN NextPart(parts, cur)
  ELSE cur

chain(parts) ==
  [at |-> 1, pos |-> 0, block |-> 0, group |-> 0,
   blocks_before |-> 0, groups_before |-> 0]

cursor_block(parts, cur) == cur.blocks_before + cur.block
l1_group(parts, cur) == cur.groups_before + cur.group

block_frontier(parts, cur) ==
  IF Exhausted(parts, cur) THEN {}
  ELSE ToSet(parts[cur.at].run.l0[cur.block + 1].pairs)

l1_frontier(parts, cur) ==
  IF Exhausted(parts, cur) THEN {}
  ELSE ToSet(parts[cur.at].run.l1[cur.group + 1].pairs)

term_frontier(parts) ==
  ToSet(pareto_frontier(UNION {ToSet(pareto_frontier(
    UNION {ToSet(parts[p].run.l1[g].pairs) : g \in DOMAIN parts[p].run.l1})) :
      p \in DOMAIN parts}))

block_last_doc(parts, cur) ==
  IF Exhausted(parts, cur) THEN NoDoc
  ELSE parts[cur.at].base + parts[cur.at].run.l0[cur.block + 1].last

l1_last_doc(parts, cur) ==
  IF Exhausted(parts, cur) THEN NoDoc
  ELSE parts[cur.at].base + parts[cur.at].run.l1[cur.group + 1].last

cursor_doc(parts, cur) ==
  IF Exhausted(parts, cur) THEN NoDoc
  ELSE parts[cur.at].base + parts[cur.at].run.postings[cur.pos + 1].doc

cursor_tf(parts, cur) == parts[cur.at].run.postings[cur.pos + 1].tf

next_block(parts, cur) ==
  LET df == Len(parts[cur.at].run.postings)
      block == cur.block + 1
  IN  [cur EXCEPT !.block = block,
                  !.group = IF block % LEVEL1_FACTOR = 0 THEN @ + 1 ELSE @,
                  !.pos = IF block * BLOCK < df THEN block * BLOCK ELSE df]

next_posting(parts, cur) ==
  LET run == parts[cur.at].run
      moved == [cur EXCEPT !.pos = @ + 1]
  IN  CASE Exhausted(parts, cur) -> cur
        [] ~ Exhausted(parts, cur) /\ moved.pos >= Len(run.postings) -> settle(parts, moved)
        [] OTHER -> IF moved.pos % BLOCK = 0 THEN next_block(parts, moved) ELSE moved

(* Whole groups, then whole blocks that end before the target.             *)
RECURSIVE SkipGroups(_, _, _)
SkipGroups(parts, cur, target) ==
  LET run == parts[cur.at].run IN
  IF run.l1[cur.group + 1].last >= target THEN cur
  ELSE IF cur.group + 1 = Len(run.l1) THEN [cur EXCEPT !.pos = Len(run.postings)]
  ELSE SkipGroups(parts,
         [cur EXCEPT !.group = @ + 1,
                     !.block = (cur.group + 1) * LEVEL1_FACTOR,
                     !.pos = (cur.group + 1) * LEVEL1_FACTOR * BLOCK], target)

RECURSIVE SkipBlocks(_, _, _)
SkipBlocks(parts, cur, target) ==
  IF InnerExhausted(parts, cur) \/ parts[cur.at].run.l0[cur.block + 1].last >= target
  THEN cur
  ELSE SkipBlocks(parts, next_block(parts, cur), target)

(* The first posting of the landing block at or past the target.           *)
SeekInBlock(parts, cur, target) ==
  LET run == parts[cur.at].run
      there == {i \in cur.pos .. Len(run.postings) - 1 :
                  i < (cur.block + 1) * BLOCK /\ run.postings[i + 1].doc >= target}
  IN  IF InnerExhausted(parts, cur) THEN cur
      ELSE [cur EXCEPT !.pos = Min(there)]

RECURSIVE advance_shallow(_, _, _)
advance_shallow(parts, cur, target) ==
  IF Exhausted(parts, cur) THEN cur
  ELSE LET part == parts[cur.at]
           near == IF target > part.base THEN target - part.base ELSE 0
           moved == SeekInBlock(parts,
                      SkipBlocks(parts, SkipGroups(parts, cur, near), near), near)
       IN  CASE target >= part.base + part.rows ->
                  advance_shallow(parts, NextPart(parts, cur), target)
             [] target < part.base + part.rows /\ InnerExhausted(parts, moved) ->
                  advance_shallow(parts, settle(parts, moved), target)
             [] OTHER -> moved

-----------------------------------------------------------------------------
(* A shard: [rows, parts, tf, dl], parts the sealed files and the heaps in  *)
(* base order as [base, rows, file], tf and dl the frequency and the field  *)
(* length of every row, by (field, term) pair.                             *)

PostingsOf(store, t, part) ==
  LET docs == SelectSeq([i \in 1 .. part.rows |-> i - 1],
                        LAMBDA d : store.tf[t][part.base + d] > 0)
  IN  [i \in DOMAIN docs |-> [doc |-> docs[i], tf |-> store.tf[t][part.base + docs[i]],
                              dl |-> store.dl[t][part.base + docs[i]]]]

PartsHolding(store, t) ==
  SelectSeq(store.parts, LAMBDA part :
    \E d \in part.base .. part.base + part.rows - 1 : store.tf[t][d] > 0)

has_impacts(store, t) == \A part \in ToSet(PartsHolding(store, t)) : part.file

(* The chained cursor parts of a term; parts without the term are left out. *)
impacts(store, t) ==
  LET holding == PartsHolding(store, t) IN
  [i \in DOMAIN holding |->
     [base |-> holding[i].base, rows |-> holding[i].rows,
      run |-> SkipRunBuilder(PostingsOf(store, t, holding[i]))]]

Contribution(store, q, t, doc) ==
  IF store.tf[t][doc] = 0 THEN 0
  ELSE q.scale[t] * tf_norm(store.tf[t][doc], store.dl[t][doc])

-----------------------------------------------------------------------------
(* The score chain: a stage is [op, w, col], col the shard's column, a set  *)
(* of at most one value per row.                                           *)

MaxOf(a, b) == IF a > b THEN a ELSE b

Contribute(stage, score, v) ==
  CASE stage.op = "log" -> score * (1 + stage.w * MaxOf(0, v))
    [] stage.op = "decay" -> score \div (1 + MaxOf(v, -v))
    [] stage.op = "add_linear" -> score + stage.w * v

(* An absent value is the identity.                                        *)
chain_eval(stages, score, doc) ==
  FoldLeft(LAMBDA acc, stage :
             IF stage.col[doc] = {} THEN acc
             ELSE Contribute(stage, acc, CHOOSE v \in stage.col[doc] : TRUE),
           score, stages)

ColumnValues(stage) == UNION {stage.col[d] : d \in DOMAIN stage.col}

StageBound(stage, ub) ==
  LET vs == ColumnValues(stage) IN
  CASE vs = {} \/ stage.op = "decay" -> ub
    [] vs # {} /\ stage.op = "log" -> ub * (1 + stage.w * MaxOf(0, Max(vs)))
    [] vs # {} /\ stage.op = "add_linear" ->
         ub + MaxOf(0, MaxOf(stage.w * Min(vs), stage.w * Max(vs)))

chain_bound(stages, ub) ==
  FoldLeft(LAMBDA acc, stage : StageBound(stage, acc), ub, stages)

-----------------------------------------------------------------------------
(* The exhaustive scorer: every row some query pair occurs in.             *)

Pairs(q) == DOMAIN q.scale

LocalPairs(store, q) == {t \in Pairs(q) : \E d \in 0 .. store.rows - 1 : store.tf[t][d] > 0}

Score(store, q, doc) ==
  chain_eval(q.chain, Sum([t \in Pairs(q) |-> Contribution(store, q, t, doc)]), doc)

Matched(store, q) == {d \in 0 .. store.rows - 1 : \E t \in Pairs(q) : store.tf[t][d] > 0}

Better(a, b) == a.score > b.score \/ (a.score = b.score /\ a.doc < b.doc)

Best(entries, k) ==
  {e \in entries : Cardinality({o \in entries : Better(o, e)}) < k}

top_k_chained_filtered(store, q) ==
  Best({[doc |-> d, score |-> Score(store, q, d)] : d \in Matched(store, q) \cap q.pass}, q.k)

filter_to_floor(entries, floor) == {e \in entries : e.score >= floor}

-----------------------------------------------------------------------------
(* The pruned scan.  runs holds the cursor parts of the local pairs; live   *)
(* the pairs not yet exhausted, each with its cursor and the cached bounds  *)
(* of the block and the group it is in.                                    *)

MaxNorm(pairs) == IF pairs = {} THEN 0 ELSE Max({tf_norm(p[1], p[2]) : p \in pairs})

block_max(parts, cur, scale) == scale * MaxNorm(block_frontier(parts, cur))

l1_max(parts, cur, scale) == scale * MaxNorm(l1_frontier(parts, cur))

TermState(parts, scale) ==
  LET cur == chain(parts) IN
  [cur |-> cur, block |-> cursor_block(parts, cur), block_max |-> block_max(parts, cur, scale),
   l1_group |-> l1_group(parts, cur), l1_max |-> l1_max(parts, cur, scale),
   term_max |-> scale * MaxNorm(term_frontier(parts))]

(* Re-derive the bounds only when the block, and the group, changed.       *)
refresh(parts, scale, ts, cur) ==
  LET block == cursor_block(parts, cur)
      group == l1_group(parts, cur)
  IN  IF block = ts.block THEN [ts EXCEPT !.cur = cur]
      ELSE [ts EXCEPT !.cur = cur, !.block = block,
                      !.block_max = block_max(parts, cur, scale),
                      !.l1_group = group,
                      !.l1_max = IF group = ts.l1_group THEN @
                                 ELSE l1_max(parts, cur, scale)]

retain_live(runs, live) ==
  LET kept == {t \in DOMAIN live : ~ Exhausted(runs[t], live[t].cur)}
  IN  [t \in kept |-> live[t]]

ScanStart(store, q) ==
  LET exhaustive == \E t \in LocalPairs(store, q) : ~ has_impacts(store, t)
      floor == IF q.min = 0 THEN NoFloor ELSE q.min
      runs == [t \in LocalPairs(store, q) |-> impacts(store, t)]
  IN  IF exhaustive \/ q.k = 0
      THEN [ended |-> TRUE, floor |-> floor, runs |-> << >>, live |-> << >>,
            heap |-> filter_to_floor(top_k_chained_filtered(store, q), floor)]
      ELSE [ended |-> DOMAIN runs = {}, floor |-> floor, runs |-> runs, heap |-> {},
            live |-> [t \in DOMAIN runs |-> TermState(runs[t], q.scale[t])]]

Full(q, scan) == Cardinality(scan.heap) >= q.k

Worst(heap) == CHOOSE e \in heap : \A o \in heap \ {e} : Better(o, e)

inert(q, scan, acc) ==
  acc < scan.floor \/ (Full(q, scan) /\ acc <= Worst(scan.heap).score)

InertSum(q, scan, f) == inert(q, scan, chain_bound(q.chain, Sum(f)))

(* Every cursor, or those of some pairs, to the first posting at or past    *)
(* the target.                                                             *)
AdvanceSome(q, scan, ts, target) ==
  LET live == [t \in DOMAIN scan.live |->
                 IF t \in ts
                 THEN refresh(scan.runs[t], q.scale[t], scan.live[t],
                              advance_shallow(scan.runs[t], scan.live[t].cur, target))
                 ELSE scan.live[t]]
  IN  [scan EXCEPT !.live = retain_live(scan.runs, live)]

BoundsOf(scan, field) == [t \in DOMAIN scan.live |-> scan.live[t][field]]

LastDocs(scan) == {block_last_doc(scan.runs[t], scan.live[t].cur) : t \in DOMAIN scan.live}

GroupEnds(scan) == {l1_last_doc(scan.runs[t], scan.live[t].cur) : t \in DOMAIN scan.live}

(* The pairs in the order of their block bound, smallest first, while the   *)
(* bounds so far cannot place a document.                                  *)
RECURSIVE GrowPrefix(_, _, _)
GrowPrefix(q, scan, prefix) ==
  LET rest == DOMAIN scan.live \ prefix
      next == CHOOSE t \in rest : \A u \in rest :
                \/ scan.live[t].block_max < scan.live[u].block_max
                \/ scan.live[t].block_max = scan.live[u].block_max /\ t <= u
  IN  IF rest # {} /\ InertSum(q, scan, [t \in prefix \cup {next} |-> scan.live[t].block_max])
      THEN GrowPrefix(q, scan, prefix \cup {next})
      ELSE prefix

nonessential(q, scan) == GrowPrefix(q, scan, {})

(* All cursors past doc.                                                   *)
Consume(q, scan, doc) ==
  LET past(t) == LET cur == advance_shallow(scan.runs[t], scan.live[t].cur, doc)
                 IN  IF cursor_doc(scan.runs[t], cur) = doc
                     THEN next_posting(scan.runs[t], cur) ELSE cur
      live == [t \in DOMAIN scan.live |->
                 refresh(scan.runs[t], q.scale[t], scan.live[t], past(t))]
  IN  [scan EXCEPT !.live = retain_live(scan.runs, live)]

CandidateBound(store, q, scan, outside, doc) ==
  [t \in DOMAIN scan.live |->
     IF t \in outside THEN scan.live[t].block_max
     ELSE IF cursor_doc(scan.runs[t], scan.live[t].cur) = doc
     THEN Contribution(store, q, t, doc)
     ELSE 0]

(* The contributions of the cursors that reach doc, through the chain.     *)
Evaluated(store, q, scan, doc) ==
  LET at(t) == cursor_doc(scan.runs[t], advance_shallow(scan.runs[t], scan.live[t].cur, doc))
  IN  chain_eval(q.chain,
        Sum([t \in {u \in DOMAIN scan.live : at(u) = doc} |->
               q.scale[t] * tf_norm(cursor_tf(scan.runs[t],
                 advance_shallow(scan.runs[t], scan.live[t].cur, doc)), store.dl[t][doc])]),
        doc)

(* Insert on the exact contract: ties at the seed survive, displacement is  *)
(* strictly greater.                                                       *)
Insert(q, scan, entry) ==
  LET heap == scan.heap IN
  CASE ~ Full(q, scan) -> heap \cup {entry}
    [] Full(q, scan) /\ entry.score > Worst(heap).score ->
         (heap \ {Worst(heap)}) \cup {entry}
    [] OTHER -> heap

(* One turn of the loop, after the floor exchange: [scan, emitted].         *)
ScanTurn(store, q, scan) ==
  LET window_end == Min(LastDocs(scan))
      outside == nonessential(q, scan)
      doc == Min({cursor_doc(scan.runs[t], scan.live[t].cur) : t \in DOMAIN scan.live \ outside})
      entry == [doc |-> doc, score |-> Evaluated(store, q, scan, doc)]
      taken == doc \in q.pass /\ entry.score >= scan.floor
      past(ts, target) == [scan |-> AdvanceSome(q, scan, ts, target), emitted |-> {}]
      step == IF InertSum(q, scan, BoundsOf(scan, "term_max"))
              THEN [scan |-> [scan EXCEPT !.live = << >>], emitted |-> {}]
              ELSE IF InertSum(q, scan, BoundsOf(scan, "l1_max"))
              THEN past(DOMAIN scan.live, Min(GroupEnds(scan)) + 1)
              ELSE IF InertSum(q, scan, BoundsOf(scan, "block_max"))
              THEN past(DOMAIN scan.live, window_end + 1)
              ELSE IF doc > window_end
              THEN past({t \in DOMAIN scan.live :
                           block_last_doc(scan.runs[t], scan.live[t].cur) = window_end}, window_end + 1)
              ELSE IF InertSum(q, scan, CandidateBound(store, q, scan, outside, doc)) \/ ~ taken
              THEN [scan |-> Consume(q, scan, doc), emitted |-> {}]
              ELSE [scan |-> Consume(q, [scan EXCEPT !.heap = Insert(q, scan, entry)], doc),
                    emitted |-> {[doc |-> doc, score |-> F32(entry.score)]}]
  IN  [step EXCEPT !.scan.ended = (DOMAIN step.scan.live = {})]

(* What the scan offers before a turn: the seed of its k-th best.          *)
OfferedSeed(q, scan) ==
  IF Full(q, scan) THEN {floor_seed(F32(Worst(scan.heap).score))} ELSE {}

Adopt(scan, external) == [scan EXCEPT !.floor = MaxOf(@, external)]

-----------------------------------------------------------------------------
(* Scores of given rows: each term's cursor walks the sorted candidates, or *)
(* its postings are merge-joined with them.                                *)

RECURSIVE CursorWalk(_, _, _, _)
CursorWalk(parts, cur, candidates, hits) ==
  IF candidates = << >> \/ Exhausted(parts, cur) THEN hits
  ELSE LET there == advance_shallow(parts, cur, Head(candidates)) IN
       CursorWalk(parts, there, Tail(candidates),
         IF cursor_doc(parts, there) = Head(candidates)
         THEN hits \cup {<<Head(candidates), cursor_tf(parts, there)>>} ELSE hits)

MergeJoin(store, t, candidates) ==
  {<<d, store.tf[t][d]>> : d \in {c \in ToSet(candidates) : store.tf[t][c] > 0}}

(* Per term by the candidates when the term has more postings than there   *)
(* are candidates and a cursor, by its postings otherwise.                 *)
CandidateWalk(store, t, candidates) ==
  LET parts == impacts(store, t) IN
  IF has_impacts(store, t) /\ parts # << >> /\ df_of(parts) > Len(candidates)
  THEN CursorWalk(parts, chain(parts), candidates, {})
  ELSE MergeJoin(store, t, candidates)

score_candidates_plain(store, q, candidates) ==
  [d \in ToSet(candidates) |->
     Sum([t \in Pairs(q) |->
            Sum([hit \in {h \in CandidateWalk(store, t, candidates) : h[1] = d} |->
                   q.scale[t] * tf_norm(hit[2], store.dl[t][d])])])]
=============================================================================
