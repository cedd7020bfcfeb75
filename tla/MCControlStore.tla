--------------------------- MODULE MCControlStore ---------------------------
(***************************************************************************)
(* Small instances of ControlStore: one store, two decisions that ask for  *)
(* different routes and one that asks for none; and beside it the offline  *)
(* tools, which share SystemState.                                         *)
(***************************************************************************)
EXTENDS ControlStore, TreeReshard, MCLexical

CONSTANTS p0, p1, p2, r0, r1

(* p0: nothing reported yet; p1 asks for new routes, p2 for the map's own. *)
MCPlacements == {p0, p1, p2}
MCRoutes == {r0, r1}
MCDesired == [p \in MCPlacements |->
                IF p = p1 THEN r1 ELSE IF p = p2 THEN r0 ELSE NoRoutes]

(* Six ids in two buckets, with keys, codes and column values of their own. *)
IdHashes == [i \in 0..20 |-> IF i = 6 THEN 6 ELSE (i * 5 + 3) % 8]
KeyHashes == <<6, 0, 2, 5, 3, 7>>
IdCodes == <<{1}, {2}, {4}, {}, {1}, {5}>>
IdColumns == <<{2}, {1}, {}, {2}, {2}, {3}>>
Logged(op, id, clock) == [op |-> op, id |-> id, key |-> id, clock |-> clock]
Both(id, clock) == <<Logged("vector", id, clock), Logged("document", id, clock)>>
LogOf(records) == [buckets |-> 2, config |-> 1, whole |-> TRUE, binding |-> {}, slot |-> 0, records |-> records]
Keyless(log) == [log EXCEPT !.records = [i \in DOMAIN @ |-> [@[i] EXCEPT !.key = 0]]]
Legacy(log) == [log EXCEPT !.records[1].clock = 0]
LogA == LogOf(Both(1, 1) \o Both(2, 2) \o Both(4, 3) \o <<Logged("delete", 2, 4)>> \o Both(5, 5))
LogB == [LogOf(<<Logged("document", 3, 1), Logged("vector", 3, 2), Logged("vector", 6, 2), Logged("replace", 3, 3)>>) EXCEPT !.slot = 10]
LogC == LogOf(Both(1, 1) \o <<Logged("document", 2, 1), Logged("document", 4, 2), Logged("document", 5, 2), Logged("document", 6, 3)>>)
SomeLogs ==
  {<<LogA>>, <<LogA, LogB>>, <<LogC>>, <<LogA, LogA>>, <<Keyless(LogA)>>, <<Legacy(LogC), LogB>>,
   <<LogA, [LogB EXCEPT !.buckets = 4]>>, <<LogA, [LogB EXCEPT !.config = 2]>>,
   <<[LogA EXCEPT !.binding = {"p"}], [LogB EXCEPT !.binding = {"q"}]>>, <<[LogC EXCEPT !.binding = {"p"}], LogB>>,
   <<[LogC EXCEPT !.whole = FALSE]>>}
LogAsk(op, n, stride, ranges, default, cutoff, segmented, bound) ==
  [op |-> op, n |-> n, base |-> 0, stride |-> stride, ranges |-> ranges, default |-> default, cutoff |-> cutoff,
   segmented |-> segmented, bound |-> bound]
SomeReshards ==
  {LogAsk(op, n, s, <<>>, {}, NoBound, FALSE, 1) : op \in {"split", "segmented", "stable"}, n \in {1, 2, 4}, s \in {1, 2, 4}}
  \cup {LogAsk("ranged", 1, 4, r, {}, NoBound, FALSE, 1) : r \in {<<<<0, 2>>, <<3, 7>>>>, <<<<0, 1>>, <<2, 5>>>>}}
  \cup {LogAsk("placement", 1, 4, r, d, NoBound, FALSE, 1) :
          r \in {<<<<1, 2>>, <<3, 5>>>>, <<<<4, 5>>, <<1, 1>>, <<1, 0>>>>}, d \in {{}, {1}, {3}}}
  \cup {LogAsk(op, 1, 1, <<>>, {}, c, s, b) : op \in Compacts, c \in {NoBound, 2, 4}, s \in BOOLEAN, b \in 1..3}
  \cup {LogAsk("merge", 1, 1, <<>>, {}, NoBound, FALSE, 1)}

(* Two shards with rows deleted in a segment, in the overlay and only in    *)
(* the log, a value with more rows than a cut and rows of two leaves.       *)
TreeRow(leaf, was, cut, key) == [doc |-> TRUE, vector |-> TRUE, leaf |-> leaf, was |-> was, cut |-> cut, key |-> key, stamp |-> 0]
ShardA == [offset |-> 0, catalog |-> TRUE, sealed |-> 2, dead |-> {0}, overlay |-> {0}, deleted |-> {0, 4}, tables |-> 1,
  segments |-> <<<<TreeRow(1, 1, {2}, {3}), TreeRow(1, 2, {3}, {6}), TreeRow(2, 2, {3}, {0})>>,
                 <<TreeRow(1, 1, {3}, {1}), TreeRow(2, 1, {1}, {2}), TreeRow(1, 1, {5}, {})>>>>]
ShardB == [offset |-> 10, catalog |-> TRUE, sealed |-> 1, dead |-> {}, overlay |-> {}, deleted |-> {1}, tables |-> 1,
  segments |-> <<<<TreeRow(1, 1, {}, {7}), TreeRow(2, 2, {4}, {6}), TreeRow(1, 2, {3}, {6})>>>>]
AllKeyed(s) == [s EXCEPT !.segments[2][3].key = {5}]
SomeSources == {<<ShardA>>, <<ShardA, ShardB>>, <<AllKeyed(ShardA), ShardB>>, <<ShardA, [ShardA EXCEPT !.tables = 1]>>,
   <<[ShardA EXCEPT !.sealed = 1]>>, <<[ShardB EXCEPT !.segments[1][1].stamp = 1]>>, <<[ShardB EXCEPT !.catalog = FALSE]>>,
   <<ShardA, [ShardB EXCEPT !.tables = 2]>>, <<[AllKeyed(ShardA) EXCEPT !.segments[1][2].vector = FALSE]>>,
   <<[ShardB EXCEPT !.segments[1][1].doc = FALSE]>>}
TreeAsk == [op |-> "tree", leaves |-> <<1, 1>>, source |-> "segments", layout |-> "segmented", only |-> {}, threads |-> 1,
  queue |-> {}, memory |-> {}, offsets |-> <<0, 100>>, rows_per_cut |-> {}, spill_buckets |-> 2, derive |-> "none",
  declared |-> {}, files |-> {}, most |-> 3]
CutAsk == [TreeAsk EXCEPT !.rows_per_cut = {2}]
ThreadAsk == [CutAsk EXCEPT !.threads = 2]
CompactAsk == [CutAsk EXCEPT !.op = "compact", !.leaves = <<>>, !.offsets = <<0>>]
FromLogs(a) == [a EXCEPT !.source = "logs"]
SomeTreeAsks == {TreeAsk, CutAsk, ThreadAsk, [ThreadAsk EXCEPT !.threads = 3, !.queue = {1}], [ThreadAsk EXCEPT !.rows_per_cut = {1}, !.queue = {2}],
         [ThreadAsk EXCEPT !.only = {2}], [CutAsk EXCEPT !.only = {3}],
   CompactAsk, [CompactAsk EXCEPT !.threads = 2], [CompactAsk EXCEPT !.rows_per_cut = {1}],
   FromLogs(TreeAsk), FromLogs(CutAsk), [FromLogs(CutAsk) EXCEPT !.leaves = <<2, 1>>, !.offsets = <<0, 100, 200>>],
   [FromLogs(TreeAsk) EXCEPT !.leaves = <<2, 1>>, !.offsets = <<0, 100, 103>>, !.layout = "single"],
   [TreeAsk EXCEPT !.leaves = <<2, 1>>, !.offsets = <<0, 100, 103>>], [FromLogs(TreeAsk) EXCEPT !.leaves = <<3, 1>>, !.offsets = <<0, 1, 2, 3>>],
   [TreeAsk EXCEPT !.layout = "single", !.most = 4], [TreeAsk EXCEPT !.layout = "single", !.rows_per_cut = {1}],
   [CutAsk EXCEPT !.offsets = <<2, 0>>], [CutAsk EXCEPT !.offsets = <<3, 0>>], [ThreadAsk EXCEPT !.offsets = <<3, 0>>], [ThreadAsk EXCEPT !.memory = {4}], [ThreadAsk EXCEPT !.memory = {3}], [CutAsk EXCEPT !.files = {12}],
   [CutAsk EXCEPT !.files = {16}], [CutAsk EXCEPT !.declared = {2}, !.derive = "some"], [CutAsk EXCEPT !.declared = {2}, !.derive = "cut"],
   [FromLogs(TreeAsk) EXCEPT !.declared = {2}, !.derive = "key"], [TreeAsk EXCEPT !.derive = "some"], [ThreadAsk EXCEPT !.queue = {0}], [FromLogs(ThreadAsk) EXCEPT !.op = "tree"]}

(* Documents with and without vectors, with one text to three, a cased twin, *)
(* a phrase field and bigram columns.                                        *)
FieldText(field, text, spec) == [field |-> field, text |-> text, spec |-> spec]
Plain(id) == [id |-> id, text |-> id, spec |-> 1, cased |-> {}, fields |-> <<>>, phrase |-> {}, positions |-> {}, bigrams |-> {},
              columns |-> {<<"year", id>>}, source |-> {}, chunk |-> {}]
Titled(id) == [Plain(id) EXCEPT !.fields = <<FieldText("title", 10 + id, 2)>>, !.positions = {"body"}, !.source = {id}, !.chunk = {1}]
Rich(id) == [Plain(id) EXCEPT !.fields = <<FieldText("title", 10 + id, 2), FieldText("note", 0, 1)>>, !.cased = {"exact"}, !.bigrams = {<<"body", "pairs">>, <<"note", "pairs2">>}, !.positions = {"title"}]
Phrased(id) == [Plain(id) EXCEPT !.phrase = {"key"}, !.spec = 0]
WithExact(d) == [d EXCEPT !.fields = Append(@, FieldText("exact", 20 + d.id, 0))]
ImageIn(v, d) == [vectors |-> v, documents |-> d, table |-> {}, pinned |-> {}, columns |-> {}, contract |-> <<>>, transplant |-> <<>>, analyzer |-> "whole"]
FullTable == {"body", "title", "note", "exact", "pairs", "pairs2", "key"}
MixedDocs == ImageIn(<<1, 2, 3>>, <<Rich(1), Titled(2), Plain(3), Phrased(4), Titled(5)>>)
Moved(id) == [g \in {"body", "title"} |-> Analysis(IF g = "body" THEN id ELSE 10 + id, 1, "plain", TRUE)]
Transplanted == [ImageIn(<<1, 2>>, <<Plain(1), Plain(2)>>) EXCEPT !.table = {"body", "title"}, !.pinned = {<<"body", <<1, <<"plain">>>>>>, <<"title", <<2, <<"plain">>>>>>},
           !.transplant = [id \in 1..2 |-> Moved(id)]]
SomeImages ==
  {[i EXCEPT !.table = t, !.analyzer = a] :
     i \in {MixedDocs, [MixedDocs EXCEPT !.vectors = <<>>], [MixedDocs EXCEPT !.vectors = <<1, 2, 3, 4, 5>>], ImageIn(<<4, 2>>, <<Titled(2), Plain(3), Titled(4)>>),
              ImageIn(<<1>>, <<Titled(1), [Plain(2) EXCEPT !.spec = 2]>>), ImageIn(<<>>, <<Phrased(1), [Titled(2) EXCEPT !.source = {}]>>),
              ImageIn(<<1>>, <<WithExact(Titled(1)), Rich(2)>>)},
              t \in {{}, FullTable, {"body", "title"}}, a \in {"whole", "bare", "short"}}
  \cup {Transplanted, [Transplanted EXCEPT !.documents[1] = Titled(1)], [Transplanted EXCEPT !.transplant = [id \in {2} |-> Moved(id)]],
        [Transplanted EXCEPT !.columns = {"day"}], [MixedDocs EXCEPT !.columns = {"year", "day"}], [MixedDocs EXCEPT !.contract = "title" :> 2], [MixedDocs EXCEPT !.contract = "title" :> 1],
        [MixedDocs EXCEPT !.documents[3].bigrams = {<<"body", "title">>}]}

(* The store has variables of its own, which the tools leave alone. *)
StoresInit == Init /\ (sys = [part |-> "control"] \/ ReshardInit \/ TreeInit \/ ImageInit \/ LexicalInit \/ StreamedInit)
ControlStep == At("control") /\ Next /\ UNCHANGED sys
OfflineStep == (ReshardNext \/ TreeNext \/ ImageNext \/ LexicalNext \/ StreamedNext) /\ UNCHANGED vars
StoresSpec == StoresInit /\ [][ControlStep \/ OfflineStep]_<<sys, vars>>

(* What the offline tools write holds the rows of what they read: a reshard *)
(* by replay, a split or merge of a tree of shards, and the image a child   *)
(* is built as (reshard.rs).                                               *)
RebuildsKeepRows == ReshardKeepsRows /\ TreeSplitKeepsRows /\ ImageIsFaithful
=============================================================================
