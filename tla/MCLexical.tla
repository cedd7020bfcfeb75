----------------------------- MODULE MCLexical -----------------------------
(* Small documents and field and column tables for the lexical index.       *)
EXTENDS LexicalFile, LexicalStream

(* A document of two fields, one with fewer fields than the table, one that *)
(* has no token in its first field, and one with a single field.            *)
LexTerm(t, occ, pos) == [term |-> t, tf |-> Len(occ), occ |-> occ, pos |-> pos]
LexField(terms, length, sents) == [terms |-> terms, length |-> length, sents |-> sents]
LexValues(facet, n, geo, mapf, mapn) ==
  [facet |-> facet, num |-> n, int |-> n, uint |-> n, geo |-> geo, source |-> n, mapf |-> mapf, mapn |-> mapn, imap |-> mapn]
LexA == [fields |-> <<LexField(<<LexTerm(1, <<4>>, <<1>>), LexTerm(3, <<5, 6>>, <<0, 2>>)>>, 3, <<7, 8>>), LexField(<<LexTerm(2, <<9>>, <<0>>)>>, 1, <<3>>)>>,
         text |-> <<1, 2>>, lineage |-> {5},
         values |-> LexValues(<<2>>, <<0>>, <<<<1, 4>>>>, <<<<2, 3>>, <<3, 1>>>>, <<<<2, 6>>, <<1, 2>>>>)]
LexB == [fields |-> <<LexField(<<LexTerm(1, <<1, 2>>, <<3, 4>>), LexTerm(2, <<3>>, <<0>>)>>, 4, <<1>>)>>,
         text |-> <<3>>, lineage |-> {},
         values |-> LexValues(<<1>>, <<5>>, <<<<2, 3>>>>, <<<<3, 2>>, <<1, 1>>>>, <<<<1, 4>>>>)]
LexC == [fields |-> <<LexField(<<>>, 0, <<>>), LexField(<<LexTerm(3, <<2>>, <<1>>)>>, 2, <<6, 7>>)>>, text |-> <<>>, lineage |-> {2},
         values |-> LexValues(<<>>, <<>>, <<>>, <<>>, <<>>)]
LexD == [LexB EXCEPT !.fields = <<LexField(<<LexTerm(2, <<8>>, <<2>>)>>, 1, <<>>)>>, !.text = <<>>, !.lineage = {4}]
FourLexicalDocs == {LexA, LexB, LexC, LexD}
LexTable(n, p, s, c) == [fields |-> n, positions |-> p, sentences |-> s, columns |-> c]
SomeLexicalTables ==
  {LexTable(1, {}, {}, <<>>), LexTable(2, {}, {}, <<>>), LexTable(2, {1, 2}, {1, 2}, <<"facet", "num", "mapf">>),
   LexTable(2, {1}, {1, 2}, <<"facet", "facet", "mapn", "imap", "imap">>), LexTable(2, {2}, {}, <<"num", "int", "geo", "uint", "uint", "source">>),
   LexTable(2, {}, {2}, <<"uint">>), LexTable(2, {}, {}, <<"mapf", "source">>)}

(* Sentences on a field without positions, beside a column. *)
SentencesAlone == {LexTable(2, {}, {1}, <<"facet">>)}
LexicalSpec == LexicalInit /\ [][LexicalNext]_sys

----------------------------------------------------------------------------
(* Small shards and queries for LexicalStream.  The term frequencies follow *)
(* an arithmetic pattern with two parameters, so that blocks, groups and    *)
(* bounds differ from one shard to the next.                               *)
Frequency(a, b, d, t) ==
  LET x == (a * d * d + b * d * t + d + 2 * t) % 5 IN IF x > 3 THEN 0 ELSE x

(* A shard of rows rows whose first cut rows are one part and whose other   *)
(* rows are another, sealed or still on the heap.                          *)
Shard(a, b, rows, cut, terms, tailFile) ==
  LET tf == [t \in 1 .. terms |-> [d \in 0 .. rows - 1 |-> Frequency(a, b, d, t)]]
      dl == [d \in 0 .. rows - 1 |-> Sum([t \in 1 .. terms |-> tf[t][d]]) + ((a * d) % 4)]
  IN  [rows |-> rows, tf |-> tf, dl |-> [t \in 1 .. terms |-> dl],
       parts |-> IF cut = 0 THEN <<[base |-> 0, rows |-> rows, file |-> tailFile]>>
                 ELSE <<[base |-> 0, rows |-> cut, file |-> TRUE],
                        [base |-> cut, rows |-> rows - cut, file |-> tailFile]>>]

Column(rows, m) == [d \in 0 .. rows - 1 |-> IF d % 3 = m THEN {} ELSE {(d % 4) - 1}]

Stages(kind, rows) ==
  CASE kind = "none" -> << >>
    [] kind = "boost" -> <<[op |-> "log", w |-> 1, col |-> Column(rows, 1)]>>
    [] kind = "penalty" -> <<[op |-> "add_linear", w |-> -3, col |-> Column(rows, 0)],
                             [op |-> "decay", w |-> 1, col |-> Column(rows, 2)]>>

Query(scale, k, min, rows, gone, kind) ==
  [scale |-> scale, k |-> k, min |-> min, pass |-> (0 .. rows - 1) \ gone,
   chain |-> Stages(kind, rows)]

OneShard(a, b, cut, tailFile, scale, k, min, gone, kind) ==
  [store |-> <<Shard(a, b, 9, cut, Len(scale), tailFile)>>, offset |-> <<0>>,
   q |-> <<Query(scale, k, min, 9, gone, kind)>>, breaks |-> FALSE]

TwoShards(left, right, scale, k, min, gone, kind, breaks) ==
  [store |-> <<Shard(left[1], left[2], 5, 3, Len(scale), TRUE),
               Shard(right[1], right[2], 4, 0, Len(scale), TRUE)>>,
   offset |-> <<0, 100>>,
   q |-> <<Query(scale, k, min, 5, gone, kind), Query(scale, k, min, 4, gone, kind)>>,
   breaks |-> breaks]

Shapes == {<<0, {}, "none">>, <<9, {2, 6}, "boost">>, <<0, {2}, "penalty">>}

LexicalQueriesDef ==
  {OneShard(a, 2, 4, TRUE, scale, k, shape[1], shape[2], shape[3]) :
     a \in 0 .. 2, scale \in {<<1, 3>>, <<1, 2, 5>>}, k \in {1, 2}, shape \in Shapes}
    \cup
  {OneShard(1, 1, cut, cut = 0, <<1, 3>>, 2, 0, {}, "none") : cut \in {0, 4, 8}}
    \cup
  {TwoShards(<<0, 1>>, <<1, 2>>, <<1, 3>>, shape[4], shape[1], shape[2], shape[3], FALSE) :
     shape \in {<<0, {}, "none", 2>>, <<0, {2}, "penalty", 1>>}}
    \cup
  {TwoShards(<<1, 2>>, <<1, 2>>, <<2>>, 1, 0, {0}, "none", TRUE)}

StreamedSpec == StreamedInit /\ [][StreamedNext]_sys
=============================================================================
