---------------------------- MODULE LexicalFile ----------------------------
(***************************************************************************)
(* The lexical index of a shard and its file (postings.rs).  Documents     *)
(* join a store in memory at ascending slots, some slots staying empty;    *)
(* save lays the store out as sections that tile a file, stamps it and     *)
(* renames it into place; a build too large for memory writes the same     *)
(* file from sorted runs.  A reader finds everything again by offset and   *)
(* binary search, and turns a field back into documents.                   *)
(*                                                                         *)
(* Sizes are in entries, not bytes.  A file is the record of its sections; *)
(* what the header stores is the offset of each group.  A document is      *)
(* [fields, text, lineage, values]; a field of it [terms, length, sents],  *)
(* terms a sequence of [term, tf, occ, pos] by ascending term.             *)
(***************************************************************************)
EXTENDS SystemState, Integers, Sequences, FiniteSets, SequencesExt

CONSTANTS LexicalDocs,    \* the documents that may arrive
          LexicalTables,  \* declarations: [fields, positions, sentences, columns]
          LexicalSlots,   \* slots a store may come to have
          LexicalTerms,   \* the terms 1..LexicalTerms
          SpillCaps       \* buffered postings at which the builder spills a run

----------------------------------------------------------------------------
(***************************************************************************)
(* The column stores of the lexical index file (postings.rs,               *)
(* integer_map.rs).  A store in memory keeps its dictionaries in the order *)
(* in which it first saw the values, the file keeps them in byte order,    *)
(* and the reader finds values by binary search: every ordinal of every    *)
(* document is translated on the way to the file.                          *)
(*                                                                         *)
(* A string is a number (its rank in byte order); an ordinal counts from 1 *)
(* and 0 is FACET_ABSENT; a value a document may lack is a set of at most  *)
(* one element; slot s of the source is element s + 1 of a sequence.       *)
(***************************************************************************)
Sorted(s) == SortSeq(s, LAMBDA a, b : a < b)
ByKey(pairs) == SortSeq(pairs, LAMBDA a, b : a[1] < b[1])
PadTo(s, n, absent) == s \o [i \in 1..(n - Len(s)) |-> absent]
Bounds(values) ==
  IF values = {} THEN {} ELSE {<<Min(values), Max(values)>>}

(* Where key is in ascending keys, from lo up to but not including hi.      *)
RECURSIVE Search(_, _, _, _)
Search(keys, key, lo, hi) ==
  IF lo >= hi THEN {}
  ELSE LET mid == (lo + hi) \div 2
       IN CASE keys[mid] = key -> {mid}
            [] keys[mid] < key -> Search(keys, key, mid + 1, hi)
            [] OTHER -> Search(keys, key, lo, mid)

(***************************************************************************)
(* In memory.                                                              *)
(***************************************************************************)
intern(dict, v) == IF Contains(dict, v) THEN dict ELSE Append(dict, v)
OrdinalIn(dict, v) == CHOOSE i \in DOMAIN dict : dict[i] = v

NoFacets == [dict |-> <<>>, ords |-> <<>>]
facet_set(f, slot, v) ==
  LET dict == intern(f.dict, v)
  IN [dict |-> dict, ords |-> Append(PadTo(f.ords, slot, 0), OrdinalIn(dict, v))]

value_set(vals, slot, v) == Append(PadTo(vals, slot, {}), {v})

(* A map column: pair lists ordered by key ordinal.                         *)
NoMap == [keys |-> <<>>, values |-> <<>>, pairs |-> <<>>]
map_facet_set(m, slot, key, value) ==
  LET keys == intern(m.keys, key)
      values == intern(m.values, value)
      pairs == PadTo(m.pairs, slot + 1, <<>>)
  IN [keys |-> keys, values |-> values,
      pairs |-> [pairs EXCEPT ![slot + 1] = ByKey(Append(@, <<OrdinalIn(keys, key), OrdinalIn(values, value)>>))]]
map_numeric_set(m, slot, key, value) ==
  LET keys == intern(m.keys, key)
      pairs == PadTo(m.pairs, slot + 1, <<>>)
  IN [m EXCEPT !.keys = keys, !.pairs = [pairs EXCEPT ![slot + 1] = ByKey(Append(@, <<OrdinalIn(keys, key), value>>))]]

key_min_max(m) ==
  [k \in DOMAIN m.keys |-> Bounds({p[2] : p \in {q \in UNION {Range(m.pairs[s]) : s \in DOMAIN m.pairs} : q[1] = k}})]

(***************************************************************************)
(* To the file: dictionaries in byte order, ordinals translated.           *)
(***************************************************************************)
sorted_dictionary(dict) == Sorted(dict)
Remap(dict) == [old \in DOMAIN dict |-> OrdinalIn(sorted_dictionary(dict), dict[old])]

write_facet_column(f, n) ==
  [dict |-> sorted_dictionary(f.dict),
   ords |-> [s \in 1..n |-> IF s > Len(f.ords) \/ f.ords[s] = 0 THEN 0 ELSE Remap(f.dict)[f.ords[s]]]]

(* One running count per slot after a leading 0, then the pairs end to end. *)
write_map_offsets_and_pairs(pairs, n) ==
  LET list == PadTo(pairs, n, <<>>)
  IN [offsets |-> [s \in 1..(n + 1) |-> Len(FlattenSeq(SubSeq(list, 1, s - 1)))], pairs |-> FlattenSeq(SubSeq(list, 1, n))]

(* The pairs of a document, remapped and put back in key order.             *)
RemapPairs(list, keys) == ByKey([i \in DOMAIN list |-> <<Remap(keys)[list[i][1]], list[i][2]>>])

write_map_facet_column(m, n) ==
  LET Named(list) == [i \in DOMAIN list |-> <<list[i][1], Remap(m.values)[list[i][2]]>>]
      laid == write_map_offsets_and_pairs([s \in DOMAIN m.pairs |-> RemapPairs(Named(m.pairs[s]), m.keys)], n)
  IN [keys |-> sorted_dictionary(m.keys), values |-> sorted_dictionary(m.values), offsets |-> laid.offsets, pairs |-> laid.pairs]

(* Each key's bounds travel with the key.                                   *)
write_map_numeric_column(m, n) ==
  LET laid == write_map_offsets_and_pairs([s \in DOMAIN m.pairs |-> RemapPairs(m.pairs[s], m.keys)], n)
      keys == sorted_dictionary(m.keys)
  IN [keys |-> keys, bounds |-> [k \in DOMAIN keys |-> key_min_max(m)[OrdinalIn(m.keys, keys[k])]],
      offsets |-> laid.offsets, pairs |-> laid.pairs]

(* Integers have no value to spare for an absent one: a zero and a clear    *)
(* bit.                                                                     *)
ValueOr(vals, s, absent) == IF s > Len(vals) \/ vals[s] = {} THEN absent ELSE CHOOSE v \in vals[s] : TRUE
write_integer_column(vals, n) ==
  [bounds |-> Bounds(UNION Range(vals)), vals |-> [s \in 1..n |-> ValueOr(vals, s, 0)],
   present |-> [s \in 1..n |-> s <= Len(vals) /\ vals[s] # {}]]

(* Doubles and points do: the pattern that is no number.                    *)
write_numeric_column(vals, n) == [bounds |-> Bounds(UNION Range(vals)), vals |-> PadTo(vals, n, {})]
geo_bbox(vals) == [lat |-> Bounds({p[1] : p \in UNION Range(vals)}), lon |-> Bounds({p[2] : p \in UNION Range(vals)})]
write_geo_column(vals, n) == [bounds |-> geo_bbox(vals), vals |-> PadTo(vals, n, {})]

(***************************************************************************)
(* From the file: what a reader answers.                                   *)
(***************************************************************************)
dictionary_lookup(dict, v) ==
  IF dict = Sorted(dict)
  THEN Search(dict, v, 1, Len(dict) + 1)
  ELSE {i \in DOMAIN dict : dict[i] = v}

facet_value(c, slot) == IF slot >= Len(c.ords) \/ c.ords[slot + 1] = 0 THEN {} ELSE {c.dict[c.ords[slot + 1]]}
numeric_value(c, slot) == IF slot >= Len(c.vals) THEN {} ELSE c.vals[slot + 1]
integer_value(c, slot) == IF slot >= Len(c.vals) \/ ~c.present[slot + 1] THEN {} ELSE {c.vals[slot + 1]}

map_pair_range(c, slot) == <<c.offsets[slot + 1], c.offsets[slot + 2]>>
PairUnder(c, key, slot) ==
  LET keys == [i \in DOMAIN c.pairs |-> c.pairs[i][1]]
      range == map_pair_range(c, slot)
  IN {c.pairs[i][2] : i \in UNION {Search(keys, k, range[1] + 1, range[2] + 1) : k \in dictionary_lookup(c.keys, key)}}
map_facet_value(c, key, slot) == {c.values[v] : v \in PairUnder(c, key, slot)}
map_numeric_value(c, key, slot) == PairUnder(c, key, slot)

(***************************************************************************)
(* From the file: what the structural validation requires of each kind.    *)
(***************************************************************************)
ValidFacet(c, n) == Len(c.ords) = n /\ \A s \in 1..n : c.ords[s] = 0 \/ c.ords[s] \in DOMAIN c.dict
ValidNumeric(c, n) == Len(c.vals) = n /\ c.bounds = Bounds(UNION Range(c.vals))
ValidInteger(c, n) ==
  /\ Len(c.vals) = n /\ Len(c.present) = n
  /\ \A s \in 1..n : c.present[s] \/ c.vals[s] = 0
  /\ c.bounds = Bounds({c.vals[s] : s \in {t \in 1..n : c.present[t]}})
ValidGeo(c, n) == Len(c.vals) = n /\ c.bounds = geo_bbox(c.vals)
ValidPairs(c, n) ==
  /\ Len(c.offsets) = n + 1 /\ c.offsets[1] = 0 /\ c.offsets[n + 1] = Len(c.pairs)
  /\ \A s \in 1..n :
       /\ c.offsets[s] <= c.offsets[s + 1] /\ c.offsets[s + 1] <= Len(c.pairs)
       /\ \A i \in (c.offsets[s] + 1)..c.offsets[s + 1] :
            /\ c.pairs[i][1] \in DOMAIN c.keys
            /\ i > c.offsets[s] + 1 => c.pairs[i - 1][1] < c.pairs[i][1]
ValidMapFacet(c, n) == ValidPairs(c, n) /\ \A i \in DOMAIN c.pairs : c.pairs[i][2] \in DOMAIN c.values
ValidMapNumeric(c, n) ==
  /\ ValidPairs(c, n)
  /\ \A k \in DOMAIN c.keys : c.bounds[k] = Bounds({p[2] : p \in {q \in Range(c.pairs) : q[1] = k}})
ValidIntegerMap(c, n) == ValidMapNumeric(c, n) /\ \A k \in 1..(Len(c.keys) - 1) : c.keys[k] < c.keys[k + 1]

(***************************************************************************)
(* Back into memory: the file's order becomes the order of first sight.    *)
(***************************************************************************)
LoadFacet(c) == [dict |-> c.dict, ords |-> c.ords]
LoadValues(c) == c.vals
LoadIntegers(c) == [s \in DOMAIN c.vals |-> IF c.present[s] THEN {c.vals[s]} ELSE {}]
SplitPairs(c) == [s \in 1..(Len(c.offsets) - 1) |-> SubSeq(c.pairs, c.offsets[s] + 1, c.offsets[s + 1])]
LoadMapFacet(c) == [keys |-> c.keys, values |-> c.values, pairs |-> SplitPairs(c)]
LoadMapNumeric(c) == [keys |-> c.keys, values |-> <<>>, pairs |-> SplitPairs(c)]

----------------------------------------------------------------------------
(* The sections of the file *)
PrefixSums(sizes) == [i \in 1..(Len(sizes) + 1) |-> FoldLeft(LAMBDA a, b : a + b, 0, SubSeq(sizes, 1, i - 1))]
SumOf(sizes) == FoldLeft(LAMBDA a, b : a + b, 0, sizes)
Lens(lists) == [i \in DOMAIN lists |-> Len(lists[i])]

(***************************************************************************)
(* The store in memory.                                                    *)
(***************************************************************************)
NoColumn(kind) ==
  CASE kind = "facet" -> NoFacets
    [] kind \in {"mapf", "mapn", "imap"} -> NoMap
    [] OTHER -> <<>>
EmptyField == [lengths |-> <<>>, total |-> 0, postings |-> [t \in 1..LexicalTerms |-> <<>>], sents |-> <<>>]
EmptyStore(table) ==
  [texts |-> <<>>, lineages |-> <<>>, fields |-> [f \in 1..table.fields |-> EmptyField],
   columns |-> [c \in DOMAIN table.columns |-> NoColumn(table.columns[c])]]

(* The values of a document's column, applied one at a time.                *)
SetColumn(kind, column, slot, values) ==
  FoldLeft(LAMBDA col, v :
             CASE kind = "facet" -> facet_set(col, slot, v)
               [] kind = "mapf" -> map_facet_set(col, slot, v[1], v[2])
               [] kind \in {"mapn", "imap"} -> map_numeric_set(col, slot, v[1], v[2])
               [] OTHER -> value_set(col, slot, v),
           column, values)

Analyzed(doc, f) == IF f <= Len(doc.fields) THEN doc.fields[f] ELSE [terms |-> <<>>, length |-> 0, sents |-> <<>>]
AddField(table, field, f, slot, doc) ==
  LET analyzed == Analyzed(doc, f)
      Of(t) == SelectSeq(analyzed.terms, LAMBDA e : e.term = t)
      Posting(e) == [doc |-> slot, tf |-> e.tf, occ |-> e.occ, pos |-> IF f \in table.positions THEN e.pos ELSE <<>>]
  IN [lengths |-> Append(PadTo(field.lengths, slot, 0), analyzed.length),
      total |-> field.total + analyzed.length,
      postings |-> [t \in 1..LexicalTerms |-> field.postings[t] \o [i \in DOMAIN Of(t) |-> Posting(Of(t)[i])]],
      sents |-> IF f \in table.sentences THEN Append(PadTo(field.sents, slot, <<>>), analyzed.sents) ELSE <<>>]
add_document_with_lineage(table, store, slot, doc) ==
  [texts |-> Append(PadTo(store.texts, slot, {}), {doc.text}),
   lineages |-> Append(PadTo(store.lineages, slot, {}), doc.lineage),
   fields |-> [f \in 1..table.fields |-> AddField(table, store.fields[f], f, slot, doc)],
   columns |-> [c \in DOMAIN table.columns |->
                  SetColumn(table.columns[c], store.columns[c], slot, doc.values[table.columns[c]])]]

(***************************************************************************)
(* The sections.  A text is its length and its characters; an empty slot   *)
(* still takes the place of a length.  The index leads past the length.    *)
(***************************************************************************)
Absent == -1
ShiftOf_NoMarker(text) == IF text = {} THEN 0 ELSE 1 + Len(CHOOSE t \in text : TRUE)
ShiftOf(text) == IF text = {} THEN 1 ELSE 1 + Len(CHOOSE t \in text : TRUE)
TextCells(text) == IF text = {} THEN <<Absent>> ELSE LET t == CHOOSE t \in text : TRUE IN <<Len(t)>> \o t
LineageCells(lineage) == IF lineage = {} THEN <<0>> ELSE <<1, CHOOSE l \in lineage : TRUE>>
write_shared_sections(texts, lineages) ==
  LET at == PrefixSums([s \in DOMAIN texts |-> ShiftOf(texts[s])])
  IN [texts |-> FlattenSeq([s \in DOMAIN texts |-> TextCells(texts[s])]),
      index |-> [s \in DOMAIN texts |-> IF texts[s] = {} THEN <<0, Absent>> ELSE <<at[s] + 1, TextCells(texts[s])[1]>>],
      lineages |-> FlattenSeq([s \in DOMAIN lineages |-> LineageCells(lineages[s])])]

(* A term's run: its documents with the number of occurrences before each, *)
(* the count of all of them, and the occurrences.                          *)
OccStarts(postings) == PrefixSums([i \in DOMAIN postings |-> Len(postings[i].occ)])
TermRun(postings) ==
  [i \in DOMAIN postings |-> <<postings[i].doc, postings[i].tf, OccStarts(postings)[i]>>]
  \o <<<<OccStarts(postings)[Len(postings) + 1]>>>>
  \o FlattenSeq([i \in DOMAIN postings |-> [o \in DOMAIN postings[i].occ |-> <<postings[i].occ[o]>>]])
sorted_terms(field) == SelectSeq([t \in 1..LexicalTerms |-> t], LAMBDA t : field.postings[t] # <<>>)
write_field_postings(field) ==
  LET terms == sorted_terms(field)
      runs == [i \in DOMAIN terms |-> TermRun(field.postings[terms[i]])]
      at == PrefixSums(Lens(runs))
  IN [body |-> FlattenSeq(runs),
      dir |-> [i \in DOMAIN terms |->
                 [term |-> terms[i], doc |-> at[i], occ |-> at[i] + Len(field.postings[terms[i]]) + 1, df |-> Len(field.postings[terms[i]])]]]

(* Positions by term and sentences by slot: running counts, then the lot.   *)
BasedSection(lists) == [bases |-> PrefixSums(Lens(lists)), data |-> FlattenSeq(lists)]
PositionsSection(field) ==
  BasedSection([i \in DOMAIN sorted_terms(field) |->
                  LET ps == field.postings[sorted_terms(field)[i]] IN FlattenSeq([p \in DOMAIN ps |-> ps[p].pos])])
SentencesSection(field, n) == BasedSection(PadTo(field.sents, n, <<>>))

WriteColumn(kind, column, n) ==
  CASE kind = "facet" -> write_facet_column(column, n)
    [] kind = "num" -> write_numeric_column(column, n)
    [] kind = "mapf" -> write_map_facet_column(column, n)
    [] kind \in {"mapn", "imap"} -> write_map_numeric_column(column, n)
    [] kind \in {"int", "uint"} -> write_integer_column(column, n)
    [] kind = "geo" -> write_geo_column(column, n)
    [] kind = "source" -> [vals |-> PadTo(column, n, {})]

(* The order of the groups after the fields, and what each takes.           *)
KindOrder == <<"facet", "num", "mapf", "mapn", "int", "geo", "positions", "sentences", "uint", "imap", "source">>
GroupSize(kind, d) ==
  CASE kind = "facet" -> Len(d.dict) + Len(d.ords)
    [] kind = "mapf" -> Len(d.keys) + Len(d.values) + Len(d.offsets) + Len(d.pairs)
    [] kind \in {"mapn", "imap"} -> Len(d.keys) + Len(d.offsets) + Len(d.pairs)
    [] kind \in {"positions", "sentences"} -> 1 + Len(d.bases) + Len(d.data)
    [] kind \in {"int", "uint"} -> 2 * Len(d.vals)
    [] OTHER -> Len(d.vals)
FieldSize(g) == Len(g.lengths) + 1 + Len(g.body) + 1 + Len(g.dir)
GroupsOf(table, columns, positions, sentences) ==
  LET Fields(kept) == SelectSeq([f \in 1..table.fields |-> f], LAMBDA f : f \in kept)
      Of(kind) ==
        CASE kind = "positions" -> [i \in DOMAIN Fields(table.positions) |->
                                      [kind |-> kind, of |-> Fields(table.positions)[i], data |-> positions[Fields(table.positions)[i]]]]
          [] kind = "sentences" -> [i \in DOMAIN Fields(table.sentences) |->
                                      [kind |-> kind, of |-> Fields(table.sentences)[i], data |-> sentences[Fields(table.sentences)[i]]]]
          [] OTHER -> LET cs == SelectSeq([c \in DOMAIN table.columns |-> c], LAMBDA c : table.columns[c] = kind)
                      IN [i \in DOMAIN cs |-> [kind |-> kind, of |-> cs[i], data |-> columns[cs[i]]]]
  IN FlattenSeq([k \in DOMAIN KindOrder |-> Of(KindOrder[k])])

(* Every section in its place: the shared ones, the fields, the columns.    *)
Assemble(n, shared, fields, groups) ==
  LET start == Len(shared.texts) + Len(shared.index) + Len(shared.lineages)
      at == PrefixSums([f \in DOMAIN fields |-> FieldSize(fields[f])] \o [g \in DOMAIN groups |-> GroupSize(groups[g].kind, groups[g].data)])
  IN [magic |-> IF groups = <<>> THEN "v6" ELSE "v7", tail |-> "none", slots |-> n, shared |-> shared,
      fields |-> [f \in DOMAIN fields |-> [off |-> start + at[f], group |-> fields[f]]],
      groups |-> [g \in DOMAIN groups |-> [off |-> start + at[Len(fields) + g], group |-> groups[g]]],
      length |-> start + at[Len(at)]]
FieldGroup(lengths, total, postings) == [lengths |-> lengths, total |-> total, body |-> postings.body, dir |-> postings.dir]
write_v6_ordered(table, store) ==
  LET n == Len(store.texts)
      columns == [c \in DOMAIN table.columns |-> WriteColumn(table.columns[c], store.columns[c], n)]
      positions == [f \in table.positions |-> PositionsSection(store.fields[f])]
      sentences == [f \in table.sentences |-> SentencesSection(store.fields[f], n)]
  IN Assemble(n, write_shared_sections(store.texts, store.lineages),
              [f \in 1..table.fields |-> FieldGroup(store.fields[f].lengths, store.fields[f].total, write_field_postings(store.fields[f]))],
              GroupsOf(table, columns, positions, sentences))

(***************************************************************************)
(* The builder that spills: texts, lengths and sentences go out as they    *)
(* come, postings are buffered, spilled in sorted runs and merged.         *)
(***************************************************************************)
EmptyBuilder(table) ==
  [shared |-> [texts |-> <<>>, lens |-> <<>>, lineages |-> <<>>], store |-> EmptyStore(table),
   buf |-> [f \in 1..table.fields |-> <<>>], runs |-> [f \in 1..table.fields |-> <<>>],
   bases |-> [f \in 1..table.fields |-> <<>>], spans |-> [f \in 1..table.fields |-> <<>>]]

(* A run: the buffer by term and document, one group for each term.         *)
RunOf(buf) ==
  LET terms == SelectSeq([t \in 1..LexicalTerms |-> t], LAMBDA t : \E i \in DOMAIN buf : buf[i].term = t)
  IN [k \in DOMAIN terms |-> [term |-> terms[k], postings |->
        SortSeq(SelectSeq(buf, LAMBDA e : e.term = terms[k]), LAMBDA a, b : a.doc < b.doc)]]
spill_run(b) ==
  [b EXCEPT !.runs = [f \in DOMAIN @ |-> IF b.buf[f] = <<>> THEN @[f] ELSE Append(@[f], RunOf(b.buf[f]))],
            !.buf = [f \in DOMAIN @ |-> <<>>]]

SpillGap(b) ==
  [b EXCEPT !.shared = [texts |-> Append(@.texts, Absent), lens |-> Append(@.lens, Absent), lineages |-> Append(@.lineages, {})],
            !.bases = [f \in DOMAIN @ |-> Append(@[f], Len(b.spans[f]))]]
SpillAdd(table, b, slot, doc, cap) ==
  LET gaps == FoldLeft(LAMBDA x, i : SpillGap(x), b, [i \in 1..(slot - Len(b.shared.lens)) |-> i])
      Entries(f) == [i \in DOMAIN Analyzed(doc, f).terms |->
                       [term |-> Analyzed(doc, f).terms[i].term, doc |-> slot, tf |-> Analyzed(doc, f).terms[i].tf,
                        occ |-> Analyzed(doc, f).terms[i].occ,
                        pos |-> IF f \in table.positions THEN Analyzed(doc, f).terms[i].pos ELSE <<>>]]
      added == [gaps EXCEPT
        !.shared = [texts |-> @.texts \o <<Len(doc.text)>> \o doc.text, lens |-> Append(@.lens, Len(doc.text)), lineages |-> Append(@.lineages, doc.lineage)],
        !.bases = [f \in DOMAIN @ |-> Append(@[f], Len(gaps.spans[f]))],
        !.spans = [f \in DOMAIN @ |-> @[f] \o Analyzed(doc, f).sents],
        !.buf = [f \in DOMAIN @ |-> @[f] \o Entries(f)],
        !.store = add_document_with_lineage(table, @, slot, doc)]
  IN IF SumOf(Lens(added.buf)) >= cap THEN spill_run(added) ELSE added

(* The smallest term at the heads, drained from each in the order of runs.  *)
RECURSIVE merge_field_runs(_, _)
merge_field_runs(heads, out) ==
  LET left == SelectSeq(heads, LAMBDA r : r # <<>>)
      term == Min({left[r][1].term : r \in DOMAIN left})
      Stream(o, p) == [o EXCEPT !.docs = Append(@, <<p.doc, p.tf, o.start>>), !.occ = @ \o [k \in DOMAIN p.occ |-> <<p.occ[k]>>],
                                !.pos = @ \o p.pos, !.start = @ + Len(p.occ)]
      Drain(o, run) == IF run[1].term = term THEN FoldLeft(Stream, o, run[1].postings) ELSE o
      run == FoldLeft(Drain, [docs |-> <<>>, occ |-> <<>>, pos |-> <<>>, start |-> 0], left)
  IN IF left = <<>> THEN [out EXCEPT !.bases = Append(@, Len(out.pos))]
     ELSE merge_field_runs([r \in DOMAIN left |-> IF left[r][1].term = term THEN Tail(left[r]) ELSE left[r]],
            [body |-> out.body \o run.docs \o <<<<run.start>>>> \o run.occ,
             dir |-> Append(out.dir, [term |-> term, doc |-> Len(out.body), occ |-> Len(out.body) + Len(run.docs) + 1, df |-> Len(run.docs)]),
             bases |-> Append(out.bases, Len(out.pos)), pos |-> out.pos \o run.pos])

SpillShared(b) ==
  LET n == Len(b.shared.lens)
      at == PrefixSums([s \in 1..n |-> IF b.shared.lens[s] = Absent THEN 1 ELSE 1 + b.shared.lens[s]])
  IN [texts |-> b.shared.texts, lineages |-> FlattenSeq([s \in 1..n |-> LineageCells(b.shared.lineages[s])]),
      index |-> [s \in 1..n |-> IF b.shared.lens[s] = Absent THEN <<0, Absent>> ELSE <<at[s] + 1, b.shared.lens[s]>>]]
SpillFields(table, b, merged) ==
  [f \in 1..table.fields |-> FieldGroup(b.store.fields[f].lengths, b.store.fields[f].total, merged[f])]
SpillGroups(table, b, merged) ==
  LET columns == [c \in DOMAIN table.columns |-> WriteColumn(table.columns[c], b.store.columns[c], Len(b.shared.lens))]
      positions == [f \in table.positions |-> [bases |-> merged[f].bases, data |-> merged[f].pos]]
      sentences == [f \in table.sentences |-> [bases |-> Append(b.bases[f], Len(b.spans[f])), data |-> b.spans[f]]]
  IN GroupsOf(table, columns, positions, sentences)
finish_v6(table, builder) ==
  LET b == spill_run(builder)
      merged == [f \in 1..table.fields |-> merge_field_runs(b.runs[f], [body |-> <<>>, dir |-> <<>>, bases |-> <<>>, pos |-> <<>>])]
  IN Assemble(Len(b.shared.lens), SpillShared(b), SpillFields(table, b, merged), SpillGroups(table, b, merged))
SpilledFile(table, arrived, cap) ==
  finish_v6(table, FoldLeft(LAMBDA b, a : SpillAdd(table, b, a.slot, a.doc, cap), EmptyBuilder(table), arrived))

(***************************************************************************)
(* Structural validation: every section starts where the one before ended  *)
(* and ends where the next one the kind looks for starts.                  *)
(***************************************************************************)
FileEnd(file) == IF file.magic # "v8" /\ file.tail # "none" THEN file.length + 1 ELSE file.length
FirstOf(file, kinds, otherwise) ==
  LET at == {g \in DOMAIN file.groups : file.groups[g].group.kind \in kinds}
  IN IF at = {} THEN otherwise ELSE file.groups[Min(at)].off
columns_end(file) == FirstOf(file, {"uint", "imap", "source"}, FileEnd(file))
(* The kinds a group of this kind takes for its successors, in this order.  *)
LooksFor(kind) ==
  CASE kind = "field" -> SubSeq(KindOrder, 1, 8)
    [] kind \in {"facet", "num", "mapf", "mapn", "int", "geo"} -> SubSeq(KindOrder, OrdinalIn(KindOrder, kind) + 1, 7)
    [] kind = "positions" -> <<"sentences">>
    [] OTHER -> <<>>
expected_end(file, kind) ==
  CASE kind = "uint" -> FirstOf(file, {"imap", "source"}, FileEnd(file))
    [] kind = "imap" -> FirstOf(file, {"source"}, FileEnd(file))
    [] kind = "source" -> FileEnd(file)
    [] OTHER -> FirstOf(file, Range(LooksFor(kind)), columns_end(file))
Tiles(file) ==
  LET Field(f) == [kind |-> "field", off |-> file.fields[f].off, size |-> FieldSize(file.fields[f].group)]
      Group(g) == [kind |-> file.groups[g].group.kind, off |-> file.groups[g].off,
                   size |-> GroupSize(file.groups[g].group.kind, file.groups[g].group.data)]
      all == [f \in DOMAIN file.fields |-> Field(f)] \o [g \in DOMAIN file.groups |-> Group(g)]
      lineage_end == Len(file.shared.texts) + Len(file.shared.index) + Len(file.shared.lineages)
  IN \A i \in DOMAIN all :
       /\ all[i].off = (IF i = 1 THEN lineage_end ELSE all[i - 1].off + all[i - 1].size)
       /\ all[i].off + all[i].size =
            (IF i < Len(all) /\ all[i + 1].kind = all[i].kind THEN all[i + 1].off ELSE expected_end(file, all[i].kind))
validate_text_index(file) ==
  \A s \in 1..file.slots : LET e == file.shared.index[s]
                           IN e[2] # Absent => e[1] >= 1 /\ e[1] + e[2] <= Len(file.shared.texts)
validate_v5_directory(g) ==
  \A i \in DOMAIN g.dir :
    LET e == g.dir[i]
        next == IF i < Len(g.dir) THEN g.dir[i + 1].doc ELSE Len(g.body)
    IN /\ i > 1 => g.dir[i - 1].term < e.term
       /\ e.occ = e.doc + e.df + 1 /\ e.occ <= next
       /\ g.body[e.doc + e.df + 1] = <<next - e.occ>>
       /\ e.df > 0 => g.body[e.doc + 1][3] = 0
Monotone(bases) == bases[1] = 0 /\ \A i \in 1..(Len(bases) - 1) : bases[i] <= bases[i + 1]
ValidBased(d, n) == Len(d.bases) = n + 1 /\ Monotone(d.bases) /\ d.bases[n + 1] = Len(d.data)
ValidGroup(file, g) ==
  LET d == g.data
      n == file.slots
  IN CASE g.kind = "facet" -> ValidFacet(d, n)
       [] g.kind = "num" -> ValidNumeric(d, n)
       [] g.kind = "mapf" -> ValidMapFacet(d, n)
       [] g.kind = "mapn" -> ValidMapNumeric(d, n)
       [] g.kind = "imap" -> ValidIntegerMap(d, n)
       [] g.kind \in {"int", "uint"} -> ValidInteger(d, n)
       [] g.kind = "geo" -> ValidGeo(d, n)
       [] g.kind = "positions" -> ValidBased(d, Len(file.fields[g.of].group.dir))
       [] g.kind = "sentences" -> ValidBased(d, n)
       [] OTHER -> Len(d.vals) = n
validate_structure_v6(file) ==
  /\ validate_text_index(file) /\ Tiles(file)
  /\ \A f \in DOMAIN file.fields :
       LET g == file.fields[f].group
       IN Len(g.lengths) = file.slots /\ SumOf(g.lengths) = g.total /\ validate_v5_directory(g)
  /\ \A i \in DOMAIN file.groups : ValidGroup(file, file.groups[i].group)

(* The starts the stamp lists a checksum for, which may never descend.      *)
v6v7_section_starts(file) ==
  [f \in DOMAIN file.fields |-> file.fields[f].off] \o [g \in DOMAIN file.groups |-> file.groups[g].off]
Stampable(file) ==
  LET at == v6v7_section_starts(file)
  IN \A i \in 1..(Len(at) - 1) : at[i] <= at[i + 1]

(* A stamped file proves its payload; an older magic is taken as it is.     *)
Opens(file) == (file.magic = "v8" => file.tail = "whole") /\ validate_structure_v6(file)

(***************************************************************************)
(* The reader.                                                             *)
(***************************************************************************)
read_text(file, slot) ==
  IF slot >= file.slots \/ file.shared.index[slot + 1][2] = Absent THEN {}
  ELSE LET e == file.shared.index[slot + 1] IN {SubSeq(file.shared.texts, e[1] + 1, e[1] + e[2])}
(* The lineages have no index: one is built by a walk over the markers.     *)
RECURSIVE LineageAt(_, _, _)
LineageAt(cells, at, slot) ==
  IF slot = 0 THEN at ELSE LineageAt(cells, at + (IF cells[at] = 0 THEN 1 ELSE 2), slot - 1)
read_lineage(file, slot) ==
  LET at == LineageAt(file.shared.lineages, 1, slot)
  IN IF file.shared.lineages[at] = 0 THEN {} ELSE {file.shared.lineages[at + 1]}

directory_lookup_v5(g, term) == Search([i \in DOMAIN g.dir |-> g.dir[i].term], term, 1, Len(g.dir) + 1)
v5_doc_entry(g, i, j) == g.body[g.dir[i].doc + j]
v5_occ_start(g, i, j) == IF j > g.dir[i].df THEN g.body[g.dir[i].doc + j][1] ELSE v5_doc_entry(g, i, j)[3]
v5_occ_slice(g, i, j) ==
  [o \in 1..(v5_occ_start(g, i, j + 1) - v5_occ_start(g, i, j)) |-> g.body[g.dir[i].occ + v5_occ_start(g, i, j) + o][1]]
SectionOf(file, kind, of) ==
  {file.groups[i].group.data : i \in {k \in DOMAIN file.groups : file.groups[k].group.kind = kind /\ file.groups[k].group.of = of}}
v5_positions(file, f, i, j) ==
  LET g == file.fields[f].group
  IN UNION {{SubSeq(d.data, d.bases[i] + v5_occ_start(g, i, j) + 1, d.bases[i] + v5_occ_start(g, i, j + 1))} :
              d \in SectionOf(file, "positions", f)}
for_each_posting(file, f, term) ==
  LET g == file.fields[f].group
      Entry(i, j) == [doc |-> v5_doc_entry(g, i, j)[1], tf |-> v5_doc_entry(g, i, j)[2], occ |-> v5_occ_slice(g, i, j),
                      pos |-> v5_positions(file, f, i, j)]
  IN UNION {{Entry(i, j) : j \in 1..g.dir[i].df} : i \in directory_lookup_v5(g, term)}
field_doc_sentences(file, f, slot) ==
  {IF slot >= file.slots THEN <<>> ELSE SubSeq(d.data, d.bases[slot + 1] + 1, d.bases[slot + 2]) : d \in SectionOf(file, "sentences", f)}
ColumnValue(kind, d, slot) ==
  CASE kind = "facet" -> facet_value(d, slot)
    [] kind \in {"int", "uint"} -> integer_value(d, slot)
    [] OTHER -> numeric_value(d, slot)
MapKeys == 1..3
MapValue(kind, d, key, slot) == IF kind = "mapf" THEN map_facet_value(d, key, slot) ELSE map_numeric_value(d, key, slot)

(* The slots in which some field has a length.                              *)
doc_count(file) ==
  Cardinality({s \in 1..file.slots : \E f \in DOMAIN file.fields : file.fields[f].group.lengths[s] > 0})
(* A field keyed by row again, rows being counted by doc_count: nothing when *)
(* a posting names a row past them.                                         *)
transpose(file, f) ==
  LET g == file.fields[f].group
      rows == doc_count(file)
      Entry(i, j) == [doc |-> v5_doc_entry(g, i, j)[1], term |-> g.dir[i].term, tf |-> v5_doc_entry(g, i, j)[2],
                      occ |-> v5_occ_slice(g, i, j), pos |-> v5_positions(file, f, i, j)]
      walk == FlattenSeq([i \in DOMAIN g.dir |-> [j \in 1..g.dir[i].df |-> Entry(i, j)]])
      Row(r) == [terms |-> SelectSeq(walk, LAMBDA e : e.doc = r - 1), length |-> g.lengths[r], sents |-> field_doc_sentences(file, f, r - 1)]
  IN IF \E i \in DOMAIN walk : walk[i].doc >= rows THEN {} ELSE {[r \in 1..rows |-> Row(r)]}

(* The store a file is read back into: what was ordered stays ordered.      *)
LoadColumn(kind, d) ==
  CASE kind = "facet" -> LoadFacet(d)
    [] kind = "mapf" -> LoadMapFacet(d)
    [] kind \in {"mapn", "imap"} -> LoadMapNumeric(d)
    [] kind \in {"int", "uint"} -> LoadIntegers(d)
    [] OTHER -> LoadValues(d)
read_v5_shaped_postings(file, f, t) ==
  LET g == file.fields[f].group
      Posting(i, j) == [doc |-> v5_doc_entry(g, i, j)[1], tf |-> v5_doc_entry(g, i, j)[2], occ |-> v5_occ_slice(g, i, j),
                        pos |-> FlattenSeq(SetToSeq(v5_positions(file, f, i, j)))]
  IN FlattenSeq(SetToSeq({[j \in 1..g.dir[i].df |-> Posting(i, j)] : i \in directory_lookup_v5(g, t)}))
read_v6v7_from(table, file) ==
  [texts |-> [s \in 1..file.slots |-> read_text(file, s - 1)],
   lineages |-> [s \in 1..file.slots |-> read_lineage(file, s - 1)],
   fields |-> [f \in 1..table.fields |->
                 [lengths |-> file.fields[f].group.lengths, total |-> file.fields[f].group.total,
                  postings |-> [t \in 1..LexicalTerms |-> read_v5_shaped_postings(file, f, t)],
                  sents |-> IF f \in table.sentences THEN [s \in 1..file.slots |-> CHOOSE x \in field_doc_sentences(file, f, s - 1) : TRUE] ELSE <<>>]],
   columns |-> [c \in DOMAIN table.columns |-> LoadColumn(table.columns[c], CHOOSE d \in SectionOf(file, table.columns[c], c) : TRUE)]]

(***************************************************************************)
(* The formats before: one field, offsets from the start of the file, and  *)
(* before v5 the postings of a term with their occurrences between them.   *)
(***************************************************************************)
FitsOldFormat(table) == table.fields = 1 /\ table.columns = <<>> /\ table.positions = {} /\ table.sentences = {}
Rebased(shared, n) == [shared EXCEPT !.index = [s \in DOMAIN @ |-> IF @[s][2] = Absent THEN @[s] ELSE <<@[s][1] + n, @[s][2]>>]]
PostingsOff(n, shared) == n + Len(shared.texts) + Len(shared.index) + Len(shared.lineages)
OldFile(n, shared, field, runs) ==
  [slots |-> n, total |-> field.total, lengths |-> field.lengths, shared |-> Rebased(shared, n), postings_off |-> PostingsOff(n, shared), runs |-> runs]
write_to(store) ==
  LET n == Len(store.texts)
      shared == write_shared_sections(store.texts, store.lineages)
      base == PostingsOff(n, shared) + 1
      p == write_field_postings(store.fields[1])
  IN OldFile(n, shared, store.fields[1],
       [body |-> p.body, dir |-> [i \in DOMAIN p.dir |-> [p.dir[i] EXCEPT !.doc = @ + base, !.occ = @ + base]]])

(* From the same runs, the oldest layout: a term's header, then each        *)
(* posting's numbers and its occurrences.                                   *)
V3Posting(p) == <<<<p.doc, p.tf, Len(p.occ)>>>> \o [k \in DOMAIN p.occ |-> <<p.occ[k]>>]
RECURSIVE MergeV3(_, _, _)
MergeV3(heads, base, out) ==
  LET left == SelectSeq(heads, LAMBDA r : r # <<>>)
      term == Min({left[r][1].term : r \in DOMAIN left})
      run == FlattenSeq([r \in DOMAIN left |-> IF left[r][1].term = term THEN left[r][1].postings ELSE <<>>])
  IN IF left = <<>> THEN out
     ELSE MergeV3([r \in DOMAIN left |-> IF left[r][1].term = term THEN Tail(left[r]) ELSE left[r]], base,
            [body |-> out.body \o <<<<term, Len(run)>>>> \o FlattenSeq([i \in DOMAIN run |-> V3Posting(run[i])]),
             dir |-> Append(out.dir, [term |-> term, off |-> base + Len(out.body), df |-> Len(run)])])
finish_v4(table, builder) ==
  LET b == spill_run(builder)
      n == Len(b.shared.lens)
      v6 == finish_v6(table, builder)
  IN OldFile(n, v6.shared, b.store.fields[1],
       MergeV3(b.runs[1], PostingsOff(n, v6.shared) + 1, [body |-> <<>>, dir |-> <<>>]))

validate_structure(file) ==
  LET base == file.postings_off + 1
      runs == file.runs
  IN /\ SumOf(file.lengths) = file.total
     /\ \A s \in 1..file.slots : LET e == file.shared.index[s]
                                IN e[2] # Absent => e[1] >= file.slots + 1 /\ e[1] + e[2] <= file.slots + Len(file.shared.texts)
     /\ \A i \in DOMAIN runs.dir :
          /\ runs.dir[i].off >= base /\ runs.dir[i].off < base + Len(runs.body)
          /\ runs.body[runs.dir[i].off - base + 1] = <<runs.dir[i].term, runs.dir[i].df>>
          /\ i > 1 => runs.dir[i - 1].term < runs.dir[i].term

(* The postings from a cell on, each leading to the next.                   *)
RECURSIVE V3Walk(_, _, _)
V3Walk(body, at, n) ==
  IF n = 0 THEN <<>>
  ELSE <<[doc |-> body[at][1], tf |-> body[at][2], occ |-> [k \in 1..body[at][3] |-> body[at + k][1]]]>>
       \o V3Walk(body, at + 1 + body[at][3], n - 1)
v3_for_each_posting(file, i) ==
  V3Walk(file.runs.body, file.runs.dir[i].off - file.postings_off + 1, file.runs.dir[i].df)

(* The shared sections stay where they were; each term's postings are       *)
(* walked twice, for its documents and for its occurrences.                 *)
transcode_to_v5(file) ==
  LET base == file.postings_off + 1
      Run(out, i) ==
        LET ps == v3_for_each_posting(file, i)
            at == Len(out.body)
            docs == FoldLeft(LAMBDA o, p : [cells |-> Append(o.cells, <<p.doc, p.tf, o.start>>), start |-> o.start + Len(p.occ)],
                             [cells |-> <<>>, start |-> 0], ps)
        IN [body |-> out.body \o docs.cells \o <<<<docs.start>>>> \o FlattenSeq([p \in DOMAIN ps |-> [k \in DOMAIN ps[p].occ |-> <<ps[p].occ[k]>>]]),
            dir |-> Append(out.dir, [term |-> file.runs.dir[i].term, doc |-> base + at, occ |-> base + at + file.runs.dir[i].df + 1,
                                     df |-> file.runs.dir[i].df])]
  IN [file EXCEPT !.runs = FoldLeft(Run, [body |-> <<>>, dir |-> <<>>], [i \in DOMAIN file.runs.dir |-> i])]
OldFormatsAgree(table, store, arrived, cap) ==
  LET v4 == finish_v4(table, FoldLeft(LAMBDA b, a : SpillAdd(table, b, a.slot, a.doc, cap), EmptyBuilder(table), arrived))
  IN FitsOldFormat(table) =>
       /\ validate_structure(v4)
       /\ transcode_to_v5(v4) = write_to(store)

(***************************************************************************)
(* The life of the file.                                                   *)
(***************************************************************************)
LexicalInit ==
  \E table \in LexicalTables :
    sys = [part |-> "lexical", table |-> table, arrived |-> <<>>, store |-> EmptyStore(table),
           phase |-> "idle", tmp |-> {}, disk |-> {}, saved |-> <<>>, refused |-> FALSE]

(* A document takes the next slot, or one further on.                       *)
AddDocument ==
  /\ At("lexical") /\ sys.phase = "idle"
  /\ \E doc \in LexicalDocs, gap \in 0..1 :
       LET slot == Len(sys.store.texts) + gap
       IN /\ slot < LexicalSlots /\ Len(doc.fields) <= sys.table.fields
          /\ sys' = [sys EXCEPT !.store = add_document_with_lineage(sys.table, @, slot, doc),
                                !.arrived = Append(@, [slot |-> slot, doc |-> doc])]

(* save: the payload, its validation, the stamp, the magic, the rename.     *)
SaveWrites ==
  /\ At("lexical") /\ sys.phase = "idle" /\ sys.arrived # sys.saved
  /\ sys' = [sys EXCEPT !.tmp = {write_v6_ordered(sys.table, sys.store)}, !.phase = "written"]
Tmp == CHOOSE f \in sys.tmp : TRUE
FinalizeValidates ==
  /\ At("lexical") /\ sys.phase = "written"
  /\ sys' = IF validate_structure_v6(Tmp) /\ Stampable(Tmp) THEN [sys EXCEPT !.tmp = {[Tmp EXCEPT !.tail = "torn"]}, !.phase = "stamping"]
            ELSE [sys EXCEPT !.phase = "idle", !.refused = TRUE]
FinalizeStamps ==
  /\ At("lexical") /\ sys.phase = "stamping"
  /\ sys' = [sys EXCEPT !.tmp = {[Tmp EXCEPT !.tail = "whole"]}, !.phase = "stamped"]
FinalizePatches ==
  /\ At("lexical") /\ sys.phase = "stamped"
  /\ sys' = [sys EXCEPT !.tmp = {[Tmp EXCEPT !.magic = "v8"]}, !.phase = "sealed"]
SaveRenames ==
  /\ At("lexical") /\ sys.phase = "sealed"
  /\ sys' = [sys EXCEPT !.disk = sys.tmp, !.tmp = {}, !.phase = "idle", !.saved = sys.arrived]

(* The process stops anywhere and starts from the file, if there is one; a  *)
(* temporary file left behind is never read.                                *)
LexicalRestart ==
  /\ At("lexical") /\ (sys.phase # "idle" \/ sys.arrived # <<>>)
  /\ \A f \in sys.disk : Opens(f)
  /\ sys' = [sys EXCEPT !.phase = "idle", !.arrived = sys.saved, !.tmp = {},
                        !.store = IF sys.disk = {} THEN EmptyStore(sys.table)
                                  ELSE read_v6v7_from(sys.table, CHOOSE f \in sys.disk : TRUE)]
LexicalNext ==
  \/ AddDocument \/ SaveWrites \/ FinalizeValidates \/ FinalizeStamps \/ FinalizePatches \/ SaveRenames \/ LexicalRestart

(***************************************************************************)
(* What the documents say.                                                 *)
(***************************************************************************)
DocIn(arrived, slot) == {a.doc : a \in {b \in Range(arrived) : b.slot = slot}}
SaysField(table, doc, f) ==
  LET a == Analyzed(doc, f)
  IN [length |-> a.length, sents |-> IF f \in table.sentences THEN {a.sents} ELSE {},
      terms |-> [i \in DOMAIN a.terms |->
                   [term |-> a.terms[i].term, tf |-> a.terms[i].tf, occ |-> a.terms[i].occ,
                    pos |-> IF f \in table.positions THEN {a.terms[i].pos} ELSE {}]]]
ReadsField(table, file, arrived, f) ==
  /\ \A t \in 1..LexicalTerms :
       for_each_posting(file, f, t) =
         UNION {{[doc |-> a.slot, tf |-> e.tf, occ |-> e.occ, pos |-> e.pos] :
                   e \in {x \in Range(SaysField(table, a.doc, f).terms) : x.term = t}} : a \in Range(arrived)}
  /\ \A a \in Range(arrived) :
       /\ file.fields[f].group.lengths[a.slot + 1] = SaysField(table, a.doc, f).length
       /\ field_doc_sentences(file, f, a.slot) = SaysField(table, a.doc, f).sents
ReadsColumn(table, file, arrived, c) ==
  \A d \in SectionOf(file, table.columns[c], c), slot \in 0..(file.slots - 1) :
    LET values == UNION {Range(doc.values[table.columns[c]]) : doc \in DocIn(arrived, slot)}
    IN IF table.columns[c] \in {"mapf", "mapn", "imap"}
       THEN \A k \in MapKeys : MapValue(table.columns[c], d, k, slot) = {v[2] : v \in {x \in values : x[1] = k}}
       ELSE ColumnValue(table.columns[c], d, slot) = values
ReadsBack(table, file, arrived) ==
  /\ \A slot \in 0..(file.slots - 1) :
       /\ read_text(file, slot) = {doc.text : doc \in DocIn(arrived, slot)}
       /\ read_lineage(file, slot) = UNION {doc.lineage : doc \in DocIn(arrived, slot)}
  /\ \A f \in 1..table.fields : ReadsField(table, file, arrived, f)
  /\ \A c \in DOMAIN table.columns : SectionOf(file, table.columns[c], c) # {} /\ ReadsColumn(table, file, arrived, c)

(* What a transpose gives a row is what the document was analyzed to.       *)
SameField(row, said) ==
  /\ row.length = said.length /\ row.sents = said.sents /\ Len(row.terms) = Len(said.terms)
  /\ \A i \in DOMAIN said.terms :
       <<row.terms[i].term, row.terms[i].tf, row.terms[i].occ, row.terms[i].pos>>
         = <<said.terms[i].term, said.terms[i].tf, said.terms[i].occ, said.terms[i].pos>>
TransposesBack(table, file, arrived) ==
  \A f \in 1..table.fields : \A rows \in transpose(file, f) : \A a \in Range(arrived) :
    a.slot < Len(rows) => SameField(rows[a.slot + 1], SaysField(table, a.doc, f))

Sealed(file) == [file EXCEPT !.magic = "v8", !.tail = "whole"]

(* The file a save leaves opens after any crash and reload, and finds every *)
(* text, lineage, posting, position, sentence and column value of the       *)
(* documents saved, with gaps between them and dictionaries in another      *)
(* order than they came in; turned back by rows it gives the documents'     *)
(* fields; the builder that spills runs writes the same file for every      *)
(* buffer size, and an old file transcoded is the one the store writes; a   *)
(* file cut between its stamp and its magic is refused (Bm25Store::save,    *)
(* SpillBuilder::finish, transcode_to_v5, finalize_v8, Bm25Reader::open).   *)
LexicalFileIsFaithful ==
  At("lexical") =>
    /\ sys.arrived = sys.saved => \A file \in sys.disk :
         /\ Opens(file)
         /\ ReadsBack(sys.table, file, sys.saved)
         /\ TransposesBack(sys.table, file, sys.saved)
         /\ \A cap \in SpillCaps :
              /\ file = Sealed(SpilledFile(sys.table, sys.saved, cap))
              /\ OldFormatsAgree(sys.table, sys.store, sys.saved, cap)
    /\ \A file \in sys.tmp : file.tail # "none" /\ file.magic # "v8" => ~Opens(file)

(* The validation a save ends with accepts what the save wrote: the         *)
(* sections a declaration asks for tile the file (validate_structure_v6).   *)
WriterIsAccepted == At("lexical") => ~sys.refused
=============================================================================
