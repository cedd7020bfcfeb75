----------------------------- MODULE QueryPages -----------------------------
(* Paging a query with cursors: a caller repeats a request with the cursor  *)
(* of the page before until a page mints none.  A scored leaf fetches past  *)
(* the boundary, a pooled ranking stays inside its fixed pool, a collapse   *)
(* pages groups and deepens the pool of a leaf, and a browse resumes after  *)
(* the keys of the last row.  The rows are those of one read set            *)
(* (QueryRounds), cut into two shards.                                      *)
EXTENDS SystemState, Integers, Sequences, FiniteSets, FiniteSetsExt, SequencesExt

CONSTANTS
    PageRows,      \* possible rows: score, group ("" for none), sort key
    PageCount,     \* rows of the collection, numbered 1..PageCount
    SecondShard,   \* rows from this one on live on the second shard
    PageSizes,     \* the k of a request
    Pools,         \* the selection_k of a request; 0 leaves it to the route
    max_k

PageDocs == 1..PageCount
PageShards == {{d \in PageDocs : d < SecondShard}, {d \in PageDocs : d >= SecondShard}}
Shapes == {"leaf", "pooled", "collapse", "collapse pooled", "browse", "browse desc"}

Take(seq, n) == SubSeq(seq, 1, IF Len(seq) < n THEN Len(seq) ELSE n)
After(seq, n) == SubSeq(seq, n + 1, Len(seq))

----------------------------------------------------------------------------
(* The orders: score down and id up; cmp_rows by key, reversed when         *)
(* descending, and id up.                                                   *)
row(d) == sys.rows[d]
Descending == sys.shape = "browse desc"
Scored == sys.shape \notin {"browse", "browse desc"}

cmp_rows(d, e) ==
    LET a == row(d).key
        b == row(e).key
    IN IF a = b THEN d < e ELSE IF Descending THEN a > b ELSE a < b
Precedes(d, e) ==
    IF ~Scored THEN cmp_rows(d, e)
    ELSE row(d).score > row(e).score \/ (row(d).score = row(e).score /\ d < e)
OrderOf(set) == SetToSortSeq(set, Precedes)

(* The shards' best n of the wanted rows, merged and cut to n again. *)
Fetch(wanted, n) ==
    Take(OrderOf(UNION {ToSet(Take(OrderOf(s \cap wanted), n)) : s \in PageShards}), n)

(* cmp_candidate: a row strictly after the boundary of the cursor. *)
cmp_candidate(cursor, d) == cursor.rank = 0 \/ cmp_rows(cursor.doc, d)

----------------------------------------------------------------------------
PagesInit ==
    \E rows \in [PageDocs -> PageRows], shape \in Shapes, k \in PageSizes, pool \in Pools :
      /\ shape \in {"leaf", "browse", "browse desc"} => pool = 0
      /\ pool # 0 => pool >= k
      /\ sys = [part |-> "pages", rows |-> rows, shape |-> shape, k |-> k, selection_k |-> pool,
                cursor |-> [rank |-> 0, doc |-> 0], state |-> "asks", deepened |-> 0,
                hits |-> <<>>, ranks |-> <<>>, complete |-> {}]

(* How deep the route runs: a leaf past the boundary of the cursor, a       *)
(* pooled route at its fixed depth, refusing a page past its end.           *)
Depth == IF sys.deepened # 0 THEN sys.deepened
         ELSE IF sys.selection_k = 0 THEN sys.k ELSE sys.selection_k
PastPool == sys.shape = "pooled" /\ sys.cursor.rank # 0 /\ sys.cursor.rank + sys.k > Depth
fetch_k == IF sys.shape = "leaf" THEN sys.cursor.rank + sys.k ELSE Depth

(* page: the k entries after the boundary, which must still be there, and   *)
(* a cursor exactly when the page is full.                                  *)
Position(list, cursor) ==
    IF cursor.rank = 0 THEN 0 ELSE CHOOSE i \in 1..Len(list) : list[i] = cursor.doc
page(list, k, cursor) ==
    LET start == Position(list, cursor)
        entries == Take(After(list, start), k)
    IN [entries |-> entries, first |-> start + 1, full |-> Len(entries) = k]

Refused == [sys EXCEPT !.state = "refused"]

(* What a page adds: its entries with their ranks, and the cursor or the    *)
(* end.                                                                     *)
Serve(p, complete) ==
    [sys EXCEPT !.hits = @ \o p.entries,
                !.ranks = @ \o [i \in 1..Len(p.entries) |-> p.first + i - 1],
                !.complete = @ \cup complete, !.deepened = 0,
                !.state = IF p.full THEN "asks" ELSE "done",
                !.cursor = IF p.full
                           THEN [rank |-> p.first + Len(p.entries) - 1,
                                 doc |-> p.entries[Len(p.entries)]]
                           ELSE @]

(* resolve_k refuses a depth above max_k. *)
resolve_k(n) == n <= max_k

PageOfHits ==
    /\ At("pages") /\ sys.state = "asks" /\ sys.shape \in {"leaf", "pooled"}
    /\ sys' = IF PastPool \/ ~resolve_k(fetch_k) THEN Refused
              ELSE LET list == Fetch(PageDocs, fetch_k)
                   IN IF sys.cursor.rank # 0 /\ sys.cursor.doc \notin ToSet(list) THEN Refused
                      ELSE Serve(page(list, sys.k, sys.cursor), {})

(* page_or_collapse over a pool of the given depth: the groups in the order *)
(* of their best hits; rows without a key form none.  A full pool short of  *)
(* groups deepens if the order does not move with the pool (the request     *)
(* runs again at twice the depth), and refuses otherwise; at max_k a leaf   *)
(* serves what it has.                                                      *)
Grouped(list) == SelectSeq(list, LAMBDA d : row(d).group # "")
groups(list) ==
    SelectSeq(Grouped(list),
              LAMBDA d : \A i \in 1..Len(Grouped(list)) :
                           row(Grouped(list)[i]).group = row(d).group
                             => Grouped(list)[i] = d \/ Precedes(d, Grouped(list)[i]))

(* Groups of one listed hit are complete; a second inner hit is known to be *)
(* absent only when the pool came back short.                               *)
InnerHits == 2
ListedOf(list, d) == SelectSeq(list, LAMBDA e : row(e).group = row(d).group)
CompleteGroups(list, p, full) ==
    {d \in ToSet(p.entries) : Len(ListedOf(list, d)) >= InnerHits \/ ~full}

page_or_collapse(depth, may_deepen) ==
    LET list == Fetch(PageDocs, depth)
        full == Len(list) >= depth
        reps == groups(list)
        short == Len(reps) < sys.cursor.rank + sys.k /\ full
    IN IF short /\ may_deepen /\ depth < max_k
       THEN [sys EXCEPT !.deepened = Min({depth * 2, max_k})]
       ELSE IF short /\ ~may_deepen THEN Refused
       ELSE IF sys.cursor.rank # 0 /\ sys.cursor.doc \notin ToSet(reps) THEN Refused
       ELSE LET p == page(reps, sys.k, sys.cursor)
            IN Serve(p, {[doc |-> d, listed |-> Take(ListedOf(list, d), InnerHits)]
                           : d \in CompleteGroups(list, p, full)})

PageOfGroups ==
    /\ At("pages") /\ sys.state = "asks" /\ sys.shape \in {"collapse", "collapse pooled"}
    /\ sys' = IF ~resolve_k(Depth) THEN Refused
              ELSE page_or_collapse(Depth, sys.shape = "collapse")

(* execute_browse and fanout_browse: k rows after the boundary of every     *)
(* shard, merged by the same comparison.                                    *)
execute_browse ==
    /\ At("pages") /\ sys.state = "asks" /\ ~Scored
    /\ LET list == Fetch({d \in PageDocs : cmp_candidate(sys.cursor, d)}, sys.k)
       IN sys' = Serve([entries |-> list, first |-> sys.cursor.rank + 1,
                        full |-> Len(list) = sys.k], {})

PagesNext == PageOfHits \/ PageOfGroups \/ execute_browse

----------------------------------------------------------------------------
(* What the caller should see in all: every row, or every group's best.     *)
Whole == IF sys.shape \in {"collapse", "collapse pooled"} THEN groups(OrderOf(PageDocs))
         ELSE OrderOf(PageDocs)

(* The pages of a cursor, laid end to end, are a prefix of the whole order  *)
(* without a repeat or a gap, numbered from one; when the last page mints   *)
(* no cursor nothing follows within the served depth; and a group reported  *)
(* complete lists the best hits it has (query.rs page, page_or_collapse,    *)
(* execute_browse; a full page always mints next_cursor).                   *)
PagesVisitEachOnce ==
    At("pages") =>
      /\ sys.hits = Take(Whole, Len(sys.hits))
      /\ sys.ranks = [i \in 1..Len(sys.hits) |-> i]
      /\ sys.state = "done" =>
           \/ Len(sys.hits) = Len(Whole)
           \/ sys.shape \in {"pooled", "collapse pooled"} /\ PageCount > Depth
           \/ sys.shape = "collapse" /\ PageCount > max_k
      /\ \A g \in sys.complete : g.listed = Take(ListedOf(OrderOf(PageDocs), g.doc), InnerHits)
============================================================================
