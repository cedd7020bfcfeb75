---------------------------- MODULE BooleanEval ----------------------------
(* The Boolean evaluator of a shard: a plan of nested groups over lexical,   *)
(* filter and dense leaves is resolved to a set of slots by passes that each *)
(* avoid work (filters confined to the rows the lexical leaves leave, MUST   *)
(* children cut off once nothing is left), and the members are ranked.  A    *)
(* leaf is todo ({}) or done ({its members}).                                *)
EXTENDS SystemState, Integers, Sequences, FiniteSets, FiniteSetsExt, SequencesExt, Folds

CONSTANTS
    BooleanPlans,    \* groups [must, should, must_not : sequences of nodes, least : Nat]
    BooleanCorpora,  \* [rows, docs, vectors]: rows from 1, the first docs of them
                     \* documents, the first vectors of them with a vector
    BooleanDepths

(* A node is a leaf or a group: the other field is empty. *)
LexicalLeaves == {"lexical", "phrase"}
BooleanLeaves == LexicalLeaves \cup {"filter", "dense"}
LeafOf(node) == CHOOSE l \in node.leaf : TRUE
GroupOf(node) == CHOOSE g \in node.group : TRUE
IsGroup(node) == node.group # {}
Children(group) == group.must \o group.should \o group.must_not
AllBits == 1..Len(sys.corpus.rows)
DocBits == 1..sys.corpus.docs

----------------------------------------------------------------------------
(* compile_boolean_group, at the coordinator: the plan of a group, none when *)
(* it is refused.  No minimum means one where there are SHOULD clauses only. *)
compile_boolean_group(group) ==
    IF group.least > Len(group.should) \/ Children(group) = <<>> THEN {}
    ELSE {[group EXCEPT !.least =
             IF @ = 0 /\ group.must = <<>> /\ group.should # <<>> THEN 1 ELSE @]}

(* mark_positive: the leaves some path of MUST and SHOULD alone reaches. *)
RECURSIVE mark_positive(_)
mark_positive(group) ==
    UNION {IF IsGroup(node) THEN mark_positive(GroupOf(node)) ELSE node.leaf
             : node \in ToSet(group.must \o group.should)}

(* The rows that exist for this request: not deleted and, under a view,      *)
(* visible documents only.                                                   *)
Authority(corpus, view) ==
    {s \in 1..Len(corpus.rows) : /\ ~corpus.rows[s].deleted
                                 /\ view => s <= corpus.docs /\ corpus.rows[s].visible}
LiveBits == DocBits \cap sys.authority

LexicalBits(leaf) == {s \in DocBits : leaf \in sys.corpus.rows[s].matches} \cap sys.authority

(* filter_leaf_domains: for every occurrence of the filter leaf, {} when     *)
(* nothing bounds it and otherwise the bound.  A MUST lexical leaf bounds    *)
(* its group's MUST children; the others keep the bound of the group.        *)
RECURSIVE filter_leaf_domains(_, _)
filter_leaf_domains(group, bound) ==
    LET lexical == {n \in ToSet(group.must) : ~IsGroup(n) /\ LeafOf(n) \in LexicalLeaves}
        memberships == {CHOOSE m \in sys.leaves[LeafOf(n)] : TRUE : n \in lexical}
        sets == bound \cup memberships
        narrowed == IF sets = {} THEN {} ELSE {{s \in UNION sets : \A m \in sets : s \in m}}
        Occurrences(nodes, b) ==
            UNION {IF IsGroup(n) THEN filter_leaf_domains(GroupOf(n), b)
                   ELSE IF LeafOf(n) = "filter" THEN {b} ELSE {} : n \in ToSet(nodes)}
    IN  Occurrences(group.must, narrowed) \cup Occurrences(group.should \o group.must_not, bound)

(* The domain of the filter leaf: none when it occurs unbounded anywhere. *)
FilterDomain(root) ==
    LET seen == filter_leaf_domains(root, {})
    IN  IF seen = {} \/ {} \in seen THEN {} ELSE {UNION UNION seen}

----------------------------------------------------------------------------
FilterPasses(s) == "filter" \in sys.corpus.rows[s].matches

(* A filter leaf asked short is resolved over no row. *)
resolve_filter(leaves, short) ==
    IF leaves["filter"] # {} THEN leaves
    ELSE LET domain == IF short THEN {{}} ELSE sys.domain
         IN  [leaves EXCEPT !["filter"] =
                {{s \in LiveBits : FilterPasses(s) /\ \A d \in domain : s \in d}}]

resolve_dense(leaves) ==
    IF leaves["dense"] # {} THEN leaves
    ELSE [leaves EXCEPT !["dense"] = {(1..sys.corpus.vectors) \cap sys.authority}]
skip_dense(leaves) ==
    IF leaves["dense"] # {} THEN leaves ELSE [leaves EXCEPT !["dense"] = {{}}]

short_leaf(leaf, leaves) ==
    CASE leaf \in LexicalLeaves -> leaves
      [] leaf = "dense"  -> skip_dense(leaves)
      [] leaf = "filter" -> resolve_filter(leaves, TRUE)

RECURSIVE short_nodes(_, _)
short_nodes(nodes, leaves) ==
    FoldLeft(LAMBDA ls, n : IF IsGroup(n) THEN short_nodes(Children(GroupOf(n)), ls)
                                          ELSE short_leaf(LeafOf(n), ls), leaves, nodes)

at_least(sets, least) == {s \in AllBits : Cardinality({i \in DOMAIN sets : s \in sets[i]}) >= least}

group_members(must, should, must_not, least) ==
    LET base == IF must # <<>> THEN {s \in AllBits : \A i \in DOMAIN must : s \in must[i]}
                ELSE IF least = 0 THEN LiveBits ELSE AllBits
    IN  {s \in base : s \in at_least(should, least) /\ \A i \in DOMAIN must_not : s \notin must_not[i]}

MustClass(node) == IF IsGroup(node) THEN 2
                   ELSE IF LeafOf(node) \in LexicalLeaves THEN 0
                   ELSE IF LeafOf(node) = "filter" THEN 1 ELSE 3

(* resolve_group: the MUST children in the order of their class, until on    *)
(* the path of MUST from the root nothing is left; then the SHOULD and the   *)
(* MUST_NOT children in order.  Resolving threads the leaves.                *)
ShortCircuits(on_must_path, acc) == on_must_path /\ acc = {}

RECURSIVE resolve_group(_, _, _)
resolve_group(group, on_must_path, leaves0) ==
    LET resolve_node(node, path, leaves) ==
            IF IsGroup(node) THEN resolve_group(GroupOf(node), path, leaves)
            ELSE LET l == LeafOf(node)
                     done == CASE l = "filter" -> resolve_filter(leaves, FALSE)
                               [] l = "dense"  -> resolve_dense(leaves)
                               [] OTHER        -> leaves
                 IN  [bits |-> CHOOSE m \in done[l] : TRUE, leaves |-> done]
        Each(nodes, path, start) ==
            FoldLeft(LAMBDA acc, n : LET r == resolve_node(n, path, acc.leaves)
                                     IN  [sets |-> Append(acc.sets, r.bits), leaves |-> r.leaves],
                     [sets |-> <<>>, leaves |-> start], nodes)
        order == SortSeq(group.must, LAMBDA a, b : MustClass(a) < MustClass(b))
        MustStep(acc, n) ==
            IF acc.short THEN [acc EXCEPT !.left = Append(@, n)]
            ELSE LET r == resolve_node(n, on_must_path, acc.leaves)
                     bits == acc.bits \cap r.bits
                 IN  [acc EXCEPT !.bits = bits, !.leaves = r.leaves,
                                 !.sets = Append(@, r.bits), !.short = ShortCircuits(on_must_path, bits)]
        must == FoldLeft(MustStep, [bits |-> AllBits, sets |-> <<>>, leaves |-> leaves0,
                                    short |-> FALSE, left |-> <<>>], order)
    IN  IF must.short
          THEN [bits |-> {},
                leaves |-> short_nodes(must.left \o group.should \o group.must_not, must.leaves)]
          ELSE LET should == Each(group.should, FALSE, must.leaves)
                   must_not == Each(group.must_not, FALSE, should.leaves)
               IN  [bits |-> group_members(must.sets, should.sets, must_not.sets, group.least),
                    leaves |-> must_not.leaves]

----------------------------------------------------------------------------
(* Ranking: the better score, then the lower slot; TopSlots keeps the best   *)
(* depth of what it is offered.                                              *)
Outranks(a, b) == a.score > b.score \/ (a.score = b.score /\ a.slot < b.slot)
offer(top, entry, depth) ==
    IF Cardinality(top) < depth THEN top \cup {entry}
    ELSE LET worst == CHOOSE w \in top : \A o \in top : o = w \/ Outranks(o, w)
         IN  IF Outranks(entry, worst) THEN (top \ {worst}) \cup {entry} ELSE top
into_sorted(top) == SetToSortSeq(top, Outranks)

SlotScore(leaf, s) == sys.corpus.rows[s].score[leaf]

(* dense_pass: the members in slot order; a full heap raises the floor to    *)
(* its worst score, and the provider leaves out what is below the floor.     *)
dense_pass(mask, depth) ==
    LET Visit(acc, s) ==
            IF \E f \in acc.floor : SlotScore("dense", s) < f THEN acc
            ELSE LET top == offer(acc.top, [slot |-> s, score |-> SlotScore("dense", s)], depth)
                 IN  [top |-> top, floor |-> IF Cardinality(top) = depth
                                               THEN {Min({e.score : e \in top})} ELSE acc.floor]
    IN  FoldLeft(Visit, [top |-> {}, floor |-> {}], SetToSortSeq(mask, <)).top

Members(leaf) == CHOOSE m \in sys.leaves[leaf] : TRUE

(* The positive lexical and dense leaves score; with none every member is a  *)
(* zero in slot order, and one dense leaf that holds every member is one     *)
(* pass of the vector index.                                                 *)
RankMembers(members, depth) ==
    LET scoring == sys.positive \cap (LexicalLeaves \cup {"dense"})
        Sum(s) == FoldSet(LAMBDA l, acc : acc + SlotScore(l, s), 0,
                          {l \in scoring : s \in Members(l)})
    IN  into_sorted(
          IF scoring = {}
            THEN {[slot |-> s, score |-> 0] : s \in {m \in members : Cardinality({o \in members : o < m}) < depth}}
          ELSE IF scoring = {"dense"} /\ members \subseteq Members("dense") THEN dense_pass(members, depth)
          ELSE FoldLeft(LAMBDA top, s : offer(top, [slot |-> s, score |-> Sum(s)], depth),
                        {}, SetToSortSeq(members, <)))

(* The leaves a candidate is reported to match: those that hold it, and a    *)
(* filter that was confined to a domain is asked again of the row itself.    *)
matched(s) ==
    {l \in BooleanLeaves : \/ \E m \in sys.leaves[l] : s \in m
                           \/ l = "filter" /\ sys.recheck /\ s \in DocBits /\ FilterPasses(s)}

----------------------------------------------------------------------------
RECURSIVE LeavesOf(_)
LeavesOf(group) ==
    UNION {IF IsGroup(n) THEN LeavesOf(GroupOf(n)) ELSE n.leaf : n \in ToSet(Children(group))}

BooleanInit ==
    \E plan \in BooleanPlans, corpus \in BooleanCorpora, view \in BOOLEAN, d \in BooleanDepths :
       sys = [part |-> "boolean", plan |-> plan, corpus |-> corpus, view |-> view, depth |-> d,
              authority |-> {}, positive |-> {}, leaves |-> [l \in BooleanLeaves |-> {}],
              domain |-> {}, recheck |-> FALSE, members |-> {}, ranked |-> <<>>, step |-> "open"]

(* The request is admitted: authority and positive leaves. *)
AdmitPlan ==
    /\ At("boolean") /\ sys.step = "open"
    /\ sys' = [sys EXCEPT !.authority = Authority(sys.corpus, sys.view),
                          !.positive = mark_positive(sys.plan), !.step = "lexical"]

LexicalPass ==
    /\ At("boolean") /\ sys.step = "lexical"
    /\ sys' = [sys EXCEPT !.leaves = [l \in BooleanLeaves |->
                                        IF l \in LexicalLeaves \cap LeavesOf(sys.plan)
                                          THEN {LexicalBits(l)} ELSE {}],
                          !.step = "domains"]

DomainPass ==
    /\ At("boolean") /\ sys.step = "domains"
    /\ sys' = [sys EXCEPT !.domain = FilterDomain(sys.plan), !.step = "resolve"]

(* evaluate_boolean_membership: the root on the MUST path, then the leaves   *)
(* it left todo.  (A filter resolved short leaves no candidate to recheck.)  *)
evaluate_boolean_membership ==
    /\ At("boolean") /\ sys.step = "resolve"
    /\ LET root == resolve_group(sys.plan, TRUE, sys.leaves)
           filters == IF "filter" \in LeavesOf(sys.plan) THEN resolve_filter(root.leaves, FALSE) ELSE root.leaves
           rest == IF "dense" \in LeavesOf(sys.plan) THEN resolve_dense(filters) ELSE filters
       IN  sys' = [sys EXCEPT !.members = root.bits, !.leaves = rest,
                              !.recheck = sys.domain # {}, !.step = "rank"]

run_evaluate_boolean ==
    /\ At("boolean") /\ sys.step = "rank"
    /\ sys' = [sys EXCEPT
         !.ranked = LET top == RankMembers(sys.members, sys.depth)
                    IN  [i \in DOMAIN top |-> [slot |-> top[i].slot, score |-> top[i].score,
                                               matched |-> matched(top[i].slot)]],
         !.step = "done"]

BooleanNext == \/ AdmitPlan \/ LexicalPass \/ DomainPass \/ evaluate_boolean_membership
               \/ run_evaluate_boolean

----------------------------------------------------------------------------
(* What the plan means, one row at a time. *)
LeafHolds(leaf, s) ==
    /\ s \in sys.authority
    /\ IF leaf = "dense" THEN s <= sys.corpus.vectors
       ELSE s <= sys.corpus.docs /\ leaf \in sys.corpus.rows[s].matches

RECURSIVE Holds(_, _)
Holds(group, s) ==
    LET Met(node) == IF IsGroup(node) THEN Holds(GroupOf(node), s) ELSE LeafHolds(LeafOf(node), s)
    IN  /\ \A i \in DOMAIN group.must : Met(group.must[i])
        /\ \A i \in DOMAIN group.must_not : ~Met(group.must_not[i])
        /\ Cardinality({i \in DOMAIN group.should : Met(group.should[i])}) >= group.least
        /\ (group.must = <<>> /\ group.least = 0) => s \in LiveBits

MeantScore(s) ==
    FoldSet(LAMBDA l, acc : acc + SlotScore(l, s), 0,
            {l \in mark_positive(sys.plan) \ {"filter"} : LeafHolds(l, s)})

(* The evaluator's order of work shows in nothing it returns: the members    *)
(* are the rows on which the plan holds, the candidates are the best depth   *)
(* of them by the sum of their positive leaves, and each one is reported     *)
(* with exactly the leaves that hold of it.                                  *)
BooleanIsExact ==
    At("boolean") => (sys.step = "done" =>
       LET meant == {s \in AllBits : Holds(sys.plan, s)}
           order == SetToSortSeq({[slot |-> s, score |-> MeantScore(s)] : s \in meant}, Outranks)
       IN  /\ sys.members = meant
           /\ sys.ranked = [i \in 1..Min({sys.depth, Len(order)}) |->
                              [slot |-> order[i].slot, score |-> order[i].score,
                               matched |-> {l \in LeavesOf(sys.plan) : LeafHolds(l, order[i].slot)}]])
============================================================================
