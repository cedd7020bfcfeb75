--------------------------- MODULE CapacityTiers ---------------------------
(* The tier plan: plan_tiers over one validated snapshot of the capacity    *)
(* observations, with fragments in order, each with its bytes, its rate,    *)
(* the nodes holding a complete copy and its pool.                          *)
EXTENDS Integers, Sequences, FiniteSets, FiniteSetsExt, SequencesExt, SystemState
CONSTANT TierInputs   \* snapshots the planner is asked about

TiersInit == \E input \in TierInputs :
  sys = [part |-> "tiers", input |-> input, plan |-> [state |-> "asked"]]

(* The first tier whose band holds the rate. *)
ClassifiedTiers(input, fragment) ==
  {i \in DOMAIN input.tiers : /\ input.tiers[i].lo <= fragment.rate
                              /\ fragment.rate < input.tiers[i].hi}

Domains(input, nodes) == {input.domain[n] : n \in nodes}

(* Destinations in the pool: not holding a copy, in no domain that does,    *)
(* eligible, with room for the fragment; the freest first.                  *)
Candidates(input, fragment, s) ==
  {n \in fragment.pool \ s.held :
     n \in input.eligible /\ input.domain[n] \notin Domains(input, s.held)}

Destinations(input, fragment, s) ==
  {n \in Candidates(input, fragment, s) : s.free[n] >= fragment.bytes}

FreestFirst(destinations, free) ==
  CHOOSE n \in destinations : \A m \in destinations :
    free[n] > free[m] \/ (free[n] = free[m] /\ n <= m)

(* One violation of a fragment becomes one move, or one refusal. *)
PlanMoveUncharged(input, fragment, s) ==
  IF s.stopped THEN s
  ELSE IF Len(s.moves) >= input.maxMoves
  THEN [s EXCEPT !.refusals = @ + 1, !.stopped = TRUE]
  ELSE IF Destinations(input, fragment, s) = {} THEN [s EXCEPT !.refusals = @ + 1]
  ELSE LET n == FreestFirst(Destinations(input, fragment, s), s.free)
       IN [s EXCEPT !.held = @ \cup {n},
                    !.moves = Append(@, [fragment |-> fragment.id, to |-> n, bytes |-> fragment.bytes])]

PlanMove(input, fragment, s) ==
  IF s.stopped THEN s
  ELSE IF Len(s.moves) >= input.maxMoves
  THEN [s EXCEPT !.refusals = @ + 1, !.stopped = TRUE]
  ELSE IF Destinations(input, fragment, s) = {} THEN [s EXCEPT !.refusals = @ + 1]
  ELSE LET n == FreestFirst(Destinations(input, fragment, s), s.free)
       IN [s EXCEPT !.free[n] = @ - fragment.bytes, !.held = @ \cup {n},
                    !.moves = Append(@, [fragment |-> fragment.id, to |-> n, bytes |-> fragment.bytes])]

(* A fragment below the floor of its tier, counted in failure domains, asks *)
(* for the missing copies; each copy outside the pool asks for one in it.   *)
PlanFragment(input, s, fragment) ==
  LET tiers == ClassifiedTiers(input, fragment)
      floor == input.tiers[Min(tiers)].floor
      effective == Cardinality(Domains(input, fragment.complete))
      missing == IF effective < floor THEN floor - effective ELSE 0
      asked == missing + Cardinality(fragment.complete \ fragment.pool)
      start == [s EXCEPT !.held = fragment.complete, !.stopped = FALSE]
  IN IF tiers = {} THEN s
     ELSE IF missing > 0 /\ fragment.complete = {} THEN [s EXCEPT !.refusals = @ + 1]
     ELSE FoldLeft(LAMBDA t, i : PlanMove(input, fragment, t), start, [i \in 1 .. asked |-> i])

(* Unknown is not idle: an owner or a complete copy without a report of the *)
(* current window fails the whole plan, and so does an empty fragment.      *)
PlanRefused(input) ==
  \E i \in DOMAIN input.fragments :
    ({input.fragments[i].owner} \cup input.fragments[i].complete) \ input.reported # {}

plan_tiers(input) ==
  LET start == [free |-> input.free, moves |-> <<>>, refusals |-> 0, held |-> {}, stopped |-> FALSE]
      ended == FoldLeft(LAMBDA s, fragment : PlanFragment(input, s, fragment), start, input.fragments)
  IN IF PlanRefused(input) THEN [state |-> "refused"]
     ELSE [state |-> "planned", moves |-> ended.moves, refusals |-> ended.refusals]

PlanTiers ==
  /\ At("tiers") /\ sys.plan.state = "asked"
  /\ sys' = [sys EXCEPT !.plan = plan_tiers(sys.input)]

TiersNext == PlanTiers

----------------------------------------------------------------------------
(* Properties *)

MovesTo(n) == SelectSeq(sys.plan.moves, LAMBDA move : move.to = n)
MoveBytes(n) == FoldLeft(LAMBDA sum, move : sum + move.bytes, 0, MovesTo(n))

(* A plan fits: the moves onto a node fit its free bytes together, they are *)
(* no more than asked for, and the copies a fragment gains are in domains   *)
(* that hold none, so that a plan without refusals leaves every classified  *)
(* fragment at its tier's floor.                                            *)
PlanFits ==
  At("tiers") /\ sys.plan.state = "planned" =>
    /\ Len(sys.plan.moves) <= sys.input.maxMoves
    /\ \A n \in DOMAIN sys.input.free : MoveBytes(n) <= sys.input.free[n]
    /\ \A i \in DOMAIN sys.input.fragments :
         LET fragment == sys.input.fragments[i]
             tiers == ClassifiedTiers(sys.input, fragment)
             gained == {move.to : move \in {sys.plan.moves[j] : j \in
                          {k \in DOMAIN sys.plan.moves : sys.plan.moves[k].fragment = fragment.id}}}
         IN /\ Domains(sys.input, gained) \cap Domains(sys.input, fragment.complete) = {}
            /\ sys.plan.refusals = 0 /\ tiers # {} =>
                 Cardinality(Domains(sys.input, gained \cup fragment.complete))
                   >= sys.input.tiers[Min(tiers)].floor
============================================================================
