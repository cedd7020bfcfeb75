---------------------------- MODULE PlacementPlane ----------------------------
(***************************************************************************)
(* The control plane (control_plane.rs) with workers that answer its       *)
(* actions in any way the plane accepts: leases come and go, every copy is *)
(* reported again with whatever it holds, and a completion carries any     *)
(* outputs.  A report names the role of the plane's own record, and a drop *)
(* of a primary or of a configured shard is refused, as the node agent     *)
(* does with a current plan, and a copy whose record is removed is no      *)
(* longer served.  What an older plan, or a copy served on, changes is the *)
(* subject of Placement.                                                   *)
(***************************************************************************)
EXTENDS PlacementPlan, SystemState

CONSTANTS Configured,       \* [Nodes -> set of [shard, lo, hi]] served from the start
          Facts,            \* [rows, tombstones, segments, ready, print] a copy may report
          Used,
          Unsteady,         \* nodes that drain or let their lease lapse
          SameRange,        \* workers may answer a split with one range twice
          MaxActions, MaxTokens, MaxGeneration, MaxTopologies   \* bounds

PlaneInit ==
    sys = [part |-> "plane",
           st |-> [nodes |-> [n \in Nodes |-> NoLease], next_token |-> 1,      \* StoredState
                   replicas |-> {}, actions |-> <<>>, next_action |-> 1,
                   completed |-> {}, routes |-> <<>>, generation |-> 0],
           retired |-> {}]  \* <<shard, node>>: the copies whose record was removed

st == sys.st
retired == sys.retired
Becomes(next) == sys' = [sys EXCEPT !.st = next]

Held(n) == st.nodes[n].token
Leased(n) == validate_lease(st, n, Held(n))

Register(n, used) ==
    /\ At("plane")
    /\ st.next_token <= MaxTokens
    /\ ~Leased(n) \/ st.nodes[n].state = "draining"
    /\ Becomes(register(st, n, used))

Renew(n, used) ==
    /\ At("plane")
    /\ Leased(n)
    /\ Becomes(renew(st, n, used))

Drain(n) ==
    /\ At("plane")
    /\ n \in Unsteady /\ Leased(n)
    /\ Becomes(drain(st, n))

(* Time passes the expiry of a lease nobody renewed.                       *)
Lapse(n) ==
    /\ At("plane")
    /\ n \in Unsteady /\ Leased(n)
    /\ Becomes([st EXCEPT !.nodes[n].lapsed = TRUE])

(* The facts of a copy this node serves: one the plane has a record of, or *)
(* a configured shard that is not retired here.                            *)
Report(n, facts) ==
    /\ At("plane")
    /\ Leased(n)
    /\ \E held \in Configured[n] \cup
                   {[shard |-> r.shard, lo |-> r.lo, hi |-> r.hi] :
                      r \in {q \in st.replicas : q.node = n}} :
         LET record == {r \in Copies(st, held.shard) : r.node = n}
             old == FirstOf(record)
             first == record = {}
         IN  /\ <<held.shard, n>> \notin retired \/ ~first
             /\ Becomes(report(st, facts @@
                  [shard |-> held.shard, node |-> n,
                   lo |-> IF first THEN held.lo ELSE old.lo,
                   hi |-> IF first THEN held.hi ELSE old.hi,
                   generation |-> IF first THEN 0 ELSE old.generation,
                   role |-> IF first THEN "primary" ELSE old.role]))

(* The reconciler, on its timer and after every request: a request's own   *)
(* pass takes the state lock anew, so other requests fall between.         *)
Reconcile ==
    /\ At("plane")
    /\ reconcile(st).next_action <= MaxActions + 1
    /\ reconcile(st).generation <= MaxTopologies
    /\ Becomes(reconcile(st))

Complete(n, id, outputs) ==
    /\ At("plane")
    /\ \A a \in Pending(st, id) :
         /\ a.target_generation <= MaxGeneration
         /\ a.kind = "drop" =>
              /\ \A r \in Copies(st, a.shard) : r.node = n => r.role # "primary"
              /\ \A c \in Configured[n] : c.shard # a.shard
    /\ LET next == complete_action(st, n, Held(n), id, outputs)
           gone == {<<r.shard, r.node>> : r \in st.replicas}
                     \ {<<r.shard, r.node>> : r \in next.replicas}
       IN  /\ next.next_action <= MaxActions + 1
           /\ sys' = [sys EXCEPT !.st = next, !.retired = @ \cup gone]

(* What a worker may answer: any record of the shard an action names or of *)
(* a child of it, and for a split any two, equally large.                  *)
AnswersOf(a, f) ==
    LET records == {[shard |-> s, node |-> a.target, ready |-> TRUE,
                     lo |-> range[1], hi |-> range[2], generation |-> a.target_generation,
                     role |-> IF a.kind = "copy" THEN "replica" ELSE "primary",
                     rows |-> f.rows, tombstones |-> 0,
                     segments |-> 1, print |-> f.print] :
                    s \in {a.shard, Child(a.shard, 0), Child(a.shard, 1)},
                    range \in {p \in Hashes \X Hashes : p[1] <= p[2]}}
    IN  CASE a.kind = "drop" -> {{}}
          [] a.kind = "split" ->
               {p \in {{r, q} : r, q \in records} :
                  SameRange \/ \A r, q \in p : r.lo = q.lo => r = q}
          [] OTHER -> {{r} : r \in records}
Answers(a) == UNION {AnswersOf(a, f) : f \in Facts}

PlaneNext ==
    \/ \E n \in Nodes, used \in Used : Register(n, used) \/ Renew(n, used)
    \/ \E n \in Nodes : Drain(n) \/ Lapse(n)
    \/ \E n \in Nodes, facts \in Facts : Report(n, facts)
    \/ Reconcile
    \/ At("plane") /\ \E i \in DOMAIN st.actions : \E outputs \in Answers(st.actions[i]) :
         Complete(st.actions[i].target, st.actions[i].id, outputs)

-----------------------------------------------------------------------------
(* Every topology the plane decides covers every hash value, whatever was  *)
(* reported and completed before (desired_routes), and a shard never has   *)
(* two primaries, so no two nodes are routed writes of the same range.     *)
RoutesAreSound ==
    At("plane") =>
      /\ st.routes # <<>> => \A h \in Hashes : \E i \in DOMAIN st.routes :
                               st.routes[i].lo <= h /\ h <= st.routes[i].hi
      /\ \A r, q \in st.replicas :
           r.shard = q.shard /\ r.role = "primary" /\ q.role = "primary" => r = q
=============================================================================
