---------------------------- MODULE ControlStore ----------------------------
(***************************************************************************)
(* The durable store of the control plane: how DurableControlPlane         *)
(* (control_plane.rs) turns a decision into a file, what it does when a    *)
(* write fails before or after the rename, how a process restarts from the *)
(* file, how the decided topology reaches the live coordinator, and how    *)
(* the store is retired for import (control_plane/retirement.rs).          *)
(*                                                                         *)
(* What a decision says about shard copies is abstracted to a member of    *)
(* Placements, and the routes a placement asks for to Desired[p]; the      *)
(* ControlPlacement module opens that box.  Lease tokens, topology         *)
(* generations and the rollback history are kept as the code keeps them.   *)
(*                                                                         *)
(* Storage is modelled with two images of the file: `file', what a reader  *)
(* of the running system sees, and `synced', what a power loss is sure to  *)
(* leave.  A rename makes the new bytes visible; only the directory sync   *)
(* makes them certain.                                                     *)
(***************************************************************************)
EXTENDS Naturals, Sequences, FiniteSets

CONSTANTS Nodes,          \* node identifiers
          Placements,     \* abstract contents of nodes/replicas/actions
          Blank,          \* the placement of a pristine store
          Routes,         \* complete route sets
          NoRoutes,       \* "no complete route set": desired_routes is None
          Desired,        \* [Placements -> Routes \cup {NoRoutes}]
          MapGeneration,  \* generation of the configured shard map
          MapRoutes,      \* its routes
          HistoryLimit,   \* ControlPolicy.history_limit
          MaxTokens,      \* bound: registrations
          MaxGeneration,  \* bound: topology generations
          MaxFaults,      \* bound: failed writes, crashes and power losses
          MaxPublishing   \* bound: handlers between reconcile and publish

ASSUME StoreConstants ==
    /\ Blank \in Placements
    /\ NoRoutes \notin Routes
    /\ Desired \in [Placements -> Routes \cup {NoRoutes}]
    /\ MapGeneration \in Nat \ {0}
    /\ MapRoutes \in Routes
    /\ HistoryLimit \in Nat \ {0}
    /\ MaxTokens \in Nat /\ MaxGeneration \in Nat /\ MaxFaults \in Nat
    /\ MaxPublishing \in Nat

VARIABLES file,       \* the state file as a reader sees it
          synced,     \* the state file as a power loss leaves it
          phase,      \* "down", "opened", "booted" or "serving"
          mem,        \* StoredState held under the mutex
          uncertain,  \* persistence_uncertain
          retired,    \* the retirement OnceLock is set
          live,       \* the coordinator's topology
          publishing, \* handlers that reconciled and have not yet published
          grants,     \* history: lease tokens returned to nodes, in order
          published,  \* history: every topology the coordinator served
          evidence,   \* history: checkpoints of issued retirement evidence
          faults      \* faults so far

disk == <<file, synced>>
process == <<phase, mem, uncertain, retired, live, publishing>>
history == <<grants, published, evidence>>
vars == <<disk, process, history, faults>>

Topologies == [generation : Nat, routes : Routes \cup {NoRoutes}]

StoredState == [next_token : Nat,
                lease_token : [Nodes -> Nat],
                placement : Placements,
                topology : Topologies,
                history : Seq(Topologies)]

Default == [next_token |-> 1,
            lease_token |-> [n \in Nodes |-> 0],
            placement |-> Blank,
            topology |-> [generation |-> 0, routes |-> NoRoutes],
            history |-> <<>>]

(* The bytes of the state file: absent, a JSON state, or a framed          *)
(* retirement record that carries the checkpoint it retired.               *)
Files == [kind : {"missing", "state", "retired"}, state : StoredState]
Missing == [kind |-> "missing", state |-> Default]
Json(s) == [kind |-> "state", state |-> s]

Retirement(s) == [kind |-> "retired", state |-> s]

(* How write_bytes ends: written and synced; refused before the rename;    *)
(* refused at or after it, with the new bytes visible or not.              *)
Outcomes == {"written", "unpublished", "renamed", "unrenamed"}
Ambiguous == {"renamed", "unrenamed"}

write_bytes(bytes, w) ==
    /\ w = "written" \/ faults < MaxFaults
    /\ faults' = IF w = "written" THEN faults ELSE faults + 1
    /\ file' = IF w \in {"written", "renamed"} THEN bytes ELSE file
    /\ synced' = IF w = "written" THEN bytes ELSE synced

(* lock_state: every authority operation passes through it.                *)
lock_state == phase = "serving" /\ ~uncertain /\ ~retired

(* Mutant: an ambiguous publication is treated like a clean refusal. *)
persist_locked_KeepsServing(new, w) ==
    /\ write_bytes(Json(new), w)
    /\ mem' = IF w = "written" THEN new ELSE mem
    /\ uncertain' = FALSE

(* persist_locked, with the callers' roll-back of the in-memory state: a   *)
(* write that may have been published closes the instance.                 *)
persist_locked(new, w) ==
    /\ write_bytes(Json(new), w)
    /\ mem' = IF w = "written" THEN new ELSE mem
    /\ uncertain' = (w \in Ambiguous)

-----------------------------------------------------------------------------
Init ==
    /\ file = Missing /\ synced = Missing
    /\ phase = "down" /\ mem = Default /\ uncertain = FALSE /\ retired = FALSE
    /\ live = [generation |-> MapGeneration, routes |-> MapRoutes]
    /\ publishing = 0
    /\ grants = <<>> /\ published = {} /\ evidence = {}
    /\ faults = 0

(* open_state: take the lock, read, refuse a retired file, write the state *)
(* that was read back again before using it.  A failed write fails the     *)
(* open, and the process exits.                                            *)
Open(w) ==
    /\ phase = "down"
    /\ file.kind # "retired"
    /\ LET state == IF file.kind = "missing" THEN Default ELSE file.state IN
       /\ write_bytes(Json(state), w)
       /\ mem' = state
    /\ phase' = IF w = "written" THEN "opened" ELSE "down"
    /\ uncertain' = FALSE /\ retired' = FALSE
    /\ live' = [generation |-> MapGeneration, routes |-> MapRoutes]
    /\ publishing' = 0
    /\ UNCHANGED history

(* bootstrap_topology: a pristine store adopts the shard map the           *)
(* coordinator loaded; any other store is left alone.                      *)
bootstrap_topology(w) ==
    /\ phase = "opened"
    /\ LET pristine ==
             /\ mem.topology = Default.topology
             /\ mem.history = <<>>
             /\ mem.lease_token = Default.lease_token
             /\ mem.placement = Blank
           adopted == [mem EXCEPT !.topology =
                         [generation |-> MapGeneration, routes |-> MapRoutes]]
       IN  IF pristine
             THEN /\ write_bytes(Json(adopted), w)
                  /\ mem' = adopted
                  /\ phase' = IF w = "written" THEN "booted" ELSE "down"
             ELSE /\ w = "written"
                  /\ phase' = "booted"
                  /\ UNCHANGED <<disk, mem, faults>>
    /\ UNCHANGED <<uncertain, retired, live, publishing, history>>

Trim(seq) == IF Len(seq) > HistoryLimit THEN Tail(seq) ELSE seq

reconcile_locked(state) ==
    LET routes == Desired[state.placement] IN
    IF routes = NoRoutes \/ routes = state.topology.routes THEN state
    ELSE [state EXCEPT
            !.history = Trim(Append(@, state.topology)),
            !.topology = [generation |-> @.generation + 1, routes |-> routes]]

(* The coordinator half of publish_current_topology: an equal generation   *)
(* must carry equal routes, an older one is refused, a newer one is        *)
(* loaded.                                                                 *)
Publishable == mem.topology.generation >= live.generation
               /\ (mem.topology.generation = live.generation
                     => mem.topology.routes = live.routes)

(* Mutant: the decision a pass would take now is published unwritten. *)
publish_current_topology_Early ==
    LET next == reconcile_locked(mem).topology IN
    /\ live' = IF next.generation > live.generation THEN next ELSE live
    /\ published' = published \cup {live'}

(* Mutant: routes are derived again from the copies known at that moment. *)
publish_current_topology_Derived ==
    LET routes == Desired[mem.placement]
        now == [mem.topology EXCEPT !.routes = IF routes = NoRoutes THEN @ ELSE routes]
    IN  /\ live' = IF now.generation > live.generation THEN now ELSE live
        /\ published' = published \cup {live'}

publish_current_topology ==
    /\ live' = IF mem.topology.generation > live.generation
                 THEN mem.topology ELSE live
    /\ published' = published \cup {live'}

(* Startup publishes the durable topology before it serves; a store that   *)
(* is behind the map or conflicts with it ends the process.                *)
StartServing ==
    /\ phase = "booted"
    /\ IF Publishable
         THEN phase' = "serving" /\ publish_current_topology
         ELSE phase' = "down" /\ UNCHANGED <<live, published>>
    /\ UNCHANGED <<disk, mem, uncertain, retired, publishing, grants,
                   evidence, faults>>

-----------------------------------------------------------------------------
(* Mutant: the token is returned although the write was refused. *)
register_AnswersFirst(n, w) ==
    /\ lock_state
    /\ Len(grants) < MaxTokens
    /\ persist_locked([mem EXCEPT !.next_token = @ + 1,
                                  !.lease_token[n] = mem.next_token], w)
    /\ grants' = Append(grants, mem.next_token)
    /\ UNCHANGED <<phase, retired, live, publishing, published, evidence>>

(* register: hand out the next lease token.  The token is returned to the  *)
(* node only when the new state is durable.                                *)
register(n, w) ==
    /\ lock_state
    /\ Len(grants) < MaxTokens
    /\ persist_locked([mem EXCEPT !.next_token = @ + 1,
                                  !.lease_token[n] = mem.next_token], w)
    /\ grants' = IF w = "written" THEN Append(grants, mem.next_token)
                                  ELSE grants
    /\ UNCHANGED <<phase, retired, live, publishing, published, evidence>>

(* renew, drain, report and complete_action: an accepted call rewrites     *)
(* what the store says about nodes, copies and actions.                    *)
change(p, w) ==
    /\ lock_state
    /\ p # mem.placement
    /\ persist_locked([mem EXCEPT !.placement = p], w)
    /\ UNCHANGED <<phase, retired, live, publishing, history>>

(* reconcile: decide on a private candidate, persist it, and only then     *)
(* put it in memory; the handler goes on to publish.                       *)
reconcile(w) ==
    /\ lock_state
    /\ publishing < MaxPublishing
    /\ mem.topology.generation < MaxGeneration
    /\ persist_locked(reconcile_locked(mem), w)
    /\ publishing' = IF w = "written" THEN publishing + 1 ELSE publishing
    /\ UNCHANGED <<phase, retired, live, history>>

(* rollback: the chosen history entry becomes a new generation, and the    *)
(* topology it replaces joins the history.                                 *)
rollback(i, w) ==
    /\ lock_state
    /\ publishing < MaxPublishing
    /\ mem.topology.generation < MaxGeneration
    /\ i \in DOMAIN mem.history
    /\ persist_locked(
         [mem EXCEPT
            !.history = SubSeq(@, 1, i - 1) \o SubSeq(@, i + 1, Len(@))
                          \o <<mem.topology>>,
            !.topology = [generation |-> @.generation + 1,
                          routes |-> mem.history[i].routes]], w)
    /\ publishing' = IF w = "written" THEN publishing + 1 ELSE publishing
    /\ UNCHANGED <<phase, retired, live, history>>

(* The last step of a handler: publish_current_topology under the state    *)
(* lock, or the error lock_state returns.                                  *)
Publish ==
    /\ phase = "serving" /\ publishing > 0
    /\ publishing' = publishing - 1
    /\ IF lock_state /\ Publishable
         THEN publish_current_topology
         ELSE UNCHANGED <<live, published>>
    /\ UNCHANGED <<disk, phase, mem, uncertain, retired, grants, evidence,
                   faults>>

(* retire_for_import: replace the state by a retirement record holding the *)
(* checkpoint, then fence every other operation and issue the evidence.    *)
retire_for_import(w) ==
    /\ lock_state
    /\ write_bytes(Retirement(mem), w)
    /\ uncertain' = (w \in Ambiguous)
    /\ retired' = (w = "written")
    /\ evidence' = IF w = "written" THEN evidence \cup {mem} ELSE evidence
    /\ UNCHANGED <<phase, mem, live, publishing, grants, published>>

(* Mutant: evidence is issued from a record that was only read. *)
recover_WithoutSync ==
    /\ phase = "down"
    /\ file.kind = "retired"
    /\ file.state \notin evidence
    /\ evidence' = evidence \cup {file.state}
    /\ UNCHANGED <<disk, process, grants, published, faults>>

(* retirement::recover: after every clone is gone, read the record, sync   *)
(* the very file that was read and its directory, and issue the evidence.  *)
recover ==
    /\ phase = "down"
    /\ file.kind = "retired"
    /\ file.state \notin evidence
    /\ synced' = file
    /\ evidence' = evidence \cup {file.state}
    /\ UNCHANGED <<file, process, grants, published, faults>>

(* The process ends, by a crash or because an operator closes it.          *)
Crash ==
    /\ phase # "down"
    /\ faults < MaxFaults
    /\ faults' = faults + 1
    /\ phase' = "down"
    /\ publishing' = 0
    /\ uncertain' = FALSE /\ retired' = FALSE
    /\ UNCHANGED <<disk, mem, live, history>>

(* A power loss: bytes that were renamed and not synced may or may not     *)
(* survive.                                                                *)
PowerLoss(kept) ==
    /\ faults < MaxFaults
    /\ faults' = faults + 1
    /\ file' = kept /\ synced' = kept
    /\ phase' = "down"
    /\ publishing' = 0
    /\ uncertain' = FALSE /\ retired' = FALSE
    /\ UNCHANGED <<mem, live, history>>

Next ==
    \/ \E w \in Outcomes :
         \/ Open(w)
         \/ bootstrap_topology(w)
         \/ \E n \in Nodes : register(n, w)
         \/ \E p \in Placements : change(p, w)
         \/ reconcile(w)
         \/ \E i \in 1..HistoryLimit : rollback(i, w)
         \/ retire_for_import(w)
    \/ StartServing
    \/ Publish
    \/ recover
    \/ Crash
    \/ \E kept \in {file, synced} : PowerLoss(kept)

Spec == Init /\ [][Next]_vars

-----------------------------------------------------------------------------
TypeOK ==
    /\ file \in Files /\ synced \in Files
    /\ phase \in {"down", "opened", "booted", "serving"}
    /\ mem \in StoredState
    /\ uncertain \in BOOLEAN /\ retired \in BOOLEAN
    /\ live \in Topologies
    /\ publishing \in Nat /\ faults \in Nat
    /\ grants \in Seq(Nat)
    /\ published \subseteq Topologies
    /\ evidence \subseteq StoredState

(* While the instance answers, memory is exactly what a power loss would   *)
(* leave: a failed write is rolled back, an ambiguous one closes the       *)
(* instance (persist_locked and its callers' `*state = before').           *)
MemoryIsDurable == lock_state => file = Json(mem) /\ synced = Json(mem)

(* Lease tokens returned by register strictly rise, over every crash,      *)
(* power loss and failed write: a token a stale holder still carries is    *)
(* never handed out again.                                                 *)
TokensNeverReused ==
    \A i, j \in DOMAIN grants : i < j => grants[i] < grants[j]

(* One topology generation never names two route sets, whatever failed or  *)
(* restarted between two publications to the coordinator.                  *)
GenerationsAgree ==
    \A s, t \in published : s.generation = t.generation => s = t

(* A topology that reached the coordinator survives: after any restart the *)
(* store still decides from a generation at least as new, so a later       *)
(* decision can never be refused as "behind live coordinator generation".  *)
PublishedSurvives ==
    \A t \in published :
        /\ synced.kind # "missing"
        /\ t.generation <= synced.state.topology.generation

(* Retirement is final: once evidence was issued, no power loss brings the *)
(* old authority back, and no instance answers.                            *)
RetirementIsFinal ==
    evidence # {} => /\ file.kind = "retired" /\ synced.kind = "retired"
                     /\ ~lock_state

(* The checkpoint in the evidence contains everything the retired plane    *)
(* ever promised: every lease token it returned and every topology it      *)
(* published.                                                              *)
EvidenceIsComplete ==
    \A c \in evidence :
        /\ \A i \in DOMAIN grants : grants[i] < c.next_token
        /\ \A t \in published : t.generation <= c.topology.generation

=============================================================================
