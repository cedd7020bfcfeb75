------------------------- MODULE ControlStoreProofs -------------------------
(***************************************************************************)
(* Proofs about ControlStore for every set of nodes and decisions and      *)
(* every number of faults.  The invariant says what each of the two images *)
(* of the file guarantees on its own, since a restart may find either.     *)
(* After them, the proofs about the writes that a replica of the source    *)
(* authority hosts (HostedWrites), for every number of calls.              *)
(***************************************************************************)
EXTENDS ControlStore, HostedWrites, TLAPS

(* A stored state covers the past: it is beyond every token returned and   *)
(* every topology published, and agrees with the one it is level with.     *)
Covers(s) ==
    /\ \A i \in DOMAIN grants : grants[i] < s.next_token
    /\ \A t \in published :
         /\ t.generation <= s.topology.generation
         /\ t.generation = s.topology.generation => t = s.topology

(* An image of the file covers the past; with no file there is none.       *)
ImageCovers(f) ==
    IF f.kind = "missing" THEN grants = <<>> /\ published = {}
                          ELSE Covers(f.state)

(* An instance that has not failed holds what both images hold.            *)
Level ==
    phase # "down" /\ ~uncertain /\ ~retired
      => file = Json(mem) /\ synced = Json(mem)

Modes == (uncertain \/ retired) => phase = "serving"

(* Issued evidence is in both images, and only a retired instance may run. *)
Fenced ==
    /\ evidence # {} => /\ file.kind = "retired" /\ synced.kind = "retired"
                        /\ phase = "down" \/ retired
    /\ \A c \in evidence : Covers(c)

Past == ImageCovers(file) /\ ImageCovers(synced)

IInv ==
    /\ TypeOK /\ Past /\ Level /\ Modes /\ Fenced
    /\ TokensNeverReused /\ GenerationsAgree

(* A later state of the same store covers whatever the earlier covered.    *)
Newer(s, new) ==
    /\ s.next_token <= new.next_token
    /\ \/ s.topology = new.topology
       \/ s.topology.generation < new.topology.generation

-----------------------------------------------------------------------------
(* The state of a store that was never written is a stored state.           *)
LEMMA DefaultType == Default \in StoredState
  BY StoreConstants DEF Default, StoredState, Topologies

(* The fields of a stored state have their types.                           *)
LEMMA RecordType ==
  ASSUME NEW s \in StoredState
  PROVE  /\ s.next_token \in Nat /\ s.lease_token \in [Nodes -> Nat]
         /\ s.placement \in Placements /\ s.topology \in Topologies
         /\ s.history \in Seq(Topologies)
  BY Zenon DEF StoredState

(* Every update the handlers make of a stored state gives a stored state.   *)
LEMMA BuildType ==
  ASSUME NEW s \in StoredState, NEW t \in Topologies,
         NEW h \in Seq(Topologies), NEW p \in Placements,
         NEW n \in Nodes
  PROVE  /\ [s EXCEPT !.topology = t] \in StoredState
         /\ [s EXCEPT !.history = h, !.topology = t] \in StoredState
         /\ [s EXCEPT !.placement = p] \in StoredState
         /\ [s EXCEPT !.next_token = @ + 1, !.lease_token[n] = s.next_token]
              \in StoredState
  <1>1. [s EXCEPT !.topology = t] \in StoredState
    BY Zenon DEF StoredState
  <1>2. [s EXCEPT !.history = h, !.topology = t] \in StoredState
    BY Zenon DEF StoredState
  <1>3. [s EXCEPT !.placement = p] \in StoredState
    BY Zenon DEF StoredState
  <1>4. [s EXCEPT !.next_token = @ + 1, !.lease_token[n] = s.next_token]
              \in StoredState
    <2>1. [s.lease_token EXCEPT ![n] = s.next_token] \in [Nodes -> Nat]
      BY RecordType, Zenon
    <2>2. s.next_token + 1 \in Nat
      BY RecordType
    <2>3. ASSUME NEW k \in Nat, NEW l \in [Nodes -> Nat]
          PROVE  [s EXCEPT !.next_token = k, !.lease_token = l] \in StoredState
      BY Zenon DEF StoredState
    <2>4. [s EXCEPT !.next_token = @ + 1, !.lease_token[n] = s.next_token]
            = [s EXCEPT !.next_token = s.next_token + 1,
                        !.lease_token = [s.lease_token EXCEPT ![n] = s.next_token]]
      BY Zenon DEF StoredState
    <2> QED
      BY <2>1, <2>2, <2>3, <2>4, Zenon
  <1> QED
    BY <1>1, <1>2, <1>3, <1>4, Zenon

(* What write_bytes writes, a state or a retirement record, is a file that  *)
(* holds that state.                                                        *)
LEMMA FileType ==
  ASSUME NEW s \in StoredState
  PROVE  /\ Json(s) \in Files /\ Retirement(s) \in Files
         /\ Json(s).kind = "state" /\ Json(s).state = s
         /\ Retirement(s).kind = "retired" /\ Retirement(s).state = s
  BY Zenon DEF Json, Retirement, Files

(* The fields of a topology have their types.                               *)
LEMMA TopologyType ==
  ASSUME NEW t \in Topologies
  PROVE  t.generation \in Nat /\ t.routes \in Routes \cup {NoRoutes}
  BY Zenon DEF Topologies

(* A state newer than one that covers the past covers it too.               *)
LEMMA CoversNewer ==
  ASSUME TypeOK, NEW s \in StoredState, NEW new \in StoredState,
         Covers(s), Newer(s, new)
  PROVE  Covers(new)
  <1>1. \A i \in DOMAIN grants : grants[i] < new.next_token
    BY RecordType DEF TypeOK, Covers, Newer
  <1>2. ASSUME NEW t \in published
        PROVE  /\ t.generation <= new.topology.generation
               /\ t.generation = new.topology.generation => t = new.topology
    <2>1. t \in Topologies /\ s.topology \in Topologies /\ new.topology \in Topologies
      BY RecordType, Zenon DEF TypeOK
    <2> QED
      BY <2>1, TopologyType DEF Covers, Newer
  <1> QED
    BY <1>1, <1>2, Zenon DEF Covers

(* Each image is afterwards the new bytes or what it was, and certainly    *)
(* the new bytes if the write was acknowledged.                            *)
LEMMA Written ==
  ASSUME TypeOK, NEW b \in Files, NEW w \in Outcomes, write_bytes(b, w)
  PROVE  /\ file' \in {file, b} /\ synced' \in {synced, b}
         /\ w = "written" => file' = b /\ synced' = b
         /\ w = "unpublished" => file' = file /\ synced' = synced
         /\ file' \in Files /\ synced' \in Files /\ faults' \in Nat
  BY DEF TypeOK, write_bytes, Outcomes

(* An instance that is open, not uncertain and not retired holds a state    *)
(* that covers the past, and so do both images.                             *)
LEMMA MemoryCovers ==
  ASSUME IInv, phase # "down", ~uncertain, ~retired
  PROVE  mem \in StoredState /\ Covers(mem) /\ evidence = {}
         /\ file.kind = "state" /\ synced.kind = "state"
  <1>1. mem \in StoredState /\ file = Json(mem) /\ synced = Json(mem)
    BY Zenon DEF IInv, TypeOK, Level
  <1>2. file.kind = "state" /\ file.state = mem /\ synced.kind = "state"
    BY <1>1, FileType, Zenon
  <1>3. Covers(mem)
    BY <1>2, Zenon DEF IInv, Past, ImageCovers
  <1>4. evidence = {}
    BY <1>2, Zenon DEF IInv, Fenced
  <1> QED
    BY <1>1, <1>2, <1>3, <1>4, Zenon

(* Nothing that the past is made of changes and both images stay, or take  *)
(* bytes that cover it.                                                    *)
LEMMA PastKept ==
  ASSUME TypeOK, Past, NEW b \in Files, b.kind # "missing", Covers(b.state),
         file' \in {file, b}, synced' \in {synced, b},
         grants' = grants, published' = published
  PROVE  Past'
  <1>1. ImageCovers(file)'
    <2>1. CASE file' = file
      BY <2>1, Zenon DEF Past, ImageCovers, Covers
    <2>2. CASE file' = b
      BY <2>2, Zenon DEF ImageCovers, Covers
    <2> QED
      BY <2>1, <2>2, Zenon
  <1>2. ImageCovers(synced)'
    <2>1. CASE synced' = synced
      BY <2>1, Zenon DEF Past, ImageCovers, Covers
    <2>2. CASE synced' = b
      BY <2>2, Zenon DEF ImageCovers, Covers
    <2> QED
      BY <2>1, <2>2, Zenon
  <1> QED
    BY <1>1, <1>2, Zenon DEF Past

(* A decision: register aside, every mutation persists a newer state and   *)
(* touches nothing else that the invariant is about.                       *)
LEMMA Decided ==
  ASSUME IInv, lock_state, NEW new \in StoredState, Newer(mem, new),
         NEW w \in Outcomes, persist_locked(new, w), publishing' \in Nat,
         UNCHANGED <<phase, retired, live, history>>
  PROVE  IInv'
  <1>1. /\ mem \in StoredState /\ Covers(mem) /\ evidence = {}
        /\ file = Json(mem) /\ synced = Json(mem)
    BY MemoryCovers, Zenon DEF lock_state, IInv, Level
  <1>2. Covers(new)
    BY <1>1, CoversNewer, Zenon DEF IInv
  <1>3. /\ Json(new) \in Files /\ Json(new).kind = "state" /\ Json(new).state = new
    BY FileType, Zenon
  <1>4. /\ file' \in {file, Json(new)} /\ synced' \in {synced, Json(new)}
        /\ w = "written" => file' = Json(new) /\ synced' = Json(new)
        /\ w = "unpublished" => file' = file /\ synced' = synced
        /\ file' \in Files /\ synced' \in Files /\ faults' \in Nat
    BY <1>3, Written, Zenon DEF persist_locked, IInv
  <1>5. /\ mem' = IF w = "written" THEN new ELSE mem
        /\ uncertain' = (w \in Ambiguous)
    BY Zenon DEF persist_locked
  <1>6. /\ phase' = phase /\ retired' = retired /\ live' = live
        /\ grants' = grants /\ published' = published /\ evidence' = evidence
    BY Zenon DEF history
  <1>7. TypeOK'
    BY <1>1, <1>4, <1>5, <1>6 DEF IInv, TypeOK
  <1>8. Past'
    BY <1>2, <1>3, <1>4, <1>6, PastKept, Zenon DEF IInv
  <1>9. Level'
    BY <1>1, <1>4, <1>5, <1>6, Zenon DEF Level, Outcomes, Ambiguous, Json
  <1>10. Modes'
    BY <1>6, Zenon DEF Modes, IInv, lock_state
  <1>11. Fenced'
    BY <1>1, <1>6, Zenon DEF Fenced
  <1>12. TokensNeverReused' /\ GenerationsAgree'
    BY <1>6, Zenon DEF IInv, TokensNeverReused, GenerationsAgree
  <1> QED
    BY <1>7, <1>8, <1>9, <1>10, <1>11, <1>12, Zenon DEF IInv

(* register keeps the invariant: the token it returns is below next_token   *)
(* in every image that may survive.                                         *)
LEMMA RegisterStep ==
  ASSUME IInv, NEW n \in Nodes, NEW w \in Outcomes, register(n, w)
  PROVE  IInv'
  <1>1. /\ mem \in StoredState /\ Covers(mem) /\ evidence = {}
        /\ file = Json(mem) /\ synced = Json(mem)
    BY MemoryCovers, Zenon DEF register, lock_state, IInv, Level
  <1>2. mem.next_token \in Nat /\ mem.topology \in Topologies
    BY <1>1, RecordType, Zenon
  <1>3. PICK new \in StoredState :
          new = [mem EXCEPT !.next_token = @ + 1,
                            !.lease_token[n] = mem.next_token]
    <2>1. mem.topology \in Topologies /\ mem.history \in Seq(Topologies)
          /\ mem.placement \in Placements
      BY <1>1, RecordType, Zenon
    <2> QED
      BY <1>1, <2>1, BuildType, Zenon
  <1>4. new.next_token = mem.next_token + 1 /\ new.topology = mem.topology
    BY <1>1, <1>3, Zenon DEF StoredState
  <1>5. Newer(mem, new)
    BY <1>2, <1>4 DEF Newer
  <1>6. lock_state /\ persist_locked(new, w) /\ phase' = phase
        /\ retired' = retired /\ live' = live /\ publishing' = publishing
        /\ published' = published /\ evidence' = evidence
        /\ grants' = IF w = "written" THEN Append(grants, mem.next_token)
                                      ELSE grants
    BY <1>3, Zenon DEF register
  <1>7. CASE w # "written"
    BY <1>3, <1>5, <1>6, <1>7, Decided, Zenon DEF IInv, TypeOK, history
  <1>8. CASE w = "written"
    <2>1. Json(new) \in Files /\ Json(new).kind = "state" /\ Json(new).state = new
      BY <1>3, FileType, Zenon
    <2>2. /\ file' = Json(new) /\ synced' = Json(new) /\ faults' \in Nat
          /\ mem' = new /\ uncertain' = (w \in Ambiguous)
      <3>1. write_bytes(Json(new), w) /\ mem' = new
            /\ uncertain' = (w \in Ambiguous)
        BY <1>6, <1>8, Zenon DEF persist_locked
      <3>2. file' = Json(new) /\ synced' = Json(new) /\ faults' \in Nat
        BY <1>8, <2>1, <3>1, Written, Zenon DEF IInv
      <3> QED
        BY <3>1, <3>2, Zenon
    <2>3. grants' = Append(grants, mem.next_token)
      BY <1>6, <1>8, Zenon
    <2>4. grants \in Seq(Nat) /\ grants' \in Seq(Nat)
      BY <1>2, <2>3 DEF IInv, TypeOK
    <2>5. /\ Len(grants') = Len(grants) + 1
          /\ \A i \in 1 .. Len(grants) : grants'[i] = grants[i]
          /\ grants'[Len(grants) + 1] = mem.next_token
          /\ DOMAIN grants = 1 .. Len(grants) /\ DOMAIN grants' = 1 .. Len(grants')
          /\ Len(grants) \in Nat
          /\ \A i \in 1 .. Len(grants) : grants[i] \in Nat
      BY <1>2, <2>3, <2>4
    <2>6. \A i \in 1 .. Len(grants) : grants[i] < mem.next_token
      BY <1>1, <2>5, Zenon DEF Covers
    <2>7. TypeOK'
      BY <1>3, <1>6, <2>1, <2>2, <2>4 DEF IInv, TypeOK
    <2>8. Covers(new)'
      <3>1. \A i \in DOMAIN grants' : grants'[i] < new.next_token
        BY <1>2, <1>4, <2>5, <2>6
      <3>2. \A t \in published' :
              /\ t.generation <= new.topology.generation
              /\ t.generation = new.topology.generation => t = new.topology
        BY <1>1, <1>4, <1>6, Zenon DEF Covers
      <3> QED
        BY <3>1, <3>2, Zenon DEF Covers
    <2>9. Past'
      BY <2>1, <2>2, <2>8, Zenon DEF Past, ImageCovers
    <2>10. Level' /\ Modes' /\ Fenced'
      BY <1>1, <1>6, <2>2, Zenon DEF Level, Modes, Fenced, lock_state
    <2>11. TokensNeverReused'
      BY <1>2, <2>5, <2>6 DEF IInv, TokensNeverReused
    <2>12. GenerationsAgree'
      BY <1>6, Zenon DEF IInv, GenerationsAgree
    <2> QED
      BY <2>7, <2>9, <2>10, <2>11, <2>12, Zenon DEF IInv
  <1> QED
    BY <1>7, <1>8, Zenon

(* Replacing the topology by one of a higher generation makes a state       *)
(* newer.                                                                   *)
LEMMA Replaced ==
  ASSUME NEW s \in StoredState, NEW h \in Seq(Topologies),
         NEW t \in Topologies, s.topology.generation < t.generation
  PROVE  /\ [s EXCEPT !.history = h, !.topology = t] \in StoredState
         /\ Newer(s, [s EXCEPT !.history = h, !.topology = t])
  <1> DEFINE new == [s EXCEPT !.history = h, !.topology = t]
  <1>1. new \in StoredState
    BY Zenon DEF StoredState
  <1>2. new.topology = t /\ new.next_token = s.next_token
    BY Zenon DEF StoredState
  <1>3. s.next_token \in Nat
    BY RecordType, Zenon
  <1> HIDE DEF new
  <1>4. Newer(s, new)
    BY <1>2, <1>3 DEF Newer
  <1> QED
    BY <1>1, <1>4, Zenon DEF new

(* A decision about placements keeps the invariant, however its write ends. *)
LEMMA ChangeStep ==
  ASSUME IInv, NEW p \in Placements, NEW w \in Outcomes, change(p, w)
  PROVE  IInv'
  <1>1. mem \in StoredState
    BY Zenon DEF IInv, TypeOK
  <1>2. [mem EXCEPT !.placement = p] \in StoredState
        /\ Newer(mem, [mem EXCEPT !.placement = p])
    BY <1>1 DEF StoredState, Newer
  <1>3. publishing' \in Nat
    BY Zenon DEF change, IInv, TypeOK
  <1> QED
    BY <1>2, <1>3, Decided, Zenon DEF change

(* reconcile_locked gives a stored state that is newer than the one it was  *)
(* given.                                                                   *)
LEMMA ReconciledState ==
  ASSUME NEW s \in StoredState
  PROVE  reconcile_locked(s) \in StoredState /\ Newer(s, reconcile_locked(s))
  <1>1. s.topology \in Topologies /\ s.history \in Seq(Topologies)
        /\ s.next_token \in Nat /\ s.placement \in Placements
    BY RecordType, Zenon
  <1>2. Desired[s.placement] \in Routes \cup {NoRoutes}
    BY <1>1, StoreConstants, Zenon
  <1> DEFINE h == Trim(Append(s.history, s.topology))
             t == [generation |-> s.topology.generation + 1,
                   routes |-> Desired[s.placement]]
  <1>3. h \in Seq(Topologies)
    <2>1. Append(s.history, s.topology) \in Seq(Topologies)
      BY <1>1
    <2>2. Len(Append(s.history, s.topology)) > 0
      BY <1>1
    <2>3. ASSUME NEW q \in Seq(Topologies), Len(q) > 0
          PROVE  Tail(q) \in Seq(Topologies)
      BY <2>3
    <2> QED
      BY <2>1, <2>2, <2>3, Zenon DEF Trim
  <1>4. t \in Topologies /\ s.topology.generation < t.generation
    BY <1>1, <1>2 DEF Topologies
  <1> HIDE DEF h, t
  <1>5. /\ [s EXCEPT !.history = h, !.topology = t] \in StoredState
        /\ Newer(s, [s EXCEPT !.history = h, !.topology = t])
    BY <1>3, <1>4, Replaced, Zenon
  <1>6. Newer(s, s)
    BY <1>1 DEF Newer
  <1>7. reconcile_locked(s) \in {s, [s EXCEPT !.history = h, !.topology = t]}
    BY Zenon DEF reconcile_locked, h, t
  <1> QED
    BY <1>5, <1>6, <1>7, Zenon

(* reconcile keeps the invariant.                                           *)
LEMMA ReconcileStep ==
  ASSUME IInv, NEW w \in Outcomes, reconcile(w)
  PROVE  IInv'
  <1>1. mem \in StoredState /\ publishing \in Nat
    BY Zenon DEF IInv, TypeOK
  <1>2. publishing' \in Nat
    BY <1>1 DEF reconcile
  <1> QED
    BY <1>1, <1>2, ReconciledState, Decided, Zenon DEF reconcile

(* rollback keeps the invariant: routes of the past come back under a new   *)
(* generation.                                                              *)
LEMMA RollbackStep ==
  ASSUME IInv, NEW i \in 1 .. HistoryLimit, NEW w \in Outcomes, rollback(i, w)
  PROVE  IInv'
  <1>1. mem \in StoredState /\ publishing \in Nat /\ i \in DOMAIN mem.history
    BY Zenon DEF IInv, TypeOK, rollback
  <1>2. publishing' \in Nat
    BY <1>1 DEF rollback
  <1>3. mem.topology \in Topologies /\ mem.history \in Seq(Topologies)
        /\ mem.next_token \in Nat
    BY <1>1, RecordType, Zenon
  <1> DEFINE h == SubSeq(mem.history, 1, i - 1)
                    \o SubSeq(mem.history, i + 1, Len(mem.history))
                    \o <<mem.topology>>
             t == [generation |-> mem.topology.generation + 1,
                   routes |-> mem.history[i].routes]
  <1>4. h \in Seq(Topologies)
    <2>1. /\ SubSeq(mem.history, 1, i - 1) \in Seq(Topologies)
          /\ SubSeq(mem.history, i + 1, Len(mem.history)) \in Seq(Topologies)
      BY <1>1, <1>3
    <2>2. <<mem.topology>> \in Seq(Topologies)
      BY <1>3
    <2> QED
      BY <2>1, <2>2
  <1>5. t \in Topologies /\ mem.topology.generation < t.generation
    <2>1. mem.history[i] \in Topologies
      BY <1>1, <1>3
    <2> QED
      BY <1>3, <2>1 DEF Topologies
  <1>6. persist_locked([mem EXCEPT !.history = h, !.topology = t], w)
    BY Zenon DEF rollback
  <1> HIDE DEF h, t
  <1>7. /\ [mem EXCEPT !.history = h, !.topology = t] \in StoredState
        /\ Newer(mem, [mem EXCEPT !.history = h, !.topology = t])
    BY <1>1, <1>4, <1>5, Replaced, Zenon
  <1> QED
    BY <1>2, <1>6, <1>7, Decided, Zenon DEF rollback

(* open keeps the invariant: what it read is written again before it is     *)
(* used.                                                                    *)
LEMMA OpenStep ==
  ASSUME IInv, NEW w \in Outcomes, Open(w)
  PROVE  IInv'
  <1>1. PICK state : state = IF file.kind = "missing" THEN Default ELSE file.state
    BY Zenon
  <1>2. file \in Files
    BY Zenon DEF IInv, TypeOK
  <1>3. state \in StoredState
    BY <1>1, <1>2, DefaultType, Zenon DEF Files
  <1>4. Covers(state)
    BY <1>1 DEF IInv, Past, ImageCovers, Covers
  <1>5. Json(state) \in Files /\ Json(state).kind = "state"
        /\ Json(state).state = state
    BY <1>3, FileType, Zenon
  <1>6. /\ write_bytes(Json(state), w) /\ mem' = state /\ file.kind # "retired"
        /\ phase' = IF w = "written" THEN "opened" ELSE "down"
        /\ uncertain' = FALSE /\ retired' = FALSE /\ publishing' = 0
        /\ live' = [generation |-> MapGeneration, routes |-> MapRoutes]
        /\ grants' = grants /\ published' = published /\ evidence' = evidence
    BY <1>1, Zenon DEF Open, history
  <1>7. /\ file' \in {file, Json(state)} /\ synced' \in {synced, Json(state)}
        /\ w = "written" => file' = Json(state) /\ synced' = Json(state)
        /\ file' \in Files /\ synced' \in Files /\ faults' \in Nat
    BY <1>5, <1>6, Written, Zenon DEF IInv
  <1>8. evidence = {}
    BY <1>6, Zenon DEF IInv, Fenced
  <1>9. live' \in Topologies
    BY <1>6, StoreConstants, Zenon DEF Topologies
  <1>10. TypeOK'
    BY <1>3, <1>6, <1>7, <1>9, Zenon DEF IInv, TypeOK
  <1>11. Past'
    BY <1>4, <1>5, <1>6, <1>7, PastKept, Zenon DEF IInv
  <1>12. Level' /\ Modes' /\ Fenced'
    BY <1>6, <1>7, <1>8, Zenon DEF Level, Modes, Fenced
  <1>13. TokensNeverReused' /\ GenerationsAgree'
    BY <1>6, Zenon DEF IInv, TokensNeverReused, GenerationsAgree
  <1> QED
    BY <1>10, <1>11, <1>12, <1>13, Zenon DEF IInv

(* bootstrap_topology keeps the invariant.                                  *)
LEMMA BootstrapStep ==
  ASSUME IInv, NEW w \in Outcomes, bootstrap_topology(w)
  PROVE  IInv'
  <1>1. /\ phase = "opened" /\ uncertain' = uncertain /\ retired' = retired
        /\ live' = live /\ publishing' = publishing
        /\ grants' = grants /\ published' = published /\ evidence' = evidence
    BY Zenon DEF bootstrap_topology, history
  <1>2. ~uncertain /\ ~retired
    BY <1>1, Zenon DEF IInv, Modes
  <1>3. mem \in StoredState /\ Covers(mem) /\ evidence = {}
        /\ file = Json(mem) /\ synced = Json(mem)
    BY <1>1, <1>2, MemoryCovers, Zenon DEF IInv, Level
  <1>4. CASE w = "written" /\ phase' = "booted" /\ UNCHANGED <<disk, mem, faults>>
    <2>1. file' = file /\ synced' = synced /\ mem' = mem /\ faults' = faults
      BY <1>4, Zenon DEF disk
    <2>2. TypeOK'
      BY <1>1, <1>4, <2>1, Zenon DEF IInv, TypeOK
    <2>3. Past'
      BY <1>1, <2>1, Zenon DEF IInv, Past, ImageCovers, Covers
    <2>4. Level' /\ Modes' /\ Fenced'
      BY <1>1, <1>2, <1>3, <2>1, Zenon DEF Level, Modes, Fenced, Json
    <2>5. TokensNeverReused' /\ GenerationsAgree'
      BY <1>1, Zenon DEF IInv, TokensNeverReused, GenerationsAgree
    <2> QED
      BY <2>2, <2>3, <2>4, <2>5, Zenon DEF IInv
  <1>5. CASE ~(w = "written" /\ phase' = "booted" /\ UNCHANGED <<disk, mem, faults>>)
    <2>1. PICK t \in Topologies :
             t = [generation |-> MapGeneration, routes |-> MapRoutes]
      BY StoreConstants, Zenon DEF Topologies
    <2>2. PICK new \in StoredState : new = [mem EXCEPT !.topology = t]
      <3>1. [mem EXCEPT !.topology = t] \in StoredState
        BY <1>3, Zenon DEF StoredState
      <3> QED
        BY <3>1, Zenon
    <2>3. /\ mem.topology = Default.topology
          /\ write_bytes(Json(new), w) /\ mem' = new
          /\ phase' = IF w = "written" THEN "booted" ELSE "down"
      BY <1>5, <2>1, <2>2, Zenon DEF bootstrap_topology
    <2>4. Newer(mem, new)
      <3>1. new.topology = t /\ new.next_token = mem.next_token
        BY <1>3, <2>2, Zenon DEF StoredState
      <3>2. mem.topology.generation = 0 /\ t.generation = MapGeneration
        BY <2>1, <2>3 DEF Default
      <3>3. mem.next_token \in Nat
        BY <1>3, RecordType, Zenon
      <3> QED
        BY <3>1, <3>2, <3>3, StoreConstants DEF Newer
    <2>5. Covers(new)
      BY <1>3, <2>4, CoversNewer, Zenon DEF IInv
    <2>6. Json(new) \in Files /\ Json(new).kind = "state" /\ Json(new).state = new
      BY FileType, Zenon
    <2>7. /\ file' \in {file, Json(new)} /\ synced' \in {synced, Json(new)}
          /\ w = "written" => file' = Json(new) /\ synced' = Json(new)
          /\ file' \in Files /\ synced' \in Files /\ faults' \in Nat
      BY <2>3, <2>6, Written, Zenon DEF IInv
    <2>8. TypeOK'
      BY <1>1, <2>3, <2>7, Zenon DEF IInv, TypeOK
    <2>9. Past'
      BY <1>1, <2>5, <2>6, <2>7, PastKept, Zenon DEF IInv
    <2>10. Level' /\ Modes' /\ Fenced'
      BY <1>1, <1>2, <1>3, <2>3, <2>7, Zenon DEF Level, Modes, Fenced
    <2>11. TokensNeverReused' /\ GenerationsAgree'
      BY <1>1, Zenon DEF IInv, TokensNeverReused, GenerationsAgree
    <2> QED
      BY <2>8, <2>9, <2>10, <2>11, Zenon DEF IInv
  <1> QED
    BY <1>4, <1>5, Zenon

(* Publishing leaves the coordinator with exactly the stored topology.     *)
LEMMA PublishedTopology ==
  ASSUME IInv, phase # "down", ~uncertain, ~retired, Publishable,
         publish_current_topology, phase' # "down",
         UNCHANGED <<disk, mem, uncertain, retired, grants, evidence>>
  PROVE  /\ live' \in Topologies /\ published' \subseteq Topologies
         /\ Past' /\ Level' /\ Fenced' /\ GenerationsAgree'
  <1>1. mem \in StoredState /\ Covers(mem) /\ evidence = {}
        /\ file = Json(mem) /\ synced = Json(mem)
    BY MemoryCovers, Zenon DEF IInv, Level
  <1>2. mem.topology \in Topologies /\ live \in Topologies
    BY <1>1, RecordType, Zenon DEF IInv, TypeOK
  <1>3. live' = mem.topology
    <2>1. CASE mem.topology.generation > live.generation
      BY <2>1, Zenon DEF publish_current_topology
    <2>2. CASE ~(mem.topology.generation > live.generation)
      <3>1. live' = live
        BY <2>2, Zenon DEF publish_current_topology
      <3>2. mem.topology.generation = live.generation
            /\ mem.topology.routes = live.routes
        BY <1>2, <2>2, TopologyType DEF Publishable
      <3> QED
        BY <1>2, <3>1, <3>2 DEF Topologies
    <2> QED
      BY <2>1, <2>2, Zenon
  <1>4. published' = published \cup {mem.topology}
    BY <1>3, Zenon DEF publish_current_topology
  <1>5. live' \in Topologies /\ published' \subseteq Topologies
    BY <1>2, <1>3, <1>4, Zenon DEF IInv, TypeOK
  <1>6. /\ file' = file /\ synced' = synced /\ mem' = mem /\ grants' = grants
        /\ evidence' = evidence /\ uncertain' = uncertain /\ retired' = retired
    BY Zenon DEF disk
  <1>7. GenerationsAgree'
    BY <1>1, <1>2, <1>4, Zenon DEF IInv, GenerationsAgree, Covers
  <1>8. Past'
    <2>1. file'.kind = "state" /\ file'.state = mem
          /\ synced'.kind = "state" /\ synced'.state = mem
      BY <1>1, <1>6, FileType, Zenon
    <2>2. mem.topology.generation \in Nat
      BY <1>2, TopologyType, Zenon
    <2> QED
      BY <1>1, <1>4, <1>6, <2>1, <2>2 DEF Past, ImageCovers, Covers
  <1>9. Level' /\ Fenced'
    BY <1>1, <1>6, Zenon DEF Level, Fenced, Json
  <1> QED
    BY <1>5, <1>7, <1>8, <1>9, Zenon

(* The first publication of a start keeps the invariant.                    *)
LEMMA StartServingStep ==
  ASSUME IInv, StartServing
  PROVE  IInv'
  <1>1. /\ phase = "booted" /\ file' = file /\ synced' = synced /\ mem' = mem
        /\ uncertain' = uncertain /\ retired' = retired /\ grants' = grants
        /\ publishing' = publishing /\ evidence' = evidence /\ faults' = faults
    BY Zenon DEF StartServing, disk
  <1>2. ~uncertain /\ ~retired
    BY <1>1, Zenon DEF IInv, Modes
  <1>3. CASE Publishable
    <2>1. phase' = "serving" /\ publish_current_topology
      BY <1>3, Zenon DEF StartServing
    <2>2. /\ live' \in Topologies /\ published' \subseteq Topologies
          /\ Past' /\ Level' /\ Fenced' /\ GenerationsAgree'
      BY <1>1, <1>2, <1>3, <2>1, PublishedTopology, Zenon DEF disk
    <2>3. TypeOK' /\ Modes' /\ TokensNeverReused'
      BY <1>1, <2>1, <2>2, Zenon DEF IInv, TypeOK, Modes, TokensNeverReused
    <2> QED
      BY <2>2, <2>3, Zenon DEF IInv
  <1>4. CASE ~Publishable
    <2>1. phase' = "down" /\ live' = live /\ published' = published
      BY <1>4, Zenon DEF StartServing
    <2>2. TypeOK' /\ Modes'
      BY <1>1, <1>2, <2>1, Zenon DEF IInv, TypeOK, Modes
    <2>3. Past' /\ Level' /\ Fenced'
      BY <1>1, <2>1, Zenon DEF IInv, Past, ImageCovers, Covers, Level, Fenced
    <2>4. TokensNeverReused' /\ GenerationsAgree'
      BY <1>1, <2>1, Zenon DEF IInv, TokensNeverReused, GenerationsAgree
    <2> QED
      BY <2>2, <2>3, <2>4, Zenon DEF IInv
  <1> QED
    BY <1>3, <1>4, Zenon

(* publish_current_topology keeps the invariant: what it serves is in both  *)
(* images.                                                                  *)
LEMMA PublishStep ==
  ASSUME IInv, Publish
  PROVE  IInv'
  <1>1. /\ phase = "serving" /\ phase' = phase /\ file' = file
        /\ synced' = synced /\ mem' = mem
        /\ uncertain' = uncertain /\ retired' = retired /\ grants' = grants
        /\ evidence' = evidence /\ faults' = faults
    BY Zenon DEF Publish, disk
  <1>2. publishing' \in Nat
    BY DEF Publish, IInv, TypeOK
  <1>3. CASE lock_state /\ Publishable
    <2>1. publish_current_topology
      BY <1>3, Zenon DEF Publish
    <2>2. /\ live' \in Topologies /\ published' \subseteq Topologies
          /\ Past' /\ Level' /\ Fenced' /\ GenerationsAgree'
      BY <1>1, <1>3, <2>1, PublishedTopology, Zenon DEF disk, lock_state
    <2>3. TypeOK' /\ Modes' /\ TokensNeverReused'
      BY <1>1, <1>2, <2>1, <2>2, Zenon DEF IInv, TypeOK, Modes, TokensNeverReused
    <2> QED
      BY <2>2, <2>3, Zenon DEF IInv
  <1>4. CASE ~(lock_state /\ Publishable)
    <2>1. live' = live /\ published' = published
      BY <1>4, Zenon DEF Publish
    <2>2. TypeOK' /\ Modes'
      BY <1>1, <1>2, <2>1, Zenon DEF IInv, TypeOK, Modes
    <2>3. Past' /\ Level' /\ Fenced'
      BY <1>1, <2>1, Zenon DEF IInv, Past, ImageCovers, Covers, Level, Fenced, Json
    <2>4. TokensNeverReused' /\ GenerationsAgree'
      BY <1>1, <2>1, Zenon DEF IInv, TokensNeverReused, GenerationsAgree
    <2> QED
      BY <2>2, <2>3, <2>4, Zenon DEF IInv
  <1> QED
    BY <1>3, <1>4, Zenon

(* retire_for_import keeps the invariant: evidence is issued only of a      *)
(* record that is in both images.                                           *)
LEMMA RetireStep ==
  ASSUME IInv, NEW w \in Outcomes, retire_for_import(w)
  PROVE  IInv'
  <1>1. /\ mem \in StoredState /\ Covers(mem) /\ evidence = {}
        /\ file = Json(mem) /\ synced = Json(mem)
    BY MemoryCovers, Zenon DEF retire_for_import, lock_state, IInv, Level
  <1>2. Retirement(mem) \in Files /\ Retirement(mem).kind = "retired"
        /\ Retirement(mem).state = mem
    BY <1>1, FileType, Zenon
  <1>3. PICK b \in Files : b = Retirement(mem)
    BY <1>2, Zenon
  <1>4. /\ phase = "serving" /\ phase' = phase /\ mem' = mem /\ live' = live
        /\ publishing' = publishing /\ grants' = grants /\ published' = published
        /\ uncertain' = (w \in Ambiguous) /\ retired' = (w = "written")
        /\ evidence' = IF w = "written" THEN evidence \cup {mem} ELSE evidence
    BY Zenon DEF retire_for_import, lock_state
  <1>5. /\ file' \in {file, b} /\ synced' \in {synced, b}
        /\ w = "written" => file' = b /\ synced' = b
        /\ w = "unpublished" => file' = file /\ synced' = synced
        /\ file' \in Files /\ synced' \in Files /\ faults' \in Nat
    BY <1>3, Written, Zenon DEF retire_for_import, IInv
  <1>6. TypeOK'
    BY <1>1, <1>4, <1>5 DEF IInv, TypeOK
  <1>7. Past'
    BY <1>1, <1>2, <1>3, <1>4, <1>5, PastKept, Zenon DEF IInv
  <1>8. Level' /\ Modes'
    BY <1>1, <1>4, <1>5, Zenon DEF Level, Modes, Outcomes, Ambiguous, Json
  <1>9. Fenced'
    <2>1. CASE w = "written"
      <3>1. evidence' = {mem} /\ file' = b /\ synced' = b /\ retired'
        BY <1>1, <1>4, <1>5, <2>1, Zenon
      <3>2. \A c \in evidence' : Covers(c)'
        BY <1>1, <1>4, <3>1, Zenon DEF Covers
      <3> QED
        BY <1>2, <1>3, <3>1, <3>2, Zenon DEF Fenced
    <2>2. CASE w # "written"
      BY <1>1, <1>4, <2>2, Zenon DEF Fenced
    <2> QED
      BY <2>1, <2>2, Zenon
  <1>10. TokensNeverReused' /\ GenerationsAgree'
    BY <1>4, Zenon DEF IInv, TokensNeverReused, GenerationsAgree
  <1> QED
    BY <1>6, <1>7, <1>8, <1>9, <1>10, Zenon DEF IInv

(* recover keeps the invariant: it syncs the record before it issues        *)
(* evidence.                                                                *)
LEMMA RecoverStep ==
  ASSUME IInv, recover
  PROVE  IInv'
  <1>1. /\ phase = "down" /\ file.kind = "retired" /\ synced' = file
        /\ evidence' = evidence \cup {file.state} /\ file' = file
        /\ phase' = phase /\ mem' = mem /\ uncertain' = uncertain
        /\ retired' = retired /\ live' = live /\ publishing' = publishing
        /\ grants' = grants /\ published' = published /\ faults' = faults
    BY Zenon DEF recover, process
  <1>2. file.state \in StoredState /\ Covers(file.state)
    BY <1>1, Zenon DEF IInv, TypeOK, Files, Past, ImageCovers
  <1>3. TypeOK'
    BY <1>1, <1>2, Zenon DEF IInv, TypeOK
  <1>4. Past'
    BY <1>1, Zenon DEF IInv, Past, ImageCovers, Covers
  <1>5. Level' /\ Modes'
    BY <1>1, Zenon DEF IInv, Level, Modes
  <1>6. Fenced'
    <2>1. \A c \in evidence' : Covers(c)'
      BY <1>1, <1>2, Zenon DEF IInv, Fenced, Covers
    <2> QED
      BY <1>1, <2>1, Zenon DEF Fenced
  <1>7. TokensNeverReused' /\ GenerationsAgree'
    BY <1>1, Zenon DEF IInv, TokensNeverReused, GenerationsAgree
  <1> QED
    BY <1>3, <1>4, <1>5, <1>6, <1>7, Zenon DEF IInv

(* A crash keeps both images; a power loss makes both one of the two.      *)
LEMMA StopStep ==
  ASSUME IInv, file' \in {file, synced}, synced' \in {file, synced},
         phase' = "down", publishing' = 0, faults' \in Nat,
         uncertain' = FALSE, retired' = FALSE, UNCHANGED <<mem, live, history>>
  PROVE  IInv'
  <1>1. /\ mem' = mem /\ live' = live /\ grants' = grants
        /\ published' = published /\ evidence' = evidence
    BY Zenon DEF history
  <1>2. TypeOK'
    BY <1>1, Zenon DEF IInv, TypeOK
  <1>3. Past'
    BY <1>1, Zenon DEF IInv, Past, ImageCovers, Covers
  <1>4. Level' /\ Modes'
    BY Zenon DEF Level, Modes
  <1>5. Fenced'
    BY <1>1, Zenon DEF IInv, Fenced, Covers
  <1>6. TokensNeverReused' /\ GenerationsAgree'
    BY <1>1, Zenon DEF IInv, TokensNeverReused, GenerationsAgree
  <1> QED
    BY <1>2, <1>3, <1>4, <1>5, <1>6, Zenon DEF IInv

-----------------------------------------------------------------------------
(* The invariant holds at first.                                            *)
LEMMA InitIInv == Init => IInv
  <1> SUFFICES ASSUME Init PROVE IInv
    BY Zenon
  <1>1. TypeOK
    <2>1. Missing \in Files
      BY DefaultType, Zenon DEF Missing, Files
    <2>2. live \in Topologies
      BY StoreConstants, Zenon DEF Init, Topologies
    <2>3. /\ phase \in {"down", "opened", "booted", "serving"}
          /\ publishing \in Nat /\ faults \in Nat /\ grants \in Seq(Nat)
          /\ published \subseteq Topologies /\ evidence \subseteq StoredState
      BY DEF Init
    <2>4. uncertain \in BOOLEAN /\ retired \in BOOLEAN
      BY Zenon DEF Init
    <2> QED
      BY <2>1, <2>2, <2>3, <2>4, DefaultType, Zenon DEF Init, TypeOK
  <1>2. Past /\ Level /\ Modes /\ Fenced
    BY Zenon DEF Init, Past, ImageCovers, Missing, Level, Modes, Fenced
  <1>3. TokensNeverReused /\ GenerationsAgree
    BY DEF Init, TokensNeverReused, GenerationsAgree
  <1> QED
    BY <1>1, <1>2, <1>3, Zenon DEF IInv

(* Every step keeps the invariant, one case for each action.                *)
LEMMA StepIInv == IInv /\ [Next]_vars => IInv'
  <1> SUFFICES ASSUME IInv, [Next]_vars PROVE IInv'
    BY Zenon
  <1>1. ASSUME NEW w \in Outcomes, Open(w) PROVE IInv'
    BY <1>1, OpenStep, Zenon
  <1>2. ASSUME NEW w \in Outcomes, bootstrap_topology(w) PROVE IInv'
    BY <1>2, BootstrapStep, Zenon
  <1>3. ASSUME NEW w \in Outcomes, NEW n \in Nodes, register(n, w) PROVE IInv'
    BY <1>3, RegisterStep, Zenon
  <1>4. ASSUME NEW w \in Outcomes, NEW p \in Placements, change(p, w) PROVE IInv'
    BY <1>4, ChangeStep, Zenon
  <1>5. ASSUME NEW w \in Outcomes, reconcile(w) PROVE IInv'
    BY <1>5, ReconcileStep, Zenon
  <1>6. ASSUME NEW w \in Outcomes, NEW i \in 1 .. HistoryLimit, rollback(i, w)
        PROVE  IInv'
    BY <1>6, RollbackStep, Zenon
  <1>7. ASSUME NEW w \in Outcomes, retire_for_import(w) PROVE IInv'
    BY <1>7, RetireStep, Zenon
  <1>8. CASE StartServing
    BY <1>8, StartServingStep, Zenon
  <1>9. CASE Publish
    BY <1>9, PublishStep, Zenon
  <1>10. CASE recover
    BY <1>10, RecoverStep, Zenon
  <1>11. CASE Crash
    <2>1. faults \in Nat
      BY Zenon DEF IInv, TypeOK
    <2>2. faults' \in Nat
      BY <1>11, <2>1 DEF Crash
    <2>3. file' \in {file, synced} /\ synced' \in {file, synced}
      BY <1>11, Zenon DEF Crash, disk
    <2> QED
      BY <1>11, <2>2, <2>3, StopStep, Zenon DEF Crash
  <1>12. ASSUME NEW kept \in {file, synced}, PowerLoss(kept) PROVE IInv'
    <2>1. faults \in Nat
      BY Zenon DEF IInv, TypeOK
    <2>2. faults' \in Nat
      BY <1>12, <2>1 DEF PowerLoss
    <2>3. file' \in {file, synced} /\ synced' \in {file, synced}
      BY <1>12, Zenon DEF PowerLoss
    <2> QED
      BY <1>12, <2>2, <2>3, StopStep, Zenon DEF PowerLoss
  <1>13. CASE UNCHANGED vars
    <2>1. /\ file' = file /\ synced' = synced /\ phase' = phase /\ mem' = mem
          /\ uncertain' = uncertain /\ retired' = retired /\ live' = live
          /\ publishing' = publishing /\ grants' = grants
          /\ published' = published /\ evidence' = evidence /\ faults' = faults
      BY <1>13, Zenon DEF vars, disk, process, history
    <2>2. TypeOK' /\ Past' /\ Level' /\ Modes'
      BY <2>1, Zenon DEF IInv, TypeOK, Past, ImageCovers, Covers, Level, Json, Modes
    <2>3. Fenced' /\ TokensNeverReused' /\ GenerationsAgree'
      BY <2>1, Zenon DEF IInv, Fenced, Covers, TokensNeverReused, GenerationsAgree
    <2> QED
      BY <2>2, <2>3, Zenon DEF IInv
  <1> QED
    BY Zenon, <1>1, <1>2, <1>3, <1>4, <1>5, <1>6, <1>7, <1>8, <1>9, <1>10, <1>11,
       <1>12, <1>13 DEF Next

(* For any number of nodes, decisions, failed writes and power losses: each *)
(* image of the control file covers every token and topology given out, and *)
(* an instance that answers holds what both images hold (persist_locked,    *)
(* open).                                                                   *)
THEOREM StoreInvariant == Spec => []IInv
  BY InitIInv, StepIInv, PTL DEF Spec

(* While an instance answers, its memory equals both images of the file:   *)
(* persist_locked rolls a refused write back and closes the instance after *)
(* an ambiguous one, for any number of failures.                           *)
THEOREM MemoryStaysDurable == Spec => []MemoryIsDurable
  <1>1. IInv => MemoryIsDurable
    BY Zenon DEF IInv, Level, MemoryIsDurable, lock_state
  <1> QED
    BY <1>1, StoreInvariant, PTL

(* register never returns a lease token twice, over any number of          *)
(* restarts, power losses and failed writes.                               *)
THEOREM TokensStayUnique == Spec => []TokensNeverReused
  <1>1. IInv => TokensNeverReused
    BY Zenon DEF IInv
  <1> QED
    BY <1>1, StoreInvariant, PTL

(* publish_current_topology never serves two route sets under one          *)
(* generation.                                                             *)
THEOREM GenerationsStayUnique == Spec => []GenerationsAgree
  <1>1. IInv => GenerationsAgree
    BY Zenon DEF IInv
  <1> QED
    BY <1>1, StoreInvariant, PTL

(* A topology the coordinator served is in the image a power loss leaves.  *)
THEOREM PublicationSurvives == Spec => []PublishedSurvives
  <1>1. IInv => PublishedSurvives
    BY Zenon DEF IInv, Past, ImageCovers, Covers, PublishedSurvives
  <1> QED
    BY <1>1, StoreInvariant, PTL

(* Once retire_for_import or recover issued evidence, no instance serves   *)
(* the store again, whatever crashes or power losses follow.               *)
THEOREM RetirementStaysFinal == Spec => []RetirementIsFinal
  <1>1. IInv => RetirementIsFinal
    BY Zenon DEF IInv, Fenced, RetirementIsFinal, lock_state
  <1> QED
    BY <1>1, StoreInvariant, PTL

(* The checkpoint in issued evidence covers every token and topology the   *)
(* retired plane ever gave out.                                            *)
THEOREM EvidenceStaysComplete == Spec => []EvidenceIsComplete
  <1>1. IInv => EvidenceIsComplete
    BY Zenon DEF IInv, Fenced, Covers, EvidenceIsComplete
  <1> QED
    BY <1>1, StoreInvariant, PTL

----------------------------------------------------------------------------
(* Hosted writes: HostedWrites                                              *)

(* Hosted writes. A behaviour of the group's specification that is about    *)
(* this part is one of these.                                               *)
WritesSpec == WritesInit /\ [][WritesNext]_sys

(* Where a call is, what it holds and what it answered.                     *)
CallStates ==
  [pc : {"idle", "leased", "granted", "admitted", "committing", "judging", "marking",
         "unconfirmed", "resettling", "settling", "done"},
   op : Operations \cup {"none"}, lease : {"none", "open", "lapsed"}, forwarded : BOOLEAN,
   answer : {"none", "Refused", "Fenced", "Replayed", "Accepted", "Unavailable"},
   revoked : BOOLEAN]
(* The outcome recorded of every operation.                                 *)
WriteOutcomes == [Operations -> {"none", "ACCEPTED", "UNCONFIRMED", "FENCED"}]
(* The calls, and the one that is inside the write transaction.             *)
CallMaps == [Calls -> CallStates]
Writers == Calls \cup {"none"}
(* This replica, of any number of calls and operations.                     *)
WritesStates ==
  [part : {"writes"}, leads : BOOLEAN, policy : 1..3, applied : 1..3, calls : CallMaps,
   writer : Writers, outcome : WriteOutcomes, crashes : Nat]

(* A lease this replica granted as leader keeps it the leader, a call       *)
(* between its entry check and the judgement of its commit keeps the right  *)
(* it was admitted under, the writer is the call that commits, and a call   *)
(* that is past its commit has an outcome.                                  *)
CallInv(c, call, leads, applied, writer, outcome) ==
  /\ call.pc \notin {"idle", "done"} => call.op \in Operations
  /\ call.lease = "open" => call.pc # "done"
  /\ call.lease = "open" /\ ~call.forwarded => leads
  /\ call.pc \in {"admitted", "committing", "judging"} => ~Revoked(applied)
  /\ call.pc = "committing" => writer = c /\ outcome[call.op] = "none"
  /\ call.pc \in {"judging", "marking", "unconfirmed", "resettling", "settling"} =>
       outcome[call.op] # "none"
  /\ call.answer # "none" => call.pc = "done"
  /\ call.answer = "Accepted" /\ ~call.forwarded => ~call.revoked

(* The inductive invariant.                                                 *)
WritesInv ==
  /\ sys \in WritesStates
  /\ sys.leads => sys.applied = sys.policy
  /\ \A c \in Calls : CallInv(c, sys.calls[c], sys.leads, sys.applied, sys.writer, sys.outcome)

(* The types of a state's fields.                                           *)
LEMMA WritesFields ==
  ASSUME sys \in WritesStates
  PROVE  /\ sys.part = "writes" /\ sys.leads \in BOOLEAN /\ sys.policy \in 1..3 /\ sys.applied \in 1..3
         /\ sys.calls \in CallMaps /\ sys.writer \in Writers /\ sys.outcome \in WriteOutcomes /\ sys.crashes \in Nat
         /\ \A c \in Calls : sys.calls[c] \in CallStates
<1>1. /\ sys.part = "writes" /\ sys.leads \in BOOLEAN /\ sys.policy \in 1..3 /\ sys.applied \in 1..3
      /\ sys.calls \in CallMaps /\ sys.writer \in Writers /\ sys.outcome \in WriteOutcomes /\ sys.crashes \in Nat
  BY Zenon DEF WritesStates
<1> QED BY <1>1, Zenon DEF CallMaps

(* No call has begun.                                                       *)
LEMMA WritesInitially == WritesInit => WritesInv
  BY DEF WritesInit, WritesInv, WritesStates, CallMaps, Writers, WriteOutcomes, CallStates, Idle, CallInv, Revoked

(* The authority moves: a command waits for the admissions of the replica   *)
(* that leads, a replacement for the leases.                                *)
LEMMA GrantsKeep ==
  ASSUME WritesInv, ReplaceGrantsHere \/ ReplaceGrantsElsewhere \/ ReplaceLeader \/ ApplyGrants
  PROVE  WritesInv'
<1>a. /\ sys \in WritesStates /\ sys.leads \in BOOLEAN
      /\ \A c \in Calls : sys.calls[c] \in CallStates
      /\ sys.policy \in 1..3 /\ sys.applied \in 1..3
  BY WritesFields, Zenon DEF WritesInv
<1>b. \A c \in Calls : CallInv(c, sys.calls[c], sys.leads, sys.applied, sys.writer, sys.outcome)
  BY Zenon DEF WritesInv
<1>c. sys.leads => sys.applied = sys.policy
  BY Zenon DEF WritesInv
<1>d. ASSUME ~Guarded, NEW applied, NEW c \in Calls
      PROVE  CallInv(c, sys.calls[c], sys.leads, applied, sys.writer, sys.outcome)
  <2>1. sys.calls[c].pc \notin {"admitted", "committing", "judging"}
    BY <1>d, Zenon DEF Guarded
  <2> QED BY <1>b, <2>1, Zenon DEF CallInv
<1>1. CASE ReplaceGrantsHere
  <2>0. sys.policy + 1 \in 1..3 /\ sys.applied + 1 \in 1..3
    BY <1>1, <1>a DEF ReplaceGrantsHere
  <2>1. sys' = [sys EXCEPT !.policy = sys.policy + 1, !.applied = sys.applied + 1]
    BY <1>1, Zenon DEF ReplaceGrantsHere
  <2>2. /\ sys' \in WritesStates /\ sys'.applied = sys.applied + 1 /\ sys'.policy = sys.policy + 1
        /\ sys'.calls = sys.calls /\ sys'.leads = sys.leads /\ sys'.writer = sys.writer
        /\ sys'.outcome = sys.outcome
    BY <1>a, <2>0, <2>1, Zenon DEF WritesStates
  <2>3. sys'.leads => sys'.applied = sys'.policy
    BY <1>c, <2>2, Zenon
  <2>4. ~Guarded
    BY <1>1, Zenon DEF ReplaceGrantsHere
  <2> QED BY <1>d, <2>2, <2>3, <2>4, Zenon DEF WritesInv
<1>2. CASE ReplaceGrantsElsewhere
  <2>0. sys.policy + 1 \in 1..3 /\ ~sys.leads
    BY <1>2, <1>a DEF ReplaceGrantsElsewhere
  <2>1. sys' = [sys EXCEPT !.policy = sys.policy + 1]
    BY <1>2, Zenon DEF ReplaceGrantsElsewhere
  <2>2. /\ sys' \in WritesStates /\ sys'.applied = sys.applied
        /\ sys'.calls = sys.calls /\ sys'.leads = sys.leads /\ sys'.writer = sys.writer
        /\ sys'.outcome = sys.outcome
    BY <1>a, <2>0, <2>1, Zenon DEF WritesStates
  <2> QED BY <1>b, <2>0, <2>2, Zenon DEF WritesInv
<1>3. CASE ReplaceLeader
  <2>1. /\ sys' \in WritesStates /\ ~sys'.leads /\ sys'.applied = sys.applied
        /\ sys'.calls = sys.calls /\ sys'.writer = sys.writer /\ sys'.outcome = sys.outcome
    BY <1>3, <1>a, Zenon DEF ReplaceLeader, WritesStates
  <2>2. ASSUME NEW c \in Calls
        PROVE  CallInv(c, sys.calls[c], FALSE, sys.applied, sys.writer, sys.outcome)
    <3>1. sys.calls[c].lease # "open"
      BY <1>3, Zenon DEF ReplaceLeader, OpenLease
    <3> QED BY <1>b, <3>1, Zenon DEF CallInv
  <2>3. sys'.leads = FALSE
    BY <1>3, <1>a, Zenon DEF ReplaceLeader, WritesStates
  <2> QED BY <2>1, <2>2, <2>3, Zenon DEF WritesInv
<1>4. CASE ApplyGrants
  <2>0. sys.applied + 1 \in 1..3 /\ ~sys.leads
    BY <1>4, <1>a, <1>c DEF ApplyGrants
  <2>1. sys' = [sys EXCEPT !.applied = sys.applied + 1]
    BY <1>4, Zenon DEF ApplyGrants
  <2>2. /\ sys' \in WritesStates /\ sys'.applied = sys.applied + 1
        /\ sys'.calls = sys.calls /\ sys'.leads = sys.leads /\ sys'.writer = sys.writer
        /\ sys'.outcome = sys.outcome
    BY <1>a, <2>0, <2>1, Zenon DEF WritesStates
  <2>3. ~Guarded
    BY <1>4, Zenon DEF ApplyGrants
  <2> QED BY <1>d, <2>0, <2>2, <2>3, Zenon DEF WritesInv
<1> QED BY <1>1, <1>2, <1>3, <1>4, Zenon

(* The process stops: the calls are gone.                                   *)
LEMMA CrashKeeps == ASSUME WritesInv, CrashWriter PROVE WritesInv'
<1> DEFINE After(c) == IF sys.calls[c].pc \in {"idle", "done"} THEN sys.calls[c]
                       ELSE [Idle EXCEPT !.pc = "done"]
<1>1. \A c \in Calls : sys.calls[c] \in CallStates
  BY WritesFields, Zenon DEF WritesInv
<1>2. \A c \in Calls : After(c) \in CallStates
  BY <1>1, Zenon DEF CallStates, Idle
<1>3. /\ sys'.calls = [c \in Calls |-> After(c)]
      /\ sys' = [sys EXCEPT !.calls = [c \in Calls |-> After(c)], !.writer = "none", !.crashes = sys.crashes + 1]
  BY Zenon DEF CrashWriter, WritesInv, WritesStates
<1>4. sys' \in WritesStates
  <2>1. [c \in Calls |-> After(c)] \in CallMaps
    BY <1>2, Zenon DEF CallMaps
  <2>2. sys.crashes + 1 \in Nat /\ "none" \in Writers
    BY WritesFields DEF WritesInv, Writers
  <2> HIDE DEF After
  <2> QED BY <2>1, <2>2, <1>3, Zenon DEF WritesInv, WritesStates
<1>5. ASSUME NEW c \in Calls PROVE CallInv(c, sys.calls[c], sys.leads, sys.applied, sys.writer, sys.outcome)'
  <2>1. sys'.calls[c] = After(c)
    BY <1>3, Zenon
  <2>2. sys'.leads = sys.leads /\ sys'.applied = sys.applied
    BY <1>3, Zenon DEF WritesInv, WritesStates
  <2>3. CASE sys.calls[c].pc \in {"idle", "done"}
    BY <2>1, <2>2, <2>3 DEF WritesInv, CallInv
  <2>4. CASE sys.calls[c].pc \notin {"idle", "done"}
    BY <2>1, <2>2, <2>4, Zenon DEF CallInv, Idle
  <2> QED BY <2>3, <2>4, Zenon
<1> QED BY <1>3, <1>4, <1>5, Zenon DEF WritesInv, WritesStates

(* One call moves, with the writer and the outcomes.                        *)
LEMMA CallMoves ==
  ASSUME WritesInv, NEW c \in Calls, NEW r \in CallStates,
         NEW w \in Calls \cup {"none"}, NEW out \in WriteOutcomes,
         sys' = [sys EXCEPT !.calls[c] = r, !.writer = w, !.outcome = out],
         CallInv(c, r, sys.leads, sys.applied, w, out),
         \A d \in Calls \ {c} : CallInv(d, sys.calls[d], sys.leads, sys.applied, w, out)
  PROVE  WritesInv'
<1>1. sys' \in WritesStates /\ sys'.leads = sys.leads /\ sys'.applied = sys.applied
      /\ sys'.policy = sys.policy /\ sys'.writer = w /\ sys'.outcome = out
  <2>1. [sys.calls EXCEPT ![c] = r] \in CallMaps /\ w \in Writers
    BY WritesFields, Zenon DEF WritesInv, CallMaps, Writers
  <2>2. sys' = [sys EXCEPT !.calls = [sys.calls EXCEPT ![c] = r], !.writer = w, !.outcome = out]
    BY Zenon
  <2> QED BY <2>1, <2>2, Zenon DEF WritesInv, WritesStates
<1>2. \A d \in Calls : sys'.calls[d] = IF d = c THEN r ELSE sys.calls[d]
  <2>1. sys'.calls = [sys.calls EXCEPT ![c] = r]
    BY Zenon DEF WritesInv, WritesStates
  <2>2. sys.calls \in [Calls -> CallStates]
    BY WritesFields, Zenon DEF WritesInv, CallMaps
  <2> QED BY <2>1, <2>2, Zenon
<1> QED BY <1>1, <1>2, Zenon DEF WritesInv

(* One call moves alone.                                                    *)
LEMMA CallGoes ==
  ASSUME WritesInv, NEW c \in Calls, NEW r \in CallStates,
         sys' = [sys EXCEPT !.calls[c] = r],
         CallInv(c, r, sys.leads, sys.applied, sys.writer, sys.outcome)
  PROVE  WritesInv'
<1>1. sys' = [sys EXCEPT !.calls[c] = r, !.writer = sys.writer, !.outcome = sys.outcome]
  BY Zenon DEF WritesInv, WritesStates
<1>2. sys.writer \in Calls \cup {"none"} /\ sys.outcome \in WriteOutcomes
  BY WritesFields, Zenon DEF WritesInv, Writers
<1>3. \A d \in Calls \ {c} : CallInv(d, sys.calls[d], sys.leads, sys.applied, sys.writer, sys.outcome)
  BY Zenon DEF WritesInv
<1> QED BY <1>1, <1>2, <1>3, CallMoves, Zenon

(* A call answers. It is accepted only with its lease open and its right    *)
(* current here.                                                            *)
LEMMA CallEnds ==
  ASSUME WritesInv, NEW c \in Calls, NEW answer \in {"Refused", "Fenced", "Replayed", "Accepted", "Unavailable"},
         sys.calls[c].pc # "committing",
         answer = "Accepted" => sys.calls[c].lease = "open" /\ ~Revoked(sys.applied),
         sys' = Ends(c, sys, answer)
  PROVE  WritesInv'
<1> DEFINE r == [sys.calls[c] EXCEPT !.pc = "done", !.lease = "none", !.answer = answer,
                                     !.revoked = Revoked(sys.policy)]
<1>a. sys \in WritesStates /\ sys.calls[c] \in CallStates /\ sys.leads \in BOOLEAN
  BY WritesFields, Zenon DEF WritesInv
<1>b. CallInv(c, sys.calls[c], sys.leads, sys.applied, sys.writer, sys.outcome)
  BY Zenon DEF WritesInv
<1>1. r \in CallStates
  BY <1>a, Zenon DEF CallStates, Revoked
<1>2. CallInv(c, r, sys.leads, sys.applied, sys.writer, sys.outcome)
  <2>1. answer = "Accepted" /\ ~sys.calls[c].forwarded => ~Revoked(sys.policy)
    BY <1>b, Zenon DEF WritesInv, CallInv
  <2> QED BY <2>1, <1>a DEF CallInv, CallStates
<1>3. sys' = [sys EXCEPT !.calls[c] = r]
  BY Zenon DEF Ends
<1> HIDE DEF r
<1> QED BY <1>1, <1>2, <1>3, CallGoes, Zenon

(* A call goes on.                                                          *)
LEMMA CallProceeds ==
  ASSUME WritesInv, NEW c \in Calls,
         NEW pc \in {"granted", "admitted", "settling", "marking"},
         sys.calls[c].pc \notin {"idle", "done"},
         pc = "admitted" => ~Revoked(sys.applied),
         pc \in {"settling", "marking"} => sys.outcome[sys.calls[c].op] # "none",
         sys' = Goes(c, pc)
  PROVE  WritesInv'
<1> DEFINE r == [sys.calls[c] EXCEPT !.pc = pc]
<1>a. sys \in WritesStates /\ sys.calls[c] \in CallStates
  BY WritesFields, Zenon DEF WritesInv
<1>b. CallInv(c, sys.calls[c], sys.leads, sys.applied, sys.writer, sys.outcome)
  BY Zenon DEF WritesInv
<1>1. r \in CallStates
  BY <1>a, Zenon DEF CallStates
<1>2. CallInv(c, r, sys.leads, sys.applied, sys.writer, sys.outcome)
  BY <1>a, <1>b, Zenon DEF CallInv, CallStates
<1>3. sys' = [sys EXCEPT !.calls[c] = r]
  BY <1>a, Zenon DEF Goes, WritesStates, CallStates
<1> HIDE DEF r
<1> QED BY <1>1, <1>2, <1>3, CallGoes, Zenon

(* A lease is granted, lapses, or is renewed for a settlement.              *)
LEMMA LeaseKeeps ==
  ASSUME WritesInv, NEW c \in Calls
  PROVE  /\ \A o \in Operations : Lease(c, o) => WritesInv'
         /\ Lapse(c) => WritesInv'
         /\ LeaseToSettle(c) => WritesInv'
<1>a. sys \in WritesStates /\ sys.calls[c] \in CallStates /\ sys.leads \in BOOLEAN
  BY WritesFields, Zenon DEF WritesInv
<1>b. CallInv(c, sys.calls[c], sys.leads, sys.applied, sys.writer, sys.outcome)
  BY Zenon DEF WritesInv
<1>1. ASSUME NEW o \in Operations, Lease(c, o) PROVE WritesInv'
  <2> DEFINE r == [Idle EXCEPT !.pc = "leased", !.op = o, !.lease = "open", !.forwarded = ~sys.leads]
  <2>1. r \in CallStates
    BY <1>a, Zenon DEF Idle, CallStates, WritesStates
  <2>2. CallInv(c, r, sys.leads, sys.applied, sys.writer, sys.outcome)
    BY Zenon DEF Idle, CallInv
  <2>3. sys' = [sys EXCEPT !.calls[c] = r]
    BY <1>1, Zenon DEF Lease
  <2> HIDE DEF r
  <2> QED BY <2>1, <2>2, <2>3, CallGoes, Zenon
<1>2. ASSUME Lapse(c) PROVE WritesInv'
  <2> DEFINE r == [sys.calls[c] EXCEPT !.lease = "lapsed"]
  <2>1. r \in CallStates
    BY <1>a, Zenon DEF CallStates
  <2>2. CallInv(c, r, sys.leads, sys.applied, sys.writer, sys.outcome)
    BY <1>a, <1>b DEF CallInv, CallStates
  <2>3. sys' = [sys EXCEPT !.calls[c] = r]
    BY <1>2, Zenon DEF Lapse
  <2> HIDE DEF r
  <2> QED BY <2>1, <2>2, <2>3, CallGoes, Zenon
<1>3. ASSUME LeaseToSettle(c) PROVE WritesInv'
  <2>1. CASE sys' = Ends(c, sys, "Unavailable")
    BY <1>3, <2>1, CallEnds, Zenon DEF LeaseToSettle
  <2>2. CASE sys' = [sys EXCEPT !.calls[c] = [sys.calls[c] EXCEPT !.pc = "resettling", !.lease = "open",
                                                                 !.forwarded = ~sys.leads]]
    <3> DEFINE r == [sys.calls[c] EXCEPT !.pc = "resettling", !.lease = "open", !.forwarded = ~sys.leads]
    <3>1. r \in CallStates
      BY <1>a, Zenon DEF CallStates
    <3>2. CallInv(c, r, sys.leads, sys.applied, sys.writer, sys.outcome)
      BY <1>3, <1>a, <1>b, Zenon DEF CallInv, CallStates, LeaseToSettle
    <3>3. sys' = [sys EXCEPT !.calls[c] = r]
      BY <2>2, Zenon
    <3> HIDE DEF r
    <3> QED BY <3>1, <3>2, <3>3, CallGoes, Zenon
  <2> QED BY <1>3, <2>1, <2>2, Zenon DEF LeaseToSettle
<1> QED BY <1>1, <1>2, <1>3, Zenon

(* The steps of a call that change its own progress only.                   *)
LEMMA CallReads ==
  ASSUME WritesInv, NEW c \in Calls
  PROVE  /\ Grant(c) => WritesInv'
         /\ Look(c) => WritesInv'
         /\ Judge(c) => WritesInv'
         /\ GrantToSettle(c) => WritesInv'
<1>a. sys.outcome \in WriteOutcomes
  BY WritesFields, Zenon DEF WritesInv
<1>b. CallInv(c, sys.calls[c], sys.leads, sys.applied, sys.writer, sys.outcome)
  BY Zenon DEF WritesInv
<1>1. ASSUME Grant(c) PROVE WritesInv'
  <2>1. CASE sys.calls[c].lease = "open"
    BY <1>1, <2>1, CallProceeds, Zenon DEF Grant
  <2>2. CASE sys.calls[c].lease # "open"
    BY <1>1, <2>2, CallEnds, Zenon DEF Grant, Refuse
  <2> QED BY <2>1, <2>2, Zenon
<1>2. ASSUME Look(c) PROVE WritesInv'
  <2>1. CASE sys' = Ends(c, sys, "Fenced")
    BY <1>2, <2>1, CallEnds, Zenon DEF Look
  <2>2. CASE sys' = Goes(c, "settling") /\ sys.outcome[sys.calls[c].op] # "none"
    BY <1>2, <2>2, CallProceeds, Zenon DEF Look
  <2>3. CASE sys' = Goes(c, "admitted") /\ Admitted(c)
    BY <1>2, <2>3, CallProceeds, Zenon DEF Look, Admitted
  <2>4. CASE sys' = Refuse(c)
    BY <1>2, <2>4, CallEnds, Zenon DEF Look, Refuse
  <2> QED BY <1>2, <2>1, <2>2, <2>3, <2>4, Zenon DEF Look
<1>3. ASSUME Judge(c) PROVE WritesInv'
  <2>1. CASE sys.calls[c].lease = "open"
    BY <1>3, <1>b, <2>1, CallEnds, Zenon DEF Judge, CallInv
  <2>2. CASE sys.calls[c].lease # "open"
    BY <1>3, <1>b, <2>2, CallProceeds, Zenon DEF Judge, CallInv
  <2> QED BY <2>1, <2>2, Zenon
<1>4. ASSUME GrantToSettle(c) PROVE WritesInv'
  <2>1. CASE sys.calls[c].lease = "open"
    BY <1>4, <1>b, <2>1, CallProceeds, Zenon DEF GrantToSettle, CallInv
  <2>2. CASE sys.calls[c].lease # "open"
    BY <1>4, <2>2, CallEnds, Zenon DEF GrantToSettle
  <2> QED BY <2>1, <2>2, Zenon
<1> QED BY <1>1, <1>2, <1>3, <1>4, Zenon

(* accept_as up to the final check.                                         *)
LEMMA StageKeeps ==
  ASSUME WritesInv, NEW c \in Calls, Stage(c)
  PROVE  WritesInv'
<1>a. sys \in WritesStates /\ sys.outcome \in WriteOutcomes /\ sys.calls[c] \in CallStates /\ sys.calls[c].op \in Operations
  BY WritesFields, Zenon DEF WritesInv, Stage, CallInv
<1>b. CallInv(c, sys.calls[c], sys.leads, sys.applied, sys.writer, sys.outcome)
  BY Zenon DEF WritesInv
<1>1. CASE sys' = Ends(c, sys, "Fenced") \/ sys' = Ends(c, sys, "Replayed") \/ sys' = Refuse(c)
  BY <1>1, CallEnds, Zenon DEF Stage, Refuse
<1>2. CASE sys' = Goes(c, "settling") /\ sys.outcome[sys.calls[c].op] # "none"
  BY <1>2, CallProceeds, Zenon DEF Stage
<1>3. CASE sys' = [Goes(c, "committing") EXCEPT !.writer = c] /\ sys.outcome[sys.calls[c].op] = "none"
  <2> DEFINE r == [sys.calls[c] EXCEPT !.pc = "committing"]
  <2>1. r \in CallStates
    BY <1>a, Zenon DEF CallStates
  <2>2. CallInv(c, r, sys.leads, sys.applied, c, sys.outcome)
    BY <1>a, <1>b, <1>3, Zenon DEF CallInv, CallStates, Stage
  <2>3. ASSUME NEW d \in Calls \ {c} PROVE CallInv(d, sys.calls[d], sys.leads, sys.applied, c, sys.outcome)
    BY WritesAssumption DEF WritesInv, CallInv, Stage
  <2>4. sys' = [sys EXCEPT !.calls[c] = r, !.writer = c, !.outcome = sys.outcome]
    BY <1>a, <1>3, Zenon DEF Goes, WritesStates
  <2> HIDE DEF r
  <2> QED BY <1>a, <2>1, <2>2, <2>3, <2>4, CallMoves, Zenon
<1> QED BY <1>a, <1>1, <1>2, <1>3, Zenon DEF Stage, WriteOutcomes

(* The row becomes durable.                                                 *)
LEMMA CommitKeeps ==
  ASSUME WritesInv, NEW c \in Calls, Commit(c)
  PROVE  WritesInv'
<1>a. sys \in WritesStates /\ sys.outcome \in WriteOutcomes /\ sys.calls[c] \in CallStates /\ sys.calls[c].op \in Operations
  BY WritesFields, Zenon DEF WritesInv, Commit, CallInv
<1>b. CallInv(c, sys.calls[c], sys.leads, sys.applied, sys.writer, sys.outcome)
  BY Zenon DEF WritesInv
<1> DEFINE r == [sys.calls[c] EXCEPT !.pc = "judging"]
           out == [sys.outcome EXCEPT ![sys.calls[c].op] = "ACCEPTED"]
<1>1. r \in CallStates /\ out \in WriteOutcomes
  BY <1>a, Zenon DEF CallStates, WriteOutcomes
<1>2. CallInv(c, r, sys.leads, sys.applied, "none", out)
  BY <1>a, <1>b, Zenon DEF CallInv, CallStates, Commit, WriteOutcomes
<1>3. ASSUME NEW d \in Calls \ {c} PROVE CallInv(d, sys.calls[d], sys.leads, sys.applied, "none", out)
  BY <1>a, <1>b, Zenon DEF WritesInv, CallInv, Commit, WriteOutcomes
<1>4. sys' = [sys EXCEPT !.calls[c] = r, !.writer = "none", !.outcome = out]
  BY <1>a, Zenon DEF Goes, WritesStates, Commit
<1> HIDE DEF r, out
<1> QED BY <1>1, <1>2, <1>3, <1>4, CallMoves, Zenon

(* A call that is past its commit settles or marks the outcome.             *)
LEMMA OutcomeMoves ==
  ASSUME WritesInv, NEW c \in Calls, NEW r \in CallStates, NEW v \in {"ACCEPTED", "UNCONFIRMED", "FENCED"},
         sys.calls[c].pc \notin {"idle", "done", "committing"},
         sys.outcome[sys.calls[c].op] # "none",
         r.pc \in {"done", "unconfirmed"}, r.lease = "none", r.op = sys.calls[c].op,
         r.answer # "none" => r.pc = "done",
         r.answer = "Accepted" /\ ~r.forwarded => ~r.revoked,
         sys' = [sys EXCEPT !.calls[c] = r, !.outcome[sys.calls[c].op] = v]
  PROVE  WritesInv'
<1> DEFINE out == [sys.outcome EXCEPT ![sys.calls[c].op] = v]
<1>a. /\ sys \in WritesStates /\ sys.outcome \in WriteOutcomes /\ sys.calls[c] \in CallStates
      /\ sys.calls[c].op \in Operations /\ sys.writer \in Calls \cup {"none"}
  BY WritesFields, Zenon DEF WritesInv, CallInv, Writers
<1>1. out \in WriteOutcomes
  BY <1>a, Zenon DEF WriteOutcomes
<1>2. CallInv(c, r, sys.leads, sys.applied, sys.writer, out)
  BY <1>a, Zenon DEF CallInv, WriteOutcomes
<1>3. ASSUME NEW d \in Calls \ {c} PROVE CallInv(d, sys.calls[d], sys.leads, sys.applied, sys.writer, out)
  BY <1>a DEF WritesInv, CallInv, WriteOutcomes
<1>4. sys' = [sys EXCEPT !.calls[c] = r, !.writer = sys.writer, !.outcome = out]
  BY <1>a, Zenon DEF WritesStates
<1> HIDE DEF out
<1> QED BY <1>a, <1>1, <1>2, <1>3, <1>4, CallMoves, Zenon

(* mark_unconfirmed.                                                        *)
LEMMA MarkKeeps ==
  ASSUME WritesInv, NEW c \in Calls, Mark(c)
  PROVE  WritesInv'
<1>a. /\ sys \in WritesStates /\ sys.outcome \in WriteOutcomes /\ sys.calls[c] \in CallStates
      /\ sys.calls[c].op \in Operations
  BY WritesFields, Zenon DEF WritesInv, CallInv, Mark
<1>b. CallInv(c, sys.calls[c], sys.leads, sys.applied, sys.writer, sys.outcome)
  BY Zenon DEF WritesInv
<1> DEFINE r == [sys.calls[c] EXCEPT !.pc = "unconfirmed", !.lease = "none"]
           v == MarkUnconfirmed(sys.outcome[sys.calls[c].op])
<1>1. /\ r \in CallStates /\ r.pc = "unconfirmed" /\ r.lease = "none" /\ r.op = sys.calls[c].op
      /\ r.answer = sys.calls[c].answer
  BY <1>a, Zenon DEF CallStates
<1>2. sys.outcome[sys.calls[c].op] # "none" /\ sys.calls[c].answer = "none" /\ sys.calls[c].pc = "marking"
  BY <1>b, Zenon DEF CallInv, Mark
<1>3. v \in {"ACCEPTED", "UNCONFIRMED", "FENCED"}
  BY <1>a, <1>2, Zenon DEF WriteOutcomes, MarkUnconfirmed
<1>4. sys' = [sys EXCEPT !.calls[c] = r, !.outcome[sys.calls[c].op] = v]
  BY <1>a, Zenon DEF Mark, Goes, WritesStates, CallMaps
<1> HIDE DEF r, v
<1> QED BY <1>1, <1>2, <1>3, <1>4, OutcomeMoves, Zenon

(* settle_under and settle_outcome.                                         *)
LEMMA SettleKeeps ==
  ASSUME WritesInv, NEW c \in Calls, Settle(c)
  PROVE  WritesInv'
<1>a. /\ sys \in WritesStates /\ sys.outcome \in WriteOutcomes /\ sys.calls[c] \in CallStates
      /\ sys.calls[c].op \in Operations
  BY WritesFields, Zenon DEF WritesInv, CallInv, Settle
<1>b. CallInv(c, sys.calls[c], sys.leads, sys.applied, sys.writer, sys.outcome)
  BY Zenon DEF WritesInv
<1>1. CASE \E answer \in {"Fenced", "Replayed", "Unavailable"} : sys' = Ends(c, sys, answer)
  BY <1>1, CallEnds, Zenon DEF Settle
<1>2. ASSUME NEW v \in {"ACCEPTED", "FENCED"}, NEW answer \in {"Accepted", "Fenced"},
             sys' = SettleAs(c, v, answer),
             answer = "Accepted" => Admitted(c)
      PROVE  WritesInv'
  <2> DEFINE r == [sys.calls[c] EXCEPT !.pc = "done", !.lease = "none", !.answer = answer,
                                       !.revoked = Revoked(sys.policy)]
  <2>1. /\ r \in CallStates /\ r.pc = "done" /\ r.lease = "none" /\ r.op = sys.calls[c].op
        /\ r.answer = answer /\ r.forwarded = sys.calls[c].forwarded /\ r.revoked = Revoked(sys.policy)
    BY <1>a, Zenon DEF CallStates, Revoked
  <2>2. answer = "Accepted" /\ ~sys.calls[c].forwarded => ~Revoked(sys.policy)
    BY <1>b, <1>2, Zenon DEF WritesInv, CallInv, Admitted
  <2>3. sys.outcome[sys.calls[c].op] # "none" /\ sys.calls[c].pc = "settling"
    BY <1>b, Zenon DEF CallInv, Settle
  <2>4. sys' = [sys EXCEPT !.calls[c] = r, !.outcome[sys.calls[c].op] = v]
    BY <1>a, <1>2, Zenon DEF SettleAs, Ends, WritesStates
  <2> HIDE DEF r
  <2> QED BY <2>1, <2>2, <2>3, <2>4, OutcomeMoves, Zenon
<1> QED BY <1>1, <1>2, Zenon DEF Settle

(* Every step keeps the invariant.                                          *)
LEMMA WritesStep == WritesInv /\ [WritesNext]_sys => WritesInv'
<1> SUFFICES ASSUME WritesInv, [WritesNext]_sys PROVE WritesInv'
  BY Zenon
<1>1. CASE UNCHANGED sys
  BY <1>1, Zenon DEF WritesInv
<1> QED
  BY Zenon, <1>1, GrantsKeep, CrashKeeps, LeaseKeeps, CallReads, StageKeeps, CommitKeeps, MarkKeeps,
     SettleKeeps DEF WritesNext

(* For every number of calls, operations and crashes: no write under a      *)
(* lease this replica granted as the leader is declared accepted once the   *)
(* revocation of its right was acknowledged (lease, admit_write, accept_as  *)
(* and the judgement of the commit).                                        *)
THEOREM LeadersRefuseRevokedWrites == WritesSpec => []LeaderAcceptsCurrentRight
<1>1. WritesInv => LeaderAcceptsCurrentRight
  BY Zenon DEF WritesInv, CallInv, LeaderAcceptsCurrentRight
<1> QED BY <1>1, WritesInitially, WritesStep, PTL DEF WritesSpec

(* For the same instances: a fence is final, and no row that was committed  *)
(* is lost (mark_unconfirmed, settle_outcome).                              *)
THEOREM FencesAreFinal == WritesSpec => FenceIsFinal
<1> DEFINE Kept == At("writes") => \A o \in Operations :
               /\ sys.outcome[o] = "FENCED" => sys'.outcome[o] = "FENCED"
               /\ sys.outcome[o] # "none" => sys'.outcome[o] # "none"
<1>1. ASSUME WritesInv, WritesNext PROVE Kept
  <2>a. sys \in WritesStates /\ sys.outcome \in WriteOutcomes
    BY <1>1, WritesFields, Zenon DEF WritesInv
  <2>b. \A c \in Calls : CallInv(c, sys.calls[c], sys.leads, sys.applied, sys.writer, sys.outcome)
    BY <1>1, Zenon DEF WritesInv
  <2>1. ASSUME ReplaceGrantsHere \/ ReplaceGrantsElsewhere \/ ReplaceLeader \/ ApplyGrants
        PROVE  sys'.outcome = sys.outcome
    BY <2>a, <2>1, Zenon DEF ReplaceGrantsHere, ReplaceGrantsElsewhere, ReplaceLeader, ApplyGrants, WritesStates
  <2>7. ASSUME CrashWriter PROVE sys'.outcome = sys.outcome
    BY <2>a, <2>7, Zenon DEF CrashWriter, WritesStates
  <2>2. ASSUME NEW c \in Calls,
               \/ \E o \in Operations : Lease(c, o)
               \/ Lapse(c) \/ Grant(c) \/ Look(c) \/ Judge(c) \/ LeaseToSettle(c) \/ GrantToSettle(c)
        PROVE  sys'.outcome = sys.outcome
    BY <2>a, <2>2, Zenon DEF Lease, Lapse, Grant, Look, Judge, LeaseToSettle, GrantToSettle, Ends, Goes, Refuse, WritesStates
  <2>3. ASSUME NEW c \in Calls, Stage(c) PROVE sys'.outcome = sys.outcome
    BY <2>a, <2>3, Zenon DEF Stage, Ends, Goes, Refuse, WritesStates
  <2>4. ASSUME NEW c \in Calls, Commit(c) PROVE Kept
    BY <2>a, <2>b, <2>4 DEF Commit, Goes, WritesStates, WriteOutcomes, CallInv
  <2>5. ASSUME NEW c \in Calls, Mark(c) PROVE Kept
    BY <2>a, <2>b, <2>5 DEF Mark, MarkUnconfirmed, Goes, WritesStates, WriteOutcomes, CallInv
  <2>6. ASSUME NEW c \in Calls, Settle(c) PROVE Kept
    BY <2>a, <2>b, <2>6 DEF Settle, SettleAs, Ends, Goes, WritesStates, WriteOutcomes, CallInv
  <2>8. CASE sys'.outcome = sys.outcome
    BY <2>8, Zenon
  <2> HIDE DEF Kept
  <2>9. ASSUME NEW c \in Calls,
               \/ \E o \in Operations : Lease(c, o)
               \/ Lapse(c) \/ Grant(c) \/ Look(c) \/ Stage(c) \/ Commit(c) \/ Judge(c) \/ Mark(c)
               \/ LeaseToSettle(c) \/ GrantToSettle(c) \/ Settle(c)
        PROVE  Kept
    BY <2>2, <2>3, <2>4, <2>5, <2>6, <2>8, <2>9, Zenon
  <2> QED BY <1>1, <2>1, <2>7, <2>8, <2>9, Zenon DEF WritesNext
<1>2. ASSUME WritesInv, [WritesNext]_sys PROVE [Kept]_sys
  BY <1>1, <1>2, Zenon
<1> QED BY <1>2, WritesInitially, WritesStep, PTL DEF WritesSpec, FenceIsFinal
============================================================================
