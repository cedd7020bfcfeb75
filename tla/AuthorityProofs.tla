-------------------------- MODULE AuthorityProofs --------------------------
(* The authority of a source, and the capacity observations it retains:     *)
(* what is decided stays decided, and what is retained is what the recovery *)
(* accepts. The proofs are for every value of the constants; each part has  *)
(* an inductive invariant over the record that holds its state.             *)
EXTENDS SourceAuthority, CapacityStore, FiniteSetTheorems, TLAPS

----------------------------------------------------------------------------
(* Capacity observations: CapacityStore                                     *)

(* The capacity observations. A behaviour of the group's specification that *)
(* is about this part is one of these.                                      *)
CapacitySpec == CapacityInit /\ [][CapacityNext]_sys

(* A retained row: who reported it, in which process, for which window, and *)
(* what it says.                                                            *)
CapacityRows ==
  [node : Reporters, incarnation : Nat, window : Int, cohort : {1, 2}, payload : {1, 2}]

(* The observations and their history, of any size.                         *)
CapacityStates ==
  [part : {"capacity"}, configuration : Configurations, process : [Reporters -> Nat],
   registered : [Reporters -> Nat], rows : SUBSET CapacityRows, epoch : Nat,
   seen : SUBSET [epoch : Nat, rows : SUBSET CapacityRows], closed : BOOLEAN]

(* The store holds finitely many rows, they fit and land, and the epoch is  *)
(* the newest one that stood for rows: it stood for those retained now.     *)
CapacityInv ==
  /\ sys \in CapacityStates /\ IsFiniteSet(sys.rows)
  /\ WithinRecords(sys.rows, sys.registered, sys.configuration)
  /\ \A row \in sys.rows : RowLands(row, sys.registered, sys.configuration)
  /\ \A a \in sys.seen : a.epoch <= sys.epoch /\ (a.epoch = sys.epoch => a.rows = sys.rows)
  /\ \A a, b \in sys.seen : a.epoch = b.epoch => a.rows = b.rows

(* No reporter is registered and no row is retained.                        *)
LEMMA CapacityInitially == CapacityInit => CapacityInv
<1> SUFFICES ASSUME CapacityInit PROVE CapacityInv
  BY Zenon
<1>1. PICK configuration \in Configurations :
        sys = [part |-> "capacity", configuration |-> configuration,
               process |-> [n \in Reporters |-> 1], registered |-> [n \in Reporters |-> 0],
               rows |-> {}, epoch |-> 0, seen |-> {[epoch |-> 0, rows |-> {}]}, closed |-> FALSE]
  BY Zenon DEF CapacityInit
<1>2. sys \in CapacityStates
  BY <1>1 DEF CapacityStates
<1>3. IsFiniteSet({}) /\ Cardinality({}) = 0
  BY FS_EmptySet, Zenon
<1>4. CapacityRegistered(sys.registered) = {} /\ sys.rows = {} /\ sys.configuration = configuration
  BY <1>1, Zenon DEF CapacityRegistered
<1>5. WithinRecords(sys.rows, sys.registered, sys.configuration)
  BY <1>3, <1>4, CapacityAssumption DEF WithinRecords
<1>6. sys.seen = {[epoch |-> 0, rows |-> {}]} /\ sys.epoch = 0
  BY <1>1, Zenon
<1>7. \A a \in sys.seen : a.epoch = 0 /\ a.rows = {}
  BY <1>6
<1> QED BY <1>2, <1>3, <1>4, <1>5, <1>6, <1>7 DEF CapacityInv

(* A transition to rows and reporters that fit and land. *)
LEMMA TransitionKeeps ==
  ASSUME CapacityInv, NEW registered \in [Reporters -> Nat], NEW rows \in SUBSET CapacityRows,
         IsFiniteSet(rows), Transition(registered, rows),
         WithinRecords(rows, registered, sys.configuration),
         \A row \in rows : RowLands(row, registered, sys.configuration)
  PROVE  CapacityInv'
<1>0. sys \in CapacityStates
  BY Zenon DEF CapacityInv
<1>1. PICK epoch : epoch = IF rows = sys.rows THEN sys.epoch ELSE sys.epoch + 1
  BY Zenon
<1>2. epoch \in Nat /\ epoch >= sys.epoch /\ (epoch = sys.epoch => rows = sys.rows)
  BY <1>0, <1>1 DEF CapacityStates
<1>3. CASE sys' = [sys EXCEPT !.closed = TRUE]
  BY <1>0, <1>3, Zenon DEF CapacityInv, CapacityStates
<1>4. CASE sys' = [sys EXCEPT !.registered = registered, !.rows = rows, !.epoch = epoch,
                              !.seen = sys.seen \cup {[epoch |-> epoch, rows |-> rows]}]
  <2>1. [epoch |-> epoch, rows |-> rows] \in [epoch : Nat, rows : SUBSET CapacityRows]
    BY <1>2, Zenon
  <2>2. sys' \in CapacityStates
    BY <1>0, <1>2, <1>4, <2>1, Zenon DEF CapacityStates
  <2>3. /\ sys'.registered = registered /\ sys'.rows = rows /\ sys'.epoch = epoch
        /\ sys'.seen = sys.seen \cup {[epoch |-> epoch, rows |-> rows]}
        /\ sys'.configuration = sys.configuration
    BY <1>0, <1>4, Zenon DEF CapacityStates
  <2>4. \A a \in sys.seen : a.epoch \in Nat
    BY <1>0, Zenon DEF CapacityStates
  <2>5. \A a \in sys'.seen : a.epoch <= sys'.epoch /\ (a.epoch = sys'.epoch => a.rows = sys'.rows)
    BY <1>0, <1>2, <2>3, <2>4 DEF CapacityInv, CapacityStates
  <2>6. \A a, b \in sys'.seen : a.epoch = b.epoch => a.rows = b.rows
    BY <2>3, <2>5 DEF CapacityInv
  <2> QED BY <2>2, <2>3, <2>5, <2>6, Zenon DEF CapacityInv
<1> QED BY <1>1, <1>3, <1>4, Zenon DEF Transition

(* Some of the rows are no more than all of them.                           *)
LEMMA Fewer ==
  ASSUME CapacityInv, NEW rows \in SUBSET sys.rows
  PROVE  /\ IsFiniteSet(rows) /\ rows \in SUBSET CapacityRows
         /\ Cardinality(rows) \in Nat /\ Cardinality(sys.rows) \in Nat
         /\ Cardinality(rows) <= Cardinality(sys.rows)
<1>1. IsFiniteSet(sys.rows) /\ sys.rows \in SUBSET CapacityRows
  BY Zenon DEF CapacityInv, CapacityStates
<1> QED BY <1>1, FS_Subset, FS_CardinalityType, Zenon

(* The registered reporters can be counted.                                 *)
LEMMA ReportersCounted ==
  ASSUME NEW registered
  PROVE  /\ IsFiniteSet(CapacityRegistered(registered))
         /\ Cardinality(CapacityRegistered(registered)) \in Nat
<1>1. CapacityRegistered(registered) \subseteq Reporters
  BY Zenon DEF CapacityRegistered
<1> QED BY <1>1, CapacityAssumption, FS_Subset, FS_CardinalityType, Zenon

(* register_incarnation: the rows of the earlier process go.                *)
LEMMA RegisterKeeps ==
  ASSUME CapacityInv, NEW n \in Reporters, RegisterReporter(n)
  PROVE  CapacityInv'
<1>0. sys \in CapacityStates
  BY Zenon DEF CapacityInv
<1>1. PICK incarnation \in 1 .. sys.process[n] :
        /\ sys.registered[n] = 0 => Cardinality(CapacityRegistered(sys.registered))
                                      < sys.configuration.reporters
        /\ Transition([sys.registered EXCEPT ![n] = incarnation], register_incarnation(n, incarnation))
  BY Zenon DEF RegisterReporter
<1>2. PICK registered : registered = [sys.registered EXCEPT ![n] = incarnation]
  BY Zenon
<1>3. PICK rows : rows = register_incarnation(n, incarnation)
  BY Zenon
<1>4. incarnation \in Nat /\ incarnation # 0
  BY <1>0 DEF CapacityStates
<1>5. /\ registered \in [Reporters -> Nat] /\ registered[n] = incarnation
      /\ \A m \in Reporters : m # n => registered[m] = sys.registered[m]
  BY <1>0, <1>2, <1>4, Zenon DEF CapacityStates
<1>6. rows \in SUBSET sys.rows
  BY <1>3, Zenon DEF register_incarnation
<1>7. \A row \in rows : RowLands(row, registered, sys.configuration)
  <2>1. \A row \in sys.rows : row.node \in Reporters
    BY <1>0, Zenon DEF CapacityStates, CapacityRows
  <2> QED BY <1>3, <1>5, <1>6, <2>1, Zenon DEF register_incarnation, CapacityInv, RowLands
<1>8. Cardinality(CapacityRegistered(registered)) <= sys.configuration.reporters
  <2>1. CapacityRegistered(registered) = CapacityRegistered(sys.registered) \cup {n}
    BY <1>4, <1>5, Zenon DEF CapacityRegistered
  <2>2. IsFiniteSet(CapacityRegistered(sys.registered)) /\ Cardinality(CapacityRegistered(sys.registered)) \in Nat
    BY ReportersCounted, Zenon
  <2>3. sys.configuration.reporters \in Nat
        /\ Cardinality(CapacityRegistered(sys.registered)) <= sys.configuration.reporters
    BY <1>0, CapacityAssumption, Zenon DEF CapacityInv, CapacityStates, WithinRecords
  <2>4. CASE sys.registered[n] = 0
    <3>1. n \notin CapacityRegistered(sys.registered)
      BY <2>4, Zenon DEF CapacityRegistered
    <3>2. Cardinality(CapacityRegistered(registered)) = Cardinality(CapacityRegistered(sys.registered)) + 1
      BY <2>1, <2>2, <3>1, FS_AddElement, Zenon
    <3> QED BY <1>1, <2>2, <2>3, <2>4, <3>2
  <2>5. CASE sys.registered[n] # 0
    <3>1. CapacityRegistered(registered) = CapacityRegistered(sys.registered)
      BY <2>1, <2>5, Zenon DEF CapacityRegistered
    <3> QED BY <2>3, <3>1, Zenon
  <2> QED BY <2>4, <2>5, Zenon
<1>9. WithinRecords(rows, registered, sys.configuration)
  <2>1. sys.configuration.records \in Nat /\ Cardinality(sys.rows) <= sys.configuration.records
    BY <1>0, CapacityAssumption, Zenon DEF CapacityInv, CapacityStates, WithinRecords
  <2>2. Cardinality(rows) <= sys.configuration.records
    BY <1>6, <2>1, Fewer
  <2> QED BY <1>8, <2>2, Zenon DEF WithinRecords
<1> QED BY <1>1, <1>2, <1>3, <1>5, <1>6, <1>7, <1>9, Fewer, TransitionKeeps, Zenon

(* ingest: a row of the registered process and of the configured cohort,    *)
(* within the bound.                                                        *)
LEMMA ReportKeeps ==
  ASSUME CapacityInv, NEW n \in Reporters, NEW window \in Int, NEW cohort \in {1, 2},
         NEW payload \in {1, 2}, IngestReport(n, window, cohort, payload)
  PROVE  CapacityInv'
<1>0. sys \in CapacityStates /\ sys.registered \in [Reporters -> Nat]
  BY Zenon DEF CapacityInv, CapacityStates
<1>1. PICK incarnation \in 1 .. sys.process[n] :
        Transition(sys.registered,
          ingest([node |-> n, incarnation |-> incarnation, window |-> window, cohort |-> cohort,
                  payload |-> payload]))
  BY Zenon DEF IngestReport
<1>2. PICK report : report = [node |-> n, incarnation |-> incarnation, window |-> window,
                              cohort |-> cohort, payload |-> payload]
  BY Zenon
<1>3. report \in CapacityRows
  BY <1>0, <1>2 DEF CapacityStates, CapacityRows
<1>4. PICK held : held = {row \in sys.rows : ObsKey(row) = ObsKey(report)}
  BY Zenon
<1>5. PICK rows : rows = ingest(report)
  BY Zenon
<1>6. CASE rows = sys.rows
  <2>1. IsFiniteSet(rows) /\ rows \in SUBSET CapacityRows
    BY <1>6, Fewer, Zenon
  <2> QED BY <1>0, <1>1, <1>2, <1>5, <1>6, <2>1, TransitionKeeps, Zenon DEF CapacityInv
<1>7. CASE /\ rows = (sys.rows \ held) \cup {report}
           /\ RowLands(report, sys.registered, sys.configuration)
           /\ held = {} => Cardinality(sys.rows) < sys.configuration.records
  <2>1. IsFiniteSet(sys.rows \ held) /\ Cardinality(sys.rows \ held) \in Nat
        /\ IsFiniteSet(sys.rows) /\ Cardinality(sys.rows) \in Nat
    BY Fewer, Zenon DEF CapacityInv
  <2>2. IsFiniteSet(rows) /\ Cardinality(rows) <= Cardinality(sys.rows \ held) + 1 /\ Cardinality(rows) \in Nat
    <3>1. CASE report \in sys.rows \ held
      <4>1. rows = sys.rows \ held
        BY <1>7, <3>1, Zenon
      <4> QED BY <2>1, <4>1
    <3>2. CASE report \notin sys.rows \ held
      <4>1. PICK kept : kept = sys.rows \ held
        BY Zenon
      <4>2. IsFiniteSet(kept) /\ report \notin kept /\ Cardinality(kept) \in Nat
        BY <2>1, <3>2, <4>1, Zenon
      <4>3. IsFiniteSet(kept \cup {report}) /\ Cardinality(kept \cup {report}) = Cardinality(kept) + 1
        BY <4>2, FS_AddElement, Zenon
      <4> QED BY <1>7, <4>1, <4>2, <4>3
    <3> QED BY <3>1, <3>2, Zenon
  <2>3. sys.configuration.records \in Nat /\ Cardinality(sys.rows) <= sys.configuration.records
    BY <1>0, CapacityAssumption, Zenon DEF CapacityInv, CapacityStates, WithinRecords
  <2>4. Cardinality(rows) <= sys.configuration.records
    <3>1. CASE held = {}
      <4>1. sys.rows \ held = sys.rows
        BY <3>1, Zenon
      <4> QED BY <1>7, <2>1, <2>2, <2>3, <3>1, <4>1
    <3>2. CASE held # {}
      <4>1. PICK old \in sys.rows : old \in held
        BY <1>4, <3>2, Zenon
      <4>2. sys.rows \ held \subseteq sys.rows \ {old} /\ IsFiniteSet(sys.rows \ {old})
            /\ Cardinality(sys.rows \ {old}) = Cardinality(sys.rows) - 1
        BY <2>1, <4>1, FS_RemoveElement, Zenon
      <4>3. Cardinality(sys.rows \ held) <= Cardinality(sys.rows) - 1
        BY <4>2, FS_Subset
      <4> QED BY <2>1, <2>2, <2>3, <4>3
    <3> QED BY <3>1, <3>2, Zenon
  <2>5. WithinRecords(rows, sys.registered, sys.configuration)
    BY <2>4, Zenon DEF CapacityInv, WithinRecords
  <2>6. rows \in SUBSET CapacityRows /\ \A row \in rows : RowLands(row, sys.registered, sys.configuration)
    BY <1>3, <1>7, Zenon DEF CapacityInv, CapacityStates
  <2> QED BY <1>0, <1>1, <1>2, <1>5, <2>2, <2>5, <2>6, TransitionKeeps, Zenon
<1> QED BY <1>4, <1>5, <1>6, <1>7, Zenon DEF ingest

(* Rows before a window go.                                                 *)
LEMMA ExpireKeeps ==
  ASSUME CapacityInv, NEW oldest, ExpireRows(oldest)
  PROVE  CapacityInv'
<1>0. sys \in CapacityStates /\ sys.registered \in [Reporters -> Nat]
  BY Zenon DEF CapacityInv, CapacityStates
<1>1. PICK rows : rows = {row \in sys.rows : row.window >= oldest}
  BY Zenon
<1>2. rows \in SUBSET sys.rows
  BY <1>1, Zenon
<1>3. sys.configuration.records \in Nat /\ Cardinality(sys.rows) <= sys.configuration.records
  BY <1>0, CapacityAssumption, Zenon DEF CapacityInv, CapacityStates, WithinRecords
<1>4. Cardinality(rows) <= sys.configuration.records
  BY <1>2, <1>3, Fewer
<1>5. WithinRecords(rows, sys.registered, sys.configuration)
      /\ \A row \in rows : RowLands(row, sys.registered, sys.configuration)
  BY <1>2, <1>4, Zenon DEF WithinRecords, CapacityInv
<1>6. Transition(sys.registered, rows)
  BY <1>1, Zenon DEF ExpireRows
<1> QED BY <1>0, <1>2, <1>5, <1>6, Fewer, TransitionKeeps, Zenon

(* Every step keeps the invariant.                                          *)
LEMMA CapacityStep == CapacityInv /\ [CapacityNext]_sys => CapacityInv'
<1> SUFFICES ASSUME CapacityInv, [CapacityNext]_sys PROVE CapacityInv'
  BY Zenon
<1>0. sys \in CapacityStates
  BY Zenon DEF CapacityInv
<1>1. ASSUME NEW n \in Reporters, ReporterRestarts(n) PROVE CapacityInv'
  <2>1. sys.process[n] + 1 \in Nat
    BY <1>0 DEF CapacityStates
  <2> QED BY <1>0, <1>1, <2>1 DEF ReporterRestarts, CapacityInv, CapacityStates
<1>2. ASSUME NEW configuration \in Configurations, ConfigureCapacity(configuration) PROVE CapacityInv'
  <2>1. sys' = [sys EXCEPT !.configuration = configuration] /\ ConfigurationAccepted(configuration)
    BY <1>2, Zenon DEF ConfigureCapacity
  <2>2. /\ sys' \in CapacityStates /\ sys'.rows = sys.rows /\ sys'.registered = sys.registered
        /\ sys'.seen = sys.seen /\ sys'.epoch = sys.epoch /\ sys'.configuration = configuration
    BY <1>0, <2>1, Zenon DEF CapacityStates
  <2>3. \A row \in sys.rows : RowLands(row, sys.registered, configuration)
    BY <2>1, Zenon DEF ConfigurationAccepted, CapacityInv, RowLands
  <2> QED BY <2>1, <2>2, <2>3 DEF CapacityInv, ConfigurationAccepted
<1>3. ASSUME NEW n \in Reporters, NEW window \in 1 .. MaxWindow, NEW cohort \in {1, 2},
             NEW payload \in {1, 2}, IngestReport(n, window, cohort, payload)
      PROVE  CapacityInv'
  BY <1>3, ReportKeeps
<1>4. CASE UNCHANGED sys
  BY <1>4, Zenon DEF CapacityInv
<1> QED BY <1>1, <1>2, <1>3, <1>4, RegisterKeeps, ExpireKeeps, Zenon DEF CapacityNext

(* For every number of reporters and windows and every configuration: an    *)
(* observation epoch names one set of rows for good, and the rows retained  *)
(* are those of the incarnations registered now and of the configured       *)
(* cohort, within the configured number of records (register_incarnation,   *)
(* ingest, the expiry and the configuration check).                         *)
THEOREM ObservationsStayCurrent == CapacitySpec => []ObservationsAreCurrent
<1>1. CapacityInv => ObservationsAreCurrent
  BY Zenon DEF CapacityInv, ObservationsAreCurrent
<1> QED BY <1>1, CapacityInitially, CapacityStep, PTL DEF CapacitySpec

----------------------------------------------------------------------------
(* The source authority: SourceAuthority                                    *)

(* The source authority. A behaviour of the group's specification that is   *)
(* about this part is one of these.                                         *)
AuthoritySpec == AuthorityInit /\ [][AuthorityNext]_sys

(* Every kind of command.                                                   *)
AllKinds == SourceKinds \cup ImportKinds \cup {"Configure"}
(* The workflow a command names, if any.                                    *)
Workflows == SourceWorkflows \cup {"none"}
(* An ownership row.                                                        *)
Owners ==
  [phase : {"none", "PREPARED", "CANCELLED", "READY", "ACTIVE"}, generation : Nat,
   workflow : Workflows, node : Nodes \cup {"none"}, epoch : Nat, last : Nat]
(* An import row.                                                           *)
Rows ==
  [phase : {"none", "STAGING", "COMMITTED", "ABORTED", "RECOVERED"}, by : Principals \cup {"none"},
   staged : SUBSET (1 .. ChunkCount), reserved : Int, terminal : Nat]
(* What a command carries.                                                  *)
Args == Nodes \cup (1 .. ChunkCount) \cup {{p} : p \in Principals} \cup {"none"}
(* A command, with what its proposer had read.                              *)
Commands ==
  [id : Nat, copy : Nat, by : Principals, collection : Collections, kind : AllKinds,
   workflow : Workflows, arg : Args, revision : Nat, policyRevision : Nat, generation : Nat]
(* A retained decision.                                                     *)
Decisions ==
  [kind : AllKinds, collection : Collections, by : Principals, expected : Nat,
   accepted : BOOLEAN, revision : Nat]
(* The decisions retained, by the id of their command.                      *)
Histories == UNION {[D -> Decisions] : D \in SUBSET Nat}
(* The counts the header row keeps.                                         *)
Headers ==
  [source : Nat, import : Nat, configure : Nat, reservedDecisions : Int, stagedChunks : Int]

(* The fields of the authority's rows.                                      *)
AdminMaps == [Collections -> SUBSET Principals]
OwnerMaps == [Collections -> Owners]
ReservedMaps == [Collections -> SUBSET [workflow : Workflows, generation : Nat]]
ImportMaps == [Collections -> [SourceWorkflows -> Rows]]
CollectionSets == SUBSET Collections
Bindings == [Collections -> SUBSET Nat]
CommandSets == SUBSET Commands
AnswerSets == SUBSET [id : Nat, accepted : BOOLEAN, revision : Nat]

(* What the authority stores, and the commands on their way to it, of any   *)
(* size.                                                                    *)
AuthorityStates ==
  [part : {"authority"}, revision : Nat, policyRevision : Nat, family : Families,
   admins : AdminMaps, owners : OwnerMaps, reserved : ReservedMaps, imports : ImportMaps,
   applied : CollectionSets, configured : CollectionSets, decisions : Histories,
   header : Headers, bound : Bindings, inFlight : CommandSets, proposed : Nat,
   duplicated : Nat, told : AnswerSets, closed : BOOLEAN]

(* A command on its way is one that was proposed: its argument is of its    *)
(* kind, and a confirmation was checked against the binding of the node.    *)
CommandInv(m) ==
  /\ m.kind \in ImportKinds => m.workflow \in SourceWorkflows
  /\ m.arg \in Arguments(m.kind)
  /\ m.kind = "ConfirmReady" => m.generation \in sys.bound[m.collection]

(* Whatever was answered is what the retained decision answers, and the     *)
(* header counts the decisions.                                             *)
DecisionsInv ==
  /\ IsFiniteSet(DOMAIN sys.decisions)
  /\ \A a \in sys.told : a.id \in DOMAIN sys.decisions /\ a = Answer(a.id, sys.decisions[a.id])
  /\ AuditHeader /\ AuditDecisions

(* An ownership row goes back to an accepted decision and a reserved        *)
(* generation, and READY or ACTIVE to a binding.                            *)
OwnerInv(c) ==
  /\ sys.owners[c].phase # "none" =>
       /\ sys.owners[c].last \in DOMAIN sys.decisions /\ sys.decisions[sys.owners[c].last].accepted
       /\ [workflow |-> sys.owners[c].workflow, generation |-> sys.owners[c].generation]
            \in sys.reserved[c]
  /\ sys.owners[c].phase \in {"READY", "ACTIVE"} => sys.owners[c].generation \in sys.bound[c]

(* An import that ended goes back to the accepted command that ended it.    *)
EndsAs(row, phase, kind) ==
  row.phase = phase =>
    /\ row.terminal \in DOMAIN sys.decisions
    /\ row.reserved = 0
    /\ sys.decisions[row.terminal].accepted /\ sys.decisions[row.terminal].kind = kind
    /\ phase # "RECOVERED" => sys.decisions[row.terminal].by = row.by

(* The three ways an import ends.                                           *)
RowInv(row) ==
  /\ EndsAs(row, "COMMITTED", "Commit") /\ EndsAs(row, "ABORTED", "Abort")
  /\ EndsAs(row, "RECOVERED", "Recover")

(* A collection has at most one import in this phase.                       *)
Once(c, phase) ==
  \A v, w \in SourceWorkflows :
    sys.imports[c][v].phase = phase /\ sys.imports[c][w].phase = phase => v = w

(* The imports of a collection: how they ended, one at a time, and the      *)
(* applied set is what was committed.                                       *)
ImportsInv(c) ==
  /\ \A w \in SourceWorkflows : RowInv(sys.imports[c][w])
  /\ Once(c, "STAGING") /\ Once(c, "COMMITTED")
  /\ c \in sys.applied <=> \E w \in SourceWorkflows : sys.imports[c][w].phase = "COMMITTED"

(* The inductive invariant.                                                 *)
AuthorityInv ==
  /\ sys \in AuthorityStates /\ DecisionsInv
  /\ \A m \in sys.inFlight : CommandInv(m)
  /\ \A c \in Collections : OwnerInv(c) /\ ImportsInv(c)

(* The types of a state's fields. *)
LEMMA Fields ==
  ASSUME NEW s \in AuthorityStates
  PROVE  /\ s.revision \in Nat /\ s.policyRevision \in Nat /\ s.admins \in AdminMaps
         /\ s.owners \in OwnerMaps /\ s.reserved \in ReservedMaps /\ s.imports \in ImportMaps
         /\ s.applied \in CollectionSets /\ s.configured \in CollectionSets
         /\ s.decisions \in Histories /\ s.header \in Headers /\ s.bound \in Bindings
         /\ s.inFlight \in CommandSets /\ s.proposed \in Nat /\ s.duplicated \in Nat
         /\ s.told \in AnswerSets
  BY Zenon DEF AuthorityStates

(* The commands in flight are well formed. *)
LEMMA InFlight ==
  ASSUME AuthorityInv
  PROVE  \A m \in sys.inFlight : m \in Commands /\ CommandInv(m)
  BY Fields, Zenon DEF AuthorityInv, CommandSets

(* What a retained decision is.                                             *)
LEMMA HistoryTyped ==
  ASSUME NEW h \in Histories
  PROVE  \A i \in DOMAIN h : i \in Nat /\ h[i] \in Decisions
  BY Zenon DEF Histories

(* Nothing was proposed and nothing decided.                                *)
LEMMA AuthorityInitially == AuthorityInit => AuthorityInv
<1> SUFFICES ASSUME AuthorityInit PROVE AuthorityInv
  BY Zenon
<1>1. sys \in AuthorityStates
  <2>1. NoOwner \in Owners /\ NoImport \in Rows
    BY DEF NoOwner, NoImport, Owners, Rows, Workflows
  <2>2. <<>> \in Histories
    <3>1. <<>> \in [{} -> Decisions]
      OBVIOUS
    <3> QED BY <3>1, Zenon DEF Histories
  <2>3. [source |-> 0, import |-> 0, configure |-> 0, reservedDecisions |-> 0, stagedChunks |-> 0] \in Headers
    BY DEF Headers
  <2> QED BY <2>1, <2>2, <2>3 DEF AuthorityInit, AuthorityStates, AdminMaps, OwnerMaps, ReservedMaps,
            ImportMaps, CollectionSets, Bindings, CommandSets, AnswerSets
<1>2. DecisionsInv
  <2>1. DOMAIN sys.decisions = {} /\ sys.revision = 1 /\ sys.told = {}
        /\ sys.header.source = 0 /\ sys.header.import = 0 /\ sys.header.configure = 0
    BY DEF AuthorityInit
  <2>2. IsFiniteSet({}) /\ Cardinality({}) = 0
    BY FS_EmptySet, Zenon
  <2>3. KindIn(SourceKinds) = {} /\ KindIn(ImportKinds) = {} /\ KindIn({"Configure"}) = {}
        /\ Accepted(DOMAIN sys.decisions) = {}
    BY <2>1, Zenon DEF KindIn, Accepted
  <2>4. AuditHeader
    BY <2>1, <2>2, <2>3 DEF AuditHeader
  <2>5. AuditDecisions
    BY <2>1, Zenon DEF AuditDecisions
  <2> QED BY <2>1, <2>2, <2>4, <2>5, Zenon DEF DecisionsInv
<1>3. sys.applied = {} /\ sys.inFlight = {}
  BY DEF AuthorityInit
<1>4. ASSUME NEW c \in Collections PROVE OwnerInv(c) /\ ImportsInv(c)
  <2>1. sys.owners[c] = NoOwner /\ \A w \in SourceWorkflows : sys.imports[c][w] = NoImport
    BY DEF AuthorityInit
  <2>2. OwnerInv(c)
    <3>1. NoOwner.phase = "none"
      BY Zenon DEF NoOwner
    <3> QED BY <2>1, <3>1, Zenon DEF OwnerInv
  <2>3. ImportsInv(c)
    <3>1. \A w \in SourceWorkflows : sys.imports[c][w].phase = "none"
      BY <2>1 DEF NoImport
    <3> QED BY <1>3, <3>1, Zenon DEF ImportsInv, RowInv, EndsAs, Once
  <2> QED BY <2>2, <2>3, Zenon
<1> QED BY <1>1, <1>2, <1>3, <1>4, Zenon DEF AuthorityInv

\* What a step leaves of the decisions, when it retains or adds some.
Grows ==
  /\ DOMAIN sys.decisions \subseteq DOMAIN sys'.decisions
  /\ \A i \in DOMAIN sys.decisions : sys'.decisions[i] = sys.decisions[i]

(* An ownership row that is left alone stays explained when decisions are   *)
(* only added.                                                              *)
LEMMA OwnersStay ==
  ASSUME NEW c \in Collections, OwnerInv(c), Grows, sys'.owners[c] = sys.owners[c],
         sys.reserved[c] \subseteq sys'.reserved[c], sys.bound[c] \subseteq sys'.bound[c]
  PROVE  OwnerInv(c)'
  BY Zenon DEF OwnerInv, Grows

(* So does an import row.                                                   *)
LEMMA RowsStay ==
  ASSUME NEW row, RowInv(row), Grows
  PROVE  RowInv(row)'
  BY Zenon DEF RowInv, EndsAs, Grows

(* So do the imports of a collection.                                       *)
LEMMA ImportsStay ==
  ASSUME NEW c \in Collections, ImportsInv(c), Grows, sys'.imports[c] = sys.imports[c],
         c \in sys'.applied <=> c \in sys.applied
  PROVE  ImportsInv(c)'
<1>1. \A w \in SourceWorkflows : RowInv(sys.imports[c][w])'
  BY RowsStay, Zenon DEF ImportsInv
<1> QED BY <1>1, Zenon DEF ImportsInv, Once

(* One import of a collection moves.                                        *)
LEMMA ImportsMove ==
  ASSUME NEW c \in Collections, NEW w \in SourceWorkflows, NEW row, ImportsInv(c), Grows,
         RowInv(row)', sys'.imports[c][w] = row,
         \A x \in SourceWorkflows : x # w => sys'.imports[c][x] = sys.imports[c][x],
         row.phase = "STAGING" =>
           \A x \in SourceWorkflows : x # w => sys.imports[c][x].phase # "STAGING",
         row.phase = "COMMITTED" => c \notin sys.applied,
         sys.imports[c][w].phase # "COMMITTED",
         c \in sys'.applied <=> c \in sys.applied \/ row.phase = "COMMITTED"
  PROVE  ImportsInv(c)'
<1>1. ASSUME NEW x \in SourceWorkflows PROVE RowInv(sys.imports[c][x])'
  <2>1. CASE x = w
    BY <2>1, Zenon
  <2>2. CASE x # w
    <3>1. PICK old : old = sys.imports[c][x]
      BY Zenon
    <3>2. RowInv(old)' /\ sys'.imports[c][x] = old
      BY <2>2, <3>1, RowsStay, Zenon DEF ImportsInv
    <3> QED BY <3>2, Zenon
  <2> QED BY <2>1, <2>2, Zenon
<1>2. Once(c, "STAGING")' /\ Once(c, "COMMITTED")'
  BY DEF ImportsInv, Once
<1>3. c \in sys'.applied <=> \E x \in SourceWorkflows : sys'.imports[c][x].phase = "COMMITTED"
  BY Zenon DEF ImportsInv
<1> QED BY <1>1, <1>2, <1>3, Zenon DEF ImportsInv

(* A command on its way stays checked when bindings are only added.         *)
LEMMA CommandsStay ==
  ASSUME NEW m \in Commands, CommandInv(m), \A c \in Collections : sys.bound[c] \subseteq sys'.bound[c]
  PROVE  CommandInv(m)'
  BY Zenon DEF CommandInv, Commands

(* A set grows by one.                                                      *)
LEMMA Added ==
  ASSUME NEW S, IsFiniteSet(S), NEW e, e \notin S
  PROVE  IsFiniteSet(S \cup {e}) /\ Cardinality(S \cup {e}) = Cardinality(S) + 1
  BY FS_AddElement, Zenon

(* A decision is retained under the id of its command, and the header       *)
(* counts it.                                                               *)
LEMMA Recorded ==
  ASSUME DecisionsInv, sys.revision \in Nat, sys.decisions \in Histories, sys.header \in Headers,
         NEW m \in Commands, m.id \notin DOMAIN sys.decisions,
         NEW accepted \in BOOLEAN, accepted => m.revision = sys.revision,
         sys'.decisions = Retain(m, accepted),
         sys'.told = sys.told \cup {Answer(m.id, Decision(m, accepted))},
         sys'.revision = IF accepted THEN sys.revision + 1 ELSE sys.revision,
         sys'.header.source = IF m.kind \in SourceKinds THEN sys.header.source + 1 ELSE sys.header.source,
         sys'.header.import = IF m.kind \in ImportKinds THEN sys.header.import + 1 ELSE sys.header.import,
         sys'.header.configure = IF m.kind = "Configure" THEN sys.header.configure + 1 ELSE sys.header.configure
  PROVE  /\ DecisionsInv' /\ Grows
         /\ m.id \in DOMAIN sys'.decisions /\ sys'.decisions[m.id] = Decision(m, accepted)
         /\ sys'.decisions \in Histories /\ sys'.revision \in Nat
         /\ Answer(m.id, Decision(m, accepted)) \in [id : Nat, accepted : BOOLEAN, revision : Nat]
<1> DEFINE D == DOMAIN sys.decisions
<1>1. /\ DOMAIN sys'.decisions = D \cup {m.id}
      /\ \A i \in D : sys'.decisions[i] = sys.decisions[i]
      /\ sys'.decisions[m.id] = Decision(m, accepted)
  BY Zenon DEF Retain
<1>2. /\ Decision(m, accepted).kind = m.kind /\ Decision(m, accepted).accepted = accepted
      /\ Decision(m, accepted).revision = sys'.revision /\ Decision(m, accepted).expected = m.revision
  BY Zenon DEF Decision
<1>3. Grows
  BY <1>1, Zenon DEF Grows
<1>4. IsFiniteSet(D) /\ IsFiniteSet(D \cup {m.id})
  BY Added, Zenon DEF DecisionsInv
<1>5. ASSUME NEW kinds
      PROVE  /\ Cardinality(KindIn(kinds)) \in Nat
             /\ Cardinality(KindIn(kinds))' = IF m.kind \in kinds THEN Cardinality(KindIn(kinds)) + 1
                                              ELSE Cardinality(KindIn(kinds))
  <2>1. KindIn(kinds)' = IF m.kind \in kinds THEN KindIn(kinds) \cup {m.id} ELSE KindIn(kinds)
    BY <1>1, <1>2 DEF KindIn
  <2>2. IsFiniteSet(KindIn(kinds)) /\ m.id \notin KindIn(kinds)
    BY <1>4, FS_Subset, Zenon DEF KindIn
  <2>3. Cardinality(KindIn(kinds)) \in Nat
    BY <2>2, FS_CardinalityType, Zenon
  <2> QED BY <2>1, <2>2, <2>3, Added, Zenon
<1>6. /\ Cardinality(Accepted(D)) \in Nat
      /\ Cardinality(Accepted(D))' = IF accepted THEN Cardinality(Accepted(D)) + 1 ELSE Cardinality(Accepted(D))
  <2>1. Accepted(D)' = IF accepted THEN Accepted(D) \cup {m.id} ELSE Accepted(D)
    BY <1>1, <1>2 DEF Accepted
  <2>2. IsFiniteSet(Accepted(D)) /\ m.id \notin Accepted(D)
    BY <1>4, FS_Subset, Zenon DEF Accepted
  <2>3. Cardinality(Accepted(D)) \in Nat
    BY <2>2, FS_CardinalityType, Zenon
  <2> QED BY <2>1, <2>2, <2>3, Added, Zenon
<1>7. AuditHeader'
  <2>1. /\ sys.header.source = Cardinality(KindIn(SourceKinds))
        /\ sys.header.import = Cardinality(KindIn(ImportKinds))
        /\ sys.header.configure = Cardinality(KindIn({"Configure"}))
        /\ Cardinality(Accepted(D)) + 1 = sys.revision
    BY Zenon DEF DecisionsInv, AuditHeader
  <2>2. /\ sys'.header.source = Cardinality(KindIn(SourceKinds))'
        /\ sys'.header.import = Cardinality(KindIn(ImportKinds))'
        /\ sys'.header.configure = Cardinality(KindIn({"Configure"}))'
    BY <1>5, <2>1, Zenon
  <2>3. Cardinality(Accepted(D))' + 1 = sys'.revision
    BY <1>6, <2>1, Zenon
  <2> QED BY <2>2, <2>3, Zenon DEF AuditHeader
<1>8. AuditDecisions'
  <2>1. \A i \in D : sys.decisions[i].revision \in Nat
    BY HistoryTyped, Zenon DEF Decisions
  <2> QED BY <1>1, <1>2, <2>1 DEF DecisionsInv, AuditDecisions
<1>9. \A a \in sys'.told : a.id \in DOMAIN sys'.decisions /\ a = Answer(a.id, sys'.decisions[a.id])
  <2>1. Answer(m.id, Decision(m, accepted)).id = m.id
    BY Zenon DEF Answer
  <2> QED BY <1>1, <2>1, Zenon DEF DecisionsInv
<1>10. /\ sys'.revision \in Nat /\ Decision(m, accepted) \in Decisions
       /\ Answer(m.id, Decision(m, accepted)) \in [id : Nat, accepted : BOOLEAN, revision : Nat]
  BY DEF Decision, Decisions, Commands, Answer
<1>11. sys'.decisions \in Histories
  <2>1. PICK E \in SUBSET Nat : sys.decisions \in [E -> Decisions]
    BY Zenon DEF Histories
  <2>2. E = D /\ m.id \in Nat /\ \A i \in D : sys.decisions[i] \in Decisions
    BY <2>1, Zenon DEF Commands
  <2>3. \A i \in D \cup {m.id} :
          (IF i = m.id THEN Decision(m, accepted) ELSE sys.decisions[i]) \in Decisions
    BY <1>10, <2>2, Zenon
  <2>4. sys'.decisions \in [D \cup {m.id} -> Decisions] /\ D \cup {m.id} \in SUBSET Nat
    BY <2>1, <2>2, <2>3 DEF Retain
  <2> QED BY <2>4, Zenon DEF Histories
<1> QED BY <1>1, <1>3, <1>4, <1>7, <1>8, <1>9, <1>10, <1>11, Zenon DEF DecisionsInv

\* A step that takes commands away, and answers retries.
LEMMA Answers ==
  ASSUME AuthorityInv, sys' \in AuthorityStates, sys'.inFlight \subseteq sys.inFlight,
         sys'.decisions = sys.decisions, sys'.revision = sys.revision, sys'.header = sys.header,
         sys'.owners = sys.owners, sys'.reserved = sys.reserved, sys'.bound = sys.bound,
         sys'.imports = sys.imports, sys'.applied = sys.applied,
         \A a \in sys'.told : a \in sys.told
                \/ \E i \in DOMAIN sys.decisions : a = Answer(i, sys.decisions[i])
  PROVE  AuthorityInv'
<1>1. Grows
  BY Zenon DEF Grows
<1>2. DecisionsInv'
  <2>1. AuditHeader' /\ AuditDecisions'
    BY Zenon DEF AuthorityInv, DecisionsInv, AuditHeader, AuditDecisions, KindIn, Accepted
  <2>2. \A a \in sys'.told : a.id \in DOMAIN sys.decisions /\ a = Answer(a.id, sys.decisions[a.id])
    BY DEF AuthorityInv, DecisionsInv, Answer
  <2> QED BY <2>1, <2>2, Zenon DEF AuthorityInv, DecisionsInv
<1>3. \A c \in Collections : OwnerInv(c)' /\ ImportsInv(c)'
  BY <1>1, OwnersStay, ImportsStay, Zenon DEF AuthorityInv
<1>4. \A m \in sys'.inFlight : CommandInv(m)'
  BY CommandsStay, InFlight, Zenon
<1> QED BY <1>2, <1>3, <1>4, Zenon DEF AuthorityInv

(* A command that is answered and decides nothing.                          *)
LEMMA AnswersKeep ==
  ASSUME AuthorityInv,
         Unauthorized \/ Retry \/ CapacityFull \/ ReservationExceedsAccounting \/ ImportFull
  PROVE  AuthorityInv'
<1>a. sys \in AuthorityStates
  BY Zenon DEF AuthorityInv
<1>1. ASSUME NEW m \in sys.inFlight, sys' = [sys EXCEPT !.inFlight = @ \ {m}]
      PROVE  AuthorityInv'
  <2>1. /\ sys' \in AuthorityStates /\ sys'.inFlight = sys.inFlight \ {m}
        /\ sys'.decisions = sys.decisions /\ sys'.revision = sys.revision /\ sys'.header = sys.header
        /\ sys'.owners = sys.owners /\ sys'.reserved = sys.reserved /\ sys'.bound = sys.bound
        /\ sys'.imports = sys.imports /\ sys'.applied = sys.applied /\ sys'.told = sys.told
    <3>1. PICK i \in CommandSets : i = sys.inFlight \ {m}
      BY <1>a, Fields, Zenon DEF CommandSets
    <3>2. sys' = [sys EXCEPT !.inFlight = i]
      BY <1>1, <3>1, Zenon
    <3> QED BY <1>a, <3>1, <3>2, Zenon DEF AuthorityStates
  <2> QED BY <2>1, Answers, Zenon
<1>2. ASSUME NEW m \in sys.inFlight, sys' = [sys EXCEPT !.inFlight = @ \ {m}, !.closed = TRUE]
      PROVE  AuthorityInv'
  <2>1. /\ sys' \in AuthorityStates /\ sys'.inFlight = sys.inFlight \ {m}
        /\ sys'.decisions = sys.decisions /\ sys'.revision = sys.revision /\ sys'.header = sys.header
        /\ sys'.owners = sys.owners /\ sys'.reserved = sys.reserved /\ sys'.bound = sys.bound
        /\ sys'.imports = sys.imports /\ sys'.applied = sys.applied /\ sys'.told = sys.told
    <3>1. PICK i \in CommandSets : i = sys.inFlight \ {m}
      BY <1>a, Fields, Zenon DEF CommandSets
    <3>2. sys' = [sys EXCEPT !.inFlight = i, !.closed = TRUE]
      BY <1>2, <3>1, Zenon
    <3> QED BY <1>a, <3>1, <3>2, Zenon DEF AuthorityStates
  <2> QED BY <2>1, Answers, Zenon
<1>3. ASSUME NEW m \in sys.inFlight, IsRetry(m),
             sys' = [sys EXCEPT !.inFlight = @ \ {m},
                                !.told = @ \cup {Answer(m.id, sys.decisions[m.id])}]
      PROVE  AuthorityInv'
  <2>1. /\ sys' \in AuthorityStates /\ sys'.inFlight = sys.inFlight \ {m}
        /\ sys'.decisions = sys.decisions /\ sys'.revision = sys.revision /\ sys'.header = sys.header
        /\ sys'.owners = sys.owners /\ sys'.reserved = sys.reserved /\ sys'.bound = sys.bound
        /\ sys'.imports = sys.imports /\ sys'.applied = sys.applied
        /\ sys'.told = sys.told \cup {Answer(m.id, sys.decisions[m.id])}
    <3>1. sys.decisions[m.id] \in Decisions /\ m.id \in Nat
      BY <1>a, <1>3, Fields, HistoryTyped, Zenon DEF IsRetry
    <3>2. Answer(m.id, sys.decisions[m.id]) \in [id : Nat, accepted : BOOLEAN, revision : Nat]
      BY <3>1, Zenon DEF Answer, Decisions
    <3>3. PICK i \in CommandSets, t \in AnswerSets :
            i = sys.inFlight \ {m} /\ t = sys.told \cup {Answer(m.id, sys.decisions[m.id])}
      BY <1>a, <3>2, Fields, Zenon DEF CommandSets, AnswerSets
    <3>4. sys' = [sys EXCEPT !.inFlight = i, !.told = t]
      BY <1>3, <3>3, Zenon
    <3> QED BY <1>a, <3>3, <3>4, Zenon DEF AuthorityStates
  <2> QED BY <1>3, <2>1, Answers, Zenon DEF IsRetry
<1> QED BY <1>1, <1>2, <1>3, Zenon DEF Unauthorized, Retry, CapacityFull, ReservationExceedsAccounting, ImportFull

(* A command is on its way.                                                 *)
LEMMA ProposalsKeep ==
  ASSUME AuthorityInv, sys' \in AuthorityStates, NEW m \in Commands, CommandInv(m), sys'.inFlight = sys.inFlight \cup {m},
         sys'.decisions = sys.decisions, sys'.revision = sys.revision, sys'.header = sys.header,
         sys'.owners = sys.owners, sys'.reserved = sys.reserved, sys'.bound = sys.bound,
         sys'.imports = sys.imports, sys'.applied = sys.applied, sys'.told = sys.told
  PROVE  AuthorityInv'
<1>1. Grows
  BY Zenon DEF Grows
<1>2. DecisionsInv'
  <2>1. AuditHeader' /\ AuditDecisions'
    BY DEF AuthorityInv, DecisionsInv, AuditHeader, AuditDecisions, KindIn, Accepted
  <2> QED BY <2>1, Zenon DEF AuthorityInv, DecisionsInv
<1>3. \A c \in Collections : OwnerInv(c)' /\ ImportsInv(c)'
  BY <1>1, OwnersStay, ImportsStay, Zenon DEF AuthorityInv
<1>4. \A n \in sys'.inFlight : CommandInv(n)'
  BY CommandsStay, InFlight, Zenon
<1> QED BY <1>2, <1>3, <1>4, Zenon DEF AuthorityInv

(* A command is proposed: a confirmation only for a generation the node     *)
(* bound.                                                                   *)
LEMMA ProposeKeeps ==
  ASSUME AuthorityInv, NEW by \in Principals, NEW c \in Collections, NEW kind \in AllKinds,
         Propose(by, c, kind)
  PROVE  AuthorityInv'
<1>1. PICK w \in WorkflowsOf(kind), arg \in Arguments(kind) :
        LET command == Command(sys.proposed + 1, by, c, kind, w, arg)
        IN /\ Admits(command)
           /\ sys' = [sys EXCEPT !.inFlight = @ \cup {command}, !.proposed = @ + 1]
  BY Zenon DEF Propose
<1> DEFINE m == Command(sys.proposed + 1, by, c, kind, w, arg)
<1>2. m \in Commands /\ CommandInv(m)
  <2>0. /\ w \in Workflows /\ arg \in Args /\ sys.proposed + 1 \in Nat
        /\ sys.revision \in Nat /\ sys.policyRevision \in Nat /\ sys.owners[c].generation \in Nat
    <3>1. w \in Workflows
      BY Zenon DEF WorkflowsOf, Workflows
    <3>2. arg \in Args
      BY Zenon DEF Arguments, Args
    <3>3. sys \in AuthorityStates /\ sys.owners[c] \in Owners
      BY Fields, Zenon DEF AuthorityInv, OwnerMaps
    <3> QED BY <3>1, <3>2, <3>3, Fields DEF Owners
  <2>1. m.collection = c /\ m.kind = kind /\ m.workflow = w /\ m.arg = arg /\ m.generation = sys.owners[c].generation
    BY Zenon DEF Command
  <2>4. m \in Commands
    BY <2>0, Zenon DEF Command, Commands
  <2>2. kind \in ImportKinds => w \in SourceWorkflows
    BY Zenon DEF WorkflowsOf, ImportKinds
  <2>3. kind = "ConfirmReady" => sys.owners[c].generation \in sys.bound[c]
    BY <1>1, <2>1, Zenon DEF Admits
  <2> HIDE DEF m
  <2> QED BY <2>1, <2>2, <2>3, <2>4, Zenon DEF CommandInv
<1>3. /\ sys' \in AuthorityStates /\ sys'.inFlight = sys.inFlight \cup {m}
      /\ sys'.decisions = sys.decisions /\ sys'.revision = sys.revision /\ sys'.header = sys.header
      /\ sys'.owners = sys.owners /\ sys'.reserved = sys.reserved /\ sys'.bound = sys.bound
      /\ sys'.imports = sys.imports /\ sys'.applied = sys.applied /\ sys'.told = sys.told
  <2>1. sys' = [sys EXCEPT !.inFlight = @ \cup {m}, !.proposed = @ + 1]
    BY <1>1, Zenon
  <2>2. sys \in AuthorityStates /\ sys.proposed + 1 \in Nat /\ sys.duplicated + 1 \in Nat
    BY Fields DEF AuthorityInv
  <2>3. PICK i \in CommandSets : i = sys.inFlight \cup {m}
    BY <1>2, <2>2, Fields, Zenon DEF CommandSets
  <2> HIDE DEF m
  <2>4. sys' = [sys EXCEPT !.inFlight = i, !.proposed = sys.proposed + 1]
    BY <2>1, <2>3, Zenon
  <2>5. PICK n \in Nat : n = sys.proposed + 1
    BY <2>2, Zenon
  <2>6. sys' = [sys EXCEPT !.inFlight = i, !.proposed = n]
    BY <2>4, <2>5, Zenon
  <2> QED BY <2>2, <2>3, <2>6, Zenon DEF AuthorityStates
<1> HIDE DEF m
<1> QED BY <1>2, <1>3, ProposalsKeep, Zenon

(* A command is proposed once more, with the same id.                       *)
LEMMA ProposeAgainKeeps ==
  ASSUME AuthorityInv, ProposeAgain
  PROVE  AuthorityInv'
<1>1. PICK n \in sys.inFlight :
       sys' = [sys EXCEPT !.inFlight = @ \cup {[n EXCEPT !.copy = n.copy + 1]},
                          !.duplicated = @ + 1]
  BY Zenon DEF ProposeAgain
<1> DEFINE m == [n EXCEPT !.copy = n.copy + 1]
<1>2. m \in Commands /\ CommandInv(m)
  <2>1. CommandInv(n) /\ n \in Commands
    BY InFlight, Zenon
  <2>2. m \in Commands /\ m.arg = n.arg /\ m.collection = n.collection /\ m.kind = n.kind /\ m.workflow = n.workflow /\ m.generation = n.generation
    BY <2>1 DEF Commands
  <2> HIDE DEF m
  <2> QED BY <2>1, <2>2, Zenon DEF CommandInv
<1>3. /\ sys' \in AuthorityStates /\ sys'.inFlight = sys.inFlight \cup {m}
      /\ sys'.decisions = sys.decisions /\ sys'.revision = sys.revision /\ sys'.header = sys.header
      /\ sys'.owners = sys.owners /\ sys'.reserved = sys.reserved /\ sys'.bound = sys.bound
      /\ sys'.imports = sys.imports /\ sys'.applied = sys.applied /\ sys'.told = sys.told
  <2>1. sys' = [sys EXCEPT !.inFlight = @ \cup {m}, !.duplicated = @ + 1]
    BY <1>1, Zenon
  <2>2. sys \in AuthorityStates /\ sys.proposed + 1 \in Nat /\ sys.duplicated + 1 \in Nat
    BY Fields DEF AuthorityInv
  <2>3. PICK i \in CommandSets : i = sys.inFlight \cup {m}
    BY <1>2, <2>2, Fields, Zenon DEF CommandSets
  <2> HIDE DEF m
  <2>4. sys' = [sys EXCEPT !.inFlight = i, !.duplicated = sys.duplicated + 1]
    BY <2>1, <2>3, Zenon
  <2>5. PICK d \in Nat : d = sys.duplicated + 1
    BY <2>2, Zenon
  <2>6. sys' = [sys EXCEPT !.inFlight = i, !.duplicated = d]
    BY <2>4, <2>5, Zenon
  <2> QED BY <2>2, <2>3, <2>6, Zenon DEF AuthorityStates
<1> HIDE DEF m
<1> QED BY <1>2, <1>3, ProposalsKeep, Zenon

(* A node binds its catalog to a preparation.                               *)
LEMMA BindKeeps ==
  ASSUME AuthorityInv, NEW c \in Collections, BindPreparedOwner(c)
  PROVE  AuthorityInv'
<1>1. /\ sys' \in AuthorityStates /\ sys'.inFlight = sys.inFlight
      /\ sys'.decisions = sys.decisions /\ sys'.revision = sys.revision /\ sys'.header = sys.header
      /\ sys'.owners = sys.owners /\ sys'.reserved = sys.reserved
      /\ sys'.imports = sys.imports /\ sys'.applied = sys.applied /\ sys'.told = sys.told
      /\ \A d \in Collections : sys.bound[d] \subseteq sys'.bound[d]
  <2>1. sys \in AuthorityStates /\ sys.owners[c] \in Owners
    BY Fields, Zenon DEF AuthorityInv, OwnerMaps
  <2>2. sys.bound[c] \cup {sys.owners[c].generation} \in SUBSET Nat
    BY <2>1, Fields, Zenon DEF Owners, Bindings
  <2>3. PICK b \in Bindings : b = [sys.bound EXCEPT ![c] = sys.bound[c] \cup {sys.owners[c].generation}]
    BY <2>1, <2>2, Fields, Zenon DEF Bindings
  <2>4. sys' = [sys EXCEPT !.bound = b]
    BY <2>3, Zenon DEF BindPreparedOwner
  <2>5. \A d \in Collections : sys.bound[d] \subseteq b[d]
    BY <2>1, <2>3, Fields, Zenon DEF Bindings
  <2>6. sys'.bound = b
    BY <2>1, <2>4, Zenon DEF AuthorityStates
  <2> QED BY <2>1, <2>3, <2>4, <2>5, <2>6, Zenon DEF AuthorityStates
<1>2. Grows
  BY <1>1, Zenon DEF Grows
<1>3. DecisionsInv'
  <2>1. AuditHeader' /\ AuditDecisions'
    BY <1>1, Zenon DEF AuthorityInv, DecisionsInv, AuditHeader, AuditDecisions, KindIn, Accepted
  <2> QED BY <1>1, <2>1, Zenon DEF AuthorityInv, DecisionsInv
<1>4. \A d \in Collections : OwnerInv(d)' /\ ImportsInv(d)'
  BY <1>1, <1>2, OwnersStay, ImportsStay, Zenon DEF AuthorityInv
<1>5. \A n \in sys'.inFlight : CommandInv(n)'
  BY <1>1, CommandsStay, InFlight, Zenon
<1> QED BY <1>1, <1>3, <1>4, <1>5, Zenon DEF AuthorityInv

(* A command was executed: what is left to show is about the rows.          *)
LEMMA Executed ==
  ASSUME AuthorityInv, sys' \in AuthorityStates, NEW m, sys'.inFlight = sys.inFlight \ {m},
         sys'.bound = sys.bound, DecisionsInv', \A c \in Collections : OwnerInv(c)' /\ ImportsInv(c)'
  PROVE  AuthorityInv'
<1>1. \A n \in sys'.inFlight : CommandInv(n)'
  BY CommandsStay, InFlight, Zenon
<1> QED BY <1>1, Zenon DEF AuthorityInv

(* configure_locked.                                                        *)
LEMMA ConfigureKeeps ==
  ASSUME AuthorityInv, ExecuteConfigure
  PROVE  AuthorityInv'
<1>1. PICK m \in sys.inFlight :
        LET accepted == Fresh(m) /\ m.collection \in sys.applied
        IN /\ Executes(m, {"Configure"})
           /\ ~IsRetry(m) /\ ~Full
           /\ sys' = [sys EXCEPT
                !.inFlight = @ \ {m},
                !.decisions = Retain(m, accepted),
                !.header.configure = @ + 1,
                !.told = @ \cup {Answer(m.id, Decision(m, accepted))},
                !.configured = IF accepted THEN @ \cup {m.collection} ELSE @,
                !.revision = IF accepted THEN @ + 1 ELSE @]
  BY Zenon DEF ExecuteConfigure
<1> DEFINE accepted == Fresh(m) /\ m.collection \in sys.applied
<1>2. accepted \in BOOLEAN /\ (accepted => m.revision = sys.revision)
  BY Zenon DEF Fresh
<1>3. sys \in AuthorityStates /\ m \in Commands /\ sys.header \in Headers
  BY InFlight, Fields, Zenon DEF AuthorityInv
<1>4. m.kind = "Configure" /\ m.id \notin DOMAIN sys.decisions
  BY <1>1, Zenon DEF Executes, IsRetry
<1> HIDE DEF accepted
<1>5. sys' = [sys EXCEPT
                !.inFlight = @ \ {m},
                !.decisions = Retain(m, accepted),
                !.header.configure = @ + 1,
                !.told = @ \cup {Answer(m.id, Decision(m, accepted))},
                !.configured = IF accepted THEN @ \cup {m.collection} ELSE @,
                !.revision = IF accepted THEN @ + 1 ELSE @]
  BY <1>1, Zenon DEF accepted
<1>6. /\ sys'.inFlight = sys.inFlight \ {m} /\ sys'.decisions = Retain(m, accepted)
      /\ sys'.told = sys.told \cup {Answer(m.id, Decision(m, accepted))}
      /\ sys'.revision = IF accepted THEN sys.revision + 1 ELSE sys.revision
      /\ sys'.owners = sys.owners /\ sys'.reserved = sys.reserved /\ sys'.bound = sys.bound
      /\ sys'.imports = sys.imports /\ sys'.applied = sys.applied
      /\ sys'.header = [sys.header EXCEPT !.configure = @ + 1]
  BY <1>3, <1>5, Zenon DEF AuthorityStates
<1>7. /\ sys'.header \in Headers /\ sys'.header.source = sys.header.source
      /\ sys'.header.import = sys.header.import /\ sys'.header.configure = sys.header.configure + 1
  BY <1>3, <1>6 DEF Headers
<1>8. "Configure" \notin SourceKinds /\ "Configure" \notin ImportKinds
  BY Zenon DEF SourceKinds, ImportKinds
<1>9. /\ DecisionsInv' /\ Grows
      /\ sys'.decisions \in Histories /\ sys'.revision \in Nat
      /\ Answer(m.id, Decision(m, accepted)) \in [id : Nat, accepted : BOOLEAN, revision : Nat]
  BY <1>2, <1>3, <1>4, <1>6, <1>7, <1>8, Fields, Recorded DEF AuthorityInv
<1>10. sys' \in AuthorityStates
  <2>1. m.collection \in Collections
    BY <1>3, Zenon DEF Commands
  <2> DEFINE h == [sys.header EXCEPT !.configure = @ + 1]
             t == sys.told \cup {Answer(m.id, Decision(m, accepted))}
             i == sys.inFlight \ {m}
             e == Retain(m, accepted)
             o == IF accepted THEN sys.configured \cup {m.collection} ELSE sys.configured
             v == IF accepted THEN sys.revision + 1 ELSE sys.revision
  <2>2. h \in Headers /\ v \in Nat
    BY <1>6, <1>7, <1>9, Zenon
  <2>3. t \in AnswerSets
    BY <1>3, <1>9, Fields, Zenon DEF AnswerSets
  <2>4. o \in CollectionSets /\ i \in CommandSets
    BY <1>3, <2>1, Fields, Zenon DEF CollectionSets, CommandSets
  <2>5. sys' = [sys EXCEPT !.inFlight = i, !.decisions = e, !.header = h,
                           !.told = t, !.configured = o, !.revision = v]
    BY <1>5, <1>6, Zenon
  <2>6. sys \in AuthorityStates /\ e \in Histories
    BY <1>3, <1>6, <1>9, Zenon
  <2> HIDE DEF h, t, o, v, i, e
  <2> QED BY <2>2, <2>3, <2>4, <2>5, <2>6, Zenon DEF AuthorityStates
<1>11. \A c \in Collections : OwnerInv(c)' /\ ImportsInv(c)'
  BY <1>6, <1>9, OwnersStay, ImportsStay, Zenon DEF AuthorityInv
<1> QED BY <1>6, <1>9, <1>10, <1>11, Executed, Zenon

(* The ownership row a command leaves.                                      *)
LEMMA OwnerTyped ==
  ASSUME sys \in AuthorityStates, NEW m \in Commands, CommandInv(m), m.kind \in SourceKinds
  PROVE  OwnerAfter(m) \in Owners /\ (m.kind = "Prepare" => m.workflow \in Workflows)
<1>1. sys.owners[m.collection] \in Owners
  BY Fields, Zenon DEF OwnerMaps, Commands
<1>2. CASE m.kind = "Prepare"
  <2>1. m.arg \in Nodes
    BY <1>2, Zenon DEF CommandInv, Arguments
  <2> QED BY <1>1, <1>2, <2>1 DEF OwnerAfter, Owners, Commands
<1>3. CASE m.kind \in {"Cancel", "ConfirmReady"}
  BY <1>1, <1>3, Zenon DEF OwnerAfter, Owners, Commands
<1>4. CASE m.kind = "Activate"
  BY <1>1, <1>4, Zenon DEF OwnerAfter, Owners, Commands
<1>5. CASE m.kind = "ReplaceGrants"
  BY <1>1, <1>5, Zenon DEF OwnerAfter
<1> QED BY <1>2, <1>3, <1>4, <1>5, Zenon DEF SourceKinds, Commands

(* execute_locked: the compare-and-set on the revision, then the ownership  *)
(* row.                                                                     *)
LEMMA SourceKeeps ==
  ASSUME AuthorityInv, ExecuteSource
  PROVE  AuthorityInv'
<1>1. PICK m \in sys.inFlight :
        LET c == m.collection
            accepted == SourceAccepts(m)
            owner == OwnerAfter(m)
        IN /\ Executes(m, SourceKinds)
           /\ ~IsRetry(m) /\ ~Full
           /\ sys' = [sys EXCEPT
                !.inFlight = @ \ {m},
                !.decisions = Retain(m, accepted),
                !.header.source = @ + 1,
                !.told = @ \cup {Answer(m.id, Decision(m, accepted))},
                !.owners[c] = IF accepted THEN owner ELSE @,
                !.reserved[c] = IF accepted /\ m.kind = "Prepare"
                  THEN @ \cup {[workflow |-> m.workflow, generation |-> owner.generation]}
                  ELSE @,
                !.admins[c] = IF accepted /\ m.kind = "ReplaceGrants" THEN m.arg ELSE @,
                !.policyRevision = IF accepted /\ m.kind = "ReplaceGrants" THEN @ + 1 ELSE @,
                !.revision = IF accepted THEN @ + 1 ELSE @]
  BY Zenon DEF ExecuteSource
<1> DEFINE c == m.collection
           accepted == SourceAccepts(m)
           owner == IF accepted THEN OwnerAfter(m) ELSE sys.owners[c]
           reserved == IF accepted /\ m.kind = "Prepare"
                       THEN sys.reserved[c] \cup {[workflow |-> m.workflow, generation |-> OwnerAfter(m).generation]}
                       ELSE sys.reserved[c]
           admins == IF accepted /\ m.kind = "ReplaceGrants" THEN m.arg ELSE sys.admins[c]
<1>2. accepted \in BOOLEAN /\ (accepted => m.revision = sys.revision)
  BY Zenon DEF SourceAccepts, Fresh
<1>3. sys \in AuthorityStates /\ m \in Commands /\ sys.header \in Headers /\ CommandInv(m) /\ c \in Collections
  BY InFlight, Fields, Zenon DEF AuthorityInv, Commands
<1>4. m.kind \in SourceKinds /\ m.id \notin DOMAIN sys.decisions
  BY <1>1, Zenon DEF Executes, IsRetry
<1>5. sys' = [sys EXCEPT
                !.inFlight = sys.inFlight \ {m},
                !.decisions = Retain(m, accepted),
                !.header.source = sys.header.source + 1,
                !.told = sys.told \cup {Answer(m.id, Decision(m, accepted))},
                !.owners[c] = owner, !.reserved[c] = reserved, !.admins[c] = admins,
                !.policyRevision = IF accepted /\ m.kind = "ReplaceGrants" THEN sys.policyRevision + 1 ELSE sys.policyRevision,
                !.revision = IF accepted THEN sys.revision + 1 ELSE sys.revision]
  BY <1>1, Zenon
<1>a. /\ owner = IF accepted THEN OwnerAfter(m) ELSE sys.owners[c]
      /\ reserved = IF accepted /\ m.kind = "Prepare"
                    THEN sys.reserved[c] \cup {[workflow |-> m.workflow, generation |-> OwnerAfter(m).generation]}
                    ELSE sys.reserved[c]
      /\ admins = IF accepted /\ m.kind = "ReplaceGrants" THEN m.arg ELSE sys.admins[c]
      /\ accepted <=> SourceAccepts(m)
  BY Zenon
<1> HIDE DEF accepted, owner, reserved, admins
<1>6. /\ sys'.inFlight = sys.inFlight \ {m} /\ sys'.decisions = Retain(m, accepted)
      /\ sys'.told = sys.told \cup {Answer(m.id, Decision(m, accepted))}
      /\ sys'.revision = IF accepted THEN sys.revision + 1 ELSE sys.revision
      /\ sys'.owners = [sys.owners EXCEPT ![c] = owner]
      /\ sys'.reserved = [sys.reserved EXCEPT ![c] = reserved] /\ sys'.bound = sys.bound
      /\ sys'.imports = sys.imports /\ sys'.applied = sys.applied
      /\ sys'.header = [sys.header EXCEPT !.source = @ + 1]
  BY <1>3, <1>5, Zenon DEF AuthorityStates
<1>7. /\ sys'.header \in Headers /\ sys'.header.source = sys.header.source + 1
      /\ sys'.header.import = sys.header.import /\ sys'.header.configure = sys.header.configure
  BY <1>3, <1>6 DEF Headers
<1>8. m.kind # "Configure" /\ m.kind \notin ImportKinds
  BY <1>4, Zenon DEF SourceKinds, ImportKinds
<1>9. /\ DecisionsInv' /\ Grows
      /\ m.id \in DOMAIN sys'.decisions /\ sys'.decisions[m.id] = Decision(m, accepted)
      /\ sys'.decisions \in Histories /\ sys'.revision \in Nat
      /\ Answer(m.id, Decision(m, accepted)) \in [id : Nat, accepted : BOOLEAN, revision : Nat]
  BY <1>2, <1>3, <1>4, <1>6, <1>7, <1>8, Fields, Recorded, Zenon DEF AuthorityInv
<1>10. sys' \in AuthorityStates
  <2>1. OwnerAfter(m) \in Owners /\ sys.owners[c] \in Owners
    BY <1>3, <1>4, OwnerTyped, Fields, Zenon DEF OwnerMaps
  <2>2. owner \in Owners
    BY <1>a, <2>1, Zenon
  <2>3. reserved \in SUBSET [workflow : Workflows, generation : Nat]
    <3>1. [workflow |-> m.workflow, generation |-> OwnerAfter(m).generation] \in [workflow : Workflows, generation : Nat]
      BY <1>3, <2>1, Zenon DEF Owners, Commands
    <3>2. sys.reserved[c] \in SUBSET [workflow : Workflows, generation : Nat]
      BY <1>3, Fields, Zenon DEF ReservedMaps
    <3> QED BY <1>a, <3>1, <3>2, Zenon
  <2>4. admins \in SUBSET Principals
    <3>1. m.kind = "ReplaceGrants" => m.arg \in SUBSET Principals
      BY <1>3, Zenon DEF CommandInv, Arguments
    <3>2. sys.admins[c] \in SUBSET Principals
      BY <1>3, Fields, Zenon DEF AdminMaps
    <3> QED BY <1>a, <3>1, <3>2, Zenon
  <2>5. (IF accepted /\ m.kind = "ReplaceGrants" THEN sys.policyRevision + 1 ELSE sys.policyRevision) \in Nat
    BY <1>3, Fields
  <2> DEFINE h == [sys.header EXCEPT !.source = @ + 1]
             t == sys.told \cup {Answer(m.id, Decision(m, accepted))}
             i == sys.inFlight \ {m}
             e == Retain(m, accepted)
             o == [sys.owners EXCEPT ![c] = owner]
             r == [sys.reserved EXCEPT ![c] = reserved]
             a == [sys.admins EXCEPT ![c] = admins]
             p == IF accepted /\ m.kind = "ReplaceGrants" THEN sys.policyRevision + 1 ELSE sys.policyRevision
             v == IF accepted THEN sys.revision + 1 ELSE sys.revision
  <2>6. t \in AnswerSets
    BY <1>3, <1>9, Fields, Zenon DEF AnswerSets
  <2>7. h \in Headers /\ v \in Nat /\ i \in CommandSets
    BY <1>3, <1>6, <1>7, <1>9, Fields, Zenon DEF CommandSets
  <2>8. /\ o \in OwnerMaps /\ a \in AdminMaps
        /\ r \in ReservedMaps
    BY <1>3, <2>2, <2>3, <2>4, Fields, Zenon DEF OwnerMaps, AdminMaps, ReservedMaps
  <2>9. sys' = [sys EXCEPT !.inFlight = i, !.decisions = e, !.header = h,
                           !.told = t, !.owners = o, !.reserved = r, !.admins = a,
                           !.policyRevision = p, !.revision = v]
    BY <1>5, <1>6
  <2>10. sys \in AuthorityStates /\ e \in Histories /\ p \in Nat
    BY <1>3, <1>6, <1>9, <2>5, Zenon
  <2> HIDE DEF h, t, o, r, a, p, v, i, e
  <2> QED BY <2>6, <2>7, <2>8, <2>9, <2>10, Zenon DEF AuthorityStates
<1>11. ASSUME NEW d \in Collections PROVE OwnerInv(d)' /\ ImportsInv(d)'
  <2>0. OwnerInv(d) /\ ImportsInv(d)
    BY Zenon DEF AuthorityInv
  <2>1. ImportsInv(d)'
    BY <1>6, <1>9, <2>0, ImportsStay, Zenon
  <2>2. /\ sys'.owners[d] = IF d = c THEN owner ELSE sys.owners[d]
        /\ sys'.reserved[d] = IF d = c THEN reserved ELSE sys.reserved[d]
    BY <1>3, <1>6, Fields DEF OwnerMaps, ReservedMaps
  <2>3. sys.reserved[d] \subseteq sys'.reserved[d] /\ sys.bound[d] \subseteq sys'.bound[d]
    BY <1>6, <1>a, <2>2, Zenon
  <2>4. CASE d # c \/ ~accepted
    BY <1>9, <1>a, <2>0, <2>1, <2>2, <2>3, <2>4, OwnersStay, Zenon
  <2>5. CASE d = c /\ accepted
    <3>1. sys'.owners[d] = OwnerAfter(m) /\ SourceAccepts(m) /\ sys.owners[d] \in Owners
      BY <1>3, <1>a, <2>2, <2>5, Fields, Zenon DEF OwnerMaps
    <3>2. sys'.decisions[m.id].accepted
      BY <1>9, <2>5 DEF Decision
    <3>3. CASE m.kind = "Prepare"
      <4>1. /\ OwnerAfter(m).phase = "PREPARED" /\ OwnerAfter(m).last = m.id
            /\ OwnerAfter(m).workflow = m.workflow
        BY <3>3, Zenon DEF OwnerAfter
      <4>2. [workflow |-> OwnerAfter(m).workflow, generation |-> OwnerAfter(m).generation] \in sys'.reserved[d]
        BY <1>a, <2>2, <2>5, <3>3, <4>1, Zenon
      <4> QED BY <1>9, <2>1, <3>1, <3>2, <4>1, <4>2, Zenon DEF OwnerInv
    <3>4. CASE m.kind \in {"Cancel", "ConfirmReady", "Activate"}
      <4>1. /\ sys.owners[d].phase = IF m.kind = "Activate" THEN "READY" ELSE "PREPARED"
            /\ m.generation = sys.owners[d].generation
        BY <2>5, <3>1, <3>4, Zenon DEF SourceAccepts
      <4>2. /\ OwnerAfter(m).last = m.id /\ OwnerAfter(m).workflow = sys.owners[d].workflow
            /\ OwnerAfter(m).generation = sys.owners[d].generation
            /\ OwnerAfter(m).phase = CASE m.kind = "Cancel" -> "CANCELLED"
                                        [] m.kind = "ConfirmReady" -> "READY"
                                        [] m.kind = "Activate" -> "ACTIVE"
        <5>1. CASE m.kind = "Cancel"
          BY <2>5, <3>1, <5>1, Zenon DEF OwnerAfter, Owners
        <5>2. CASE m.kind = "ConfirmReady"
          BY <2>5, <3>1, <5>2, Zenon DEF OwnerAfter, Owners
        <5>3. CASE m.kind = "Activate"
          BY <2>5, <3>1, <5>3, Zenon DEF OwnerAfter, Owners
        <5> QED BY <3>4, <5>1, <5>2, <5>3, Zenon
      <4>3. [workflow |-> OwnerAfter(m).workflow, generation |-> OwnerAfter(m).generation] \in sys'.reserved[d]
        BY <2>0, <2>3, <4>1, <4>2, Zenon DEF OwnerInv
      <4>4. m.kind # "Cancel" => OwnerAfter(m).generation \in sys'.bound[d]
        BY <1>3, <1>6, <2>0, <2>5, <3>4, <4>1, <4>2, Zenon DEF OwnerInv, CommandInv
      <4>5. OwnerAfter(m).phase \in {"READY", "ACTIVE"} => m.kind # "Cancel"
        BY <3>4, <4>2, Zenon
      <4> QED BY <1>9, <2>1, <3>1, <3>2, <4>2, <4>3, <4>4, <4>5, Zenon DEF OwnerInv
    <3>5. CASE m.kind = "ReplaceGrants"
      <4>1. OwnerAfter(m) = sys.owners[d]
        BY <2>5, <3>5, Zenon DEF OwnerAfter
      <4> QED BY <1>9, <2>0, <2>1, <2>3, <3>1, <4>1, OwnersStay, Zenon
    <3> QED BY <1>4, <3>3, <3>4, <3>5, Zenon DEF SourceKinds
  <2> QED BY <2>4, <2>5, Zenon
<1> QED BY <1>6, <1>9, <1>10, <1>11, Executed, Zenon

(* The import row that a terminal command leaves.                           *)
LEMMA Ended ==
  ASSUME NEW m \in Commands, ImportOf(m) \in Rows, m.kind \in TerminalKinds
  PROVE  /\ ImportAfter(m) \in Rows
         /\ ImportAfter(m).by = ImportOf(m).by /\ ImportAfter(m).reserved = 0
         /\ ImportAfter(m).terminal = m.id
         /\ m.kind = "Commit" => ImportAfter(m).phase = "COMMITTED"
         /\ m.kind = "Abort" => ImportAfter(m).phase = "ABORTED"
         /\ m.kind = "Recover" => ImportAfter(m).phase = "RECOVERED"
<1>1. m.id \in Nat /\ 0 \in Int /\ {} \in SUBSET (1 .. ChunkCount)
  BY DEF Commands
<1>2. CASE m.kind = "Commit"
  <2>1. ImportAfter(m) = [ImportOf(m) EXCEPT !.phase = "COMMITTED", !.reserved = 0, !.staged = {}, !.terminal = m.id]
    BY <1>2, Zenon DEF ImportAfter
  <2> QED BY <1>1, <1>2, <2>1, Zenon DEF Rows
<1>3. CASE m.kind = "Abort"
  <2>1. ImportAfter(m) = [ImportOf(m) EXCEPT !.phase = "ABORTED", !.reserved = 0, !.staged = {}, !.terminal = m.id]
    BY <1>3, Zenon DEF ImportAfter
  <2> QED BY <1>1, <1>3, <2>1, Zenon DEF Rows
<1>4. CASE m.kind = "Recover"
  <2>1. ImportAfter(m) = [ImportOf(m) EXCEPT !.phase = "RECOVERED", !.reserved = 0, !.staged = {}, !.terminal = m.id]
    BY <1>4, Zenon DEF ImportAfter
  <2> QED BY <1>1, <1>4, <2>1, Zenon DEF Rows
<1> QED BY <1>2, <1>3, <1>4, Zenon DEF TerminalKinds

(* The import row a command leaves, and what it reserves.                   *)
LEMMA RowTyped ==
  ASSUME sys \in AuthorityStates, NEW m \in Commands, CommandInv(m), m.kind \in ImportKinds
  PROVE  /\ ImportOf(m) \in Rows /\ ImportAfter(m) \in Rows
         /\ Reserves(m) \in Int /\ Stages(m) \in Int
<1>1. m.collection \in Collections /\ m.workflow \in SourceWorkflows /\ m.by \in Principals /\ m.id \in Nat
  BY Zenon DEF CommandInv, Commands
<1>2. ImportOf(m) \in Rows
  BY <1>1, Fields, Zenon DEF ImportMaps, ImportOf
<1>3. ChunkCount \in Int /\ ChunkCount + TerminalReserve \in Int
  BY AuthorityAssumption DEF TerminalReserve
<1>4. ImportAfter(m) \in Rows
  <2>1. CASE m.kind = "Begin"
    BY <1>1, <1>3, <2>1, Zenon DEF ImportAfter, Rows
  <2>2. CASE m.kind = "Chunk"
    <3>1. m.arg \in 1 .. ChunkCount
      BY <2>2, Zenon DEF CommandInv, Arguments
    <3>2. ImportOf(m).staged \cup {m.arg} \in SUBSET (1 .. ChunkCount)
      BY <1>2, <3>1, Zenon DEF Rows
    <3>3. (IF ImportOf(m).reserved = 0 THEN 0 ELSE ImportOf(m).reserved - 1) \in Int
      BY <1>2 DEF Rows
    <3> QED BY <1>2, <2>2, <3>2, <3>3, Zenon DEF ImportAfter, Rows
  <2>3. CASE m.kind = "Commit"
    BY <1>1, <1>2, <2>3, Ended, Zenon DEF TerminalKinds
  <2>4. CASE m.kind = "Abort"
    BY <1>1, <1>2, <2>4, Ended, Zenon DEF TerminalKinds
  <2>5. CASE m.kind = "Recover"
    BY <1>1, <1>2, <2>5, Ended, Zenon DEF TerminalKinds
  <2> QED BY <2>1, <2>2, <2>3, <2>4, <2>5, Zenon DEF ImportKinds
<1>5. Own(m) \in Int
  BY <1>2 DEF Own, Rows
<1>6. Reserves(m) \in Int
  <2>1. Min({1, Own(m)}) \in Int
    <3>1. PICK x \in {1, Own(m)} : \A y \in {1, Own(m)} : x =< y
      BY <1>5
    <3>2. Min({1, Own(m)}) \in {1, Own(m)}
      BY <3>1, Zenon DEF Min
    <3> QED BY <1>5, <3>2
  <2> QED BY <1>3, <1>5, <2>1 DEF Reserves
<1>7. Stages(m) \in Int
  <2>1. IsFiniteSet(ImportOf(m).staged)
    <3>1. ImportOf(m).staged \in SUBSET (1 .. ChunkCount)
      BY <1>2, Zenon DEF Rows
    <3>2. IsFiniteSet(1 .. ChunkCount)
      BY <1>3, FS_Interval
    <3> QED BY <3>1, <3>2, FS_Subset, Zenon
  <2>2. Cardinality(ImportOf(m).staged) \in Nat
    BY <2>1, FS_CardinalityType, Zenon
  <2> QED BY <2>2 DEF Stages
<1> QED BY <1>2, <1>4, <1>6, <1>7, Zenon

(* import_locked: the import row, the applied set and the header.           *)
LEMMA ImportKeeps ==
  ASSUME AuthorityInv, ExecuteImport
  PROVE  AuthorityInv'
<1>1. PICK m \in sys.inFlight :
        LET c == m.collection
            accepted == ImportAccepts(m)
        IN /\ Executes(m, ImportKinds)
           /\ ~IsRetry(m) /\ Remaining(m) > 0
           /\ sys' = [sys EXCEPT
                !.inFlight = @ \ {m},
                !.decisions = Retain(m, accepted),
                !.told = @ \cup {Answer(m.id, Decision(m, accepted))},
                !.header = HeaderAfter(m, accepted),
                !.imports[c][m.workflow] = IF accepted THEN ImportAfter(m) ELSE @,
                !.applied = IF accepted /\ m.kind = "Commit" THEN @ \cup {c} ELSE @,
                !.revision = IF accepted THEN @ + 1 ELSE @]
  BY Zenon DEF ExecuteImport
<1> DEFINE c == m.collection
           w == m.workflow
           accepted == ImportAccepts(m)
           row == IF accepted THEN ImportAfter(m) ELSE sys.imports[c][w]
           header == HeaderAfter(m, accepted)
           t == sys.told \cup {Answer(m.id, Decision(m, accepted))}
           i == sys.inFlight \ {m}
           e == Retain(m, accepted)
           r == [sys.imports EXCEPT ![c][w] = row]
           a == IF accepted /\ m.kind = "Commit" THEN sys.applied \cup {c} ELSE sys.applied
           v == IF accepted THEN sys.revision + 1 ELSE sys.revision
<1>2. accepted \in BOOLEAN /\ (accepted => m.revision = sys.revision)
  BY Zenon DEF ImportAccepts, Fresh
<1>3. sys \in AuthorityStates /\ m \in Commands /\ sys.header \in Headers /\ CommandInv(m)
  BY InFlight, Fields, Zenon DEF AuthorityInv
<1>4. m.kind \in ImportKinds /\ m.id \notin DOMAIN sys.decisions
  BY <1>1, Zenon DEF Executes, IsRetry
<1>b. c \in Collections /\ w \in SourceWorkflows
  BY <1>3, <1>4, Zenon DEF CommandInv, Commands
<1>5. sys' = [sys EXCEPT !.inFlight = i, !.decisions = e, !.told = t, !.header = header,
                         !.imports = r, !.applied = a, !.revision = v]
  <2>1. sys' = [sys EXCEPT
                !.inFlight = sys.inFlight \ {m},
                !.decisions = Retain(m, accepted),
                !.told = sys.told \cup {Answer(m.id, Decision(m, accepted))},
                !.header = HeaderAfter(m, accepted),
                !.imports[c][m.workflow] = IF accepted THEN ImportAfter(m) ELSE sys.imports[c][w],
                !.applied = IF accepted /\ m.kind = "Commit" THEN sys.applied \cup {c} ELSE sys.applied,
                !.revision = IF accepted THEN sys.revision + 1 ELSE sys.revision]
    BY <1>1, <1>3, Zenon
  <2> QED BY <2>1
<1>6. header \in Headers /\ row \in Rows /\ v \in Nat /\ a \in CollectionSets
  <2>1. sys.header.source \in Nat /\ sys.header.import + 1 \in Nat /\ sys.header.configure \in Nat
        /\ (IF accepted THEN sys.header.reservedDecisions + Reserves(m) ELSE sys.header.reservedDecisions) \in Int
        /\ (IF accepted THEN sys.header.stagedChunks + Stages(m) ELSE sys.header.stagedChunks) \in Int
    BY <1>2, <1>3, <1>4, RowTyped DEF Headers
  <2>2. header \in Headers
    BY <1>3, <2>1, Zenon DEF Headers, HeaderAfter
  <2>3. row \in Rows
    BY <1>2, <1>3, <1>4, RowTyped, Zenon DEF ImportOf
  <2>4. v \in Nat /\ a \in CollectionSets
    BY <1>2, <1>3, <1>b, Fields DEF CollectionSets
  <2> QED BY <2>2, <2>3, <2>4, Zenon
<1>7. /\ r \in ImportMaps
      /\ r[c][w] = row
      /\ \A d \in Collections : d # c => r[d] = sys.imports[d]
      /\ \A x \in SourceWorkflows : x # w => r[c][x] = sys.imports[c][x]
      /\ row = sys.imports[c][w] => r[c] = sys.imports[c]
  <2>1. sys.imports \in [Collections -> [SourceWorkflows -> Rows]]
    BY <1>3, Fields, Zenon DEF ImportMaps
  <2>2. row \in Rows
    BY <1>6, Zenon
  <2> HIDE DEF row, c, w
  <2> QED BY <1>b, <2>1, <2>2, Zenon DEF ImportMaps
<1>8. /\ sys'.decisions = e /\ sys'.told = t /\ sys'.header = header /\ sys'.imports = r
      /\ sys'.applied = a /\ sys'.revision = v /\ sys'.inFlight = i
      /\ sys'.owners = sys.owners /\ sys'.reserved = sys.reserved /\ sys'.bound = sys.bound
  <2> HIDE DEF e, t, header, r, a, v, i
  <2> QED BY <1>3, <1>5, Zenon DEF AuthorityStates
<1>9. /\ DecisionsInv' /\ Grows
      /\ m.id \in DOMAIN sys'.decisions /\ sys'.decisions[m.id] = Decision(m, accepted)
      /\ sys'.decisions \in Histories /\ sys'.revision \in Nat
      /\ Answer(m.id, Decision(m, accepted)) \in [id : Nat, accepted : BOOLEAN, revision : Nat]
  <2>1. /\ header.source = sys.header.source /\ header.import = sys.header.import + 1
        /\ header.configure = sys.header.configure
    BY <1>3, Zenon DEF Headers, HeaderAfter
  <2>2. m.kind \notin SourceKinds /\ m.kind # "Configure"
    BY <1>4, Zenon DEF ImportKinds, SourceKinds
  <2>3. sys.revision \in Nat /\ sys.decisions \in Histories /\ DecisionsInv
    BY Fields, Zenon DEF AuthorityInv
  <2> HIDE DEF header, accepted
  <2> QED BY <1>2, <1>3, <1>4, <1>8, <2>1, <2>2, <2>3, Recorded, Zenon
<1>10. sys' \in AuthorityStates
  <2>1. t \in AnswerSets /\ i \in CommandSets /\ e \in Histories
    BY <1>3, <1>8, <1>9, Fields, Zenon DEF AnswerSets, CommandSets
  <2> HIDE DEF e, t, header, r, a, v, i
  <2> QED BY <1>3, <1>5, <1>6, <1>7, <2>1, Zenon DEF AuthorityStates
<1> HIDE DEF e, t, i, header, v, r
<1>11. \A d \in Collections : OwnerInv(d)'
  BY <1>8, <1>9, OwnersStay, Zenon DEF AuthorityInv
<1>12. ASSUME NEW d \in Collections, d # c PROVE ImportsInv(d)'
  <2>1. sys'.imports[d] = sys.imports[d] /\ (d \in sys'.applied <=> d \in sys.applied)
    BY <1>7, <1>8, <1>12, Zenon
  <2> QED BY <1>9, <2>1, ImportsStay, Zenon DEF AuthorityInv
<1>13. ImportsInv(c)'
  <2>1. CASE ~accepted
    <3>1. sys'.imports[c] = sys.imports[c] /\ sys'.applied = sys.applied
      <4>1. sys.imports \in [Collections -> [SourceWorkflows -> Rows]] /\ row = sys.imports[c][w]
        BY <1>3, <2>1, Fields, Zenon DEF ImportMaps
      <4> HIDE DEF row, c, w
      <4> QED BY <1>7, <1>8, <2>1, <4>1, Zenon
    <3> QED BY <1>b, <1>9, <3>1, ImportsStay, Zenon DEF AuthorityInv
  <2>2. CASE accepted
    <3>0. PICK after : after = ImportAfter(m)
      BY Zenon
    <3>1. /\ ImportsInv(c) /\ ImportOf(m) = sys.imports[c][w] /\ ImportOf(m) \in Rows
          /\ sys'.imports[c][w] = after
          /\ \A x \in SourceWorkflows : x # w => sys'.imports[c][x] = sys.imports[c][x]
          /\ sys'.applied = IF m.kind = "Commit" THEN sys.applied \cup {c} ELSE sys.applied
      <4>1. ImportsInv(c)
        BY <1>b, Zenon DEF AuthorityInv
      <4>2. ImportOf(m) = sys.imports[c][w]
        BY Zenon DEF ImportOf
      <4>3. ImportOf(m) \in Rows
        BY <1>3, <1>4, RowTyped, Zenon
      <4>4. row = after
        BY <2>2, <3>0, Zenon
      <4>5. sys'.applied = IF m.kind = "Commit" THEN sys.applied \cup {c} ELSE sys.applied
        BY <1>8, <2>2, Zenon
      <4> HIDE DEF row, c, w
      <4>6. sys'.imports[c][w] = after
        BY <1>7, <1>8, <4>4, Zenon
      <4>7. \A x \in SourceWorkflows : x # w => sys'.imports[c][x] = sys.imports[c][x]
        BY <1>7, <1>8, Zenon
      <4> QED BY <4>1, <4>2, <4>3, <4>5, <4>6, <4>7, Zenon
    <3>2. CASE m.kind = "Begin" \/ m.kind = "Chunk"
      <4>1. after.phase = "STAGING" /\ m.kind # "Commit" /\ ImportOf(m).phase # "COMMITTED"
            /\ \A x \in SourceWorkflows : x # w => sys.imports[c][x].phase # "STAGING"
        <5>1. CASE m.kind = "Begin"
          BY <2>2, <3>0, <5>1, Zenon DEF ImportAccepts, ImportAfter
        <5>2. CASE m.kind = "Chunk"
          <6>1. ImportOf(m).phase = "STAGING"
            BY <2>2, <5>2, Zenon DEF ImportAccepts, Staging
          <6>2. after.phase = "STAGING"
            BY <3>0, <3>1, <5>2, <6>1, Zenon DEF ImportAfter, Rows
          <6> QED BY <1>b, <3>1, <5>2, <6>1, <6>2 DEF ImportsInv, Once
        <5> QED BY <3>2, <5>1, <5>2, Zenon
      <4>2. RowInv(after)'
        BY <4>1, Zenon DEF RowInv, EndsAs
      <4> QED BY <1>b, <1>9, <3>1, <4>1, <4>2, ImportsMove, Zenon
    <3>3. CASE m.kind \in TerminalKinds
      <4>1. /\ after.by = ImportOf(m).by /\ after.reserved = 0 /\ after.terminal = m.id
            /\ m.kind = "Commit" => after.phase = "COMMITTED"
            /\ m.kind = "Abort" => after.phase = "ABORTED"
            /\ m.kind = "Recover" => after.phase = "RECOVERED"
        BY <1>3, <3>0, <3>1, <3>3, Ended, Zenon
      <4>2. /\ ImportOf(m).phase = "STAGING" /\ (m.kind # "Recover" => ImportOf(m).by = m.by)
            /\ (m.kind = "Commit" => c \notin sys.applied)
        BY <2>2, <3>3, Zenon DEF ImportAccepts, Staging, TerminalKinds
      <4>3. RowInv(after)'
        <5>1. /\ sys'.decisions[m.id].accepted /\ sys'.decisions[m.id].kind = m.kind
              /\ sys'.decisions[m.id].by = m.by /\ m.id \in DOMAIN sys'.decisions
          BY <1>9, <2>2 DEF Decision
        <5> QED BY <3>3, <4>1, <4>2, <5>1, Zenon DEF RowInv, EndsAs, TerminalKinds
      <4>4. after.phase # "STAGING" /\ (after.phase = "COMMITTED" <=> m.kind = "Commit")
        BY <3>3, <4>1, Zenon DEF TerminalKinds
      <4> QED BY <1>b, <1>9, <3>1, <4>2, <4>3, <4>4, ImportsMove, Zenon
    <3> QED BY <1>4, <3>2, <3>3, Zenon DEF ImportKinds, TerminalKinds
  <2> QED BY <2>1, <2>2, Zenon
<1>14. \A d \in Collections : OwnerInv(d)' /\ ImportsInv(d)'
  BY <1>11, <1>12, <1>13, Zenon
<1> QED BY <1>8, <1>9, <1>10, <1>14, Executed, Zenon DEF i

(* Every step of the authority keeps the invariant.                         *)
LEMMA AuthorityStep == AuthorityInv /\ [AuthorityNext]_sys => AuthorityInv'
<1> SUFFICES ASSUME AuthorityInv, [AuthorityNext]_sys PROVE AuthorityInv'
  BY Zenon
<1>1. ASSUME NEW c \in Collections, BindPreparedOwner(c) PROVE AuthorityInv'
  BY <1>1, BindKeeps, Zenon
<1>2. ASSUME NEW by \in Principals, NEW c \in Collections,
             NEW kind \in SourceKinds \cup ImportKinds \cup {"Configure"}, Propose(by, c, kind)
      PROVE  AuthorityInv'
  BY <1>2, ProposeKeeps, Zenon DEF AllKinds
<1>3. CASE ProposeAgain
  BY <1>3, ProposeAgainKeeps, Zenon
<1>4. CASE Unauthorized \/ Retry \/ CapacityFull \/ ReservationExceedsAccounting \/ ImportFull
  BY <1>4, AnswersKeep, Zenon
<1>5. CASE ExecuteSource
  BY <1>5, SourceKeeps, Zenon
<1>6. CASE ExecuteConfigure
  BY <1>6, ConfigureKeeps, Zenon
<1>7. CASE ExecuteImport
  BY <1>7, ImportKeeps, Zenon
<1>8. CASE UNCHANGED sys
  BY <1>8, Answers, Zenon DEF AuthorityInv
<1> QED BY <1>1, <1>2, <1>3, <1>4, <1>5, <1>6, <1>7, <1>8, Zenon DEF AuthorityNext

(* For every number of commands, collections and principals: a command that *)
(* is proposed twice is answered the same both times, whatever was executed *)
(* in between, and an owner is READY or ACTIVE only when a node bound its   *)
(* catalog to that very preparation (execute_locked, import_locked,         *)
(* configure_locked).                                                       *)
THEOREM DecisionsStand == AuthoritySpec => []DecisionsHold
<1>1. AuthorityInv => DecisionsHold
  <2> SUFFICES ASSUME AuthorityInv PROVE DecisionsHold
    BY Zenon
  <2>1. \A a, b \in sys.told : a.id = b.id => a = b
    BY Zenon DEF AuthorityInv, DecisionsInv
  <2> QED BY <2>1, Zenon DEF AuthorityInv, OwnerInv, DecisionsHold
<1> QED BY <1>1, AuthorityInitially, AuthorityStep, PTL DEF AuthoritySpec

\* What recovery::validate checks row by row; the sums of AuditReservations are left.
RowsAudited ==
  At("authority") => AuditHeader /\ AuditDecisions /\ AuditOwners /\ AuditWorkflows /\ AuditApplied

(* For the same instances: a reopened authority finds its header, its       *)
(* decisions, its ownership and import rows and its applied set as          *)
(* recovery::validate wants them.                                           *)
THEOREM AuditsAccept == AuthoritySpec => []RowsAudited
<1>1. AuthorityInv => RowsAudited
  <2> SUFFICES ASSUME AuthorityInv PROVE RowsAudited
    BY Zenon
  <2>1. AuditHeader /\ AuditDecisions
    BY Zenon DEF AuthorityInv, DecisionsInv
  <2>2. AuditOwners
    BY Zenon DEF AuthorityInv, OwnerInv, AuditOwners
  <2>3. \A phase : \A cw \in ImportsIn(phase) :
          /\ cw[1] \in Collections /\ cw[2] \in SourceWorkflows /\ cw = <<cw[1], cw[2]>>
          /\ ImportRow(cw) = sys.imports[cw[1]][cw[2]] /\ ImportRow(cw).phase = phase
          /\ RowInv(ImportRow(cw))
    BY DEF ImportsIn, ImportRow, AuthorityInv, ImportsInv
  <2>4. AuditWorkflows
    <3>1. ASSUME NEW phase \in {"STAGING", "COMMITTED"}, NEW x \in ImportsIn(phase), NEW y \in ImportsIn(phase),
                 x[1] = y[1]
          PROVE  x = y
      <4>1. x[2] = y[2]
        BY <2>3, <3>1 DEF AuthorityInv, ImportsInv, Once
      <4> QED BY <2>3, <3>1, <4>1
    <3>2. ASSUME NEW phase \in DOMAIN EndedBy, NEW cw \in ImportsIn(phase)
          PROVE  /\ ImportRow(cw).reserved = 0
                 /\ sys.decisions[ImportRow(cw).terminal].accepted
                 /\ sys.decisions[ImportRow(cw).terminal].kind = EndedBy[phase]
                 /\ phase # "RECOVERED" => sys.decisions[ImportRow(cw).terminal].by = ImportRow(cw).by
      <4>1. RowInv(ImportRow(cw)) /\ ImportRow(cw).phase = phase
        BY <2>3, <3>2, Zenon
      <4>2. phase \in {"COMMITTED", "ABORTED", "RECOVERED"} /\ EndedBy["COMMITTED"] = "Commit"
            /\ EndedBy["ABORTED"] = "Abort" /\ EndedBy["RECOVERED"] = "Recover"
        BY <3>2, Zenon DEF EndedBy
      <4> QED BY <4>1, <4>2, Zenon DEF RowInv, EndsAs
    <3> QED BY <3>1, <3>2 DEF AuditWorkflows
  <2>5. AuditApplied
    <3>1. ASSUME NEW c \in sys.applied PROVE c \in {cw[1] : cw \in ImportsIn("COMMITTED")}
      <4>1. c \in Collections
        BY Fields, Zenon DEF AuthorityInv, CollectionSets
      <4>2. PICK w \in SourceWorkflows : sys.imports[c][w].phase = "COMMITTED"
        BY <4>1, Zenon DEF AuthorityInv, ImportsInv
      <4>3. <<c, w>> \in ImportsIn("COMMITTED") /\ <<c, w>>[1] = c
        BY <4>1, <4>2, Zenon DEF ImportsIn, ImportRow
      <4> QED BY <4>3, Zenon
    <3>2. ASSUME NEW cw \in ImportsIn("COMMITTED") PROVE cw[1] \in sys.applied
      BY <2>3 DEF AuthorityInv, ImportsInv
    <3> QED BY <3>1, <3>2, Zenon DEF AuditApplied
  <2> QED BY <2>1, <2>2, <2>4, <2>5, Zenon DEF RowsAudited
<1> QED BY <1>1, AuthorityInitially, AuthorityStep, PTL DEF AuthoritySpec
============================================================================
