--------------------------- MODULE CapacityStore ---------------------------
(* Capacity observations as committed state.  Nodes register a process      *)
(* incarnation and report one figure per cohort window; reports are         *)
(* delayed, repeated and overtaken by restarts.  Every transition rebuilds  *)
(* the observation store from the retained rows, applies one step to it and *)
(* writes the rows back in one transaction.                                 *)
EXTENDS Integers, FiniteSets, SystemState
CONSTANTS Reporters,        \* nodes holding a committed copy of the partition
          MaxIncarnation,   \* bound: times a node's process starts
          MaxWindow,        \* bound: cohort windows that close
          MaxEpoch,         \* bound: observation epochs
          Configurations    \* what an administrator may configure

ASSUME CapacityAssumption ==
  /\ IsFiniteSet(Reporters)
  /\ \A configuration \in Configurations :
       /\ configuration.records \in Nat /\ configuration.reporters \in Nat
       /\ configuration.bytes \in Nat

CapacityInit == \E configuration \in Configurations :
  sys = [part |-> "capacity", configuration |-> configuration,
         process |-> [n \in Reporters |-> 1],      \* the incarnation now running
         registered |-> [n \in Reporters |-> 0],   \* the incarnation registered
         rows |-> {}, epoch |-> 0,
         seen |-> {[epoch |-> 0, rows |-> {}]},    \* the rows every epoch stood for
         closed |-> FALSE]

ObsKey(row) == [node |-> row.node, incarnation |-> row.incarnation]
CapacityRegistered(registered) == {n \in Reporters : registered[n] # 0}

(* Bound by window length and phase: cohort_length_ms, cohort_phase_unix_ms.*)
RowLands(row, registered, configuration) ==
  /\ row.cohort = configuration.cohort
  /\ row.incarnation = registered[row.node]

WithinRecords(rows, registered, configuration) ==
  /\ Cardinality(rows) <= configuration.records
  /\ Cardinality(CapacityRegistered(registered)) <= configuration.reporters

(* Every record retains the same number of bytes here: one. *)
WithinBytes(rows, configuration) == Cardinality(rows) <= configuration.bytes

(* The retained rows land again, one by one, in a store of this             *)
(* configuration; otherwise they are reported corrupt.                      *)
rebuild(rows, registered, configuration) ==
  /\ WithinRecords(rows, registered, configuration) /\ WithinBytes(rows, configuration)
  /\ \A row \in rows : RowLands(row, registered, configuration)

(* transition_locked: the outcome is committed with the next epoch when the *)
(* rows moved, and a store that cannot be rebuilt is corrupt and closes.    *)
Transition(registered, rows) ==
  LET epoch == IF rows = sys.rows THEN sys.epoch ELSE sys.epoch + 1
  IN /\ epoch <= MaxEpoch
     /\ sys' = IF rebuild(sys.rows, sys.registered, sys.configuration)
               THEN [sys EXCEPT !.registered = registered, !.rows = rows, !.epoch = epoch,
                                !.seen = @ \cup {[epoch |-> epoch, rows |-> rows]}]
               ELSE [sys EXCEPT !.closed = TRUE]

(* A node restarts and is another process from now on. *)
ReporterRestarts(n) ==
  /\ At("capacity") /\ ~sys.closed /\ sys.process[n] < MaxIncarnation
  /\ sys' = [sys EXCEPT !.process[n] = @ + 1]

(* The rows of a registration that also keeps the node's older rows. *)
register_Keeping(n, incarnation) == sys.rows

(* The rows of an older incarnation go with the registration of a new one.  *)
register_incarnation(n, incarnation) ==
  {row \in sys.rows : row.node # n \/ row.incarnation = incarnation}

(* Register: of any incarnation that ever ran, however late. *)
RegisterReporter(n) ==
  /\ At("capacity") /\ ~sys.closed
  /\ \E incarnation \in 1 .. sys.process[n] :
       LET registered == [sys.registered EXCEPT ![n] = incarnation]
       IN /\ sys.registered[n] = 0 => Cardinality(CapacityRegistered(sys.registered))
                                        < sys.configuration.reporters
          /\ Transition(registered, register_incarnation(n, incarnation))

(* ingest: a report of another cohort or of a superseded incarnation is     *)
(* refused; the newest window of a key is kept, a repeat changes nothing    *)
(* and a conflicting repeat is refused.                                     *)
ingest(report) ==
  LET held == {row \in sys.rows : ObsKey(row) = ObsKey(report)}
      lands == /\ RowLands(report, sys.registered, sys.configuration)
               /\ \A row \in held : report.window > row.window
               /\ held = {} => Cardinality(sys.rows) < sys.configuration.records
               /\ Cardinality(sys.rows \ held) + 1 <= sys.configuration.bytes
  IN IF lands THEN (sys.rows \ held) \cup {report} ELSE sys.rows

(* Report: of any process that ever ran and any window, since a report may  *)
(* be delayed and repeated at will; the cohort is the one its sender knew.  *)
IngestReport(n, window, cohort, payload) ==
  /\ At("capacity") /\ ~sys.closed
  /\ \E incarnation \in 1 .. sys.process[n] :
       Transition(sys.registered,
         ingest([node |-> n, incarnation |-> incarnation, window |-> window, cohort |-> cohort,
                 payload |-> payload]))

(* Expire { now, max_age }: the rows whose window ended before the bound.   *)
ExpireRows(oldest) ==
  /\ At("capacity") /\ ~sys.closed
  /\ Transition(sys.registered, {row \in sys.rows : row.window >= oldest})

(* configure_locked: the cohort stays while rows are retained, and the      *)
(* bounds on records and reporters stay above what is held.                 *)
ConfigurationAccepted(configuration) ==
  /\ sys.rows # {} => configuration.cohort = sys.configuration.cohort
  /\ WithinRecords(sys.rows, sys.registered, configuration)

ConfigureCapacity(configuration) ==
  /\ At("capacity") /\ ~sys.closed /\ ConfigurationAccepted(configuration)
  /\ sys' = [sys EXCEPT !.configuration = configuration]

CapacityNext ==
  \/ \E n \in Reporters : ReporterRestarts(n) \/ RegisterReporter(n)
  \/ \E n \in Reporters, window \in 1 .. MaxWindow, cohort \in {1, 2}, payload \in {1, 2} :
       IngestReport(n, window, cohort, payload)
  \/ \E oldest \in 2 .. MaxWindow + 1 : ExpireRows(oldest)
  \/ \E configuration \in Configurations : ConfigureCapacity(configuration)

----------------------------------------------------------------------------
(* Properties *)

CapacityTypeOK ==
  /\ \A n \in Reporters : sys.registered[n] <= sys.process[n]
  /\ sys.configuration \in Configurations /\ sys.closed \in BOOLEAN
  /\ Cardinality({ObsKey(row) : row \in sys.rows}) = Cardinality(sys.rows)

(* An observation epoch names one set of rows, for good: a plan made under  *)
(* an epoch (TierSnapshotInput.observation_epoch) is about the rows of that *)
(* epoch, whatever was registered, reported or expired since.  And the rows *)
(* retained are those of the incarnations registered now and of the         *)
(* configured cohort, within the configured number of records and           *)
(* reporters: a delayed report of an earlier process never stays, and no    *)
(* configuration makes the retained rows foreign.                           *)
ObservationsAreCurrent ==
  At("capacity") =>
    /\ \A a, b \in sys.seen : a.epoch = b.epoch => a.rows = b.rows
    /\ WithinRecords(sys.rows, sys.registered, sys.configuration)
    /\ \A row \in sys.rows : RowLands(row, sys.registered, sys.configuration)

============================================================================
