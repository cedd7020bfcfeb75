----------------------------- MODULE RaftStore -----------------------------
(* One member's durable Raft state: the log store, the authority store the  *)
(* state machine applies to, and the published snapshot generation.  The    *)
(* consensus library drives them; it is external, and is modelled by the    *)
(* calls it makes and by what it believes the log holds.  A purge for an    *)
(* incoming snapshot comes before the install, so the log bounds it by what *)
(* the store applied and records the rest as deferred.                      *)
EXTENDS Integers, FiniteSets, FiniteSetsExt, SystemState
CONSTANTS LastIndex,   \* bound: the highest log index
          MaxRestarts  \* bound: restarts of the member

ASSUME RaftAssumption == LastIndex \in Nat

Indexes == 0 .. LastIndex
None == -1

RaftInit ==
  sys = [part |-> "raft",
         entries |-> {}, stale |-> {},          \* stale: of a term that never committed them
         purged |-> None, deferred |-> None,
         applied |-> None,                      \* the store's position
         pointer |-> None,                      \* the published generation's position
         up |-> TRUE, requested |-> None,       \* of this run
         libPurged |-> None, libLast |-> None,
         installing |-> None, stage |-> "none",
         refused |-> "none", restarts |-> 0]

Later(a, b) == IF a > b THEN a ELSE b

(* A refusal is a storage error, which stops the library's core. *)
Stops(state, why) == [state EXCEPT !.refused = why, !.up = FALSE]

----------------------------------------------------------------------------
(* The log store *)

(* Entries, purge point and deferred record move in one transaction. *)
purge_locked(state, upto, deferred) ==
  [state EXCEPT !.entries = {i \in @ : i > upto}, !.stale = {i \in @ : i > upto},
                !.purged = upto, !.deferred = deferred]

(* The record of a purge the store has not reached. *)
RecordDeferred(state, at) == [state EXCEPT !.deferred = Later(@, at)]

purge_Unbounded(state, at) ==
  purge_locked([state EXCEPT !.requested = Later(@, at)], at, None)

(* RaftLogStore::purge *)
purge(state, at) ==
  LET upto == IF state.applied >= at THEN at ELSE state.applied
      asked == [state EXCEPT !.requested = Later(@, at)]
  IN CASE upto # None /\ upto < state.purged -> Stops(state, "below the purge point")
       [] upto = at -> purge_locked(asked, upto, IF state.deferred > upto THEN state.deferred ELSE None)
       [] upto = None -> RecordDeferred(asked, at)
       [] OTHER -> purge_locked(asked, upto, Later(state.deferred, at))

(* The completion a settle may make: its target, and the record it keeps. *)
Completion(state, start) ==
  CASE state.deferred # None /\ state.applied >= state.deferred -> <<state.deferred, None>>
    [] state.deferred # None /\ state.applied < state.deferred ->
         <<IF start THEN state.applied ELSE None, state.deferred>>
    [] OTHER -> <<IF state.entries = {} THEN state.applied ELSE None, None>>

GapAfterPurge(state) == state.entries # {} /\ Min(state.entries) # state.purged + 1

(* The completion of a deferred purge: at start, or as far as the library   *)
(* asked in this run.                                                       *)
Settled(state, start) ==
  LET target == Completion(state, start)[1]
      keep == Completion(state, start)[2]
  IN CASE target = None -> state
       [] target # None /\ state.purged >= target ->
            IF keep = None THEN [state EXCEPT !.deferred = None] ELSE state
       [] OTHER -> IF start \/ state.requested >= target
                   THEN purge_locked(state, target, keep) ELSE state

(* settle_locked: at start before the library reads the log, or at an       *)
(* append.  A gap after the purge point is refused.                         *)
settle_locked(state, start) ==
  LET settled == Settled(state, start)
  IN IF state.applied = None THEN state
     ELSE IF GapAfterPurge(settled) THEN Stops(settled, IF start THEN "start" ELSE "hole") ELSE settled

(* append_sync: the next index after the last entry, or after the purge.    *)
append_sync(state, i, old) ==
  LET ready == settle_locked(state, FALSE)
      expected == IF ready.entries # {} THEN Max(ready.entries) + 1
                  ELSE IF ready.purged # None THEN ready.purged + 1 ELSE i
  IN IF ready.refused # "none" THEN ready
     ELSE IF expected # i THEN Stops(ready, "hole")
     ELSE [ready EXCEPT !.entries = @ \cup {i}, !.libLast = i,
                        !.stale = IF old THEN @ \cup {i} ELSE @]

truncate_sync(state, i) ==
  IF state.deferred # None /\ i <= state.deferred THEN Stops(state, "truncate")
  ELSE [state EXCEPT !.entries = {j \in @ : j < i}, !.stale = {j \in @ : j < i}, !.libLast = i - 1]

----------------------------------------------------------------------------
(* What the library asks *)

Up == At("raft") /\ sys.up /\ sys.refused = "none"

(* Stale entries the library still counts as its log. *)
Conflicting == {i \in sys.stale : i > sys.libPurged}

(* A leader, perhaps an old one, sends the next entry.  It is sent past a   *)
(* snapshot only once the install was answered.                             *)
AppendEntry(old) ==
  /\ Up /\ sys.installing = None /\ sys.libLast < LastIndex
  /\ Conflicting # {} => old
  /\ sys' = append_sync(sys, sys.libLast + 1, old)

(* A later leader's entries conflict with the stale ones. *)
TruncateStale ==
  /\ Up /\ sys.installing = None /\ Conflicting # {}
  /\ sys' = truncate_sync(sys, Min(Conflicting))

(* RaftStateMachine::apply: the position is committed with the command.     *)
ApplyEntry ==
  /\ Up /\ sys.installing = None
  /\ sys.applied < sys.libLast /\ sys.applied + 1 \notin Conflicting
  /\ sys' = IF sys.applied + 1 \in sys.entries THEN [sys EXCEPT !.applied = @ + 1]
            ELSE Stops(sys, "entry missing")

(* ControlSnapshotBuilder::build and publish, of the store where it is.     *)
BuildSnapshot ==
  /\ Up /\ sys.installing = None /\ sys.applied # None /\ sys.pointer < sys.applied
  /\ sys' = [sys EXCEPT !.pointer = sys.applied]

(* The library records its purge as done, then asks for it. *)
PurgeToSnapshot ==
  /\ Up /\ sys.installing = None /\ sys.pointer > sys.libPurged
  /\ sys' = purge([sys EXCEPT !.libPurged = sys.pointer], sys.pointer)

(* install_full_snapshot of a position past the committed one: entries that *)
(* conflict with it at its index are truncated, the log is purged to it,    *)
(* and the state machine is asked to install.                               *)
InstallBegins(s) ==
  /\ Up /\ sys.installing = None /\ s > sys.applied
  /\ LET cut == IF s \in sys.stale THEN truncate_sync(sys, sys.applied + 1) ELSE sys
         asked == purge([cut EXCEPT !.libPurged = s, !.libLast = Later(@, s)], s)
     IN sys' = IF cut.refused # "none" THEN cut
               ELSE IF asked.refused # "none" THEN asked
               ELSE [asked EXCEPT !.installing = s, !.stage = "received"]

(* install_received: the store is replaced, which is the commit ... *)
InstallStore ==
  /\ Up /\ sys.stage = "received"
  /\ sys' = [sys EXCEPT !.applied = sys.installing, !.stage = "replaced"]

(* ... and then the generation is published. *)
InstallPublish ==
  /\ Up /\ sys.stage = "replaced"
  /\ sys' = [sys EXCEPT !.pointer = sys.installing, !.installing = None, !.stage = "none"]

(* A stop anywhere, a failed install among them. *)
StopMember ==
  /\ Up /\ sys.restarts < MaxRestarts
  /\ sys' = [sys EXCEPT !.up = FALSE, !.requested = None, !.installing = None, !.stage = "none"]

(* ControlStateMachine::sweep: a generation past the store's position. *)
sweep(state) == state.pointer > state.applied

(* start_with: sweep refuses a generation past the store, the floor is      *)
(* bound and the log settled; then the library reads the log state, and     *)
(* purges a log that ends before the store's position.                      *)
start_with(state) ==
  LET bound == settle_locked(state, TRUE)
      last == IF bound.entries = {} THEN bound.purged ELSE Max(bound.entries)
      read == [bound EXCEPT !.up = TRUE, !.libPurged = bound.purged, !.libLast = last]
  IN IF sweep(state) THEN Stops(state, "position")
     ELSE IF bound.refused # "none" THEN bound
     ELSE IF last < bound.applied
          THEN [purge(read, bound.applied) EXCEPT !.libPurged = bound.applied, !.libLast = bound.applied]
          ELSE read

Restart ==
  /\ At("raft") /\ ~sys.up /\ sys.refused = "none"
  /\ sys' = start_with([sys EXCEPT !.restarts = @ + 1])

RaftNext ==
  \/ \E old \in BOOLEAN : AppendEntry(old)
  \/ TruncateStale \/ ApplyEntry \/ BuildSnapshot \/ PurgeToSnapshot
  \/ \E s \in Indexes : InstallBegins(s)
  \/ InstallStore \/ InstallPublish \/ StopMember \/ Restart

----------------------------------------------------------------------------
(* Properties *)

RaftTypeOK ==
  /\ sys.entries \subseteq Indexes /\ sys.stale \subseteq sys.entries
  /\ {sys.purged, sys.deferred, sys.applied, sys.pointer, sys.libPurged, sys.libLast}
       \subseteq Indexes \cup {None}

(* The log and the store explain each other through bounded purges,         *)
(* deferred records and stops at any point of an install: no start meets a  *)
(* gap or a generation past the store, no entry the library still has to    *)
(* apply was purged, and an append or a truncation is refused only under a  *)
(* deferred purge that an earlier run left behind.                          *)
LogExplainsStore ==
  At("raft") =>
    /\ sys.refused \in {"none", "hole", "truncate"}
    /\ sys.refused # "none" => sys.deferred > sys.requested
    /\ sys.applied >= sys.purged
    /\ sys.entries # {} => sys.applied + 1 .. Max(sys.entries) \subseteq sys.entries

============================================================================
