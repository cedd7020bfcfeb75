-------------------------- MODULE SourceAuthority --------------------------
(* The source authority: the control store that records who owns the source *)
(* of a collection, which principals administer it, and the import of the   *)
(* legacy control state.  Commands are proposed against a state the caller  *)
(* read, are ordered (by the Raft log, or by the writer lock of a local     *)
(* store), and are executed later as one transaction each.  A command may   *)
(* be proposed twice.  Every executed command leaves a retained decision,   *)
(* accepted or rejected; the number of decisions is bounded, and an import  *)
(* reserves decisions ahead for the steps it still has to take.             *)
EXTENDS Integers, Sequences, FiniteSets, Functions, FiniteSetsExt, SystemState
CONSTANTS Principals,      \* the administrators commands come from
          Collections,     \* the resources owned
          SourceWorkflows, \* workflow ids of preparations and imports
          Nodes,           \* nodes a source may be prepared on
          ChunkCount,      \* chunks of an import's payload
          MaxDecisions,    \* limits.max_decisions
          Families,        \* bound: whose commands, of which kinds and how many of
                           \* them proposed twice, a behaviour is made of
          MaxProposals,    \* bound: commands ever proposed
          MaxInFlight      \* bound: commands proposed and not yet executed

ASSUME AuthorityAssumption == ChunkCount \in Nat

(* TERMINAL_RESERVE_DECISIONS: an import keeps room for its last commands. *)
TerminalReserve == 2

SourceKinds == {"Prepare", "Cancel", "ConfirmReady", "Activate", "ReplaceGrants"}
ImportKinds == {"Begin", "Chunk", "Commit", "Abort", "Recover"}
TerminalKinds == {"Commit", "Abort", "Recover"}
NoOwner == [phase |-> "none", generation |-> 0, workflow |-> "none", node |-> "none",
            epoch |-> 0, last |-> 0]
NoImport == [phase |-> "none", by |-> "none", staged |-> {}, reserved |-> 0, terminal |-> 0]

AuthorityInit == \E family \in Families :
  sys = [part |-> "authority", revision |-> 1, policyRevision |-> 1, family |-> family,
         admins |-> [c \in Collections |-> Principals],
         owners |-> [c \in Collections |-> NoOwner],
         reserved |-> [c \in Collections |-> {}],
         imports |-> [c \in Collections |-> [w \in SourceWorkflows |-> NoImport]],
         applied |-> {}, configured |-> {},
         decisions |-> <<>>,
         header |-> [source |-> 0, import |-> 0, configure |-> 0,
                     reservedDecisions |-> 0, stagedChunks |-> 0],
         bound |-> [c \in Collections |-> {}],
         inFlight |-> {}, proposed |-> 0, duplicated |-> 0,
         told |-> {}, closed |-> FALSE]

----------------------------------------------------------------------------
(* Admission, at proposal *)

(* A node binds its managed catalog to the preparation it sees committed.   *)
BindPreparedOwner(c) ==
  /\ At("authority") /\ ~sys.closed
  /\ sys.owners[c].phase = "PREPARED"
  /\ sys.owners[c].generation \notin sys.bound[c]
  /\ sys' = [sys EXCEPT !.bound[c] = @ \cup {sys.owners[c].generation}]

(* proposal_admits_readiness: the proposer holds the binding of exactly the *)
(* owner that is committed now.  The other kinds need the Admin grant.      *)
Admits(command) ==
  /\ command.by \in sys.admins[command.collection]
  /\ command.kind = "ConfirmReady" =>
       /\ sys.owners[command.collection].phase = "PREPARED"
       /\ sys.owners[command.collection].generation \in sys.bound[command.collection]

(* What a caller may ask for, with the revisions it has just read. *)
Command(id, by, c, kind, w, arg) ==
  [id |-> id, copy |-> 1, by |-> by, collection |-> c, kind |-> kind, workflow |-> w, arg |-> arg,
   revision |-> sys.revision, policyRevision |-> sys.policyRevision,
   generation |-> sys.owners[c].generation]

(* The argument of a command: the target node of a preparation, the ordinal *)
(* of a chunk, the administrators that a replacement of grants leaves.      *)
Arguments(kind) ==
  CASE kind = "Prepare" -> Nodes
    [] kind = "Chunk" -> 1..ChunkCount
    [] kind = "ReplaceGrants" -> {{p} : p \in Principals}
    [] OTHER -> {"none"}

(* Only these carry a workflow. *)
WorkflowsOf(kind) ==
  IF kind \in {"ReplaceGrants", "Configure"} THEN {"none"} ELSE SourceWorkflows

Propose(by, c, kind) ==
  /\ At("authority") /\ ~sys.closed /\ by \in sys.family.by /\ kind \in sys.family.kinds
  /\ sys.proposed < MaxProposals /\ Cardinality(sys.inFlight) < MaxInFlight
  /\ \E w \in WorkflowsOf(kind), arg \in Arguments(kind) :
       LET command == Command(sys.proposed + 1, by, c, kind, w, arg)
       IN /\ Admits(command)
          /\ sys' = [sys EXCEPT !.inFlight = @ \cup {command}, !.proposed = @ + 1]

(* The caller got no answer and proposes the same command again. *)
ProposeAgain ==
  /\ At("authority") /\ ~sys.closed
  /\ sys.duplicated < sys.family.duplicates /\ Cardinality(sys.inFlight) < MaxInFlight
  /\ \E command \in sys.inFlight :
       sys' = [sys EXCEPT !.inFlight = @ \cup {[command EXCEPT !.copy = command.copy + 1]},
                          !.duplicated = @ + 1]

----------------------------------------------------------------------------
(* Execution *)

Accepted(ids) == {i \in ids : sys.decisions[i].accepted}
KindIn(kinds) == {i \in DOMAIN sys.decisions : sys.decisions[i].kind \in kinds}

(* The compare-and-set every transition starts with. *)
Fresh(command) ==
  command.revision = sys.revision /\ command.policyRevision = sys.policyRevision

(* The retained record of one executed command. *)
Decision(command, accepted) ==
  [kind |-> command.kind, collection |-> command.collection, by |-> command.by,
   expected |-> command.revision, accepted |-> accepted,
   revision |-> IF accepted THEN sys.revision + 1 ELSE sys.revision]

Answer(id, decision) == [id |-> id, accepted |-> decision.accepted, revision |-> decision.revision]

Retain(command, accepted) ==
  [i \in DOMAIN sys.decisions \cup {command.id} |->
     IF i = command.id THEN Decision(command, accepted) ELSE sys.decisions[i]]

(* This command is next in the log and its principal is still an Admin.     *)
(* Admission is not atomic with the proposal, so any command in flight may  *)
(* be next.                                                                 *)
Executes(command, kinds) ==
  /\ command.kind \in kinds
  /\ command.by \in sys.admins[command.collection]

IsRetryOfRejected(command) ==
  command.id \in DOMAIN sys.decisions /\ ~sys.decisions[command.id].accepted

IsRetry(command) == command.id \in DOMAIN sys.decisions

(* The principal lost its grant before its command was executed: refused,   *)
(* and nothing is recorded.                                                 *)
Unauthorized == At("authority") /\ ~sys.closed /\ \E command \in sys.inFlight :
  /\ command.by \notin sys.admins[command.collection]
  /\ sys' = [sys EXCEPT !.inFlight = @ \ {command}]

(* An exact retry answers the retained decision and changes nothing else. *)
Retry == At("authority") /\ ~sys.closed /\ \E command \in sys.inFlight :
  /\ Executes(command, SourceKinds \cup ImportKinds \cup {"Configure"})
  /\ IsRetry(command)
  /\ sys' = [sys EXCEPT !.inFlight = @ \ {command},
                        !.told = @ \cup {Answer(command.id, sys.decisions[command.id])}]

(* import::reserved: what a command outside an import must leave alone. *)
Full ==
  sys.header.source + sys.header.import + sys.header.configure
    + sys.header.reservedDecisions >= MaxDecisions

(* The decision capacity is full: refused, and nothing is recorded. *)
CapacityFull == At("authority") /\ ~sys.closed /\ \E command \in sys.inFlight :
  /\ Executes(command, SourceKinds \cup {"Configure"})
  /\ ~IsRetry(command) /\ Full
  /\ sys' = [sys EXCEPT !.inFlight = @ \ {command}]

(* transition::apply, the condition under which each action is accepted. *)
SourceAccepts(command) ==
  LET held == sys.owners[command.collection]
  IN /\ Fresh(command)
     /\ command.kind # "ReplaceGrants" => command.generation = held.generation
     /\ CASE command.kind = "Prepare" ->
               /\ \A r \in sys.reserved[command.collection] : r.workflow # command.workflow
               /\ held.phase \in {"none", "CANCELLED"}
          [] command.kind \in {"Cancel", "ConfirmReady"} ->
               held.phase = "PREPARED" /\ held.workflow = command.workflow
          [] command.kind = "Activate" ->
               held.phase = "READY" /\ held.workflow = command.workflow
          [] command.kind = "ReplaceGrants" -> TRUE

OwnerAfter(command) ==
  LET held == sys.owners[command.collection]
  IN CASE command.kind = "Prepare" ->
            [phase |-> "PREPARED", generation |-> held.generation + 1, epoch |-> 0,
             workflow |-> command.workflow, node |-> command.arg, last |-> command.id]
       [] command.kind = "Cancel" -> [held EXCEPT !.phase = "CANCELLED", !.last = command.id]
       [] command.kind = "ConfirmReady" -> [held EXCEPT !.phase = "READY", !.last = command.id]
       [] command.kind = "Activate" ->
            [held EXCEPT !.phase = "ACTIVE", !.epoch = held.generation, !.last = command.id]
       [] command.kind = "ReplaceGrants" -> held

(* execute_locked, past the retry and the capacity check. *)
ExecuteSource == At("authority") /\ ~sys.closed /\ \E command \in sys.inFlight :
  LET c == command.collection
      accepted == SourceAccepts(command)
      owner == OwnerAfter(command)
  IN /\ Executes(command, SourceKinds)
     /\ ~IsRetry(command) /\ ~Full
     /\ sys' = [sys EXCEPT
          !.inFlight = @ \ {command},
          !.decisions = Retain(command, accepted),
          !.header.source = @ + 1,
          !.told = @ \cup {Answer(command.id, Decision(command, accepted))},
          !.owners[c] = IF accepted THEN owner ELSE @,
          !.reserved[c] = IF accepted /\ command.kind = "Prepare"
            THEN @ \cup {[workflow |-> command.workflow, generation |-> owner.generation]}
            ELSE @,
          !.admins[c] = IF accepted /\ command.kind = "ReplaceGrants" THEN command.arg ELSE @,
          !.policyRevision = IF accepted /\ command.kind = "ReplaceGrants" THEN @ + 1 ELSE @,
          !.revision = IF accepted THEN @ + 1 ELSE @]

(* configure_locked: the capacity policy of an imported collection. *)
ExecuteConfigure == At("authority") /\ ~sys.closed /\ \E command \in sys.inFlight :
  LET accepted == Fresh(command) /\ command.collection \in sys.applied
  IN /\ Executes(command, {"Configure"})
     /\ ~IsRetry(command) /\ ~Full
     /\ sys' = [sys EXCEPT
          !.inFlight = @ \ {command},
          !.decisions = Retain(command, accepted),
          !.header.configure = @ + 1,
          !.told = @ \cup {Answer(command.id, Decision(command, accepted))},
          !.configured = IF accepted THEN @ \cup {command.collection} ELSE @,
          !.revision = IF accepted THEN @ + 1 ELSE @]

----------------------------------------------------------------------------
(* The import of legacy control state *)

ImportOf(command) == sys.imports[command.collection][command.workflow]

(* The reservation a workflow may spend on its own steps. *)
Own(command) == IF ImportOf(command).phase = "STAGING" THEN ImportOf(command).reserved ELSE 0

(* remaining: decisions left once every other reservation is set aside. *)
Remaining(command) ==
  MaxDecisions - sys.header.source - sys.header.import
    - (sys.header.reservedDecisions - Own(command))

(* The reservation no longer fits the accounting: DataLoss, and the store   *)
(* closes.                                                                  *)
ReservationExceedsAccounting == At("authority") /\ ~sys.closed /\ \E command \in sys.inFlight :
  /\ Executes(command, ImportKinds)
  /\ ~IsRetry(command) /\ Remaining(command) < 0
  /\ sys' = [sys EXCEPT !.inFlight = @ \ {command}, !.closed = TRUE]

ImportFull == At("authority") /\ ~sys.closed /\ \E command \in sys.inFlight :
  /\ Executes(command, ImportKinds)
  /\ ~IsRetry(command) /\ Remaining(command) = 0
  /\ sys' = [sys EXCEPT !.inFlight = @ \ {command}]

(* staging: the caller's own workflow, still pending. *)
Staging(command) ==
  ImportOf(command).phase = "STAGING" /\ ImportOf(command).by = command.by

ImportAccepts(command) ==
  /\ Fresh(command)
  /\ CASE command.kind = "Begin" ->
            /\ ImportOf(command).phase = "none"
            /\ command.collection \notin sys.applied
            /\ \A w \in SourceWorkflows : sys.imports[command.collection][w].phase # "STAGING"
            /\ ChunkCount + TerminalReserve < Remaining(command)
       [] command.kind = "Chunk" -> Staging(command) /\ command.arg \notin ImportOf(command).staged
       [] command.kind = "Commit" ->
            /\ Staging(command) /\ ImportOf(command).staged = 1..ChunkCount
            /\ command.collection \notin sys.applied
       [] command.kind = "Abort" -> Staging(command)
       [] command.kind = "Recover" -> ImportOf(command).phase = "STAGING"

(* The row is left as it was apart from its phase. *)
ImportAfterUnreleased(command) ==
  IF command.kind = "Recover"
  THEN [ImportOf(command) EXCEPT !.phase = "RECOVERED", !.terminal = command.id]
  ELSE [ImportOf(command) EXCEPT !.phase = "STAGING", !.by = command.by,
                                 !.reserved = ChunkCount + TerminalReserve]

ImportAfter(command) ==
  LET row == ImportOf(command)
      Ended(phase) == [row EXCEPT !.phase = phase, !.reserved = 0, !.staged = {},
                                  !.terminal = command.id]
  IN CASE command.kind = "Begin" ->
            [phase |-> "STAGING", by |-> command.by, staged |-> {}, terminal |-> 0,
             reserved |-> ChunkCount + TerminalReserve]
       [] command.kind = "Chunk" ->
            [row EXCEPT !.staged = @ \cup {command.arg}, !.reserved = IF @ = 0 THEN 0 ELSE @ - 1]
       [] command.kind = "Commit" -> Ended("COMMITTED")
       [] command.kind = "Abort" -> Ended("ABORTED")
       [] command.kind = "Recover" -> Ended("RECOVERED")

(* What an accepted step adds to the reserved decisions of the header: a    *)
(* Begin takes them, a chunk spends one, a terminal step frees what is left.*)
Reserves(command) ==
  CASE command.kind = "Begin" -> ChunkCount + TerminalReserve
    [] command.kind = "Chunk" -> 0 - Min({1, Own(command)})
    [] OTHER -> 0 - Own(command)

(* Every terminal step gives back the chunks that were declared. *)
StagesDeclared(command) ==
  CASE command.kind = "Begin" -> 0
    [] command.kind = "Chunk" -> 1
    [] OTHER -> 0 - ChunkCount

Stages(command) ==
  CASE command.kind = "Begin" -> 0
    [] command.kind = "Chunk" -> 1
    [] OTHER -> 0 - Cardinality(ImportOf(command).staged)

(* The accounting an import command leaves in the header. *)
HeaderAfter(command, accepted) ==
  [sys.header EXCEPT !.import = @ + 1,
     !.reservedDecisions = IF accepted THEN @ + Reserves(command) ELSE @,
     !.stagedChunks = IF accepted THEN @ + Stages(command) ELSE @]

(* import_locked, past the retry and the capacity checks. *)
ExecuteImport == At("authority") /\ ~sys.closed /\ \E command \in sys.inFlight :
  LET c == command.collection
      accepted == ImportAccepts(command)
  IN /\ Executes(command, ImportKinds)
     /\ ~IsRetry(command) /\ Remaining(command) > 0
     /\ sys' = [sys EXCEPT
          !.inFlight = @ \ {command},
          !.decisions = Retain(command, accepted),
          !.told = @ \cup {Answer(command.id, Decision(command, accepted))},
          !.header = HeaderAfter(command, accepted),
          !.imports[c][command.workflow] = IF accepted THEN ImportAfter(command) ELSE @,
          !.applied = IF accepted /\ command.kind = "Commit" THEN @ \cup {c} ELSE @,
          !.revision = IF accepted THEN @ + 1 ELSE @]

AuthorityNext ==
  \/ \E c \in Collections : BindPreparedOwner(c)
  \/ \E by \in Principals, c \in Collections, kind \in SourceKinds \cup ImportKinds \cup {"Configure"} :
       Propose(by, c, kind)
  \/ ProposeAgain
  \/ Unauthorized \/ Retry \/ CapacityFull \/ ExecuteSource \/ ExecuteConfigure
  \/ ReservationExceedsAccounting \/ ImportFull \/ ExecuteImport

----------------------------------------------------------------------------
(* Properties *)

AuthorityTypeOK ==
  /\ sys.revision \in 1..MaxProposals + 1 /\ sys.policyRevision \in 1..MaxProposals + 1
  /\ \A c \in Collections :
       /\ sys.owners[c].generation \in 0..MaxProposals
       /\ sys.owners[c].phase \in {"none", "PREPARED", "CANCELLED", "READY", "ACTIVE"}
       /\ \A w \in SourceWorkflows :
            sys.imports[c][w].phase \in {"none", "STAGING", "COMMITTED", "ABORTED", "RECOVERED"}
  /\ DOMAIN sys.decisions \subseteq 1..MaxProposals
  /\ sys.header.reservedDecisions >= 0 /\ sys.header.stagedChunks >= 0
  /\ sys.closed \in BOOLEAN

ImportRow(cw) == sys.imports[cw[1]][cw[2]]
ImportsIn(phase) == {cw \in Collections \X SourceWorkflows : ImportRow(cw).phase = phase}
StagingImports == ImportsIn("STAGING")

(* recovery::validate: the header's counts and its revision are those of    *)
(* the retained decisions.                                                  *)
AuditHeader ==
  /\ sys.header.source = Cardinality(KindIn(SourceKinds))
  /\ sys.header.import = Cardinality(KindIn(ImportKinds))
  /\ sys.header.configure = Cardinality(KindIn({"Configure"}))
  /\ Cardinality(Accepted(DOMAIN sys.decisions)) + 1 = sys.revision

(* recovery::operation: an accepted decision took the revision after the    *)
(* one it expected.                                                         *)
AuditDecisions ==
  \A i \in DOMAIN sys.decisions :
    /\ sys.decisions[i].revision <= sys.revision
    /\ sys.decisions[i].accepted => sys.decisions[i].revision = sys.decisions[i].expected + 1

(* recovery::validate: an owner is what its last decision left, under a     *)
(* reserved workflow of its generation.                                     *)
AuditOwners ==
  \A c \in Collections : sys.owners[c].phase # "none" =>
    /\ sys.decisions[sys.owners[c].last].accepted
    /\ [workflow |-> sys.owners[c].workflow, generation |-> sys.owners[c].generation]
         \in sys.reserved[c]

(* control::validate: the workflow rows and their terminal commands.        *)
EndedBy == [COMMITTED |-> "Commit", ABORTED |-> "Abort", RECOVERED |-> "Recover"]

AuditWorkflows ==
  /\ \A phase \in {"STAGING", "COMMITTED"} :
       \A x, y \in ImportsIn(phase) : x[1] = y[1] => x = y
  /\ \A phase \in DOMAIN EndedBy : \A cw \in ImportsIn(phase) :
       LET terminal == sys.decisions[ImportRow(cw).terminal]
       IN /\ ImportRow(cw).reserved = 0
          /\ terminal.accepted /\ terminal.kind = EndedBy[phase]
          /\ phase # "RECOVERED" => terminal.by = ImportRow(cw).by

(* control::validate: one applied state for every committed import.         *)
AuditApplied == sys.applied = {cw[1] : cw \in ImportsIn("COMMITTED")}

(* control::validate: the reservations and the chunks of pending imports.   *)
AuditReservations ==
  /\ sys.header.reservedDecisions = SumFunction([cw \in StagingImports |-> ImportRow(cw).reserved])
  /\ sys.header.stagedChunks =
       SumFunction([cw \in StagingImports |-> Cardinality(ImportRow(cw).staged)])

(* The audit that opening the store runs (recovery::validate) accepts every *)
(* state the commands reach, in whatever order they are executed: a restart *)
(* never refuses a store that was written without fault.                    *)
RecoveryAccepts ==
  At("authority") =>
    /\ AuditHeader /\ AuditDecisions /\ AuditOwners
    /\ AuditWorkflows /\ AuditApplied /\ AuditReservations

(* What was decided holds.  A command proposed twice is answered the same   *)
(* both times, whatever was executed in between: execute_locked,            *)
(* import_locked and configure_locked look the command up before they judge *)
(* it.  And an owner is READY or ACTIVE only when a node bound its catalog  *)
(* to that very preparation: the binding is checked when the confirmation   *)
(* is proposed, and applying it later relies on the compare-and-set alone.  *)
DecisionsHold ==
  At("authority") =>
    /\ \A a, b \in sys.told : a.id = b.id => a = b
    /\ \A c \in Collections :
         sys.owners[c].phase \in {"READY", "ACTIVE"} => sys.owners[c].generation \in sys.bound[c]

============================================================================
