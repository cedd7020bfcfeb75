---------------------------- MODULE HostedWrites ---------------------------
(* Writes to a source whose authority is replicated by Raft.  A call takes  *)
(* a lease from the host, is granted an admission on this replica's applied *)
(* view, commits its row, and judges the commit against the lease once      *)
(* more: a lease that lapsed meanwhile leaves the row UNCONFIRMED, to be    *)
(* settled under a fresh lease.  A revocation of the writer's right, and a  *)
(* grant that gives it back, race the calls.  They come from the leader,    *)
(* which may be this replica or another, or one that replaced this one.     *)
EXTENDS Integers, FiniteSets, SystemState
CONSTANTS Calls,       \* worker calls, each of one write request
          Operations,  \* operation ids; two calls with one id are a retry
          MaxCrashes   \* bound: process restarts

ASSUME WritesAssumption == "none" \notin Calls

Idle == [pc |-> "idle", op |-> "none", lease |-> "none", forwarded |-> FALSE,
         answer |-> "none", revoked |-> FALSE]

WritesInit == \E leads \in BOOLEAN :
  sys = [part |-> "writes", leads |-> leads,
         policy |-> 1,        \* the policy revision committed and acknowledged
         applied |-> 1,       \* the one this replica has applied
         calls |-> [c \in Calls |-> Idle],
         writer |-> "none",   \* the call inside the catalog's write transaction
         outcome |-> [o \in Operations |-> "none"],
         crashes |-> 0]

(* Revision 2 revokes the right, revision 3 gives it back. *)
Revoked(revision) == revision = 2

(* A granted admission holds the store's shared guard: the state machine    *)
(* applies nothing meanwhile.                                               *)
Guarded == \E c \in Calls :
  sys.calls[c].pc \in {"granted", "admitted", "committing", "judging", "marking", "settling"}

OpenLease == \E c \in Calls : sys.calls[c].lease = "open"

Goes(c, pc) == [sys EXCEPT !.calls[c].pc = pc]

(* What a call answers, with what was true when it did. *)
Ends(c, state, answer) ==
  [state EXCEPT !.calls[c] = [state.calls[c] EXCEPT !.pc = "done", !.lease = "none",
                                !.answer = answer, !.revoked = Revoked(sys.policy)]]

(* A refusal that records nothing. *)
Refuse(c) == Ends(c, sys, "Refused")

----------------------------------------------------------------------------
(* The authority *)

(* This replica leads: the command is acknowledged when it is applied here, *)
(* and it waits for the admissions to drain.                                *)
ReplaceGrantsHere ==
  /\ At("writes") /\ sys.leads /\ sys.policy < 3 /\ sys.applied = sys.policy /\ ~Guarded
  /\ sys' = [sys EXCEPT !.policy = @ + 1, !.applied = @ + 1]

(* Another replica leads: it waits for its own admissions only. *)
ReplaceGrantsElsewhere ==
  /\ At("writes") /\ ~sys.leads /\ sys.policy < 3
  /\ sys' = [sys EXCEPT !.policy = @ + 1]

(* A replacement leader is elected.  The voters that acknowledged a barrier *)
(* and the leader that anchored it withhold their votes until every lease   *)
(* the barrier granted has lapsed.                                          *)
ReplaceLeader ==
  /\ At("writes") /\ sys.leads /\ ~OpenLease
  /\ sys' = [sys EXCEPT !.leads = FALSE]

(* The log reaches this replica. *)
ApplyGrants ==
  /\ At("writes") /\ sys.applied < sys.policy /\ ~Guarded
  /\ sys' = [sys EXCEPT !.applied = @ + 1]

(* Time passes: the monotonic deadline or the wall clock. *)
Lapse(c) ==
  /\ At("writes") /\ sys.calls[c].lease = "open"
  /\ sys' = [sys EXCEPT !.calls[c].lease = "lapsed"]

----------------------------------------------------------------------------
(* A call *)

(* RaftHost::lease, forwarded_lease: anchored before the barrier, granted   *)
(* once this replica has applied what the barrier read.                     *)
Lease(c, o) ==
  /\ At("writes") /\ sys.calls[c].pc = "idle"
  /\ sys.applied = sys.policy
  /\ sys' = [sys EXCEPT !.calls[c] = [Idle EXCEPT !.pc = "leased", !.op = o, !.lease = "open",
                                                !.forwarded = ~sys.leads]]

(* LeasedAdmission::admission on the worker. *)
Grant(c) ==
  /\ At("writes") /\ sys.calls[c].pc = "leased"
  /\ sys' = IF sys.calls[c].lease = "open" THEN Goes(c, "granted") ELSE Refuse(c)

(* SourceAdmission::admit_write: the lease, then the right as applied here. *)
Admitted(c) == sys.calls[c].lease = "open" /\ ~Revoked(sys.applied)

(* The first look of ActiveManagedCatalog::accept: a recorded decision is   *)
(* answered before the entry check.                                         *)
Look(c) ==
  /\ At("writes") /\ sys.calls[c].pc = "granted"
  /\ sys' = CASE sys.outcome[sys.calls[c].op] = "FENCED" -> Ends(c, sys, "Fenced")
              [] sys.outcome[sys.calls[c].op] = "UNCONFIRMED" -> Goes(c, "settling")
              [] OTHER -> IF Admitted(c) THEN Goes(c, "admitted") ELSE Refuse(c)

(* accept_as up to the final check, under the writer: a retry is found,     *)
(* else the row is staged and the lease is looked at once more.             *)
Stage(c) ==
  /\ At("writes") /\ sys.calls[c].pc = "admitted" /\ sys.writer = "none"
  /\ sys' = CASE sys.outcome[sys.calls[c].op] = "ACCEPTED" -> Ends(c, sys, "Replayed")
              [] sys.outcome[sys.calls[c].op] = "UNCONFIRMED" -> Goes(c, "settling")
              [] sys.outcome[sys.calls[c].op] = "FENCED" -> Ends(c, sys, "Fenced")
              [] OTHER -> IF sys.calls[c].lease = "open"
                          THEN [Goes(c, "committing") EXCEPT !.writer = c]
                          ELSE Refuse(c)

(* The transaction becomes durable, after any pause. *)
Commit(c) ==
  /\ At("writes") /\ sys.calls[c].pc = "committing"
  /\ sys' = [Goes(c, "judging") EXCEPT !.writer = "none",
                                       !.outcome[sys.calls[c].op] = "ACCEPTED"]

JudgeUnread(c) ==
  /\ At("writes") /\ sys.calls[c].pc = "judging"
  /\ sys' = Ends(c, sys, "Accepted")

(* The commit's return is judged against the lease. *)
Judge(c) ==
  /\ At("writes") /\ sys.calls[c].pc = "judging"
  /\ sys' = IF sys.calls[c].lease = "open" THEN Ends(c, sys, "Accepted") ELSE Goes(c, "marking")

(* mark_unconfirmed: a record that was settled is left as it is. *)
MarkUnconfirmed(outcome) == IF outcome = "ACCEPTED" THEN "UNCONFIRMED" ELSE outcome

(* The mark is a transaction of its own; then the call lets its lease go.   *)
Mark(c) ==
  /\ At("writes") /\ sys.calls[c].pc = "marking" /\ sys.writer = "none"
  /\ sys' = [Goes(c, "unconfirmed") EXCEPT
               !.calls[c].lease = "none",
               !.outcome[sys.calls[c].op] = MarkUnconfirmed(@)]

(* hosted settle: a fresh lease, or the answer that the write is durable    *)
(* and unconfirmed.                                                         *)
LeaseToSettle(c) ==
  /\ At("writes") /\ sys.calls[c].pc = "unconfirmed"
  /\ \/ /\ sys.applied = sys.policy
        /\ sys' = [sys EXCEPT !.calls[c] = [sys.calls[c] EXCEPT !.pc = "resettling", !.lease = "open",
                                                                !.forwarded = ~sys.leads]]
     \/ sys' = Ends(c, sys, "Unavailable")

GrantToSettle(c) ==
  /\ At("writes") /\ sys.calls[c].pc = "resettling"
  /\ sys' = IF sys.calls[c].lease = "open" THEN Goes(c, "settling")
            ELSE Ends(c, sys, "Unavailable")

(* settle_outcome, for a record that is still unconfirmed. *)
SettleAs(c, outcome, answer) ==
  Ends(c, [sys EXCEPT !.outcome[sys.calls[c].op] = outcome], answer)

SettleAgain(c) ==
  /\ At("writes") /\ sys.calls[c].pc = "settling" /\ sys.writer = "none"
  /\ sys' = IF sys.calls[c].lease # "open" THEN Ends(c, sys, "Unavailable")
            ELSE IF Admitted(c) THEN SettleAs(c, "ACCEPTED", "Accepted")
            ELSE SettleAs(c, "FENCED", "Fenced")

(* settle_under: a lease that lapsed decides nothing; otherwise the entry   *)
(* check decides.                                                           *)
Settle(c) ==
  /\ At("writes") /\ sys.calls[c].pc = "settling" /\ sys.writer = "none"
  /\ sys' = CASE sys.outcome[sys.calls[c].op] = "ACCEPTED" -> Ends(c, sys, "Replayed")
              [] sys.outcome[sys.calls[c].op] = "FENCED" -> Ends(c, sys, "Fenced")
              [] OTHER -> IF sys.calls[c].lease # "open" THEN Ends(c, sys, "Unavailable")
                          ELSE IF Admitted(c) THEN SettleAs(c, "ACCEPTED", "Accepted")
                          ELSE SettleAs(c, "FENCED", "Fenced")

(* The process stops: the calls are gone, the rows that were committed stay.*)
CrashWriter ==
  /\ At("writes") /\ sys.crashes < MaxCrashes
  /\ sys' = [sys EXCEPT !.calls = [c \in Calls |->
                          IF @[c].pc \in {"idle", "done"} THEN @[c] ELSE [Idle EXCEPT !.pc = "done"]],
                        !.writer = "none", !.crashes = @ + 1]

WritesNext ==
  \/ ReplaceGrantsHere \/ ReplaceGrantsElsewhere \/ ReplaceLeader \/ ApplyGrants \/ CrashWriter
  \/ \E c \in Calls, o \in Operations : Lease(c, o)
  \/ \E c \in Calls :
       \/ Lapse(c) \/ Grant(c) \/ Look(c) \/ Stage(c) \/ Commit(c) \/ Judge(c) \/ Mark(c)
       \/ LeaseToSettle(c) \/ GrantToSettle(c) \/ Settle(c)

----------------------------------------------------------------------------
(* Properties *)

WritesTypeOK ==
  /\ sys.writer \in Calls \cup {"none"}
  /\ \A c \in Calls :
       /\ sys.calls[c].pc \in {"idle", "leased", "granted", "admitted", "committing", "judging",
                               "marking", "unconfirmed", "resettling", "settling", "done"}
       /\ sys.calls[c].lease \in {"none", "open", "lapsed"}
       /\ sys.writer = c <=> sys.calls[c].pc = "committing"
  /\ \A o \in Operations : sys.outcome[o] \in {"none", "ACCEPTED", "UNCONFIRMED", "FENCED"}

(* No write under a lease this replica granted as the leader is declared    *)
(* accepted once the revocation of its right was acknowledged: the guard    *)
(* holds the leader's own commands off, the lease a replacement's.          *)
LeaderAcceptsCurrentRight ==
  At("writes") => \A c \in Calls :
    sys.calls[c].answer = "Accepted" /\ ~sys.calls[c].forwarded => ~sys.calls[c].revoked

(* A fence is final: no later settlement of another call moves it, not even *)
(* once the right is given back, and no row that was committed is lost.     *)
FenceIsFinal ==
  [][At("writes") => \A o \in Operations :
       /\ sys.outcome[o] = "FENCED" => sys'.outcome[o] = "FENCED"
       /\ sys.outcome[o] # "none" => sys'.outcome[o] # "none"]_sys

============================================================================
