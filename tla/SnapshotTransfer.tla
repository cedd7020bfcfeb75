-------------------------- MODULE SnapshotTransfer --------------------------
(* A member receives a snapshot in chunks.  The transport stages the chunks *)
(* into a receive directory, validates the complete image and hands it to   *)
(* the consensus library (external), whose worker installs it later; the    *)
(* library may decline it.  Peers time out, retry, restart and overtake     *)
(* each other, so a chunk of any image may arrive at any time.              *)
EXTENDS Integers, Sequences, FiniteSets, SystemState
CONSTANTS Serves,       \* [peer, vote, image]: the images served to this member
          Chunks,       \* the number of chunks of a complete image
          Oversized,    \* images announced beyond the receiver's bound
          Corrupt,      \* images whose bytes differ from their digest
          MaxReceives   \* bound: receive directories begun

ASSUME TransferAssumption == \A serve \in Serves : serve.image # "none"

NoServe == [peer |-> "none", vote |-> 0, image |-> "none"]
NoReceive == [dir |-> 0, bytes |-> <<>>, verified |-> "none"]

TransferInit ==
  sys = [part |-> "transfer",
         transfer |-> NoServe,      \* what the transfer in progress is bound to
         receive |-> NoReceive,     \* the staging area's current receive directory
         dirs |-> 0,                \* directories begun
         handed |-> {},             \* [image, dir]: validated, and at the library
         installed |-> "none",      \* the image the store was last replaced with
         content |-> <<>>,          \* and the bytes it was replaced with
         core |-> "running"]

WholeImage(image) == [i \in 1 .. Chunks |-> <<image, i - 1>>]

verify_Length(image, bytes) == Len(bytes) = Chunks

(* SnapshotStaging::verify: length, digest, then the position and           *)
(* membership of a probe copy.                                              *)
verify(image, bytes) == bytes = WholeImage(image) /\ image \notin Corrupt

(* The transfer in progress is dropped with its bytes. *)
Dropped(state) == [state EXCEPT !.transfer = NoServe, !.receive = NoReceive]

(* SnapshotStaging::begin: a previous receive goes with its bytes. *)
begin(state, serve) ==
  [state EXCEPT !.dirs = @ + 1, !.transfer = serve,
                !.receive = [NoReceive EXCEPT !.dir = state.dirs + 1]]

(* The final chunk ends the transfer; a sound image is marked verified and  *)
(* handed to the library.                                                   *)
Complete(state) ==
  IF verify(state.transfer.image, state.receive.bytes)
  THEN [state EXCEPT
          !.transfer = NoServe, !.receive.verified = state.transfer.image,
          !.handed = @ \cup {[image |-> state.transfer.image, dir |-> state.receive.dir]}]
  ELSE Dropped(state)

(* A chunk goes to the end of the receive file; offset zero starts over.    *)
WriteChunk(state, image, offset) ==
  LET kept == IF offset = 0 THEN <<>> ELSE state.receive.bytes
      written == [state EXCEPT !.receive.bytes = Append(kept, <<image, offset>>)]
  IN IF offset # Len(kept) THEN state          \* answered as a mismatch
     ELSE IF offset = Chunks - 1 THEN Complete(written) ELSE written

(* One transfer at a time: another image takes its place from the same peer *)
(* or under a higher vote.                                                  *)
Supersedes(serve, active) ==
  active = NoServe \/ active.peer = serve.peer \/ serve.vote > active.vote

(* RaftTransportService::stage.  An idle transfer is dropped by the chunk   *)
(* that finds it; a continuation of a dropped transfer is refused.          *)
StageChunk(serve, offset, idle) ==
  /\ At("transfer") /\ sys.core = "running" /\ sys.dirs < MaxReceives
  /\ serve.image \notin Oversized
  /\ idle => sys.transfer # NoServe
  /\ LET before == IF idle THEN Dropped(sys) ELSE sys
         active == before.transfer
         free == IF active = NoServe THEN before ELSE Dropped(before)
     IN sys' = IF active.image # serve.image
               THEN IF ~Supersedes(serve, active) THEN before
                    ELSE IF offset # 0 THEN free
                    ELSE WriteChunk(begin(free, serve), serve.image, 0)
               ELSE IF active.peer # serve.peer THEN before
               ELSE IF active.vote # serve.vote THEN Dropped(before)
               ELSE WriteChunk(before, serve.image, offset)

(* The library declines: an older vote, or a position it holds already.     *)
DeclineImage ==
  /\ At("transfer")
  /\ \E h \in sys.handed :
       sys' = [sys EXCEPT !.handed = @ \ {h},
                          !.receive = IF @.dir = h.dir THEN NoReceive ELSE @]

(* install_snapshot in the library's worker: it takes whatever receive is   *)
(* current.  One that was verified for this image is swapped in; any other  *)
(* is validated first, and a refusal is a storage error, fatal to the core. *)
InstallImage ==
  /\ At("transfer") /\ sys.core = "running"
  /\ \E h \in sys.handed :
       sys' = IF sys.receive.dir # 0
                 /\ (sys.receive.verified = h.image \/ verify(h.image, sys.receive.bytes))
              THEN [sys EXCEPT !.handed = @ \ {h}, !.receive = NoReceive,
                               !.installed = h.image, !.content = sys.receive.bytes]
              ELSE [sys EXCEPT !.handed = @ \ {h}, !.receive = NoReceive, !.core = "stopped"]

TransferNext ==
  \/ \E serve \in Serves, offset \in 0 .. Chunks - 1, idle \in BOOLEAN : StageChunk(serve, offset, idle)
  \/ DeclineImage \/ InstallImage

----------------------------------------------------------------------------
(* Properties *)

TransferTypeOK ==
  /\ sys.transfer \in Serves \cup {NoServe}
  /\ Len(sys.receive.bytes) <= Chunks
  /\ sys.transfer # NoServe /\ sys.core = "running" => sys.receive.dir = sys.dirs

(* The store is only ever replaced by the complete and sound bytes of the   *)
(* image the library named, however transfers restart, overtake each other  *)
(* or are superseded while a validated image waits for its install.         *)
InstallsOnlyItsImage ==
  At("transfer") /\ sys.installed # "none" =>
    sys.content = WholeImage(sys.installed) /\ sys.installed \notin Corrupt

============================================================================
