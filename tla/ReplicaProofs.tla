--------------------------- MODULE ReplicaProofs ---------------------------
(* What a replica of the control plane holds: its log and its store, and    *)
(* the snapshot images it receives. The proofs are for every value of the   *)
(* constants; each part has an inductive invariant over the record that     *)
(* holds its state.                                                         *)
EXTENDS RaftStore, SnapshotTransfer, WellFoundedInduction, TLAPS

----------------------------------------------------------------------------
(* Snapshot images: SnapshotTransfer                                        *)

(* The receipt of snapshot images. A behaviour of the group's specification *)
(* that is about this part is one of these.                                 *)
TransferSpec == TransferInit /\ [][TransferNext]_sys

(* The images a peer may serve.                                             *)
Images == {serve.image : serve \in Serves}
(* What was written of an image: its chunks, with their offsets.            *)
Bytes == Seq(Images \X Int)
(* What a receiving member holds, of any size.                              *)
TransferStates ==
  [part : {"transfer"}, transfer : Serves \cup {NoServe},
   receive : [dir : Nat, bytes : Bytes, verified : Images \cup {"none"}], dirs : Nat,
   handed : SUBSET [image : Images, dir : Nat], installed : Images \cup {"none"},
   content : Bytes, core : {"running", "stopped"}]

(* The bytes are the whole of an image that validates.                      *)
Sound(image, bytes) == bytes = WholeImage(image) /\ image \notin Corrupt

(* The inductive invariant: what is marked verified was verified as it is   *)
(* now, a transfer that is under way has verified nothing, and the store    *)
(* holds the image it is said to hold.                                      *)
TransferInv(state) ==
  /\ state \in TransferStates
  /\ state.receive.verified # "none" => Sound(state.receive.verified, state.receive.bytes)
  /\ state.transfer # NoServe => state.receive.verified = "none"
  /\ state.installed # "none" => Sound(state.installed, state.content)

(* Nothing was received.                                                    *)
LEMMA TransferInitially == TransferInit => TransferInv(sys)
  BY DEF TransferInit, TransferInv, TransferStates, NoServe, NoReceive, Bytes

(* A transfer that is dropped leaves no bytes behind.                       *)
LEMMA DroppedKeeps ==
  ASSUME NEW state, TransferInv(state)
  PROVE  TransferInv(Dropped(state))
<1>1. NoReceive \in [dir : Nat, bytes : Bytes, verified : Images \cup {"none"}] /\ NoReceive.verified = "none"
  BY DEF NoReceive, Bytes
<1> QED BY <1>1, Zenon DEF Dropped, TransferInv, TransferStates

(* A transfer that begins has a directory of its own.                       *)
LEMMA BeginKeeps ==
  ASSUME NEW state, TransferInv(state), NEW serve \in Serves
  PROVE  TransferInv(begin(state, serve)) /\ begin(state, serve).transfer = serve
<1> DEFINE r == [NoReceive EXCEPT !.dir = state.dirs + 1]
<1>2. state.dirs + 1 \in Nat
  BY DEF TransferInv, TransferStates
<1>1. r \in [dir : Nat, bytes : Bytes, verified : Images \cup {"none"}] /\ r.verified = "none"
  <2>1. NoReceive \in [dir : Nat, bytes : Bytes, verified : Images \cup {"none"}] /\ NoReceive.verified = "none"
    BY DEF NoReceive, Bytes
  <2> QED BY <1>2, <2>1, Zenon
<1>3. begin(state, serve) = [state EXCEPT !.dirs = state.dirs + 1, !.transfer = serve, !.receive = r]
  BY Zenon DEF begin
<1> HIDE DEF r
<1> QED BY <1>1, <1>2, <1>3 DEF TransferInv, TransferStates

(* The last chunk: the image is verified and handed over, or dropped.       *)
LEMMA CompleteKeeps ==
  ASSUME NEW state, TransferInv(state), state.transfer \in Serves
  PROVE  TransferInv(Complete(state))
<1>1. CASE verify(state.transfer.image, state.receive.bytes)
  <2> DEFINE r == [state.receive EXCEPT !.verified = state.transfer.image]
             h == state.handed \cup {[image |-> state.transfer.image, dir |-> state.receive.dir]}
  <2>0. state.transfer.image \in Images /\ state.receive \in [dir : Nat, bytes : Bytes, verified : Images \cup {"none"}]
    BY Zenon DEF Images, TransferInv, TransferStates
  <2>1. r \in [dir : Nat, bytes : Bytes, verified : Images \cup {"none"}] /\ Sound(r.verified, r.bytes)
    BY <1>1, <2>0, Zenon DEF verify, Sound
  <2>2. h \in SUBSET [image : Images, dir : Nat]
    BY <2>0 DEF TransferInv, TransferStates
  <2>3. Complete(state) = [state EXCEPT !.transfer = NoServe, !.receive = r, !.handed = h]
    BY <1>1, Zenon DEF Complete, TransferInv, TransferStates
  <2> HIDE DEF r, h
  <2> QED BY <2>1, <2>2, <2>3 DEF TransferInv, TransferStates
<1>2. CASE ~verify(state.transfer.image, state.receive.bytes)
  BY <1>2, DroppedKeeps, Zenon DEF Complete
<1> QED BY <1>1, <1>2, Zenon

(* A chunk is written, and the last one completes the transfer.             *)
LEMMA ChunkKeeps ==
  ASSUME NEW state, TransferInv(state), state.transfer \in Serves, NEW image \in Images, NEW offset \in Int
  PROVE  TransferInv(WriteChunk(state, image, offset))
<1> DEFINE kept == IF offset = 0 THEN <<>> ELSE state.receive.bytes
           written == [state EXCEPT !.receive.bytes = Append(kept, <<image, offset>>)]
<1>1. state.receive \in [dir : Nat, bytes : Bytes, verified : Images \cup {"none"}] /\ kept \in Bytes
  BY DEF TransferInv, TransferStates, Bytes
<1>2. Append(kept, <<image, offset>>) \in Bytes
  BY <1>1 DEF Bytes
<1>3. state.receive.verified = "none"
  <2>1. state.transfer # NoServe
    BY TransferAssumption DEF NoServe
  <2> QED BY <2>1, Zenon DEF TransferInv
<1>4. TransferInv(written) /\ written.transfer = state.transfer
  <2> HIDE DEF kept
  <2> QED BY <1>1, <1>2, <1>3, Zenon DEF TransferInv, TransferStates
<1>5. TransferInv(Complete(written))
  BY <1>4, CompleteKeeps, Zenon
<1> QED BY <1>4, <1>5, Zenon DEF WriteChunk

(* A chunk arrives: for the active transfer, for another image, or after    *)
(* the active one lapsed.                                                   *)
LEMMA ChunkStaged ==
  ASSUME TransferInv(sys), NEW serve \in Serves, NEW offset \in Int, NEW idle \in BOOLEAN,
         StageChunk(serve, offset, idle)
  PROVE  TransferInv(sys)'
<1> DEFINE before == IF idle THEN Dropped(sys) ELSE sys
           active == before.transfer
           free == IF active = NoServe THEN before ELSE Dropped(before)
<1>1. TransferInv(before)
  BY DroppedKeeps, Zenon
<1>2. TransferInv(free)
  BY <1>1, DroppedKeeps, Zenon
<1>3. TransferInv(WriteChunk(begin(free, serve), serve.image, 0))
  <2>1. TransferInv(begin(free, serve)) /\ begin(free, serve).transfer = serve
    BY <1>2, BeginKeeps, Zenon
  <2> HIDE DEF free
  <2> QED BY <2>1, ChunkKeeps DEF Images
<1>4. CASE active.image = serve.image
  <2>1. active \in Serves
    BY <1>1, <1>4, TransferAssumption DEF TransferInv, TransferStates, NoServe
  <2>2. TransferInv(WriteChunk(before, serve.image, offset))
    <3> HIDE DEF before
    <3> QED BY <1>1, <2>1, ChunkKeeps, Zenon DEF Images
  <2>3. TransferInv(Dropped(before))
    BY <1>1, DroppedKeeps, Zenon
  <2>4. sys' \in {before, Dropped(before), WriteChunk(before, serve.image, offset)}
    BY <1>4, Zenon DEF StageChunk
  <2> HIDE DEF before
  <2> QED BY <1>1, <2>2, <2>3, <2>4, Zenon
<1>5. CASE active.image # serve.image
  <2>1. sys' \in {before, free, WriteChunk(begin(free, serve), serve.image, 0)}
    BY <1>5, Zenon DEF StageChunk
  <2> HIDE DEF before, free
  <2> QED BY <1>1, <1>2, <1>3, <2>1, Zenon
<1> QED BY <1>4, <1>5, Zenon

(* The library declines the image, or installs it after a second look at    *)
(* what is there by then.                                                   *)
LEMMA HandedKeeps ==
  ASSUME TransferInv(sys), DeclineImage \/ InstallImage
  PROVE  TransferInv(sys)'
<1>0. NoReceive \in [dir : Nat, bytes : Bytes, verified : Images \cup {"none"}] /\ NoReceive.verified = "none"
  BY DEF NoReceive, Bytes
<1>1. CASE DeclineImage
  <2>1. PICK h \in sys.handed : sys' = [sys EXCEPT !.handed = @ \ {h}, !.receive = IF @.dir = h.dir THEN NoReceive ELSE @]
    BY <1>1, Zenon DEF DeclineImage
  <2> QED BY <1>0, <2>1, Zenon DEF TransferInv, TransferStates
<1>2. CASE InstallImage
  <2>1. PICK h \in sys.handed :
       sys' = IF sys.receive.dir # 0
                 /\ (sys.receive.verified = h.image \/ verify(h.image, sys.receive.bytes))
              THEN [sys EXCEPT !.handed = @ \ {h}, !.receive = NoReceive,
                               !.installed = h.image, !.content = sys.receive.bytes]
              ELSE [sys EXCEPT !.handed = @ \ {h}, !.receive = NoReceive, !.core = "stopped"]
    BY <1>2, Zenon DEF InstallImage
  <2>2. h.image \in Images /\ h.image # "none" /\ sys.receive.bytes \in Bytes
    BY TransferAssumption, Zenon DEF TransferInv, TransferStates, Images
  <2>3. CASE sys' = [sys EXCEPT !.handed = @ \ {h}, !.receive = NoReceive, !.core = "stopped"]
    BY <1>0, <2>3, Zenon DEF TransferInv, TransferStates
  <2>4. ASSUME sys.receive.verified = h.image \/ verify(h.image, sys.receive.bytes),
               sys' = [sys EXCEPT !.handed = @ \ {h}, !.receive = NoReceive,
                                  !.installed = h.image, !.content = sys.receive.bytes]
        PROVE  TransferInv(sys)'
    <3>1. Sound(h.image, sys.receive.bytes)
      BY <2>2, <2>4, Zenon DEF TransferInv, Sound, verify
    <3> QED BY <1>0, <2>2, <2>4, <3>1, Zenon DEF TransferInv, TransferStates
  <2> QED BY <2>1, <2>3, <2>4, Zenon
<1> QED BY <1>1, <1>2, Zenon

(* For every number of images, chunks and peers: the store is only ever     *)
(* replaced by the complete and sound bytes of the image the library named, *)
(* however transfers restart, overtake each other or are superseded while a *)
(* validated image waits for its install (stage_chunk, verify,              *)
(* install_snapshot).                                                       *)
THEOREM InstalledImagesAreWhole == TransferSpec => []InstallsOnlyItsImage
<1>1. TransferInv(sys) => InstallsOnlyItsImage
  BY Zenon DEF TransferInv, InstallsOnlyItsImage, Sound
<1>2. TransferInv(sys) /\ [TransferNext]_sys => TransferInv(sys)'
  <2> SUFFICES ASSUME TransferInv(sys), [TransferNext]_sys PROVE TransferInv(sys)'
    BY Zenon
  <2>1. CASE UNCHANGED sys
    BY <2>1, Zenon
  <2>2. \A offset \in 0 .. Chunks - 1 : offset \in Int
    OBVIOUS
  <2> QED BY <2>1, <2>2, ChunkStaged, HandedKeeps, Zenon DEF TransferNext
<1> QED BY <1>1, <1>2, TransferInitially, PTL DEF TransferSpec

----------------------------------------------------------------------------
(* The member's log and store: RaftStore                                    *)

(* A member's log and store. A behaviour of the group's specification that  *)
(* is about this part is one of these.                                      *)
RaftSpec == RaftInit /\ [][RaftNext]_sys

(* A log position: an index, or none.                                       *)
Positions == {i \in Int : i >= None}

(* What is stored and what the library holds, of any size.                  *)
RaftStates ==
  [part : {"raft"}, entries : SUBSET Nat, stale : SUBSET Nat, purged : Positions,
   deferred : Positions, applied : Positions, pointer : Positions, up : BOOLEAN,
   requested : Positions, libPurged : Positions, libLast : Positions, installing : Positions,
   stage : {"none", "received", "replaced"},
   refused : {"none", "hole", "truncate", "below the purge point", "entry missing", "start", "position"},
   restarts : Nat]

(* The log holds the entries lo .. hi, past its purge point and no later    *)
(* than the store's next.  An empty log ends at its purge point.  A gap     *)
(* after the purge point lies under a deferred purge of an earlier run.     *)
LogInv(s, lo, hi) ==
  /\ s.entries = lo .. hi /\ s.stale \subseteq s.entries
  /\ s.purged <= s.applied /\ s.pointer <= s.applied
  /\ lo - 1 <= hi /\ s.purged < lo /\ lo <= s.applied + 1
  /\ hi < lo => lo = s.purged + 1
  /\ lo = s.purged + 1 \/ (lo <= s.deferred /\ s.requested < s.deferred)

(* An entry a newer leader replaces lies past the store, or under the       *)
(* deferred purge.                                                          *)
StaleInv(s) == \A i \in s.stale : i <= s.applied => i <= s.deferred

(* What the library believes of the log while it runs. *)
RunInv(s, hi) ==
  /\ s.purged <= s.libPurged /\ s.requested <= s.libPurged
  /\ \A i \in s.stale : i <= s.applied => i <= s.libPurged
  /\ hi # s.libLast => hi < s.libLast /\ s.libLast <= s.deferred /\ s.libLast <= s.requested
  /\ s.stage = "none" =>
       /\ s.installing = None /\ s.libPurged <= s.applied /\ s.applied <= s.libLast
       /\ hi # s.libLast => s.libLast = s.applied
  /\ s.stage # "none" =>
       /\ s.installing # None /\ s.libPurged = s.installing /\ s.installing <= s.libLast
       /\ hi # s.libLast => s.libLast = s.installing
  /\ s.stage = "received" => s.applied < s.installing /\ s.installing <= s.deferred
  /\ s.stage = "replaced" => s.applied = s.installing

(* A member that is down remembers nothing of its run.                      *)
StoppedInv(s) == s.requested = None /\ s.stage = "none" /\ s.installing = None

(* A refusal stops the member, and it met a deferred purge that the run had *)
(* not asked for.                                                           *)
RefusedInv(s) == ~s.up /\ s.refused \in {"hole", "truncate"} /\ s.deferred > s.requested

(* The inductive invariant: one run of entries explains the store, through  *)
(* every stop and start.                                                    *)
MemberInv(s) ==
  /\ s \in RaftStates
  /\ \E lo, hi \in Int :
       /\ LogInv(s, lo, hi)
       /\ s.refused = "none" => StaleInv(s) /\ (IF s.up THEN RunInv(s, hi) ELSE StoppedInv(s))
       /\ s.refused # "none" => RefusedInv(s)

(* A new member has an empty log and an empty store.                        *)
LEMMA RaftInitially == RaftInit => MemberInv(sys)
<1> SUFFICES ASSUME RaftInit PROVE MemberInv(sys)
  BY Zenon
<1>1. sys \in RaftStates
  BY DEF RaftInit, RaftStates, Positions, None
<1>2. LogInv(sys, 0, -1) /\ StaleInv(sys) /\ RunInv(sys, -1) /\ sys.refused = "none" /\ sys.up
  <2>1. 0 .. -1 = {}
    OBVIOUS
  <2> QED BY <2>1 DEF RaftInit, LogInv, StaleInv, RunInv, None
<1> QED BY <1>1, <1>2 DEF MemberInv

(* Positions are whole numbers from the one that stands for none.           *)
LEMMA PositionsAre ==
  /\ \A i \in Positions : i \in Int /\ i >= -1
  /\ None \in Positions /\ None = -1
  BY DEF Positions, None

(* The fields of a member that are positions, and its sets of indexes.      *)
LEMMA Positioned ==
  ASSUME NEW s \in RaftStates
  PROVE  /\ s.purged \in Positions /\ s.deferred \in Positions /\ s.applied \in Positions
         /\ s.pointer \in Positions /\ s.requested \in Positions /\ s.libPurged \in Positions
         /\ s.libLast \in Positions /\ s.installing \in Positions
         /\ s.entries \in SUBSET Nat /\ s.stale \in SUBSET Nat
  BY Zenon DEF RaftStates

(* The same as numbers, for the steps that compare them.                    *)
LEMMA Numbers ==
  ASSUME NEW s \in RaftStates
  PROVE  /\ s.purged \in Int /\ s.deferred \in Int /\ s.applied \in Int
         /\ s.pointer \in Int /\ s.requested \in Int /\ s.libPurged \in Int
         /\ s.libLast \in Int /\ s.installing \in Int
         /\ s.purged >= -1 /\ s.deferred >= -1 /\ s.applied >= -1
         /\ s.pointer >= -1 /\ s.requested >= -1 /\ s.libPurged >= -1
         /\ s.libLast >= -1 /\ s.installing >= -1
  BY Positioned, PositionsAre, Zenon

(* The least and the greatest entry of a log that is not empty.             *)
LEMMA Span ==
  ASSUME NEW lo \in Int, NEW hi \in Int, lo <= hi
  PROVE  lo .. hi # {} /\ Min(lo .. hi) = lo /\ Max(lo .. hi) = hi
<1>1. lo \in lo .. hi /\ hi \in lo .. hi /\ \A i \in lo .. hi : lo <= i /\ i <= hi
  OBVIOUS
<1>2. Min(lo .. hi) \in lo .. hi /\ \A i \in lo .. hi : Min(lo .. hi) <= i
  BY <1>1, Zenon DEF Min
<1>3. Max(lo .. hi) \in lo .. hi /\ \A i \in lo .. hi : Max(lo .. hi) >= i
  BY <1>1, Zenon DEF Max
<1> QED BY <1>1, <1>2, <1>3

(* Everything but the log. *)
SameRun(p, s) ==
  /\ p.applied = s.applied /\ p.pointer = s.pointer /\ p.up = s.up
  /\ p.libPurged = s.libPurged /\ p.libLast = s.libLast /\ p.installing = s.installing
  /\ p.stage = s.stage /\ p.refused = s.refused

(* The log was cut up to a position. *)
CutTo(p, s, upto) ==
  /\ p.entries = {i \in s.entries : i > upto} /\ p.stale = {i \in s.stale : i > upto}
  /\ p.purged = upto

(* What purge_locked leaves: the entries past its bound, and the record of  *)
(* what is still to purge.                                                  *)
LEMMA PurgeLocked ==
  ASSUME NEW s \in RaftStates, NEW upto \in Positions, NEW deferred \in Positions
  PROVE  LET p == purge_locked(s, upto, deferred)
         IN /\ p \in RaftStates /\ CutTo(p, s, upto) /\ SameRun(p, s)
            /\ p.deferred = deferred /\ p.requested = s.requested
<1> DEFINE e == {i \in s.entries : i > upto}
           t == {i \in s.stale : i > upto}
           p == [s EXCEPT !.entries = e, !.stale = t, !.purged = upto, !.deferred = deferred]
<1>1. e \in SUBSET Nat /\ t \in SUBSET Nat
  BY Zenon DEF RaftStates
<1>2. p \in RaftStates /\ p.entries = e /\ p.stale = t /\ p.purged = upto /\ p.deferred = deferred
      /\ p.requested = s.requested /\ SameRun(p, s)
  <2> HIDE DEF e, t
  <2> QED BY <1>1, Zenon DEF RaftStates, SameRun
<1>3. purge_locked(s, upto, deferred) = p
  BY Zenon DEF purge_locked
<1> QED BY <1>2, <1>3, Zenon DEF CutTo

(* A purge no further than the store leaves one run of entries, and the gap *)
(* it may leave lies under the deferred record.                             *)
LEMMA LogCut ==
  ASSUME NEW s \in RaftStates, NEW p \in RaftStates, NEW lo \in Int, NEW hi \in Int,
         LogInv(s, lo, hi), NEW upto \in Positions, s.purged <= upto, upto <= s.applied,
         CutTo(p, s, upto), p.applied = s.applied, p.pointer = s.pointer,
         lo <= upto + 1 \/ (lo <= p.deferred /\ p.requested < p.deferred)
  PROVE  \E l \in Int : LogInv(p, l, IF hi > upto THEN hi ELSE upto)
<1>1. upto \in Int /\ s.applied \in Int /\ s.purged \in Int /\ p.deferred \in Int /\ p.requested \in Int
  BY Zenon DEF Positions, RaftStates
<1>2. p.stale \subseteq p.entries
  BY Zenon DEF LogInv, CutTo
<1>3. CASE hi <= upto
  <2>1. p.entries = {} /\ (upto + 1) .. upto = {}
    BY <1>1, <1>3 DEF LogInv, CutTo
  <2>2. LogInv(p, upto + 1, upto)
    BY <1>1, <1>2, <2>1 DEF LogInv, CutTo
  <2> QED BY <1>1, <1>3, <2>2
<1>4. CASE hi > upto /\ lo <= upto
  <2>1. p.entries = (upto + 1) .. hi
    BY <1>1, <1>4 DEF LogInv, CutTo
  <2>2. LogInv(p, upto + 1, hi)
    BY <1>1, <1>2, <1>4, <2>1 DEF LogInv, CutTo
  <2> QED BY <1>1, <1>4, <2>2
<1>5. CASE hi > upto /\ lo > upto
  <2>1. p.entries = lo .. hi
    BY <1>1, <1>5 DEF LogInv, CutTo
  <2>2. LogInv(p, lo, hi)
    BY <1>1, <1>2, <1>5, <2>1 DEF LogInv, CutTo
  <2> QED BY <1>1, <1>5, <2>2, Zenon
<1> QED BY <1>1, <1>3, <1>4, <1>5

(* A purge the library asks for is remembered for the run.                  *)
LEMMA Asked ==
  ASSUME NEW s \in RaftStates, NEW at \in Positions
  PROVE  LET asked == [s EXCEPT !.requested = Later(s.requested, at)]
         IN /\ asked \in RaftStates /\ asked.requested = Later(s.requested, at)
            /\ asked.entries = s.entries /\ asked.stale = s.stale /\ asked.purged = s.purged
            /\ asked.deferred = s.deferred /\ SameRun(asked, s)
<1>1. Later(s.requested, at) \in Positions
  BY Zenon DEF Later, RaftStates
<1> QED BY <1>1, Zenon DEF RaftStates, SameRun

(* A purge the store has reached is made at once, and forgets a deferred    *)
(* one it covers.                                                           *)
LEMMA PurgeReached ==
  ASSUME NEW s \in RaftStates, NEW at \in Positions, at # None, s.purged <= at, at <= s.applied
  PROVE  LET p == purge(s, at)
         IN /\ p \in RaftStates /\ CutTo(p, s, at) /\ SameRun(p, s)
            /\ p.requested = Later(s.requested, at)
            /\ p.deferred = IF s.deferred > at THEN s.deferred ELSE None
<1> DEFINE asked == [s EXCEPT !.requested = Later(s.requested, at)]
           keep == IF s.deferred > at THEN s.deferred ELSE None
<1>1. s.applied \in Int /\ s.purged \in Int /\ at \in Int /\ s.deferred \in Positions /\ None \in Positions
  BY Positioned, PositionsAre, Zenon
<1>2. purge(s, at) = purge_locked(asked, at, keep)
  BY <1>1 DEF purge
<1>3. keep \in Positions
  BY <1>1, Zenon
<1>4. /\ asked \in RaftStates /\ asked.requested = Later(s.requested, at)
      /\ asked.entries = s.entries /\ asked.stale = s.stale /\ SameRun(asked, s)
  BY Asked, Zenon
<1> HIDE DEF asked, keep
<1>5. /\ purge(s, at) \in RaftStates /\ CutTo(purge(s, at), asked, at) /\ SameRun(purge(s, at), asked)
      /\ purge(s, at).deferred = keep /\ purge(s, at).requested = asked.requested
  BY <1>2, <1>3, <1>4, PurgeLocked
<1> QED BY <1>4, <1>5, Zenon DEF CutTo, SameRun, keep

(* A purge past the store is made up to the store, and the rest is          *)
(* deferred.                                                                *)
LEMMA PurgeDeferred ==
  ASSUME NEW s \in RaftStates, NEW at \in Positions, s.purged <= s.applied, s.applied < at
  PROVE  LET p == purge(s, at)
         IN /\ p \in RaftStates /\ CutTo(p, s, s.applied) /\ SameRun(p, s)
            /\ p.requested = Later(s.requested, at) /\ p.deferred = Later(s.deferred, at)
<1> DEFINE asked == [s EXCEPT !.requested = Later(s.requested, at)]
           keep == Later(s.deferred, at)
           p == purge(s, at)
<1>1. s.applied \in Int /\ s.purged \in Int /\ at \in Int /\ None \in Int /\ s.applied \in Positions
      /\ s.purged >= -1 /\ None = -1 /\ s.applied >= -1
  BY Positioned, PositionsAre, Zenon
<1>2. keep \in Positions
  BY Zenon DEF Later, RaftStates
<1>3. /\ asked \in RaftStates /\ asked.requested = Later(s.requested, at)
      /\ asked.entries = s.entries /\ asked.stale = s.stale /\ asked.purged = s.purged
      /\ asked.deferred = s.deferred /\ SameRun(asked, s)
  BY Asked, Zenon
<1>4. CASE s.applied = None
  <2>1. p = RecordDeferred(asked, at)
    BY <1>1, <1>4 DEF purge
  <2>2. p = [asked EXCEPT !.deferred = keep]
    BY <1>3, <2>1, Zenon DEF RecordDeferred
  <2> HIDE DEF asked, keep, p
  <2>3. /\ p \in RaftStates /\ p.entries = s.entries /\ p.stale = s.stale /\ p.purged = s.purged
        /\ p.deferred = keep /\ p.requested = asked.requested /\ SameRun(p, asked)
    BY <1>2, <1>3, <2>2, Zenon DEF RaftStates, SameRun
  <2>4. s.purged = None /\ (\A i \in s.entries : i > None) /\ (\A i \in s.stale : i > None)
    <3>1. s.entries \in SUBSET Nat /\ s.stale \in SUBSET Nat
      BY Positioned, Zenon
    <3> QED BY <1>1, <1>4, <3>1
  <2>5. CutTo(p, s, s.applied)
    BY <1>4, <2>3, <2>4, Zenon DEF CutTo
  <2> QED BY <1>3, <2>3, <2>5, Zenon DEF SameRun, keep, p
<1>5. CASE s.applied # None
  <2>0. ~(s.applied < s.purged) /\ s.applied # at /\ s.applied # None /\ ~(s.applied >= at)
    BY <1>1, <1>5
  <2>1. p = purge_locked(asked, s.applied, keep)
    BY <2>0, Zenon DEF purge
  <2> HIDE DEF asked, keep, p
  <2>2. /\ p \in RaftStates /\ CutTo(p, asked, s.applied) /\ SameRun(p, asked)
        /\ p.deferred = keep /\ p.requested = asked.requested
    BY <1>1, <1>2, <1>3, <2>1, PurgeLocked, Zenon
  <2> QED BY <1>3, <2>2, Zenon DEF SameRun, CutTo, keep, p
<1> QED BY <1>4, <1>5, Zenon

(* A refusal stops the member and leaves what is stored.                    *)
LEMMA Stopped ==
  ASSUME NEW s \in RaftStates, NEW why \in {"hole", "truncate", "below the purge point",
                                            "entry missing", "start", "position"}
  PROVE  LET p == Stops(s, why)
         IN /\ p \in RaftStates /\ p.refused = why /\ p.up = FALSE
            /\ p.entries = s.entries /\ p.stale = s.stale /\ p.purged = s.purged
            /\ p.applied = s.applied /\ p.pointer = s.pointer
            /\ p.deferred = s.deferred /\ p.requested = s.requested
  BY Zenon DEF Stops, RaftStates

(* A refusal under a deferred purge that this run did not ask for. *)
LEMMA Refuses ==
  ASSUME NEW s \in RaftStates, NEW lo \in Int, NEW hi \in Int, LogInv(s, lo, hi),
         s.requested < s.deferred, NEW why \in {"hole", "truncate"}
  PROVE  MemberInv(Stops(s, why))
<1>0. why \in {"hole", "truncate", "below the purge point", "entry missing", "start", "position"}
  BY Zenon
<1>1. LET p == Stops(s, why)
      IN /\ p \in RaftStates /\ p.refused = why /\ p.up = FALSE
         /\ p.entries = s.entries /\ p.stale = s.stale /\ p.purged = s.purged
         /\ p.applied = s.applied /\ p.pointer = s.pointer
         /\ p.deferred = s.deferred /\ p.requested = s.requested
  BY <1>0, Stopped, Zenon
<1>2. LogInv(Stops(s, why), lo, hi)
  BY <1>1, Zenon DEF LogInv
<1>3. RefusedInv(Stops(s, why)) /\ Stops(s, why).refused # "none"
  BY <1>1, Numbers, Zenon DEF RefusedInv
<1> QED BY <1>1, <1>2, <1>3, Zenon DEF MemberInv

(* The deferred record goes, and the log stays. *)
LEMMA Undeferred ==
  ASSUME NEW s \in RaftStates
  PROVE  LET p == [s EXCEPT !.deferred = None]
         IN /\ p \in RaftStates /\ p.entries = s.entries /\ p.stale = s.stale
            /\ p.purged = s.purged /\ p.deferred = None /\ p.requested = s.requested
            /\ SameRun(p, s)
  BY PositionsAre, Zenon DEF RaftStates, SameRun

(* The parts of a pair.                                                     *)
LEMMA Pair ==
  ASSUME NEW a, NEW b, NEW p, p = <<a, b>>
  PROVE  p[1] = a /\ p[2] = b
  BY Zenon

(* The branches of the settlement, by what is to be completed.              *)
LEMMA SettledAs ==
  ASSUME NEW s, NEW start, NEW target, NEW keep, Completion(s, start) = <<target, keep>>
  PROVE  /\ target = None => Settled(s, start) = s
         /\ target # None /\ s.purged >= target /\ keep = None =>
              Settled(s, start) = [s EXCEPT !.deferred = None]
         /\ target # None /\ s.purged >= target /\ keep # None => Settled(s, start) = s
         /\ target # None /\ ~(s.purged >= target) /\ (start \/ s.requested >= target) =>
              Settled(s, start) = purge_locked(s, target, keep)
         /\ target # None /\ ~(s.purged >= target) /\ ~start /\ ~(s.requested >= target) =>
              Settled(s, start) = s
<1>1. Completion(s, start)[1] = target /\ Completion(s, start)[2] = keep
  OBVIOUS
<1> QED BY <1>1, Zenon DEF Settled

(* A deferred purge settled while the library runs leaves the log the       *)
(* library's, or meets a purge that this run did not ask for.               *)
LEMMA SettledInRun ==
  ASSUME NEW s \in RaftStates, NEW lo \in Int, NEW hi \in Int, LogInv(s, lo, hi), StaleInv(s),
         RunInv(s, hi), s.stage = "none", s.applied # None
  PROVE  LET x == Settled(s, FALSE)
         IN /\ x \in RaftStates /\ SameRun(x, s) /\ x.requested = s.requested
            /\ \E l, h \in Int : LogInv(x, l, h) /\ StaleInv(x) /\ RunInv(x, h)
                 /\ (h = x.libLast \/ x.requested < x.deferred)
<1> DEFINE x == Settled(s, FALSE)
<1>0. /\ s.purged \in Int /\ s.deferred \in Int /\ s.applied \in Int /\ s.requested \in Int
      /\ s.libPurged \in Int /\ s.libLast \in Int /\ s.purged >= -1 /\ s.applied >= -1
      /\ s.deferred >= -1 /\ s.requested >= -1 /\ None = -1
      /\ s.deferred \in Positions /\ s.applied \in Positions /\ None \in Positions
      /\ s.entries \in SUBSET Nat /\ s.stale \in SUBSET Nat
  BY Numbers, Positioned, PositionsAre, Zenon
<1>1. CASE x = s /\ (hi = s.libLast \/ s.requested < s.deferred)
  BY <1>1, Zenon DEF SameRun
<1>2. CASE s.deferred # None /\ s.deferred <= s.applied /\ s.purged >= s.deferred
  <2>1. Completion(s, FALSE) = <<s.deferred, None>>
    BY <1>0, <1>2 DEF Completion
  <2>2. x = [s EXCEPT !.deferred = None]
    BY <1>2, <2>1, SettledAs, Zenon
  <2> HIDE DEF x
  <2>3. /\ x \in RaftStates /\ x.entries = s.entries /\ x.stale = s.stale
        /\ x.purged = s.purged /\ x.deferred = None /\ x.requested = s.requested
        /\ SameRun(x, s)
    BY <2>2, Undeferred, Zenon
  <2>4. hi = s.libLast /\ lo = s.purged + 1
    BY <1>0, <1>2 DEF LogInv, RunInv
  <2>5. \A i \in s.stale : i > s.applied
    <3> TAKE i \in s.stale
    <3>1. i \in Int /\ i > s.purged
      BY <1>0 DEF LogInv
    <3> QED BY <1>0, <1>2, <3>1 DEF StaleInv
  <2>6. LogInv(x, lo, hi) /\ StaleInv(x) /\ RunInv(x, hi)
    <3>1. LogInv(x, lo, hi)
      BY <2>3, <2>4, Zenon DEF LogInv, SameRun
    <3>2. StaleInv(x)
      BY <1>0, <2>3, <2>5 DEF StaleInv, SameRun
    <3>3. RunInv(x, hi)
      BY <2>3, <2>4, Zenon DEF RunInv, SameRun
    <3> QED BY <3>1, <3>2, <3>3, Zenon
  <2> QED BY <2>3, <2>4, <2>6, Zenon DEF SameRun, x
<1>3. CASE /\ s.deferred # None /\ s.deferred <= s.applied /\ s.purged < s.deferred
           /\ s.deferred <= s.requested
  <2>1. Completion(s, FALSE) = <<s.deferred, None>>
    BY <1>0, <1>3 DEF Completion
  <2>2. x = purge_locked(s, s.deferred, None)
    <3>1. s.deferred # None /\ ~(s.purged >= s.deferred) /\ (FALSE \/ s.requested >= s.deferred)
      BY <1>0, <1>3
    <3>2. Settled(s, FALSE) = purge_locked(s, s.deferred, None)
      <4>1. PICK c : c = Completion(s, FALSE)
        BY Zenon
      <4>2. c = <<s.deferred, None>>
        BY <2>1, <4>1, Zenon
      <4>3. c[1] = s.deferred /\ c[2] = None
        BY <4>2, Zenon
      <4> QED BY <3>1, <4>1, <4>3, Zenon DEF Settled
    <3> QED BY <3>2, Zenon
  <2> HIDE DEF x
  <2>3. /\ x \in RaftStates /\ CutTo(x, s, s.deferred) /\ SameRun(x, s)
        /\ x.deferred = None /\ x.requested = s.requested
    BY <1>0, <2>2, PurgeLocked, Zenon
  <2>4. lo <= s.deferred + 1
    BY <1>0, <1>3 DEF LogInv
  <2>5. PICK l \in Int : LogInv(x, l, IF hi > s.deferred THEN hi ELSE s.deferred)
    BY <1>0, <1>3, <2>3, <2>4, LogCut DEF SameRun
  <2>6. (IF hi > s.deferred THEN hi ELSE s.deferred) = s.libLast
    BY <1>0, <1>3 DEF RunInv
  <2>7. StaleInv(x)
    BY <1>0, <2>3 DEF StaleInv, CutTo, SameRun
  <2>8. RunInv(x, s.libLast)
    BY <1>0, <1>3, <2>3 DEF RunInv, CutTo, SameRun
  <2> QED BY <1>0, <2>3, <2>5, <2>6, <2>7, <2>8, Zenon DEF SameRun, x
<1>4. CASE /\ s.deferred # None /\ s.deferred <= s.applied /\ s.purged < s.deferred
           /\ s.requested < s.deferred
  <2>1. Completion(s, FALSE) = <<s.deferred, None>>
    BY <1>0, <1>4 DEF Completion
  <2>2. x = s
    <3>1. ~(s.purged >= s.deferred) /\ ~(s.requested >= s.deferred)
      BY <1>0, <1>4
    <3> QED BY <1>4, <2>1, <3>1, SettledAs, Zenon
  <2> QED BY <1>1, <1>4, <2>2, Zenon
<1>5. CASE s.deferred # None /\ s.applied < s.deferred
  <2>1. Completion(s, FALSE) = <<None, s.deferred>>
    BY <1>0, <1>5 DEF Completion
  <2>2. x = s
    BY <1>0, <2>1, SettledAs, Zenon
  <2>3. s.requested < s.deferred
    BY <1>0, <1>5 DEF RunInv
  <2> QED BY <1>1, <2>2, <2>3, Zenon
<1>6. CASE s.deferred = None
  <2>1. hi = s.libLast /\ s.applied <= hi
    BY <1>0, <1>6 DEF RunInv, LogInv
  <2>2. s.entries = {} => s.purged >= s.applied
    <3> SUFFICES ASSUME s.entries = {} PROVE s.purged >= s.applied
      BY Zenon
    <3>1. hi < lo
      <4> SUFFICES ASSUME lo <= hi PROVE FALSE
        OBVIOUS
      <4>1. lo \in lo .. hi
        OBVIOUS
      <4> QED BY <4>1, Zenon DEF LogInv
    <3>2. lo = s.purged + 1
      BY <3>1, Zenon DEF LogInv
    <3> QED BY <1>0, <2>1, <3>1, <3>2
  <2>3. ~(s.deferred # None /\ s.applied >= s.deferred) /\ ~(s.deferred # None /\ s.applied < s.deferred)
    BY <1>6, Zenon
  <2>4. Completion(s, FALSE) = <<IF s.entries = {} THEN s.applied ELSE None, None>>
    BY <2>3, Zenon DEF Completion
  <2>5. CASE s.entries # {}
    <3>1. x = s
      BY <2>4, <2>5, SettledAs, Zenon
    <3> QED BY <1>1, <2>1, <3>1, Zenon
  <2>6. CASE s.entries = {}
    <3>0. Completion(s, FALSE) = <<s.applied, None>> /\ s.purged >= s.applied
      BY <2>2, <2>4, <2>6, Zenon
    <3>1. x = [s EXCEPT !.deferred = None]
      BY <3>0, SettledAs, Zenon
    <3>2. x = s
      BY <1>6, <3>1, Zenon DEF RaftStates
    <3> QED BY <1>1, <2>1, <3>2, Zenon
  <2> QED BY <2>5, <2>6, Zenon
<1>7. \/ s.deferred = None
      \/ s.deferred # None /\ s.applied < s.deferred
      \/ s.deferred # None /\ s.deferred <= s.applied /\ s.purged >= s.deferred
      \/ s.deferred # None /\ s.deferred <= s.applied /\ s.purged < s.deferred /\ s.deferred <= s.requested
      \/ s.deferred # None /\ s.deferred <= s.applied /\ s.purged < s.deferred /\ s.requested < s.deferred
  BY <1>0
<1> QED BY <1>2, <1>3, <1>4, <1>5, <1>6, <1>7, Zenon

(* Settled at an append: the log is the library's, or the append meets a    *)
(* deferred purge of an earlier run.                                        *)
LEMMA SettleInRun ==
  ASSUME NEW s \in RaftStates, NEW lo \in Int, NEW hi \in Int, LogInv(s, lo, hi), StaleInv(s),
         RunInv(s, hi), s.stage = "none", s.refused = "none", s.up
  PROVE  LET r == settle_locked(s, FALSE)
         IN \/ r.refused # "none" /\ MemberInv(r)
            \/ /\ r \in RaftStates /\ SameRun(r, s) /\ r.requested = s.requested
               /\ \E l, h \in Int : LogInv(r, l, h) /\ StaleInv(r) /\ RunInv(r, h)
                 /\ (h = r.libLast \/ r.requested < r.deferred)
<1> DEFINE r == settle_locked(s, FALSE)
           x == Settled(s, FALSE)
<1>0. s.purged \in Int /\ s.applied \in Int /\ s.libLast \in Int /\ s.purged >= -1 /\ None = -1
  BY Numbers, PositionsAre, Zenon
<1>1. CASE s.applied = None
  <2>1. r = s
    BY <1>1, Zenon DEF settle_locked
  <2>2. hi = s.libLast
    BY <1>0, <1>1 DEF LogInv, RunInv
  <2>3. SameRun(s, s)
    BY Zenon DEF SameRun
  <2> QED BY <2>1, <2>2, <2>3, Zenon
<1>2. CASE s.applied # None
  <2>1. PICK l \in Int, h \in Int :
          /\ x \in RaftStates /\ SameRun(x, s) /\ x.requested = s.requested
          /\ LogInv(x, l, h) /\ StaleInv(x) /\ RunInv(x, h)
          /\ (h = x.libLast \/ x.requested < x.deferred)
    BY <1>2, SettledInRun, Zenon
  <2>2. CASE ~GapAfterPurge(x)
    <3>1. r = x
      BY <1>2, <2>2, Zenon DEF settle_locked
    <3> HIDE DEF x, r
    <3> QED BY <2>1, <3>1, Zenon DEF r
  <2>3. CASE GapAfterPurge(x)
    <3>1. r = Stops(x, "hole")
      BY <1>2, <2>3, Zenon DEF settle_locked
    <3> HIDE DEF x, r
    <3>2. l <= h
      <4> SUFFICES ASSUME h < l PROVE FALSE
        BY <2>1
      <4>1. l .. h = {}
        BY <2>1
      <4> QED BY <2>1, <2>3, <4>1, Zenon DEF LogInv, GapAfterPurge
    <3>3. Min(x.entries) = l
      BY <2>1, <3>2, Span, Zenon DEF LogInv
    <3>4. x.requested < x.deferred
      BY <2>1, <2>3, <3>3, Zenon DEF LogInv, GapAfterPurge
    <3>5. MemberInv(r)
      BY <2>1, <3>1, <3>4, Refuses, Zenon
    <3>6. r.refused = "hole"
      BY <2>1, <3>1, Stopped, Zenon
    <3> QED BY <3>5, <3>6, Zenon DEF r
  <2> QED BY <2>2, <2>3, Zenon
<1> QED BY <1>1, <1>2, Zenon

(* append_sync of a settled log. *)
AppendAt(r, i, old) ==
  LET expected == IF r.entries # {} THEN Max(r.entries) + 1
                  ELSE IF r.purged # None THEN r.purged + 1 ELSE i
  IN IF expected # i THEN Stops(r, "hole")
     ELSE [r EXCEPT !.entries = r.entries \cup {i}, !.libLast = i,
                    !.stale = IF old THEN r.stale \cup {i} ELSE r.stale]

(* The append that follows what the library holds keeps the log one run, or *)
(* is refused as a hole under an earlier deferred purge.                    *)
LEMMA Appends ==
  ASSUME NEW r \in RaftStates, NEW l \in Int, NEW h \in Int, LogInv(r, l, h), StaleInv(r), RunInv(r, h),
         h = r.libLast \/ r.requested < r.deferred, r.up, r.refused = "none", r.stage = "none",
         NEW old
  PROVE  MemberInv(AppendAt(r, r.libLast + 1, old))
<1>a. PICK i : i = r.libLast + 1
  BY Zenon
<1>0. PICK a, expected :
        /\ i = r.libLast + 1 /\ a = AppendAt(r, r.libLast + 1, old)
        /\ expected = IF r.entries # {} THEN Max(r.entries) + 1
                      ELSE IF r.purged # None THEN r.purged + 1 ELSE i
        /\ a = IF expected # i THEN Stops(r, "hole")
               ELSE [r EXCEPT !.entries = r.entries \cup {i}, !.libLast = i,
                              !.stale = IF old THEN r.stale \cup {i} ELSE r.stale]
  BY <1>a DEF AppendAt
<1>1. /\ r.purged \in Int /\ r.deferred \in Int /\ r.applied \in Int /\ r.requested \in Int
      /\ r.libPurged \in Int /\ r.libLast \in Int /\ r.purged >= -1 /\ None = -1
      /\ r.libLast >= -1 /\ r.entries \in SUBSET Nat /\ r.stale \in SUBSET Nat
      /\ r.applied <= r.libLast
  BY Numbers, Positioned, PositionsAre, Zenon DEF RunInv
<1>2. i \in Nat /\ i \in Positions
  BY <1>0, <1>1 DEF Positions
<1>3. expected = h + 1 \/ (expected = i /\ r.purged = None /\ h = None)
  <2>1. CASE l <= h
    <3>1. r.entries = l .. h
      BY Zenon DEF LogInv
    <3>2. r.entries # {} /\ Max(r.entries) = h
      BY <2>1, <3>1, Span, Zenon
    <3> QED BY <1>0, <3>2, Zenon
  <2>2. CASE h < l
    <3>1. l .. h = {} /\ r.entries = l .. h
      BY <2>2 DEF LogInv
    <3>2. h = r.purged
      BY <1>1, <2>2 DEF LogInv
    <3> QED BY <1>0, <3>1, <3>2, Zenon
  <2> QED BY <2>1, <2>2
<1>4. CASE expected # i
  <2>1. h # r.libLast
    BY <1>0, <1>1, <1>3, <1>4, Zenon
  <2>2. r.requested < r.deferred /\ a = Stops(r, "hole")
    BY <1>0, <1>4, <2>1, Zenon
  <2> QED BY <1>0, <2>2, Refuses
<1>5. CASE expected = i
  <2> DEFINE e == r.entries \cup {i}
             t == IF old THEN r.stale \cup {i} ELSE r.stale
  <2>2. a = [r EXCEPT !.entries = e, !.libLast = i, !.stale = t]
    BY <1>0, <1>5, Zenon
  <2>3. e \in SUBSET Nat /\ t \in SUBSET Nat /\ t \subseteq r.stale \cup {i}
    BY <1>1, <1>2, Zenon
  <2>4. /\ a \in RaftStates /\ a.entries = e /\ a.libLast = i /\ a.stale = t
        /\ a.purged = r.purged /\ a.deferred = r.deferred /\ a.applied = r.applied
        /\ a.pointer = r.pointer /\ a.up = r.up /\ a.requested = r.requested
        /\ a.libPurged = r.libPurged /\ a.installing = r.installing
        /\ a.stage = r.stage /\ a.refused = r.refused
    <3> HIDE DEF e, t
    <3> QED BY <1>2, <2>2, <2>3, Zenon DEF RaftStates
  <2>5. a.stale \subseteq a.entries
    <3>1. r.stale \subseteq r.entries
      BY Zenon DEF LogInv
    <3> QED BY <2>3, <2>4, <3>1, Zenon
  <2>7. /\ a.purged = r.purged /\ a.deferred = r.deferred /\ a.applied = r.applied
        /\ a.pointer = r.pointer /\ a.requested = r.requested
    BY <2>4, Zenon
  <2>a. /\ r.purged <= r.applied /\ r.pointer <= r.applied /\ l - 1 <= h /\ r.purged < l
        /\ l <= r.applied + 1 /\ (l = r.purged + 1 \/ (l <= r.deferred /\ r.requested < r.deferred))
    BY Zenon DEF LogInv
  <2>6. \E from \in Int : LogInv(a, from, i)
    <3>1. CASE h = r.libLast
      <4>1. l .. i = (l .. h) \cup {i}
        BY <1>0, <1>1, <1>2, <3>1 DEF LogInv
      <4>2. a.entries = l .. i
        <5>1. r.entries = l .. h
          BY Zenon DEF LogInv
        <5> QED BY <2>4, <4>1, <5>1, Zenon
      <4>3. l - 1 <= i /\ ~(i < l)
        BY <1>0, <1>1, <1>2, <2>a, <3>1
      <4>4. LogInv(a, l, i)
        BY <2>5, <2>7, <2>a, <4>2, <4>3, Zenon DEF LogInv
      <4> QED BY <4>4, Zenon
    <3>2. CASE h # r.libLast
      <4>1. r.libLast = r.applied /\ r.libLast <= r.requested /\ r.requested < r.deferred
            /\ h < r.libLast /\ h = r.purged
        BY <1>0, <1>1, <1>2, <1>3, <1>5, <3>2 DEF RunInv
      <4>2. h < l
        BY <1>0, <1>1, <4>1, <1>3, <1>5, Zenon DEF LogInv
      <4>3. l .. h = {} /\ i .. i = {i}
        BY <1>2, <4>2
      <4>4. a.entries = i .. i
        <5>1. r.entries = l .. h
          BY Zenon DEF LogInv
        <5> QED BY <2>4, <4>3, <5>1, Zenon
      <4>6. i - 1 <= i /\ r.purged < i /\ i <= r.applied + 1 /\ i <= r.deferred /\ ~(i < i)
        BY <1>0, <1>1, <1>2, <2>a, <4>1
      <4>5. LogInv(a, i, i)
        BY <2>5, <2>7, <2>a, <4>1, <4>4, <4>6, Zenon DEF LogInv
      <4> QED BY <1>2, <4>5
    <3> QED BY <3>1, <3>2, Zenon
  <2>8. \A j \in a.stale : j <= a.applied => j \in r.stale
    BY <1>0, <1>1, <1>2, <2>3, <2>4
  <2>9. StaleInv(a)
    BY <2>4, <2>8, Zenon DEF StaleInv
  <2>10. RunInv(a, i)
    BY <1>0, <1>1, <1>2, <2>4, <2>8 DEF RunInv
  <2>11. a.up /\ a.refused = "none"
    BY <2>4, Zenon
  <2>12. i \in Int
    BY <1>2
  <2> QED BY <1>0, <2>4, <2>6, <2>9, <2>10, <2>11, <2>12 DEF MemberInv
<1> QED BY <1>0, <1>4, <1>5, Zenon

(* append: settle_locked, then the entry.                                   *)
LEMMA AppendKeeps ==
  ASSUME MemberInv(sys), NEW old \in BOOLEAN, AppendEntry(old)
  PROVE  MemberInv(sys')
<1>0. PICK r, i : r = settle_locked(sys, FALSE) /\ i = sys.libLast + 1
  BY Zenon
<1>1. /\ sys.up /\ sys.refused = "none" /\ sys.installing = None /\ sys \in RaftStates
      /\ sys' = append_sync(sys, i, old)
  BY <1>0, Zenon DEF AppendEntry, Up, MemberInv
<1>2. PICK lo \in Int, hi \in Int : LogInv(sys, lo, hi) /\ StaleInv(sys) /\ RunInv(sys, hi)
  BY <1>1, Zenon DEF MemberInv
<1>3. sys.stage = "none"
  BY <1>1, <1>2, Zenon DEF RunInv
<1>4. \/ r.refused # "none" /\ MemberInv(r)
      \/ /\ r \in RaftStates /\ SameRun(r, sys) /\ r.requested = sys.requested
         /\ \E l, h \in Int : LogInv(r, l, h) /\ StaleInv(r) /\ RunInv(r, h)
                 /\ (h = r.libLast \/ r.requested < r.deferred)
  BY <1>0, <1>1, <1>2, <1>3, SettleInRun, Zenon
<1>5. CASE r.refused # "none"
  <2>1. sys' = r
    BY <1>0, <1>1, <1>5, Zenon DEF append_sync
  <2>2. MemberInv(r)
    BY <1>1, <1>4, <1>5, Zenon DEF SameRun
  <2> QED BY <2>1, <2>2, Zenon
<1>6. CASE r.refused = "none"
  <2>1. PICK l \in Int, h \in Int : LogInv(r, l, h) /\ StaleInv(r) /\ RunInv(r, h)
                 /\ (h = r.libLast \/ r.requested < r.deferred)
    BY <1>4, <1>6, Zenon
  <2>2. r \in RaftStates /\ i = r.libLast + 1 /\ r.up /\ r.stage = "none"
    BY <1>0, <1>1, <1>3, <1>4, <1>6, Zenon DEF SameRun
  <2>3. sys' = AppendAt(r, r.libLast + 1, old)
    BY <1>0, <1>1, <1>6, <2>2, Zenon DEF append_sync, AppendAt
  <2>4. MemberInv(AppendAt(r, r.libLast + 1, old))
    BY <1>6, <2>1, <2>2, Appends, Zenon
  <2> QED BY <2>3, <2>4, Zenon
<1> QED BY <1>5, <1>6, Zenon

(* A set of indexes has a least one. *)
LEMMA Least ==
  ASSUME NEW S \in SUBSET Nat, S # {}
  PROVE  Min(S) \in S /\ \A j \in S : Min(S) <= j
<1>1. PICK x \in S : \A y \in S : ~(<<y, x>> \in OpToRel(<, Nat))
  BY NatLessThanWellFounded, WFMin, Zenon
<1>2. \A y \in S : x <= y
  <2> TAKE y \in S
  <2>1. ~(y < x)
    BY <1>1, Zenon DEF OpToRel
  <2> QED BY <2>1
<1> QED BY <1>2, Zenon DEF Min

(* truncate_sync past the store's position: refused under a deferred purge  *)
(* of an earlier run, and otherwise the log is the library's.               *)
LEMMA Truncates ==
  ASSUME NEW s \in RaftStates, NEW lo \in Int, NEW hi \in Int, LogInv(s, lo, hi), StaleInv(s),
         RunInv(s, hi), s.stage = "none", s.up, s.refused = "none", NEW i \in Nat,
         s.applied < i, i <= hi, s.requested < i
  PROVE  LET c == truncate_sync(s, i)
         IN \/ c.refused # "none" /\ MemberInv(c)
            \/ /\ c \in RaftStates /\ c.refused = "none" /\ c.up /\ c.stage = "none"
               /\ c.applied = s.applied
               /\ LogInv(c, lo, i - 1) /\ StaleInv(c) /\ RunInv(c, i - 1)
<1>0. /\ s.purged \in Int /\ s.deferred \in Int /\ s.applied \in Int /\ s.requested \in Int
      /\ s.libPurged \in Int /\ s.libLast \in Int /\ s.purged >= -1 /\ None = -1
      /\ s.deferred >= -1 /\ s.entries \in SUBSET Nat /\ s.stale \in SUBSET Nat
  BY Numbers, Positioned, PositionsAre, Zenon
<1>1. CASE s.deferred # None /\ i <= s.deferred
  <2>1. truncate_sync(s, i) = Stops(s, "truncate")
    BY <1>1, Zenon DEF truncate_sync
  <2>2. MemberInv(Stops(s, "truncate"))
    BY <1>0, <1>1, Refuses
  <2>3. Stops(s, "truncate").refused = "truncate"
    BY Stopped, Zenon
  <2> QED BY <2>1, <2>2, <2>3, Zenon
<1>2. CASE ~(s.deferred # None /\ i <= s.deferred)
  <2> DEFINE e == {j \in s.entries : j < i}
             t == {j \in s.stale : j < i}
  <2>1. PICK c : c = [s EXCEPT !.entries = e, !.stale = t, !.libLast = i - 1]
    BY Zenon
  <2>2. truncate_sync(s, i) = c
    BY <1>2, <2>1, Zenon DEF truncate_sync
  <2>3. e \in SUBSET Nat /\ t \in SUBSET Nat /\ i - 1 \in Positions
    BY <1>0 DEF Positions
  <2>4. /\ c \in RaftStates /\ c.entries = e /\ c.stale = t /\ c.libLast = i - 1
        /\ c.purged = s.purged /\ c.deferred = s.deferred /\ c.applied = s.applied
        /\ c.pointer = s.pointer /\ c.up = s.up /\ c.requested = s.requested
        /\ c.libPurged = s.libPurged /\ c.installing = s.installing
        /\ c.stage = s.stage /\ c.refused = s.refused
    <3> HIDE DEF e, t
    <3> QED BY <2>1, <2>3, Zenon DEF RaftStates
  <2>5. s.deferred < i
    BY <1>0, <1>2
  <2>6. c.entries = lo .. (i - 1) /\ c.stale \subseteq c.entries
    BY <1>0, <2>4 DEF LogInv
  <2>7. LogInv(c, lo, i - 1)
    <3>1. /\ s.purged <= s.applied /\ s.pointer <= s.applied /\ s.purged < lo /\ lo <= s.applied + 1
          /\ (lo = s.purged + 1 \/ (lo <= s.deferred /\ s.requested < s.deferred))
      BY Zenon DEF LogInv
    <3>2. lo - 1 <= i - 1 /\ (i - 1 < lo => lo = s.purged + 1)
      BY <1>0, <2>5, <3>1
    <3> QED BY <2>4, <2>6, <3>1, <3>2, Zenon DEF LogInv
  <2>8. StaleInv(c)
    BY <2>4, Zenon DEF StaleInv
  <2>9. RunInv(c, i - 1)
    BY <1>0, <2>4 DEF RunInv
  <2>10. c.refused = "none" /\ c.up /\ c.stage = "none"
    BY <2>4, Zenon
  <2> QED BY <2>2, <2>4, <2>7, <2>8, <2>9, <2>10, Zenon
<1> QED BY <1>1, <1>2, Zenon

(* What a running member's invariant gives. *)
LEMMA Running ==
  ASSUME MemberInv(sys), Up
  PROVE  /\ sys \in RaftStates /\ sys.up /\ sys.refused = "none"
         /\ \E lo, hi \in Int : LogInv(sys, lo, hi) /\ StaleInv(sys) /\ RunInv(sys, hi)
  BY Zenon DEF MemberInv, Up

(* truncate: from the first entry that conflicts.                           *)
LEMMA TruncateKeeps ==
  ASSUME MemberInv(sys), TruncateStale
  PROVE  MemberInv(sys')
<1>1. Up /\ sys.installing = None /\ Conflicting # {} /\ sys' = truncate_sync(sys, Min(Conflicting))
  BY Zenon DEF TruncateStale
<1>2. PICK lo \in Int, hi \in Int : LogInv(sys, lo, hi) /\ StaleInv(sys) /\ RunInv(sys, hi)
  BY <1>1, Running, Zenon
<1>3. sys \in RaftStates /\ sys.up /\ sys.refused = "none" /\ sys.stage = "none"
  BY <1>1, <1>2, Running, Zenon DEF RunInv
<1>4. PICK i : i = Min(Conflicting)
  BY Zenon
<1>5. i \in sys.stale /\ i > sys.libPurged /\ i \in Nat
  <2>1. Conflicting \in SUBSET Nat
    BY <1>3, Positioned, Zenon DEF Conflicting
  <2>2. i \in Conflicting
    BY <1>1, <1>4, <2>1, Least, Zenon
  <2> QED BY <2>1, <2>2, Zenon DEF Conflicting
<1>6. sys.applied < i /\ sys.requested < i /\ i <= hi /\ i - 1 \in Int
  <2>1. i \in lo .. hi
    BY <1>2, <1>5, Zenon DEF LogInv
  <2>2. sys.applied \in Int /\ sys.requested \in Int /\ sys.libPurged \in Int
    BY <1>3, Numbers, Zenon
  <2> QED BY <1>2, <1>3, <1>5, <2>1, <2>2 DEF RunInv
<1>7. PICK c : c = truncate_sync(sys, i)
  BY Zenon
<1>8. \/ c.refused # "none" /\ MemberInv(c)
      \/ /\ c \in RaftStates /\ c.refused = "none" /\ c.up /\ c.stage = "none"
         /\ c.applied = sys.applied
         /\ LogInv(c, lo, i - 1) /\ StaleInv(c) /\ RunInv(c, i - 1)
  BY <1>2, <1>3, <1>5, <1>6, <1>7, Truncates
<1>9. MemberInv(c)
  BY <1>6, <1>8, Zenon DEF MemberInv
<1> QED BY <1>1, <1>4, <1>7, <1>9, Zenon

(* The bounds among the log's ends, the purge point and the store's position. *)
LEMMA LogBounds ==
  ASSUME NEW s, NEW lo, NEW hi, LogInv(s, lo, hi)
  PROVE  /\ s.purged <= s.applied /\ s.pointer <= s.applied
         /\ lo - 1 <= hi /\ s.purged < lo /\ lo <= s.applied + 1
         /\ hi < lo => lo = s.purged + 1
         /\ lo = s.purged + 1 \/ (lo <= s.deferred /\ s.requested < s.deferred)
  BY Zenon DEF LogInv

(* apply: the store takes the next entry the library holds.                 *)
LEMMA ApplyKeeps ==
  ASSUME MemberInv(sys), ApplyEntry
  PROVE  MemberInv(sys')
<1>1. /\ Up /\ sys.installing = None /\ sys.applied < sys.libLast /\ sys.applied + 1 \notin Conflicting
      /\ sys' = IF sys.applied + 1 \in sys.entries THEN [sys EXCEPT !.applied = sys.applied + 1]
                ELSE Stops(sys, "entry missing")
  BY Zenon DEF ApplyEntry
<1>2. PICK lo \in Int, hi \in Int : LogInv(sys, lo, hi) /\ StaleInv(sys) /\ RunInv(sys, hi)
  BY <1>1, Running, Zenon
<1>3. /\ sys \in RaftStates /\ sys.up /\ sys.refused = "none" /\ sys.stage = "none"
      /\ sys.applied \in Int /\ sys.libLast \in Int /\ sys.libPurged \in Int /\ sys.applied >= -1
      /\ sys.stale \in SUBSET Nat /\ sys.purged \in Int /\ sys.deferred \in Int
  BY <1>1, <1>2, Running, Numbers, Positioned, Zenon DEF RunInv
<1>4. PICK i : i = sys.applied + 1
  BY Zenon
<1>a. lo <= sys.applied + 1 /\ sys.purged <= sys.applied /\ sys.pointer <= sys.applied
  BY <1>2, LogBounds, Zenon
<1>b. sys.applied < sys.libLast
  BY <1>1, Zenon
<1>5. i \in Int /\ i \in Positions /\ hi = sys.libLast /\ i <= hi /\ lo <= i
  <2>1. i \in Int /\ i >= -1 /\ lo <= i
    BY <1>3, <1>4, <1>a
  <2>2. hi = sys.libLast
    BY <1>2, <1>3, <1>b DEF RunInv
  <2> QED BY <1>3, <1>4, <1>b, <2>1, <2>2 DEF Positions, None
<1>6. i \in sys.entries
  BY <1>2, <1>5 DEF LogInv
<1>7. sys' = [sys EXCEPT !.applied = i]
  BY <1>1, <1>4, <1>6, Zenon
<1>8. PICK p : p = [sys EXCEPT !.applied = i]
  BY Zenon
<1>9. /\ p \in RaftStates /\ p.entries = sys.entries /\ p.stale = sys.stale /\ p.libLast = sys.libLast
      /\ p.purged = sys.purged /\ p.deferred = sys.deferred /\ p.applied = i
      /\ p.pointer = sys.pointer /\ p.up = sys.up /\ p.requested = sys.requested
      /\ p.libPurged = sys.libPurged /\ p.installing = sys.installing
      /\ p.stage = sys.stage /\ p.refused = sys.refused
  BY <1>3, <1>5, <1>8, Zenon DEF RaftStates
<1>10. \A j \in sys.stale : j <= i => j <= sys.applied
  <2> SUFFICES ASSUME NEW j \in sys.stale, j <= i, ~(j <= sys.applied) PROVE FALSE
    BY Zenon
  <2>1. j = i /\ j > sys.libPurged
    BY <1>2, <1>3, <1>4, <1>5 DEF RunInv
  <2> QED BY <1>1, <1>4, <2>1, Zenon DEF Conflicting
<1>11. LogInv(p, lo, hi)
  <2>1. sys.pointer \in Int
    BY <1>3, Numbers, Zenon
  <2>2. p.purged <= i /\ p.pointer <= i /\ lo <= i + 1
    BY <1>3, <1>4, <1>9, <1>a, <2>1
  <2> QED BY <1>2, <1>9, <2>2, Zenon DEF LogInv
<1>12. StaleInv(p)
  BY <1>2, <1>9, <1>10, Zenon DEF StaleInv
<1>13. RunInv(p, hi)
  BY <1>2, <1>3, <1>4, <1>5, <1>9, <1>10 DEF RunInv
<1>14. p.up /\ p.refused = "none"
  BY <1>3, <1>9, Zenon
<1> QED BY <1>7, <1>8, <1>9, <1>11, <1>12, <1>13, <1>14, Zenon DEF MemberInv

(* A snapshot is built at the store's position.                             *)
LEMMA BuildKeeps ==
  ASSUME MemberInv(sys), BuildSnapshot
  PROVE  MemberInv(sys')
<1>1. Up /\ sys' = [sys EXCEPT !.pointer = sys.applied]
  BY Zenon DEF BuildSnapshot
<1>2. PICK lo \in Int, hi \in Int : LogInv(sys, lo, hi) /\ StaleInv(sys) /\ RunInv(sys, hi)
  BY <1>1, Running, Zenon
<1>3. sys \in RaftStates /\ sys.up /\ sys.refused = "none" /\ sys.applied \in Positions /\ sys.applied \in Int
  BY <1>1, Running, Numbers, Positioned, Zenon
<1>4. PICK p : p = [sys EXCEPT !.pointer = sys.applied]
  BY Zenon
<1>5. /\ p \in RaftStates /\ p.entries = sys.entries /\ p.stale = sys.stale /\ p.libLast = sys.libLast
      /\ p.purged = sys.purged /\ p.deferred = sys.deferred /\ p.applied = sys.applied
      /\ p.pointer = sys.applied /\ p.up = sys.up /\ p.requested = sys.requested
      /\ p.libPurged = sys.libPurged /\ p.installing = sys.installing
      /\ p.stage = sys.stage /\ p.refused = sys.refused
  BY <1>3, <1>4, Zenon DEF RaftStates
<1>6. LogInv(p, lo, hi) /\ StaleInv(p)
  BY <1>2, <1>3, <1>5 DEF LogInv, StaleInv
<1>7. RunInv(p, hi)
  BY <1>2, <1>5, Zenon DEF RunInv
<1>8. p.up /\ p.refused = "none"
  BY <1>3, <1>5, Zenon
<1> QED BY <1>1, <1>4, <1>5, <1>6, <1>7, <1>8, Zenon DEF MemberInv

(* The library purges to the snapshot that is published.                    *)
LEMMA PurgeKeeps ==
  ASSUME MemberInv(sys), PurgeToSnapshot
  PROVE  MemberInv(sys')
<1>0. PICK at, s : at = sys.pointer /\ s = [sys EXCEPT !.libPurged = at]
  BY Zenon
<1>1. Up /\ sys.installing = None /\ at > sys.libPurged /\ sys' = purge(s, at)
  BY <1>0, Zenon DEF PurgeToSnapshot
<1>2. PICK lo \in Int, hi \in Int : LogInv(sys, lo, hi) /\ StaleInv(sys) /\ RunInv(sys, hi)
  BY <1>1, Running, Zenon
<1>3. /\ sys \in RaftStates /\ sys.up /\ sys.refused = "none" /\ sys.stage = "none"
      /\ sys.applied \in Int /\ sys.libLast \in Int /\ sys.libPurged \in Int /\ sys.requested \in Int
      /\ sys.stale \in SUBSET Nat /\ sys.purged \in Int /\ sys.deferred \in Int /\ sys.libPurged >= -1
      /\ at \in Positions /\ at \in Int /\ None = -1 /\ sys.deferred >= -1
  BY <1>0, <1>1, <1>2, Running, Numbers, Positioned, PositionsAre, Zenon DEF RunInv
<1>4. /\ s \in RaftStates /\ s.entries = sys.entries /\ s.stale = sys.stale /\ s.libLast = sys.libLast
      /\ s.purged = sys.purged /\ s.deferred = sys.deferred /\ s.applied = sys.applied
      /\ s.pointer = sys.pointer /\ s.up = sys.up /\ s.requested = sys.requested
      /\ s.libPurged = at /\ s.installing = sys.installing
      /\ s.stage = sys.stage /\ s.refused = sys.refused
  BY <1>0, <1>3, Zenon DEF RaftStates
<1>5. at # None /\ s.purged <= at /\ at <= s.applied /\ sys.requested < at /\ sys.libPurged < at
  <2>1. at <= sys.applied
    BY <1>0, <1>2, LogBounds, Zenon
  <2> QED BY <1>1, <1>2, <1>3, <1>4, <2>1 DEF RunInv
<1>6. PICK p : p = purge(s, at)
  BY Zenon
<1>7. /\ p \in RaftStates /\ CutTo(p, s, at) /\ SameRun(p, s)
      /\ p.requested = Later(s.requested, at)
      /\ p.deferred = IF s.deferred > at THEN s.deferred ELSE None
  BY <1>3, <1>4, <1>5, <1>6, PurgeReached, Zenon
<1>8. p.requested = at
  BY <1>3, <1>4, <1>5, <1>7 DEF Later
<1>9. LogInv(s, lo, hi)
  BY <1>2, <1>4, Zenon DEF LogInv
<1>10. lo <= at + 1 \/ (lo <= p.deferred /\ p.requested < p.deferred)
  BY <1>3, <1>4, <1>5, <1>7, <1>8, <1>9 DEF LogInv
<1>11. PICK l \in Int : LogInv(p, l, IF hi > at THEN hi ELSE at)
  BY <1>3, <1>4, <1>5, <1>7, <1>9, <1>10, LogCut, Zenon DEF SameRun
<1>12. hi = sys.libLast /\ (IF hi > at THEN hi ELSE at) = hi
  BY <1>2, <1>3, <1>4, <1>5 DEF RunInv
<1>13. \A i \in p.stale : i > p.applied
  BY <1>2, <1>3, <1>4, <1>5, <1>7 DEF RunInv, CutTo, SameRun
<1>14. p.applied \in Int /\ p.stale \in SUBSET Nat
  BY <1>7, Numbers, Positioned, Zenon
<1>15. StaleInv(p)
  BY <1>13, <1>14 DEF StaleInv
<1>16. RunInv(p, hi)
  BY <1>2, <1>3, <1>4, <1>5, <1>7, <1>8, <1>12, <1>13, <1>14 DEF RunInv, CutTo, SameRun
<1>17. p.up /\ p.refused = "none"
  BY <1>3, <1>4, <1>7, Zenon DEF SameRun
<1> QED BY <1>1, <1>6, <1>7, <1>11, <1>12, <1>15, <1>16, <1>17, Zenon DEF MemberInv

(* The purge of an install that the store has not reached, and its request. *)
LEMMA Receives ==
  ASSUME NEW t \in RaftStates, NEW lo \in Int, NEW hi \in Int, LogInv(t, lo, hi), StaleInv(t),
         RunInv(t, hi), t.up, t.refused = "none", t.stage = "none", NEW s \in Nat, t.applied < s
  PROVE  LET asked == purge([t EXCEPT !.libPurged = s, !.libLast = Later(t.libLast, s)], s)
         IN asked.refused = "none" /\ MemberInv([asked EXCEPT !.installing = s, !.stage = "received"])
<1>0. PICK last, c, p :
        /\ last = Later(t.libLast, s) /\ c = [t EXCEPT !.libPurged = s, !.libLast = last]
        /\ p = purge(c, s)
  BY Zenon
<1>1. /\ t.purged \in Int /\ t.deferred \in Int /\ t.applied \in Int /\ t.requested \in Int
      /\ t.libPurged \in Int /\ t.libLast \in Int /\ t.purged >= -1 /\ t.applied >= -1
      /\ t.applied \in Positions /\ t.libLast \in Positions /\ s \in Positions
  BY Numbers, Positioned DEF Positions, None
<1>2. last \in Positions /\ last \in Int
  BY <1>0, <1>1 DEF Later
<1>3. /\ c \in RaftStates /\ c.entries = t.entries /\ c.stale = t.stale /\ c.libLast = last
      /\ c.purged = t.purged /\ c.deferred = t.deferred /\ c.applied = t.applied
      /\ c.pointer = t.pointer /\ c.up = t.up /\ c.requested = t.requested
      /\ c.libPurged = s /\ c.installing = t.installing
      /\ c.stage = t.stage /\ c.refused = t.refused
  BY <1>0, <1>1, <1>2, Zenon DEF RaftStates
<1>4. t.purged <= t.applied /\ lo <= t.applied + 1
  BY LogBounds, Zenon
<1>5. /\ p \in RaftStates /\ CutTo(p, c, c.applied) /\ SameRun(p, c)
      /\ p.requested = Later(c.requested, s) /\ p.deferred = Later(c.deferred, s)
  BY <1>0, <1>1, <1>3, <1>4, PurgeDeferred, Zenon
<1>6. p.requested = s /\ p.deferred >= s /\ p.deferred \in Int
  <2>1. t.requested < s
    BY <1>1 DEF RunInv
  <2> QED BY <1>1, <1>3, <1>5, <2>1 DEF Later
<1>7. LogInv(c, lo, hi)
  BY <1>3, Zenon DEF LogInv
<1>8. PICK l \in Int : LogInv(p, l, IF hi > t.applied THEN hi ELSE t.applied)
  BY <1>1, <1>3, <1>4, <1>5, <1>7, LogCut DEF SameRun
<1>9. PICK h : h = IF hi > t.applied THEN hi ELSE t.applied
  BY Zenon
<1>10. \A i \in p.stale : i > t.applied
  BY <1>3, <1>5, Zenon DEF CutTo
<1>11. PICK q : q = [p EXCEPT !.installing = s, !.stage = "received"]
  BY Zenon
<1>12. /\ q \in RaftStates /\ q.entries = p.entries /\ q.stale = p.stale /\ q.libLast = p.libLast
       /\ q.purged = p.purged /\ q.deferred = p.deferred /\ q.applied = p.applied
       /\ q.pointer = p.pointer /\ q.up = p.up /\ q.requested = p.requested
       /\ q.libPurged = p.libPurged /\ q.installing = s
       /\ q.stage = "received" /\ q.refused = p.refused
  BY <1>1, <1>5, <1>11, Zenon DEF RaftStates
<1>13. /\ q.libLast = last /\ q.libPurged = s /\ q.applied = t.applied /\ q.purged = t.applied
       /\ q.requested = s /\ q.deferred >= s /\ q.deferred \in Int /\ q.up /\ q.refused = "none"
       /\ p.refused = "none"
  BY <1>3, <1>5, <1>6, <1>12, Zenon DEF SameRun, CutTo
<1>14. LogInv(q, l, h) /\ h \in Int
  BY <1>1, <1>8, <1>9, <1>12, Zenon DEF LogInv
<1>15. q.stale \in SUBSET Nat /\ \A i \in q.stale : i > q.applied
  BY <1>10, <1>12, <1>13, Positioned, Zenon
<1>16. StaleInv(q)
  BY <1>1, <1>13, <1>15 DEF StaleInv
<1>17. RunInv(q, h)
  <2>1. s <= last /\ (h # last => h < last /\ last = s)
    BY <1>0, <1>1, <1>9 DEF Later, RunInv
  <2>2. s # None
    BY DEF None
  <2> QED BY <1>1, <1>12, <1>13, <1>15, <2>1, <2>2 DEF RunInv
<1> QED BY <1>0, <1>11, <1>12, <1>13, <1>14, <1>16, <1>17, Zenon DEF MemberInv

(* install_snapshot begins: the library purges past the store.              *)
LEMMA InstallBeginsKeeps ==
  ASSUME MemberInv(sys), NEW s \in Indexes, InstallBegins(s)
  PROVE  MemberInv(sys')
<1>0. PICK t, asked :
        /\ t = IF s \in sys.stale THEN truncate_sync(sys, sys.applied + 1) ELSE sys
        /\ asked = purge([t EXCEPT !.libPurged = s, !.libLast = Later(t.libLast, s)], s)
  BY Zenon
<1>1. /\ Up /\ sys.installing = None /\ s > sys.applied
      /\ sys' = IF t.refused # "none" THEN t
                ELSE IF asked.refused # "none" THEN asked
                ELSE [asked EXCEPT !.installing = s, !.stage = "received"]
  BY <1>0, Zenon DEF InstallBegins
<1>2. PICK lo \in Int, hi \in Int : LogInv(sys, lo, hi) /\ StaleInv(sys) /\ RunInv(sys, hi)
  BY <1>1, Running, Zenon
<1>3. /\ sys \in RaftStates /\ sys.up /\ sys.refused = "none" /\ sys.stage = "none"
      /\ sys.applied \in Int /\ sys.applied >= -1 /\ sys.requested \in Int /\ sys.libPurged \in Int
  BY <1>1, <1>2, Running, Numbers, Zenon DEF RunInv
<1>4. s \in Nat
  BY RaftAssumption DEF Indexes
<1>5. \/ t.refused # "none" /\ MemberInv(t)
      \/ /\ t \in RaftStates /\ t.refused = "none" /\ t.up /\ t.stage = "none" /\ t.applied = sys.applied
         /\ \E h \in Int : LogInv(t, lo, h) /\ StaleInv(t) /\ RunInv(t, h)
  <2>1. CASE s \notin sys.stale
    BY <1>0, <1>2, <1>3, <2>1, Zenon
  <2>2. CASE s \in sys.stale
    <3>1. PICK i : i = sys.applied + 1
      BY Zenon
    <3>2. s \in lo .. hi
      BY <1>2, <2>2, Zenon DEF LogInv
    <3>3. i \in Nat /\ sys.applied < i /\ i <= hi /\ i - 1 \in Int
      BY <1>1, <1>3, <1>4, <3>1, <3>2
    <3>4. sys.requested < i
      BY <1>2, <1>3, <3>1 DEF RunInv
    <3>5. t = truncate_sync(sys, i)
      BY <1>0, <2>2, <3>1, Zenon
    <3>6. \/ t.refused # "none" /\ MemberInv(t)
          \/ /\ t \in RaftStates /\ t.refused = "none" /\ t.up /\ t.stage = "none"
             /\ t.applied = sys.applied
             /\ LogInv(t, lo, i - 1) /\ StaleInv(t) /\ RunInv(t, i - 1)
      BY <1>2, <1>3, <3>3, <3>4, <3>5, Truncates
    <3> QED BY <3>3, <3>6, Zenon
  <2> QED BY <2>1, <2>2, Zenon
<1>6. CASE t.refused # "none"
  BY <1>1, <1>5, <1>6, Zenon
<1>7. CASE t.refused = "none"
  <2>1. PICK h \in Int : LogInv(t, lo, h) /\ StaleInv(t) /\ RunInv(t, h)
    BY <1>5, <1>7, Zenon
  <2>2. t \in RaftStates /\ t.up /\ t.stage = "none" /\ t.applied < s
    BY <1>1, <1>5, <1>7, Zenon
  <2>3. asked.refused = "none" /\ MemberInv([asked EXCEPT !.installing = s, !.stage = "received"])
    BY <1>0, <1>4, <1>7, <2>1, <2>2, Receives, Zenon
  <2> QED BY <1>1, <1>7, <2>3, Zenon
<1> QED BY <1>6, <1>7, Zenon

(* The store is replaced by the image that was received.                    *)
LEMMA InstallStoreKeeps ==
  ASSUME MemberInv(sys), InstallStore
  PROVE  MemberInv(sys')
<1>1. Up /\ sys.stage = "received"
      /\ sys' = [sys EXCEPT !.applied = sys.installing, !.stage = "replaced"]
  BY Zenon DEF InstallStore
<1>2. PICK lo \in Int, hi \in Int : LogInv(sys, lo, hi) /\ StaleInv(sys) /\ RunInv(sys, hi)
  BY <1>1, Running, Zenon
<1>3. /\ sys \in RaftStates /\ sys.up /\ sys.refused = "none"
      /\ sys.applied \in Int /\ sys.installing \in Int /\ sys.installing \in Positions
      /\ sys.purged \in Int /\ sys.pointer \in Int /\ sys.deferred \in Int /\ sys.stale \in SUBSET Nat
  BY <1>1, Running, Numbers, Positioned, Zenon
<1>4. sys.applied < sys.installing /\ sys.installing <= sys.deferred /\ sys.libPurged = sys.installing
  BY <1>1, <1>2, Zenon DEF RunInv
<1>5. PICK p : p = [sys EXCEPT !.applied = sys.installing, !.stage = "replaced"]
  BY Zenon
<1>6. /\ p \in RaftStates /\ p.entries = sys.entries /\ p.stale = sys.stale /\ p.libLast = sys.libLast
      /\ p.purged = sys.purged /\ p.deferred = sys.deferred /\ p.applied = sys.installing
      /\ p.pointer = sys.pointer /\ p.up = sys.up /\ p.requested = sys.requested
      /\ p.libPurged = sys.libPurged /\ p.installing = sys.installing
      /\ p.stage = "replaced" /\ p.refused = sys.refused
  BY <1>3, <1>5, Zenon DEF RaftStates
<1>7. LogInv(p, lo, hi)
  <2>1. sys.purged <= sys.applied /\ sys.pointer <= sys.applied /\ lo <= sys.applied + 1
    BY <1>2, LogBounds, Zenon
  <2>2. p.purged <= p.applied /\ p.pointer <= p.applied /\ lo <= p.applied + 1
    BY <1>3, <1>4, <1>6, <2>1
  <2> QED BY <1>2, <1>6, <2>2, Zenon DEF LogInv
<1>8. StaleInv(p)
  BY <1>3, <1>4, <1>6 DEF StaleInv
<1>9. RunInv(p, hi)
  BY <1>1, <1>2, <1>3, <1>4, <1>6, Zenon DEF RunInv
<1>10. p.up /\ p.refused = "none"
  BY <1>3, <1>6, Zenon
<1> QED BY <1>1, <1>5, <1>6, <1>7, <1>8, <1>9, <1>10, Zenon DEF MemberInv

(* The snapshot pointer is published, which ends the install.               *)
LEMMA InstallPublishKeeps ==
  ASSUME MemberInv(sys), InstallPublish
  PROVE  MemberInv(sys')
<1>1. Up /\ sys.stage = "replaced"
      /\ sys' = [sys EXCEPT !.pointer = sys.installing, !.installing = None, !.stage = "none"]
  BY Zenon DEF InstallPublish
<1>2. PICK lo \in Int, hi \in Int : LogInv(sys, lo, hi) /\ StaleInv(sys) /\ RunInv(sys, hi)
  BY <1>1, Running, Zenon
<1>3. /\ sys \in RaftStates /\ sys.up /\ sys.refused = "none" /\ None \in Positions
      /\ sys.applied \in Int /\ sys.installing \in Int /\ sys.installing \in Positions
  BY <1>1, Running, Numbers, Positioned, PositionsAre, Zenon
<1>4. sys.applied = sys.installing
  BY <1>1, <1>2, Zenon DEF RunInv
<1>5. PICK p : p = [sys EXCEPT !.pointer = sys.installing, !.installing = None, !.stage = "none"]
  BY Zenon
<1>6. /\ p \in RaftStates /\ p.entries = sys.entries /\ p.stale = sys.stale /\ p.libLast = sys.libLast
      /\ p.purged = sys.purged /\ p.deferred = sys.deferred /\ p.applied = sys.applied
      /\ p.pointer = sys.applied /\ p.up = sys.up /\ p.requested = sys.requested
      /\ p.libPurged = sys.libPurged /\ p.installing = None
      /\ p.stage = "none" /\ p.refused = sys.refused
  BY <1>3, <1>4, <1>5, Zenon DEF RaftStates
<1>7. LogInv(p, lo, hi) /\ StaleInv(p)
  BY <1>2, <1>3, <1>6 DEF LogInv, StaleInv
<1>8. RunInv(p, hi)
  BY <1>1, <1>2, <1>3, <1>4, <1>6 DEF RunInv
<1>9. p.up /\ p.refused = "none"
  BY <1>3, <1>6, Zenon
<1> QED BY <1>1, <1>5, <1>6, <1>7, <1>8, <1>9, Zenon DEF MemberInv

(* The process stops at any point: what was stored stays.                   *)
LEMMA StopKeeps ==
  ASSUME MemberInv(sys), StopMember
  PROVE  MemberInv(sys')
<1>1. Up /\ sys' = [sys EXCEPT !.up = FALSE, !.requested = None, !.installing = None, !.stage = "none"]
  BY Zenon DEF StopMember
<1>2. PICK lo \in Int, hi \in Int : LogInv(sys, lo, hi) /\ StaleInv(sys) /\ RunInv(sys, hi)
  BY <1>1, Running, Zenon
<1>3. /\ sys \in RaftStates /\ sys.up /\ sys.refused = "none" /\ None \in Positions /\ None = -1
      /\ sys.purged \in Int /\ sys.deferred \in Int /\ sys.purged >= -1
  BY <1>1, Running, Numbers, PositionsAre, Zenon
<1>4. PICK p : p = [sys EXCEPT !.up = FALSE, !.requested = None, !.installing = None, !.stage = "none"]
  BY Zenon
<1>5. /\ p \in RaftStates /\ p.entries = sys.entries /\ p.stale = sys.stale
      /\ p.purged = sys.purged /\ p.deferred = sys.deferred /\ p.applied = sys.applied
      /\ p.pointer = sys.pointer /\ p.up = FALSE /\ p.requested = None
      /\ p.installing = None /\ p.stage = "none" /\ p.refused = sys.refused
  BY <1>3, <1>4, Zenon DEF RaftStates
<1>6. lo = sys.purged + 1 \/ (lo <= sys.deferred /\ None < sys.deferred)
  <2>1. sys.purged < lo /\ (lo = sys.purged + 1 \/ lo <= sys.deferred)
    BY <1>2, LogBounds, Zenon
  <2> QED BY <1>3, <2>1
<1>7. LogInv(p, lo, hi) /\ StaleInv(p)
  BY <1>2, <1>5, <1>6, Zenon DEF LogInv, StaleInv
<1>8. StoppedInv(p) /\ ~p.up /\ p.refused = "none"
  BY <1>3, <1>5, Zenon DEF StoppedInv
<1> QED BY <1>1, <1>4, <1>5, <1>7, <1>8, Zenon DEF MemberInv

(* A log that a start settled: no gap, and no stale entry the store passed. *)
SettledLog(x) ==
  /\ \E h \in Int : LogInv(x, x.purged + 1, h)
  /\ \A i \in x.stale : i > x.applied

(* A state from which the library can read the log at a start. *)
Starts(x, s) == x \in RaftStates /\ SameRun(x, s) /\ x.requested = None /\ SettledLog(x)

(* A log without a gap is settled once its stale entries are past the store. *)
LEMMA SettledCut ==
  ASSUME NEW s \in RaftStates, NEW lo \in Int, NEW hi \in Int, LogInv(s, lo, hi), StaleInv(s),
         s.requested = None, NEW upto \in Positions, s.purged < upto, upto <= s.applied,
         NEW keep \in Positions,
         upto = s.applied \/ (upto = s.deferred /\ keep = None)
  PROVE  Starts(purge_locked(s, upto, keep), s)
<1>0. PICK x : x = purge_locked(s, upto, keep)
  BY Zenon
<1>1. /\ s.purged \in Int /\ s.deferred \in Int /\ s.applied \in Int /\ s.purged >= -1 /\ None = -1
      /\ upto \in Int /\ keep \in Int /\ keep >= -1 /\ s.stale \in SUBSET Nat
  BY Numbers, Positioned, PositionsAre, Zenon
<1>2. /\ x \in RaftStates /\ CutTo(x, s, upto) /\ SameRun(x, s) /\ x.deferred = keep /\ x.requested = None
  BY <1>0, PurgeLocked, Zenon
<1>3. s.purged < lo /\ lo <= s.applied + 1 /\ (lo = s.purged + 1 \/ lo <= s.deferred)
  BY LogBounds, Zenon
<1>4. lo <= upto + 1
  BY <1>1, <1>3
<1>5. PICK l \in Int : LogInv(x, l, IF hi > upto THEN hi ELSE upto)
  BY <1>1, <1>2, <1>4, LogCut DEF SameRun
<1>6. l = x.purged + 1
  <2>1. x.purged < l /\ l <= x.applied + 1 /\ (l = x.purged + 1 \/ l <= x.deferred)
    BY <1>5, LogBounds, Zenon
  <2>2. x.purged = upto /\ x.applied = s.applied /\ x.deferred = keep
    BY <1>2, Zenon DEF CutTo, SameRun
  <2> QED BY <1>1, <2>1, <2>2
<1>7. \A i \in x.stale : i > x.applied
  BY <1>1, <1>2 DEF CutTo, SameRun, StaleInv
<1> QED BY <1>0, <1>1, <1>2, <1>5, <1>6, <1>7, Zenon DEF Starts, SettledLog

(* A start makes whatever purge was deferred and can be completed.          *)
LEMMA PurgedAtStart ==
  ASSUME NEW s, NEW target, NEW keep, Completion(s, TRUE) = <<target, keep>>,
         target # None, ~(s.purged >= target)
  PROVE  Settled(s, TRUE) = purge_locked(s, target, keep)
<1>1. PICK c : c = Completion(s, TRUE)
  BY Zenon
<1>2. c = <<target, keep>>
  BY <1>1, Zenon
<1>3. c[1] = target /\ c[2] = keep
  BY <1>2, Zenon
<1> QED BY <1>1, <1>3, Zenon DEF Settled

(* The settlement of a start leaves no gap.                                 *)
LEMMA SettledAtStart ==
  ASSUME NEW s \in RaftStates, NEW lo \in Int, NEW hi \in Int, LogInv(s, lo, hi), StaleInv(s),
         s.requested = None, s.applied # None
  PROVE  Starts(Settled(s, TRUE), s)
<1>0. PICK x : x = Settled(s, TRUE)
  BY Zenon
<1>1. /\ s.purged \in Int /\ s.deferred \in Int /\ s.applied \in Int /\ s.purged >= -1 /\ None = -1
      /\ s.applied >= -1 /\ s.deferred >= -1 /\ s.stale \in SUBSET Nat /\ SameRun(s, s)
      /\ s.applied \in Positions /\ s.deferred \in Positions /\ None \in Positions
  BY Numbers, Positioned, PositionsAre, Zenon DEF SameRun
<1>2. /\ s.purged <= s.applied /\ s.purged < lo /\ lo <= s.applied + 1
      /\ (lo = s.purged + 1 \/ lo <= s.deferred) /\ \A i \in s.stale : i >= lo
  BY LogBounds DEF LogInv
<1>3. CASE s.deferred # None /\ s.deferred <= s.applied /\ s.purged >= s.deferred
  <2>1. Completion(s, TRUE) = <<s.deferred, None>>
    BY <1>1, <1>3 DEF Completion
  <2>2. x = [s EXCEPT !.deferred = None]
    BY <1>0, <1>3, <2>1, SettledAs, Zenon
  <2>3. /\ x \in RaftStates /\ x.entries = s.entries /\ x.stale = s.stale
        /\ x.purged = s.purged /\ x.deferred = None /\ x.requested = s.requested
        /\ SameRun(x, s)
    BY <2>2, Undeferred, Zenon
  <2>4. lo = x.purged + 1
    BY <1>1, <1>2, <1>3, <2>3
  <2>5. LogInv(x, lo, hi)
    BY <2>3, <2>4, Zenon DEF LogInv, SameRun
  <2>6. \A i \in s.stale : i > s.applied
    <3> TAKE i \in s.stale
    <3>1. i \in Int /\ i > s.purged
      BY <1>1, <1>2
    <3> QED BY <1>1, <1>3, <3>1 DEF StaleInv
  <2>7. \A i \in x.stale : i > x.applied
    BY <2>3, <2>6, Zenon DEF SameRun
  <2> QED BY <1>0, <2>3, <2>4, <2>5, <2>7, Zenon DEF Starts, SettledLog
<1>4. CASE s.deferred # None /\ s.deferred <= s.applied /\ s.purged < s.deferred
  <2>1. Completion(s, TRUE) = <<s.deferred, None>>
    BY <1>1, <1>4 DEF Completion
  <2>2. s.deferred # None /\ ~(s.purged >= s.deferred)
    BY <1>1, <1>4
  <2>3. Settled(s, TRUE) = purge_locked(s, s.deferred, None)
    BY <2>1, <2>2, PurgedAtStart, Zenon
  <2> QED BY <1>1, <1>4, <2>3, SettledCut, Zenon
<1>5. CASE s.deferred # None /\ s.applied < s.deferred
  <2>1. Completion(s, TRUE) = <<s.applied, s.deferred>>
    BY <1>1, <1>5 DEF Completion
  <2>2. CASE s.purged >= s.applied
    <3>1. x = s
      BY <1>0, <1>5, <2>1, <2>2, SettledAs, Zenon
    <3>2. lo = s.purged + 1
      BY <1>1, <1>2, <2>2
    <3>3. \A i \in s.stale : i > s.applied
      BY <1>1, <1>2, <2>2, <3>2
    <3> QED BY <1>0, <1>1, <3>1, <3>2, <3>3, Zenon DEF Starts, SettledLog
  <2>3. CASE ~(s.purged >= s.applied)
    <3>1. Settled(s, TRUE) = purge_locked(s, s.applied, s.deferred)
      BY <2>1, <2>3, PurgedAtStart, Zenon
    <3>2. s.purged < s.applied /\ s.applied <= s.applied
      BY <1>1, <2>3
    <3> QED BY <1>1, <3>1, <3>2, SettledCut, Zenon
  <2> QED BY <2>2, <2>3, Zenon
<1>6. CASE s.deferred = None
  <2>0. ~(s.deferred # None /\ s.applied >= s.deferred) /\ ~(s.deferred # None /\ s.applied < s.deferred)
    BY <1>6, Zenon
  <2>1. Completion(s, TRUE) = <<IF s.entries = {} THEN s.applied ELSE None, None>>
    BY <2>0, Zenon DEF Completion
  <2>2. lo = s.purged + 1 /\ \A i \in s.stale : i > s.applied
    BY <1>1, <1>2, <1>6 DEF StaleInv
  <2>3. CASE x = s
    BY <1>0, <1>1, <2>2, <2>3, Zenon DEF Starts, SettledLog
  <2>4. CASE s.entries # {}
    <3>1. x = s
      BY <1>0, <2>1, <2>4, SettledAs, Zenon
    <3> QED BY <2>3, <3>1, Zenon
  <2>5. CASE s.entries = {} /\ s.purged >= s.applied
    <3>0. Completion(s, TRUE) = <<s.applied, None>>
      BY <2>1, <2>5, Zenon
    <3>1. x = [s EXCEPT !.deferred = None]
      BY <1>0, <2>5, <3>0, SettledAs, Zenon
    <3>2. x = s
      BY <1>6, <3>1, Zenon DEF RaftStates
    <3> QED BY <2>3, <3>2, Zenon
  <2>6. CASE s.entries = {} /\ ~(s.purged >= s.applied)
    <3>0. Completion(s, TRUE) = <<s.applied, None>>
      BY <2>1, <2>6, Zenon
    <3>1. Settled(s, TRUE) = purge_locked(s, s.applied, None)
      BY <1>6, <2>6, <3>0, PurgedAtStart, Zenon
    <3>2. s.purged < s.applied /\ s.applied <= s.applied
      BY <1>1, <2>6
    <3> QED BY <1>1, <3>1, <3>2, SettledCut, Zenon
  <2> QED BY <2>4, <2>5, <2>6, Zenon
<1>7. \/ s.deferred = None
      \/ s.deferred # None /\ s.applied < s.deferred
      \/ s.deferred # None /\ s.deferred <= s.applied /\ s.purged >= s.deferred
      \/ s.deferred # None /\ s.deferred <= s.applied /\ s.purged < s.deferred
  BY <1>1
<1> QED BY <1>3, <1>4, <1>5, <1>6, <1>7, Zenon

(* A start finds no gap. *)
LEMMA SettlesAtStart ==
  ASSUME NEW s \in RaftStates, NEW lo \in Int, NEW hi \in Int, LogInv(s, lo, hi), StaleInv(s),
         s.requested = None
  PROVE  Starts(settle_locked(s, TRUE), s)
<1>0. /\ s.purged \in Int /\ s.deferred \in Int /\ s.applied \in Int /\ s.purged >= -1 /\ None = -1
      /\ s.stale \in SUBSET Nat
  BY Numbers, Positioned, PositionsAre, Zenon
<1>1. CASE s.applied = None
  <2>1. settle_locked(s, TRUE) = s
    BY <1>1, Zenon DEF settle_locked
  <2>2. lo = s.purged + 1 /\ \A i \in s.stale : i > s.applied
    BY <1>0, <1>1, LogBounds
  <2> QED BY <2>1, <2>2, Zenon DEF Starts, SettledLog, SameRun
<1>2. CASE s.applied # None
  <2>1. PICK x : x = Settled(s, TRUE)
    BY Zenon
  <2>2. Starts(x, s)
    BY <1>2, <2>1, SettledAtStart, Zenon
  <2>3. ~GapAfterPurge(x)
    <3> SUFFICES ASSUME x.entries # {} PROVE Min(x.entries) = x.purged + 1
      BY Zenon DEF GapAfterPurge
    <3>0. PICK from \in Int : from = x.purged + 1
      BY <2>2, Numbers DEF Starts
    <3>1. PICK h \in Int : LogInv(x, from, h)
      BY <2>2, <3>0, Zenon DEF Starts, SettledLog
    <3>2. x.entries = from .. h
      BY <3>1, Zenon DEF LogInv
    <3>3. from <= h
      BY <3>2
    <3>4. Min(x.entries) = from
      BY <3>2, <3>3, Span, Zenon
    <3> QED BY <3>0, <3>4, Zenon
  <2>4. settle_locked(s, TRUE) = x
    BY <1>2, <2>1, <2>3, Zenon DEF settle_locked
  <2> QED BY <2>2, <2>4, Zenon
<1> QED BY <1>1, <1>2, Zenon

(* The library reads a settled log, and purges one that ends before the     *)
(* store's position.                                                        *)
LEMMA ReadsTheLog ==
  ASSUME NEW b \in RaftStates, b.requested = None, SettledLog(b), b.stage = "none",
         b.installing = None, b.refused = "none"
  PROVE  LET last == IF b.entries = {} THEN b.purged ELSE Max(b.entries)
             read == [b EXCEPT !.up = TRUE, !.libPurged = b.purged, !.libLast = last]
         IN MemberInv(IF last < b.applied
                      THEN [purge(read, b.applied) EXCEPT !.libPurged = b.applied, !.libLast = b.applied]
                      ELSE read)
<1>0. PICK last, read : /\ last = IF b.entries = {} THEN b.purged ELSE Max(b.entries)
                        /\ read = [b EXCEPT !.up = TRUE, !.libPurged = b.purged, !.libLast = last]
  BY Zenon
<1>1. /\ b.purged \in Int /\ b.deferred \in Int /\ b.applied \in Int /\ b.purged >= -1 /\ None = -1
      /\ b.applied >= -1 /\ b.stale \in SUBSET Nat /\ b.purged \in Positions /\ b.applied \in Positions
  BY Numbers, Positioned, PositionsAre, Zenon
<1>a. PICK from \in Int : from = b.purged + 1
  BY <1>1
<1>2. PICK h \in Int : LogInv(b, from, h)
  BY <1>a, Zenon DEF SettledLog
<1>b. b.entries = from .. h /\ from - 1 <= h /\ b.purged <= b.applied
  BY <1>2, LogBounds, Zenon DEF LogInv
<1>3. last = h
  <2>2. CASE from <= h
    BY <1>0, <1>b, <2>2, Span, Zenon
  <2>3. CASE h = b.purged
    <3>1. from .. h = {}
      BY <1>1, <1>a, <2>3
    <3> QED BY <1>0, <1>b, <2>3, <3>1, Zenon
  <2> QED BY <1>1, <1>a, <1>b, <2>2, <2>3
<1>4. b.purged <= h /\ b.purged <= b.applied /\ \A i \in b.stale : i > b.applied
  BY <1>1, <1>a, <1>b DEF SettledLog
<1>5. last \in Positions
  BY <1>1, <1>3, <1>4 DEF Positions
<1>6. /\ read \in RaftStates /\ read.entries = b.entries /\ read.stale = b.stale /\ read.libLast = last
      /\ read.purged = b.purged /\ read.deferred = b.deferred /\ read.applied = b.applied
      /\ read.pointer = b.pointer /\ read.up = TRUE /\ read.requested = b.requested
      /\ read.libPurged = b.purged /\ read.installing = b.installing
      /\ read.stage = b.stage /\ read.refused = b.refused
  BY <1>0, <1>1, <1>5, Zenon DEF RaftStates
<1>7. LogInv(read, from, h)
  BY <1>2, <1>6, Zenon DEF LogInv
<1>8. CASE ~(last < b.applied)
  <2>1. StaleInv(read)
    BY <1>1, <1>4, <1>6 DEF StaleInv
  <2>2. RunInv(read, h)
    BY <1>1, <1>3, <1>4, <1>6, <1>8 DEF RunInv
  <2>3. read.up /\ read.refused = "none"
    BY <1>6, Zenon
  <2>4. MemberInv(read)
    BY <1>6, <1>7, <2>1, <2>2, <2>3, Zenon DEF MemberInv
  <2> QED BY <1>0, <1>8, <2>4, Zenon
<1>9. CASE last < b.applied
  <2>1. b.applied # None /\ b.applied <= b.applied
    BY <1>1, <1>3, <1>4, <1>9
  <2>2. PICK p : p = purge(read, b.applied)
    BY Zenon
  <2>3. /\ p \in RaftStates /\ CutTo(p, read, b.applied) /\ SameRun(p, read)
        /\ p.requested = Later(read.requested, b.applied)
    BY <1>1, <1>4, <1>6, <2>1, <2>2, PurgeReached, Zenon
  <2>4. from <= b.applied + 1
    BY <1>1, <1>4, <1>a
  <2>5. PICK l \in Int : LogInv(p, l, IF h > b.applied THEN h ELSE b.applied)
    BY <1>1, <1>4, <1>6, <1>7, <2>1, <2>3, <2>4, LogCut, Zenon DEF SameRun
  <2>6. (IF h > b.applied THEN h ELSE b.applied) = b.applied
    BY <1>1, <1>3, <1>9
  <2>7. p.requested = b.applied
    BY <1>1, <1>6, <2>3 DEF Later
  <2>8. PICK q : q = [p EXCEPT !.libPurged = b.applied, !.libLast = b.applied]
    BY Zenon
  <2>9. /\ q \in RaftStates /\ q.entries = p.entries /\ q.stale = p.stale /\ q.libLast = b.applied
        /\ q.purged = p.purged /\ q.deferred = p.deferred /\ q.applied = p.applied
        /\ q.pointer = p.pointer /\ q.up = p.up /\ q.requested = p.requested
        /\ q.libPurged = b.applied /\ q.installing = p.installing
        /\ q.stage = p.stage /\ q.refused = p.refused
    BY <1>1, <2>3, <2>8, Zenon DEF RaftStates
  <2>10. /\ q.purged = b.applied /\ q.applied = b.applied /\ q.up /\ q.requested = b.applied
         /\ q.installing = None /\ q.stage = "none" /\ q.refused = "none"
         /\ \A i \in q.stale : i > b.applied
    BY <1>6, <2>3, <2>7, <2>9 DEF CutTo, SameRun
  <2>11. LogInv(q, l, b.applied)
    BY <2>5, <2>6, <2>9, Zenon DEF LogInv
  <2>12. StaleInv(q)
    <3>1. q.stale \in SUBSET Nat
      BY <2>9, Positioned, Zenon
    <3> QED BY <1>1, <2>10, <3>1 DEF StaleInv
  <2>13. RunInv(q, b.applied)
    <3>1. q.stale \in SUBSET Nat
      BY <2>9, Positioned, Zenon
    <3> QED BY <1>1, <2>9, <2>10, <3>1 DEF RunInv
  <2>14. MemberInv(q)
    BY <1>1, <2>9, <2>10, <2>11, <2>12, <2>13, Zenon DEF MemberInv
  <2> QED BY <1>0, <1>9, <2>2, <2>8, <2>14, Zenon
<1> QED BY <1>8, <1>9, Zenon

(* A start: the deferred purge is settled, then the library reads the log.  *)
LEMMA RestartKeeps ==
  ASSUME MemberInv(sys), Restart
  PROVE  MemberInv(sys')
<1>0. PICK s : s = [sys EXCEPT !.restarts = sys.restarts + 1]
  BY Zenon
<1>1. ~sys.up /\ sys.refused = "none" /\ sys' = start_with(s)
  BY <1>0, Zenon DEF Restart
<1>2. PICK lo \in Int, hi \in Int : LogInv(sys, lo, hi) /\ StaleInv(sys) /\ StoppedInv(sys)
  BY <1>1, Zenon DEF MemberInv
<1>3. /\ s \in RaftStates /\ s.entries = sys.entries /\ s.stale = sys.stale
      /\ s.purged = sys.purged /\ s.deferred = sys.deferred /\ s.applied = sys.applied
      /\ s.pointer = sys.pointer /\ s.up = sys.up /\ s.requested = sys.requested
      /\ s.libPurged = sys.libPurged /\ s.installing = sys.installing
      /\ s.stage = sys.stage /\ s.refused = sys.refused
  <2>1. sys \in RaftStates
    BY Zenon DEF MemberInv
  <2>a. sys.restarts \in Nat
    BY <2>1, Zenon DEF RaftStates
  <2>2. sys.restarts + 1 \in Nat
    BY <2>a
  <2> QED BY <1>0, <2>1, <2>2, Zenon DEF RaftStates
<1>4. LogInv(s, lo, hi) /\ StaleInv(s) /\ s.requested = None
  BY <1>2, <1>3, Zenon DEF LogInv, StaleInv, StoppedInv
<1>5. PICK b : b = settle_locked(s, TRUE)
  BY Zenon
<1>6. Starts(b, s)
  BY <1>3, <1>4, <1>5, SettlesAtStart, Zenon
<1>7. /\ b \in RaftStates /\ b.requested = None /\ SettledLog(b) /\ b.stage = "none"
      /\ b.installing = None /\ b.refused = "none"
  BY <1>1, <1>2, <1>3, <1>6, Zenon DEF Starts, SameRun, StoppedInv
<1>8. ~sweep(s)
  <2>1. s.pointer <= s.applied
    BY <1>4, LogBounds, Zenon
  <2>2. s.pointer \in Int /\ s.applied \in Int
    BY <1>3, Numbers, Zenon
  <2> QED BY <2>1, <2>2 DEF sweep
<1>9. sys' = LET last == IF b.entries = {} THEN b.purged ELSE Max(b.entries)
                 read == [b EXCEPT !.up = TRUE, !.libPurged = b.purged, !.libLast = last]
             IN IF last < b.applied
                THEN [purge(read, b.applied) EXCEPT !.libPurged = b.applied, !.libLast = b.applied]
                ELSE read
  BY <1>1, <1>5, <1>7, <1>8, Zenon DEF start_with
<1> QED BY <1>7, <1>9, ReadsTheLog, Zenon

(* Every step of a member keeps the invariant.                              *)
LEMMA RaftStep == MemberInv(sys) /\ [RaftNext]_sys => MemberInv(sys')
<1> SUFFICES ASSUME MemberInv(sys), [RaftNext]_sys PROVE MemberInv(sys')
  BY Zenon
<1>1. CASE UNCHANGED sys
  BY <1>1, Zenon
<1>2. CASE RaftNext
  BY Zenon, <1>2, AppendKeeps, TruncateKeeps, ApplyKeeps, BuildKeeps, PurgeKeeps, InstallBeginsKeeps,
     InstallStoreKeeps, InstallPublishKeeps, StopKeeps, RestartKeeps DEF RaftNext
<1> QED BY <1>1, <1>2, Zenon

(* The invariant says what the run checks.                                  *)
LEMMA MemberIsExplained == MemberInv(sys) => LogExplainsStore
<1> SUFFICES ASSUME MemberInv(sys) PROVE LogExplainsStore
  BY Zenon
<1>1. PICK lo \in Int, hi \in Int :
        /\ LogInv(sys, lo, hi)
        /\ sys.refused # "none" => RefusedInv(sys)
  BY Zenon DEF MemberInv
<1>2. sys.applied \in Int /\ sys.purged \in Int /\ sys.purged <= sys.applied /\ lo <= sys.applied + 1
  BY <1>1, Numbers, LogBounds, Zenon DEF MemberInv
<1>3. /\ sys.refused \in {"none", "hole", "truncate"}
      /\ sys.refused # "none" => sys.deferred > sys.requested
  BY <1>1, Zenon DEF RefusedInv
<1>4. sys.entries # {} => (sys.applied + 1) .. Max(sys.entries) \subseteq sys.entries
  <2> SUFFICES ASSUME sys.entries # {} PROVE (sys.applied + 1) .. Max(sys.entries) \subseteq sys.entries
    BY Zenon
  <2>1. sys.entries = lo .. hi
    BY <1>1, Zenon DEF LogInv
  <2>2. lo <= hi
    BY <2>1
  <2>3. Max(sys.entries) = hi
    BY <2>1, <2>2, Span, Zenon
  <2> QED BY <1>2, <2>1, <2>3
<1> QED BY <1>2, <1>3, <1>4, Zenon DEF LogExplainsStore

(* For every number of entries, restarts and installs: the log and the      *)
(* store explain each other. No start meets a gap or a generation past the  *)
(* store, no entry that is still to be applied was purged, and a member     *)
(* refuses an append or a truncation only under a deferred purge that an    *)
(* earlier run left behind (append, truncate_sync, purge, settle_locked,    *)
(* the install and the start).                                              *)
THEOREM LogStaysExplained == RaftSpec => []LogExplainsStore
<1>1. RaftInit => MemberInv(sys)
  BY RaftInitially, Zenon
<1>2. MemberInv(sys) /\ [RaftNext]_sys => MemberInv(sys)'
  BY RaftStep, Zenon
<1>3. MemberInv(sys) => LogExplainsStore
  BY MemberIsExplained, Zenon
<1> QED BY <1>1, <1>2, <1>3, PTL DEF RaftSpec
============================================================================
