------------------------------- MODULE Replog -------------------------------
(***************************************************************************)
(* The replication of call state from the worker that owns a call to the   *)
(* worker that backs it up.                                                *)
(*                                                                         *)
(* The OWNER keeps calls in memory (callsMap), stores them in its own      *)
(* key-value backend (pri:{owner}:call:..) and announces every store and    *)
(* every delete in the propagate channel of the backup (KvChannel).  The   *)
(* BACKUP runs one puller fiber for the owner: it keeps a stream open from *)
(* its watermark, and applies the frames to its own backend                *)
(* (bak:{owner}:call:..) behind a content gate on the call's generation.    *)
(*                                                                         *)
(* One owner, one backup, one direction: the reverse direction (a backup   *)
(* that took a call over) is the same code with the partitions exchanged.  *)
(* Frames carry the body as it is when the channel is READ, not when the   *)
(* entry was written.                                                      *)
(***************************************************************************)
EXTENDS KvChannel

CONSTANTS
  Call,           \* the callRefs
  ChunkSize,      \* entries the server reads per batch
  MaxEpoch,       \* bound: incarnations of the owner
  MaxCounter,     \* bound: channel writes per incarnation
  MaxLives,       \* bound: how often a callRef is created
  MaxWire,        \* bound: no batch is read with this many frames unreceived
  MaxFaults,      \* bound: faults of all kinds in a behaviour
  ApplyMayFail    \* whether the backup's backend may fail an apply

ASSUME ReplogAssumption ==
  /\ ChunkSize \in Nat \ {0}
  /\ MaxEpoch \in Nat \ {0}
  /\ MaxCounter \in Nat
  /\ MaxLives \in Nat
  /\ MaxWire \in Nat \ {0}
  /\ MaxFaults \in Nat
  /\ ApplyMayFail \in BOOLEAN

VARIABLES
  epoch,       \* incarnation gen of the owner (packGen)
  mem,         \* callsMap of the owner: a copy, or NoCopy
  flushCache,  \* calls whose in-memory object is the one last flushed
  body,        \* pri:{owner}:call:{c} and its callGen sidecar
  chan,        \* propagate:{backup} of the owner
  seq,         \* the bucket counters seq:{channel}:gen:{g}
  conn,        \* the puller's stream: "closed", "open", or "dead" fiber
  cursor,      \* how far the server read the channel on this stream
  phase,       \* ReplogTickState of the server
  pipe,        \* data frames on the wire
  noops,       \* noop frames on the wire, by their position
  wm,          \* the puller's watermark
  caughtUp,    \* the puller's everCaughtUp
  replica,     \* bak:{owner}:call:{c} and its sidecar, on the backup
  lag,         \* calls whose TTL the owner renewed since the backup did
  idx,         \* calls with idx:* keys on the backup
  lives,       \* history: how often each callRef was created
  last,        \* history: the last announcement of each call
  skipped,     \* history: calls whose announcements a restart or a
               \* re-creation without a delete put out of the channel's reach
  faults       \* faults so far

ownerVars  == <<epoch, mem, flushCache, body, chan, seq>>
serverVars == <<cursor, phase>>
wireVars   == <<pipe, noops>>
backupVars == <<wm, caughtUp, replica, lag, idx>>
ghostVars  == <<lives, last, skipped>>
vars == <<ownerVars, conn, serverVars, wireVars, backupVars, ghostVars, faults>>

-----------------------------------------------------------------------------
(* A copy of a call: which creation of the callRef it belongs to, its      *)
(* generation (_topology.gen), bumped by every flush that is not a         *)
(* duplicate, and which encoding of the call the bytes are.                *)
CopyOf(l, g, k) == [life |-> l, callGen |-> g, enc |-> k]
NoCopy == CopyOf(0, 0, 0)

(* What callsMap may hold: the generation tells the encodings apart.       *)
LiveCopy ==
  {NoCopy} \cup {r \in [life : Nat \ {0}, callGen : Nat, enc : Nat] :
                   r.enc = r.callGen}

(* What a body slot may hold: only flushed calls are stored, and the flush *)
(* bumps the generation first.                                             *)
StoredCopy == {NoCopy} \cup {r \in LiveCopy : r.callGen > 0}

(* `gen: call._topology.gen + 1`, before the body is encoded. *)
BumpForgotten(copy) == CopyOf(copy.life, copy.callGen, copy.enc + 1)
Bumped(copy) == CopyOf(copy.life, copy.callGen + 1, copy.enc + 1)

(* The content gate of the apply: an update no newer than what the backup  *)
(* holds is skipped.                                                       *)
GateRefuses(held, incoming) ==
  held # NoCopy /\ incoming.callGen =< held.callGen

FrameOf(e, b) == [op |-> e.op, call |-> e.call, pos |-> e.pos, copy |-> b]

(* `op === "delete" || body === null` *)
IsDeleteByBody(f) == f.copy = NoCopy
IsDelete(f) == f.op = "D" \/ f.copy = NoCopy

NothingAnnounced == [op |-> "none", pos |-> Origin]

Init ==
  /\ epoch = 1
  /\ mem = [c \in Call |-> NoCopy]
  /\ flushCache = {}
  /\ body = [c \in Call |-> NoCopy]
  /\ chan = {}
  /\ seq = [g \in 1..MaxEpoch |-> 0]
  /\ conn = "closed"
  /\ cursor = Origin
  /\ phase = "Pulling"
  /\ pipe = {}
  /\ noops = {}
  /\ wm = Origin
  /\ caughtUp = FALSE
  /\ replica = [c \in Call |-> NoCopy]
  /\ lag = {}
  /\ idx = {}
  /\ lives = [c \in Call |-> 0]
  /\ last = [c \in Call |-> NothingAnnounced]
  /\ skipped = {}
  /\ faults = 0

-----------------------------------------------------------------------------
(* The owner: CallState over PartitionedRelayStorage                       *)

(* CallState.create: the call exists in memory only.  A callRef that comes *)
(* back before the delete of its former life was announced shares its      *)
(* generations with whatever the backup still holds of that life.          *)
Create(c) ==
  /\ mem[c] = NoCopy /\ body[c] = NoCopy
  /\ lives[c] < MaxLives
  /\ lives' = [lives EXCEPT ![c] = @ + 1]
  /\ mem' = [mem EXCEPT ![c] = CopyOf(lives[c] + 1, 0, 0)]
  /\ flushCache' = flushCache \ {c}
  /\ skipped' = IF \/ last[c].op = "D"
                   \/ last[c].op = "none" /\ replica[c] = NoCopy
                THEN skipped ELSE skipped \cup {c}
  /\ UNCHANGED <<epoch, body, chan, seq, conn, serverVars, wireVars,
                 backupVars, last, faults>>

(* CallState.update: the in-memory object is replaced, so that the next    *)
(* flush is not a duplicate.                                               *)
Touch(c) ==
  /\ mem[c] # NoCopy
  /\ c \in flushCache
  /\ flushCache' = flushCache \ {c}
  /\ UNCHANGED <<epoch, mem, body, chan, seq, conn, serverVars, wireVars,
                 backupVars, ghostVars, faults>>

(* The channel write of a body, or of its deletion: the bucket counter is  *)
(* incremented, the member is (re)scored, the body slot is written.        *)
Announce(op, c, copy) ==
  LET p == [gen |-> epoch, counter |-> seq[epoch] + 1]
  IN /\ seq[epoch] < MaxCounter
     /\ seq' = [seq EXCEPT ![epoch] = @ + 1]
     /\ body' = [body EXCEPT ![c] = copy]
     /\ chan' = ZAdd(chan, op, c, p)
     /\ last' = [last EXCEPT ![c] = [op |-> op, pos |-> p]]

(* CallState.flushToRedis, the call having changed since the last flush:   *)
(* the generation is bumped before the body is encoded.                    *)
Flush(c) ==
  /\ mem[c] # NoCopy
  /\ c \notin flushCache
  /\ mem' = [mem EXCEPT ![c] = Bumped(mem[c])]
  /\ flushCache' = flushCache \cup {c}
  /\ Announce("U", c, Bumped(mem[c]))
  /\ lag' = lag \cup {c}
  /\ UNCHANGED <<epoch, conn, serverVars, wireVars, wm, caughtUp, replica,
                 idx, lives, skipped, faults>>

(* CallState.flushToRedis, the call being the one flushed last: the cached *)
(* body is announced again, with the same generation, to renew the TTL.    *)
FlushDedup(c) ==
  /\ mem[c] # NoCopy
  /\ c \in flushCache
  /\ Announce("U", c, mem[c])
  /\ lag' = lag \cup {c}
  /\ UNCHANGED <<epoch, mem, flushCache, conn, serverVars, wireVars, wm,
                 caughtUp, replica, idx, lives, skipped, faults>>

(* CallState.remove: memory is cleared and the deletion announced. *)
Remove(c) ==
  /\ mem[c] # NoCopy
  /\ mem' = [mem EXCEPT ![c] = NoCopy]
  /\ flushCache' = flushCache \ {c}
  /\ Announce("D", c, NoCopy)
  /\ UNCHANGED <<epoch, conn, serverVars, wireVars, backupVars, lives,
                 skipped, faults>>

(* CallState.loadCall and loadOwnedCalls: a stored call that is not in     *)
(* memory is taken back into it ...                                        *)
LoadCall(c) ==
  /\ mem[c] = NoCopy
  /\ body[c] # NoCopy
  /\ mem' = [mem EXCEPT ![c] = body[c]]
  /\ UNCHANGED <<epoch, flushCache, body, chan, seq, conn, serverVars,
                 wireVars, backupVars, ghostVars, faults>>

(* ... unless it was being terminated, and then it is deleted without a    *)
(* peer: the backup is not told.                                           *)
DropTerminating(c) ==
  /\ mem[c] = NoCopy
  /\ body[c] # NoCopy
  /\ body' = [body EXCEPT ![c] = NoCopy]
  /\ UNCHANGED <<epoch, mem, flushCache, chan, seq, conn, serverVars,
                 wireVars, backupVars, ghostVars, faults>>

(* The TTL of the owner's body runs out. *)
Expire(c) ==
  /\ body[c] # NoCopy
  /\ body' = [body EXCEPT ![c] = NoCopy]
  /\ UNCHANGED <<epoch, mem, flushCache, chan, seq, conn, serverVars,
                 wireVars, backupVars, ghostVars, faults>>

(* The owner's process dies and a new incarnation starts.  Its backend may *)
(* survive (keep) or be lost with it; peer-scan bootstrap then imports     *)
(* what the backup holds for the owner - all of it, or the part it got     *)
(* through before its deadline - over whatever is stored.                  *)
OwnerRestart(keep, imported) ==
  /\ epoch < MaxEpoch /\ faults < MaxFaults
  /\ \A c \in imported : replica[c] # NoCopy
  /\ epoch' = epoch + 1
  /\ mem' = [c \in Call |-> NoCopy]
  /\ flushCache' = {}
  /\ body' = [c \in Call |-> IF c \in imported THEN replica[c]
                             ELSE IF keep THEN body[c] ELSE NoCopy]
  /\ IF keep
     THEN UNCHANGED <<chan, seq, last, skipped>>
     ELSE /\ chan' = {}
          /\ seq' = [g \in 1..MaxEpoch |-> 0]
          /\ last' = [c \in Call |->
                        [op |-> IF c \in imported THEN "U" ELSE "none",
                         pos |-> Origin]]
          /\ skipped' = {c \in Call : replica[c] # NoCopy /\ c \notin imported}
  /\ lag' = lag \cup imported
  /\ conn' = IF conn = "open" THEN "closed" ELSE conn
  /\ pipe' = {} /\ noops' = {}
  /\ faults' = faults + 1
  /\ UNCHANGED <<serverVars, wm, caughtUp, replica, idx, lives>>

-----------------------------------------------------------------------------
(* The owner's /replog server: buildPullStream                             *)

(* A batch that is not full tells the server that it reached the head,     *)
(* whose position the noop carries.                                        *)
PartialIsFull(b) == Cardinality(b) = ChunkSize
IsPartial(b) == Cardinality(b) < ChunkSize

(* One tick in the Pulling state: a batch is read, each entry becomes a    *)
(* frame with the body of this moment, and a partial batch is followed by  *)
(* a noop at the head and a pause.                                         *)
PullBatch ==
  /\ conn = "open" /\ phase = "Pulling"
  /\ Cardinality(pipe) + Cardinality(noops) < MaxWire
  /\ \E b \in SUBSET Unread(chan, cursor), h \in HeadCandidates(chan) :
    /\ IsBatch(chan, cursor, ChunkSize, b)
    /\ IsHead(chan, h)
    /\ pipe' = pipe \cup {FrameOf(e, body[e.call]) : e \in b}
    /\ cursor' \in {cursor} \cup {e.pos : e \in b}
    /\ \A e \in b : ~Newer(e.pos, cursor')
    /\ noops' = IF IsPartial(b) THEN noops \cup {h} ELSE noops
    /\ phase' = IF IsPartial(b) THEN "Idle" ELSE "Pulling"
  /\ UNCHANGED <<ownerVars, conn, backupVars, ghostVars, faults>>

(* The pause of the Idle state ends. *)
IdleTick ==
  /\ conn = "open" /\ phase = "Idle"
  /\ phase' = "Pulling"
  /\ UNCHANGED <<ownerVars, conn, cursor, wireVars, backupVars, ghostVars,
                 faults>>

-----------------------------------------------------------------------------
(* The backup's puller: runPullerFiber, applyOne and makeReplicationApply  *)

(* The watermark moves to a newer position only. *)
AdvanceAlways(w, p) == p
AdvanceByCounter(w, p) == IF p.counter > w.counter THEN p ELSE w
Advance(w, p) == IF Newer(p, w) THEN p ELSE w

(* A stream is opened from the watermark. *)
ConnectResumes ==
  /\ conn = "closed"
  /\ conn' = "open"
  /\ phase' = "Pulling"
  /\ UNCHANGED <<ownerVars, cursor, wireVars, backupVars, ghostVars, faults>>

Connect ==
  /\ conn = "closed"
  /\ conn' = "open"
  /\ cursor' = wm
  /\ phase' = "Pulling"
  /\ UNCHANGED <<ownerVars, wireVars, backupVars, ghostVars, faults>>

(* The wire is ordered: a frame is received when no older one is left, and *)
(* a noop after the data it was computed with.                             *)
NextOnWire(f) ==
  /\ conn = "open"
  /\ \A g \in pipe : ~Newer(f.pos, g.pos)
  /\ \A p \in noops : ~Newer(f.pos, p)

NoopIsNext(p) ==
  /\ conn = "open"
  /\ \A g \in pipe : Newer(g.pos, p)
  /\ \A q \in noops : ~Newer(p, q)

(* What applying the frame does to the backup's backend.  A delete frame   *)
(* carries no body and therefore no index keys, unless the call was        *)
(* created again before the frame was read.                                *)
Apply(f) ==
  LET c == f.call IN
  IF IsDelete(f)
  THEN /\ replica' = [replica EXCEPT ![c] = NoCopy]
       /\ idx' = IF f.copy = NoCopy THEN idx ELSE idx \ {c}
       /\ skipped' = IF f.pos = last[c].pos THEN skipped \ {c} ELSE skipped
       /\ UNCHANGED lag
  ELSE IF GateRefuses(replica[c], f.copy)
  THEN /\ skipped' = IF f.pos = last[c].pos /\ replica[c] = body[c]
                     THEN skipped \ {c} ELSE skipped
       /\ UNCHANGED <<replica, idx, lag>>
  ELSE /\ replica' = [replica EXCEPT ![c] = f.copy]
       /\ idx' = idx \cup {c}
       /\ lag' = IF f.pos = last[c].pos THEN lag \ {c} ELSE lag
       /\ skipped' = IF f.pos = last[c].pos /\ f.copy = body[c]
                     THEN skipped \ {c} ELSE skipped

(* applyOne on a data frame newer than the watermark. *)
ApplyFrame(f) ==
  /\ NextOnWire(f)
  /\ Newer(f.pos, wm)
  /\ Apply(f)
  /\ wm' = Advance(wm, f.pos)
  /\ pipe' = pipe \ {f}
  /\ UNCHANGED <<ownerVars, conn, serverVars, noops, caughtUp, lives, last,
                 faults>>

(* applyOne on a data frame that is not: dropped. *)
SkipFrame(f) ==
  /\ NextOnWire(f)
  /\ ~Newer(f.pos, wm)
  /\ pipe' = pipe \ {f}
  /\ UNCHANGED <<ownerVars, conn, serverVars, noops, backupVars, ghostVars,
                 faults>>

(* applyOne on a noop: the sticky caught-up flag, and the watermark if the *)
(* head is newer.                                                          *)
ReceiveNoop(p) ==
  /\ NoopIsNext(p)
  /\ caughtUp' = TRUE
  /\ wm' = Advance(wm, p)
  /\ noops' = noops \ {p}
  /\ UNCHANGED <<ownerVars, conn, serverVars, pipe, replica, lag, idx,
                 ghostVars, faults>>

(* The stream breaks: frames on the wire are lost, the watermark stays and *)
(* the fiber reconnects after its backoff.                                 *)
Disconnect ==
  /\ conn = "open" /\ faults < MaxFaults
  /\ conn' = "closed"
  /\ pipe' = {} /\ noops' = {}
  /\ faults' = faults + 1
  /\ UNCHANGED <<ownerVars, serverVars, backupVars, ghostVars>>

(* The fiber is interrupted (the supervisor saw the owner disappear) after *)
(* the backend took a frame and before the watermark was patched.          *)
InterruptedApply(f) ==
  /\ faults < MaxFaults
  /\ NextOnWire(f)
  /\ Newer(f.pos, wm)
  /\ Apply(f)
  /\ conn' = "closed"
  /\ pipe' = {} /\ noops' = {}
  /\ faults' = faults + 1
  /\ UNCHANGED <<ownerVars, serverVars, wm, caughtUp, lives, last>>

(* The backend fails an apply: Effect.orDie turns the error into a defect, *)
(* which the retry loop does not catch, and the fiber is gone.             *)
ApplyFails(f) ==
  /\ ApplyMayFail /\ faults < MaxFaults
  /\ NextOnWire(f)
  /\ Newer(f.pos, wm)
  /\ conn' = "dead"
  /\ pipe' = {} /\ noops' = {}
  /\ faults' = faults + 1
  /\ UNCHANGED <<ownerVars, serverVars, backupVars, ghostVars>>

(* ReplicationSupervisor.reconcile: the dead fiber still fills its slot;   *)
(* only after the owner was seen to disappear is a new one forked.         *)
Refork ==
  /\ conn = "dead" /\ faults < MaxFaults
  /\ conn' = "closed"
  /\ faults' = faults + 1
  /\ UNCHANGED <<ownerVars, serverVars, wireVars, backupVars, ghostVars>>

(* The TTL of the backup's copy runs out: never before the owner's own,    *)
(* unless the owner renewed its TTL and the backup did not.                *)
ReplicaExpire(c) ==
  /\ replica[c] # NoCopy
  /\ replica[c] # body[c] \/ c \in lag
  /\ replica' = [replica EXCEPT ![c] = NoCopy]
  /\ idx' = idx \ {c}
  /\ UNCHANGED <<ownerVars, conn, serverVars, wireVars, wm, caughtUp, lag,
                 ghostVars, faults>>

(* Index keys a delete left behind live until their own TTL. *)
IndexExpire(c) ==
  /\ c \in idx /\ replica[c] = NoCopy
  /\ idx' = idx \ {c}
  /\ UNCHANGED <<ownerVars, conn, serverVars, wireVars, wm, caughtUp,
                 replica, lag, ghostVars, faults>>

(* The backup's process dies and restarts, with its backend (keep) or      *)
(* without.  When its bootstrap from the owner succeeds, the new puller's  *)
(* watermark is seeded at the head of the owner's channel - what the       *)
(* channel holds is skipped; otherwise it starts from the origin.          *)
BackupRestart(keep, seeded) ==
  /\ faults < MaxFaults
  /\ replica' = IF keep THEN replica ELSE [c \in Call |-> NoCopy]
  /\ idx' = IF keep THEN idx ELSE {}
  /\ IF seeded THEN wm' \in HeadCandidates(chan) /\ IsHead(chan, wm')
               ELSE wm' = Origin
  /\ skipped' = skipped \cup
       {c \in Call : /\ ~Newer(last[c].pos, wm')
                     /\ Newer(last[c].pos, wm) \/ replica'[c] # replica[c]}
  /\ caughtUp' = FALSE
  /\ conn' = "closed"
  /\ pipe' = {} /\ noops' = {}
  /\ faults' = faults + 1
  /\ UNCHANGED <<ownerVars, serverVars, lag, lives, last>>

-----------------------------------------------------------------------------
OwnerStep(c) ==
  \/ Create(c) \/ Touch(c) \/ Flush(c) \/ FlushDedup(c) \/ Remove(c)
  \/ LoadCall(c) \/ DropTerminating(c) \/ Expire(c)

ServerStep == PullBatch \/ IdleTick

PullerStep ==
  \/ Connect
  \/ \E f \in pipe : ApplyFrame(f) \/ SkipFrame(f)
  \/ \E p \in noops : ReceiveNoop(p)

FaultStep ==
  \/ \E keep \in BOOLEAN :
       \/ \E imported \in SUBSET Call : OwnerRestart(keep, imported)
       \/ \E seeded \in BOOLEAN : BackupRestart(keep, seeded)
  \/ Disconnect
  \/ \E f \in pipe : InterruptedApply(f) \/ ApplyFails(f)
  \/ Refork
  \/ \E c \in Call : ReplicaExpire(c) \/ IndexExpire(c)

Next == (\E c \in Call : OwnerStep(c)) \/ ServerStep \/ PullerStep \/ FaultStep

Spec == Init /\ [][Next]_vars

(* The server's loop and the puller's loop run on; nothing is asked of the *)
(* owner's traffic and nothing of the faults.                              *)
FairSpec == Spec /\ WF_vars(ServerStep) /\ WF_vars(PullerStep)

-----------------------------------------------------------------------------
(* Properties                                                              *)

(* Types; and what a body slot holds was bumped by the flush that put it   *)
(* there (CallState.flushToRedis), so the gate can tell it from a call     *)
(* that was never stored.                                                  *)
TypeOK ==
  /\ epoch \in 1..MaxEpoch
  /\ mem \in [Call -> LiveCopy]
  /\ flushCache \subseteq Call
  /\ \A c \in flushCache : mem[c] \in StoredCopy
  /\ body \in [Call -> StoredCopy]
  /\ chan \subseteq [op : {"U", "D"}, call : Call, pos : Position]
  /\ seq \in [1..MaxEpoch -> Nat]
  /\ conn \in {"closed", "open", "dead"}
  /\ cursor \in Position
  /\ phase \in {"Pulling", "Idle"}
  /\ pipe \subseteq [op : {"U", "D"}, call : Call, pos : Position,
                     copy : StoredCopy]
  /\ noops \subseteq Position
  /\ wm \in Position
  /\ caughtUp \in BOOLEAN
  /\ replica \in [Call -> StoredCopy]
  /\ lag \subseteq Call /\ idx \subseteq Call /\ skipped \subseteq Call
  /\ lives \in [Call -> Nat]
  /\ last \in [Call -> [op : {"none", "U", "D"}, pos : Position]]
  /\ faults \in Nat

(* The puller's watermark covers everything announced about c, and no      *)
(* restart or re-creation put an announcement out of the channel's reach.  *)
Settled(c) ==
  /\ last[c].op # "none"
  /\ ~Newer(last[c].pos, wm)
  /\ c \notin skipped

(* A call deleted by the owner is gone from the backup, and a live one is  *)
(* there as the owner stored it last - unless the TTL ran out, on the      *)
(* backup possibly earlier when the gate skipped an announcement that only *)
(* renewed the TTL.  Whatever was read before a later write, redelivered   *)
(* after a lost connection or left in the bucket of an older incarnation.  *)
NoLostUpdate ==
  \A c \in Call : Settled(c) =>
    IF last[c].op = "D" THEN replica[c] = NoCopy
    ELSE \/ body[c] = NoCopy
         \/ replica[c] = body[c]
         \/ replica[c] = NoCopy /\ c \in lag

(* The last announcement of a call is not passed over: as long as the      *)
(* watermark does not cover it the channel holds it, and the open stream   *)
(* either has yet to read it or has it on the wire.                        *)
NothingPassedOver ==
  \A c \in Call : Newer(last[c].pos, wm) =>
    /\ EntryOf(last[c].op, c, last[c].pos) \in chan
    /\ conn = "open" =>
         \/ Newer(last[c].pos, cursor)
         \/ \E f \in pipe : /\ f.call = c /\ f.op = last[c].op
                            /\ f.pos = last[c].pos

(* The memory backend's head and the Lua script's head are the same.       *)
HeadParity ==
  \A h \in HeadCandidates(chan) :
    IsHead(chan, h) => IsCounterHead(chan, seq, h)

(* call-cache-backup.md:706: the owner's own calls survive a crash of its  *)
(* process in the sidecar; a restart that keeps the backend does not put   *)
(* an older copy of a call in the place of a newer one.                    *)
OwnCallsSurviveCrash ==
  [][epoch' # epoch /\ chan' = chan /\ chan # {} =>
       \A c \in Call : body[c].life = body'[c].life =>
                         body'[c].callGen >= body[c].callGen]_vars

(* Within one life of the backup's process the watermark never goes back,  *)
(* not even when the owner comes back with an empty channel and a head at  *)
(* the origin.                                                             *)
BackupRestarts == \E keep, seeded \in BOOLEAN : BackupRestart(keep, seeded)
WatermarkNeverBack == [][~Newer(wm, wm') \/ BackupRestarts]_vars

(* Every announcement is covered by the watermark in the end, through lost *)
(* connections and restarts of both workers.                               *)
EventuallyCovered ==
  \A c \in Call : Newer(last[c].pos, wm) ~> ~Newer(last[c].pos, wm)

(* The puller reports that it caught up, again after each restart: what    *)
(* the readiness gate of the worker waits for.                             *)
CatchesUp == []<>caughtUp
=============================================================================
