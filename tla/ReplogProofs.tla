---------------------------- MODULE ReplogProofs ----------------------------
(***************************************************************************)
(* Proofs about Replog: types, the channel, and that the stream between    *)
(* the owner's channel and the puller never passes an announcement over.   *)
(***************************************************************************)
EXTENDS ReplogInv, TLAPS

(* Positions are ordered lexicographically: the order compareGenCounter    *)
(* implements is strict and total.                                         *)
LEMMA NewerOrder ==
  ASSUME NEW p \in Position, NEW q \in Position, NEW r \in Position
  PROVE  /\ ~Newer(p, p)
         /\ Newer(p, q) => ~Newer(q, p)
         /\ Newer(p, q) /\ Newer(q, r) => Newer(p, r)
         /\ Newer(p, q) /\ ~Newer(r, q) => Newer(p, r)
         /\ ~Newer(q, p) /\ Newer(q, r) => Newer(q, r)
         /\ ~Newer(p, q) /\ ~Newer(q, p) => p = q
         /\ ~Newer(p, q) /\ ~Newer(q, r) => ~Newer(p, r)
         /\ ~Newer(p, q) /\ Newer(r, q) => Newer(r, p)
         /\ ~Newer(Origin, p)
  BY DEF Newer, Origin, Position

LEMMA OriginIsPosition == Origin \in Position
  BY DEF Origin, Position

-----------------------------------------------------------------------------
(* Types                                                                   *)

LEMMA NoCopyTypes == NoCopy \in StoredCopy /\ NoCopy \in LiveCopy
  BY DEF StoredCopy, LiveCopy

LEMMA CopyFacts ==
  /\ NoCopy \in StoredCopy /\ NoCopy \in LiveCopy
  /\ StoredCopy \subseteq LiveCopy
  /\ \A r \in LiveCopy : r # NoCopy => Bumped(r) \in StoredCopy
  /\ \A l \in Nat : CopyOf(l + 1, 0, 0) \in LiveCopy
<1>1. StoredCopy \subseteq LiveCopy
  BY DEF StoredCopy, LiveCopy
<1>2. ASSUME NEW r \in LiveCopy, r # NoCopy
      PROVE  Bumped(r) \in StoredCopy
  <2>1. /\ r \in [life : Nat \ {0}, callGen : Nat, enc : Nat]
        /\ r.enc = r.callGen
    BY <1>2 DEF LiveCopy
  <2>2. /\ Bumped(r) \in [life : Nat \ {0}, callGen : Nat, enc : Nat]
        /\ Bumped(r).callGen = r.callGen + 1
        /\ Bumped(r).enc = r.enc + 1
    BY <2>1 DEF Bumped, CopyOf
  <2>3. Bumped(r).enc = Bumped(r).callGen /\ Bumped(r).callGen > 0
    BY <2>1, <2>2
  <2> QED BY <2>2, <2>3 DEF StoredCopy, LiveCopy
<1>3. ASSUME NEW l \in Nat
      PROVE  CopyOf(l + 1, 0, 0) \in LiveCopy
  BY DEF LiveCopy, CopyOf
<1> QED BY <1>1, <1>2, <1>3, NoCopyTypes

(* A channel write keeps the types of what it writes. *)
LEMMA AnnounceTypes ==
  ASSUME TypeOK, NEW c \in Call, NEW op \in {"U", "D"},
         NEW copy \in StoredCopy, Announce(op, c, copy)
  PROVE  /\ seq' \in [1..MaxEpoch -> Nat]
         /\ body' \in [Call -> StoredCopy]
         /\ chan' \subseteq [op : {"U", "D"}, call : Call, pos : Position]
         /\ last' \in [Call -> [op : {"none", "U", "D"}, pos : Position]]
<1> DEFINE p == [gen |-> epoch, counter |-> seq[epoch] + 1]
<1>1. p \in Position
  BY ReplogAssumption DEF TypeOK, Position
<1>2. /\ seq' = [seq EXCEPT ![epoch] = @ + 1]
      /\ body' = [body EXCEPT ![c] = copy]
      /\ chan' = ZAdd(chan, op, c, p)
      /\ last' = [last EXCEPT ![c] = [op |-> op, pos |-> p]]
  BY DEF Announce
<1>3. EntryOf(op, c, p) \in [op : {"U", "D"}, call : Call, pos : Position]
  BY <1>1 DEF EntryOf
<1> HIDE DEF p
<1>4. chan' \subseteq [op : {"U", "D"}, call : Call, pos : Position]
  BY <1>2, <1>3 DEF TypeOK, ZAdd
<1>5. seq' \in [1..MaxEpoch -> Nat]
  BY <1>2, ReplogAssumption DEF TypeOK
<1>6. body' \in [Call -> StoredCopy]
  BY <1>2 DEF TypeOK
<1>7. last' \in [Call -> [op : {"none", "U", "D"}, pos : Position]]
  BY <1>1, <1>2 DEF TypeOK
<1> QED BY <1>4, <1>5, <1>6, <1>7

(* What a frame does to the backup keeps the types. *)
LEMMA ApplyTypes ==
  ASSUME TypeOK, NEW f \in pipe, Apply(f)
  PROVE  /\ replica' \in [Call -> StoredCopy]
         /\ lag' \subseteq Call /\ idx' \subseteq Call
         /\ skipped' \subseteq Call
<1>1. f.call \in Call /\ f.copy \in StoredCopy
  BY DEF TypeOK
<1>2. CASE IsDelete(f)
  BY <1>1, <1>2, NoCopyTypes DEF TypeOK, Apply
<1>3. CASE ~IsDelete(f) /\ GateRefuses(replica[f.call], f.copy)
  BY <1>1, <1>3 DEF TypeOK, Apply
<1>4. CASE ~IsDelete(f) /\ ~GateRefuses(replica[f.call], f.copy)
  BY <1>1, <1>4 DEF TypeOK, Apply
<1> QED BY <1>2, <1>3, <1>4

LEMMA HeadTypes ==
  ASSUME TypeOK PROVE HeadCandidates(chan) \subseteq Position
  BY OriginIsPosition DEF TypeOK, HeadCandidates

LEMMA TypeInit == Init => TypeOK
<1> SUFFICES ASSUME Init PROVE TypeOK
  OBVIOUS
<1>1. /\ mem \in [Call -> LiveCopy]
      /\ body \in [Call -> StoredCopy]
      /\ replica \in [Call -> StoredCopy]
  BY NoCopyTypes DEF Init
<1>2. last \in [Call -> [op : {"none", "U", "D"}, pos : Position]]
  BY OriginIsPosition DEF Init, NothingAnnounced
<1>3. seq \in [1..MaxEpoch -> Nat] /\ lives \in [Call -> Nat] /\ epoch \in 1..MaxEpoch
  BY ReplogAssumption DEF Init
<1>4. /\ cursor \in Position /\ wm \in Position /\ noops \subseteq Position
      /\ flushCache = {} /\ chan = {} /\ pipe = {}
  BY OriginIsPosition DEF Init
<1>5. /\ conn = "closed" /\ phase = "Pulling" /\ caughtUp = FALSE
      /\ lag = {} /\ idx = {} /\ skipped = {} /\ faults = 0
  BY DEF Init
<1> QED
  BY <1>1, <1>2, <1>3, <1>4, <1>5 DEF TypeOK

LEMMA TypeNext ==
  ASSUME TypeOK, [Next]_vars PROVE TypeOK'
<1> USE ReplogAssumption
<1>1. ASSUME NEW c \in Call, Create(c) PROVE TypeOK'
  <2>1. CopyOf(lives[c] + 1, 0, 0) \in LiveCopy
    BY CopyFacts DEF TypeOK
  <2>2. /\ mem' \in [Call -> LiveCopy] /\ lives' \in [Call -> Nat]
        /\ flushCache' \subseteq Call /\ skipped' \subseteq Call
    BY <1>1, <2>1 DEF Create, TypeOK
  <2>3. \A d \in flushCache' : mem'[d] \in StoredCopy
    BY <1>1 DEF Create, TypeOK
  <2> QED
    BY <1>1, <2>2, <2>3 DEF Create, TypeOK, backupVars, serverVars, wireVars
<1>2. ASSUME NEW c \in Call, Touch(c) PROVE TypeOK'
  BY <1>2 DEF Touch, TypeOK, backupVars, serverVars, wireVars, ghostVars
<1>3. ASSUME NEW c \in Call, Flush(c) PROVE TypeOK'
  <2>1. Bumped(mem[c]) \in StoredCopy
    BY <1>3, CopyFacts DEF TypeOK, Flush
  <2>2. /\ seq' \in [1..MaxEpoch -> Nat]
        /\ body' \in [Call -> StoredCopy]
        /\ chan' \subseteq [op : {"U", "D"}, call : Call, pos : Position]
        /\ last' \in [Call -> [op : {"none", "U", "D"}, pos : Position]]
    BY <1>3, <2>1, AnnounceTypes DEF Flush
  <2>3. mem' \in [Call -> LiveCopy] /\ \A d \in flushCache' : mem'[d] \in StoredCopy
    BY <1>3, <2>1, CopyFacts DEF TypeOK, Flush
  <2> QED
    BY <1>3, <2>2, <2>3 DEF Flush, TypeOK, serverVars, wireVars
<1>4. ASSUME NEW c \in Call, FlushDedup(c) PROVE TypeOK'
  <2>1. mem[c] \in StoredCopy
    BY <1>4 DEF TypeOK, FlushDedup
  <2>2. /\ seq' \in [1..MaxEpoch -> Nat]
        /\ body' \in [Call -> StoredCopy]
        /\ chan' \subseteq [op : {"U", "D"}, call : Call, pos : Position]
        /\ last' \in [Call -> [op : {"none", "U", "D"}, pos : Position]]
    BY <1>4, <2>1, AnnounceTypes DEF FlushDedup
  <2> QED
    BY <1>4, <2>2 DEF FlushDedup, TypeOK, serverVars, wireVars
<1>5. ASSUME NEW c \in Call, Remove(c) PROVE TypeOK'
  <2>1. /\ seq' \in [1..MaxEpoch -> Nat]
        /\ body' \in [Call -> StoredCopy]
        /\ chan' \subseteq [op : {"U", "D"}, call : Call, pos : Position]
        /\ last' \in [Call -> [op : {"none", "U", "D"}, pos : Position]]
    BY <1>5, NoCopyTypes, AnnounceTypes DEF Remove
  <2> QED
    BY <1>5, <2>1, NoCopyTypes DEF Remove, TypeOK, serverVars, wireVars, backupVars
<1>6. ASSUME NEW c \in Call, LoadCall(c) \/ DropTerminating(c) \/ Expire(c)
      PROVE TypeOK'
  <2>1. CASE LoadCall(c)
    <3>1. mem' \in [Call -> LiveCopy]
      BY <2>1, CopyFacts DEF LoadCall, TypeOK
    <3>2. \A d \in flushCache' : mem'[d] \in StoredCopy
      BY <2>1 DEF LoadCall, TypeOK
    <3> QED
      BY <2>1, <3>1, <3>2
         DEF LoadCall, TypeOK, serverVars, wireVars, backupVars, ghostVars
  <2>2. CASE DropTerminating(c) \/ Expire(c)
    <3>1. body' \in [Call -> StoredCopy]
      BY <2>2, NoCopyTypes DEF DropTerminating, Expire, TypeOK
    <3> QED
      BY <2>2, <3>1 DEF DropTerminating, Expire, TypeOK, serverVars, wireVars,
                        backupVars, ghostVars
  <2> QED BY <1>6, <2>1, <2>2
<1>7. ASSUME NEW keep \in BOOLEAN, NEW imported \in SUBSET Call,
             OwnerRestart(keep, imported)
      PROVE TypeOK'
  <2>1. body' \in [Call -> StoredCopy] /\ mem' \in [Call -> LiveCopy]
    BY <1>7, NoCopyTypes DEF OwnerRestart, TypeOK
  <2>2. /\ chan' \subseteq [op : {"U", "D"}, call : Call, pos : Position]
        /\ seq' \in [1..MaxEpoch -> Nat]
        /\ last' \in [Call -> [op : {"none", "U", "D"}, pos : Position]]
        /\ skipped' \subseteq Call
    BY <1>7, OriginIsPosition DEF OwnerRestart, TypeOK
  <2> QED
    BY <1>7, <2>1, <2>2 DEF OwnerRestart, TypeOK, serverVars
<1>8. CASE ServerStep
  <2>1. CASE PullBatch
    <3>1. PICK b \in SUBSET Unread(chan, cursor), h \in HeadCandidates(chan) :
            /\ pipe' = pipe \cup {FrameOf(e, body[e.call]) : e \in b}
            /\ cursor' \in {cursor} \cup {e.pos : e \in b}
            /\ noops' = IF IsPartial(b) THEN noops \cup {h} ELSE noops
            /\ phase' = IF IsPartial(b) THEN "Idle" ELSE "Pulling"
      BY <2>1 DEF PullBatch
    <3>2. b \subseteq chan
      BY DEF Unread
    <3>3. /\ pipe' \subseteq [op : {"U", "D"}, call : Call, pos : Position,
                              copy : StoredCopy]
          /\ cursor' \in Position
      BY <3>1, <3>2 DEF TypeOK, FrameOf
    <3>4. noops' \subseteq Position /\ phase' \in {"Pulling", "Idle"}
      BY <3>1, HeadTypes DEF TypeOK
    <3> QED
      BY <2>1, <3>3, <3>4 DEF PullBatch, TypeOK, ownerVars, backupVars, ghostVars
  <2>2. CASE IdleTick
    BY <2>2 DEF IdleTick, TypeOK, ownerVars, wireVars, backupVars, ghostVars
  <2> QED BY <1>8, <2>1, <2>2 DEF ServerStep
<1>9. CASE PullerStep
  <2>1. CASE Connect
    BY <2>1 DEF Connect, TypeOK, ownerVars, wireVars, backupVars, ghostVars
  <2>2. ASSUME NEW f \in pipe, ApplyFrame(f) PROVE TypeOK'
    <3>1. Apply(f) /\ wm' \in Position
      BY <2>2 DEF ApplyFrame, TypeOK, Advance
    <3> QED
      BY <2>2, <3>1, ApplyTypes DEF ApplyFrame, TypeOK, ownerVars, serverVars
  <2>3. ASSUME NEW f \in pipe, SkipFrame(f) PROVE TypeOK'
    BY <2>3 DEF SkipFrame, TypeOK, ownerVars, serverVars, backupVars, ghostVars
  <2>4. ASSUME NEW p \in noops, ReceiveNoop(p) PROVE TypeOK'
    BY <2>4 DEF ReceiveNoop, TypeOK, Advance, ownerVars, serverVars, ghostVars
  <2> QED BY <1>9, <2>1, <2>2, <2>3, <2>4 DEF PullerStep
<1>10. ASSUME NEW keep \in BOOLEAN, NEW seeded \in BOOLEAN,
              BackupRestart(keep, seeded)
       PROVE TypeOK'
  <2>1. /\ replica' \in [Call -> StoredCopy] /\ wm' \in Position
        /\ skipped' \subseteq Call /\ idx' \subseteq Call
    BY <1>10, NoCopyTypes, HeadTypes, OriginIsPosition DEF BackupRestart, TypeOK
  <2>2. /\ caughtUp' = FALSE /\ conn' = "closed"
        /\ pipe' = {} /\ noops' = {}
        /\ faults' = faults + 1
        /\ UNCHANGED <<ownerVars, serverVars, lag, lives, last>>
    BY <1>10 DEF BackupRestart
  <2>3. /\ pipe' \subseteq [op : {"U", "D"}, call : Call, pos : Position,
                            copy : StoredCopy]
        /\ noops' \subseteq Position /\ faults' \in Nat
        /\ conn' \in {"closed", "open", "dead"}
    BY <2>2 DEF TypeOK
  <2>5. caughtUp' \in BOOLEAN
    BY <2>2, Zenon
  <2>4. UNCHANGED <<epoch, mem, flushCache, body, chan, seq, cursor, phase, lag,
                    lives, last>>
    BY <2>2 DEF ownerVars, serverVars
  <2> QED
    BY <2>1, <2>3, <2>4, <2>5 DEF TypeOK
<1>11. CASE Disconnect
  BY <1>11 DEF Disconnect, TypeOK, ownerVars, serverVars, backupVars, ghostVars
<1>12. ASSUME NEW f \in pipe, InterruptedApply(f) PROVE TypeOK'
  <2>1. /\ replica' \in [Call -> StoredCopy]
        /\ lag' \subseteq Call /\ idx' \subseteq Call /\ skipped' \subseteq Call
    BY <1>12, ApplyTypes DEF InterruptedApply
  <2> QED
    BY <1>12, <2>1 DEF InterruptedApply, TypeOK, ownerVars, serverVars
<1>13. ASSUME NEW f \in pipe, ApplyFails(f) PROVE TypeOK'
  BY <1>13 DEF ApplyFails, TypeOK, ownerVars, serverVars, backupVars, ghostVars
<1>14. CASE Refork
  BY <1>14 DEF Refork, TypeOK, ownerVars, serverVars, wireVars, backupVars,
               ghostVars
<1>15. ASSUME NEW c \in Call, ReplicaExpire(c) \/ IndexExpire(c) PROVE TypeOK'
  <2>1. replica' \in [Call -> StoredCopy] /\ idx' \subseteq Call
    BY <1>15, NoCopyTypes DEF ReplicaExpire, IndexExpire, TypeOK
  <2> QED
    BY <1>15, <2>1 DEF ReplicaExpire, IndexExpire, TypeOK, ownerVars,
                       serverVars, wireVars, ghostVars
<1>16. CASE UNCHANGED vars
  BY <1>16 DEF vars, TypeOK, ownerVars, serverVars, wireVars, backupVars,
               ghostVars
<1> QED
  BY <1>1, <1>2, <1>3, <1>4, <1>5, <1>6, <1>7, <1>8, <1>9, <1>10, <1>11,
     <1>12, <1>13, <1>14, <1>15, <1>16
     DEF Next, OwnerStep, FaultStep

(* Every reachable state is well typed; in particular only bumped copies   *)
(* are ever stored (CallState.flushToRedis).                               *)
THEOREM TypeCorrect == Spec => []TypeOK
<1>1. Init => TypeOK
  BY TypeInit
<1>2. TypeOK /\ [Next]_vars => TypeOK'
  BY TypeNext
<1> QED BY <1>1, <1>2, PTL DEF Spec

-----------------------------------------------------------------------------
(* The channel                                                             *)

(* The steps that write the channel, and all the others. *)
LEMMA ChannelSteps ==
  ASSUME [Next]_vars
  PROVE  \/ \E c \in Call, op \in {"U", "D"} : \E copy :
              /\ Announce(op, c, copy)
              /\ UNCHANGED <<epoch, conn, cursor, pipe, noops, wm>>
         \/ \E keep \in BOOLEAN, imported \in SUBSET Call :
              OwnerRestart(keep, imported)
         \/ UNCHANGED <<epoch, seq, chan, last>>
<1>1. ASSUME NEW c \in Call, OwnerStep(c)
      PROVE  \/ \E op \in {"U", "D"} : \E copy :
                  /\ Announce(op, c, copy)
                  /\ UNCHANGED <<epoch, conn, cursor, pipe, noops, wm>>
             \/ UNCHANGED <<epoch, seq, chan, last>>
  <2>1. CASE Flush(c)
    BY <2>1 DEF Flush, serverVars, wireVars
  <2>2. CASE FlushDedup(c)
    BY <2>2 DEF FlushDedup, serverVars, wireVars
  <2>3. CASE Remove(c)
    BY <2>3 DEF Remove, serverVars, wireVars, backupVars
  <2>4. CASE \/ Create(c) \/ Touch(c) \/ LoadCall(c)
             \/ DropTerminating(c) \/ Expire(c)
    BY <2>4 DEF Create, Touch, LoadCall, DropTerminating, Expire, ghostVars
  <2> QED BY <1>1, <2>1, <2>2, <2>3, <2>4 DEF OwnerStep
<1>2. CASE ServerStep
  BY <1>2 DEF ServerStep, PullBatch, IdleTick, ownerVars, ghostVars
<1>3. CASE PullerStep
  BY <1>3 DEF PullerStep, Connect, ApplyFrame, SkipFrame, ReceiveNoop,
              ownerVars, ghostVars
<1>4. ASSUME FaultStep,
             ~ \E keep \in BOOLEAN, imported \in SUBSET Call :
                 OwnerRestart(keep, imported)
      PROVE  UNCHANGED <<epoch, seq, chan, last>>
  BY <1>4 DEF FaultStep, BackupRestart, Disconnect, InterruptedApply,
              ApplyFails, Refork, ReplicaExpire, IndexExpire, ownerVars,
              ghostVars
<1>5. CASE UNCHANGED vars
  BY <1>5 DEF vars, ownerVars, ghostVars
<1> QED BY <1>1, <1>2, <1>3, <1>4, <1>5 DEF Next

(* The position a channel write takes is newer than the top. *)
LEMMA AnnounceTop ==
  ASSUME TypeOK, NEW c \in Call, NEW op \in {"U", "D"}, NEW copy,
         Announce(op, c, copy), epoch' = epoch
  PROVE  /\ Top \in Position /\ Top' \in Position
         /\ Newer(Top', Top)
         /\ last' = [last EXCEPT ![c] = [op |-> op, pos |-> Top']]
         /\ chan' = ZAdd(chan, op, c, Top')
         /\ seq' = [seq EXCEPT ![epoch] = @ + 1]
         /\ Top'.gen = epoch /\ Top'.counter = seq[epoch] + 1
<1>1. seq[epoch] \in Nat /\ epoch \in Nat
  BY ReplogAssumption DEF TypeOK
<1>2. seq' = [seq EXCEPT ![epoch] = @ + 1]
  BY DEF Announce
<1>3. seq'[epoch] = seq[epoch] + 1
  BY <1>2 DEF TypeOK
<1>4. Top' = [gen |-> epoch, counter |-> seq[epoch] + 1]
  BY <1>3 DEF Top
<1>5. /\ last' = [last EXCEPT ![c] = [op |-> op, pos |-> Top']]
      /\ chan' = ZAdd(chan, op, c, Top')
  BY <1>4 DEF Announce
<1>6. Top \in Position /\ Top' \in Position /\ Newer(Top', Top)
  BY <1>1, <1>4 DEF Top, Newer, Position
<1> QED BY <1>2, <1>4, <1>5, <1>6

LEMMA ChanInit == Init => ChanInv
  BY DEF Init, ChanInv, NothingAnnounced

LEMMA ChanAnnounce ==
  ASSUME TypeOK, ChanInv, NEW c \in Call, NEW op \in {"U", "D"}, NEW copy,
         Announce(op, c, copy), epoch' = epoch
  PROVE  ChanInv'
<1> DEFINE new == EntryOf(op, c, Top')
<1>1. /\ Top \in Position /\ Top' \in Position
      /\ last' = [last EXCEPT ![c] = [op |-> op, pos |-> Top']]
      /\ chan' = ZAdd(chan, op, c, Top')
      /\ seq' = [seq EXCEPT ![epoch] = @ + 1]
      /\ Top'.gen = epoch /\ Top'.counter = seq[epoch] + 1
  BY AnnounceTop
<1>2. /\ new \in chan'
      /\ new.pos = Top' /\ new.op = op /\ new.call = c
      /\ \A e \in chan' : e # new => e \in chan
      /\ \A e \in chan : e.call # c \/ e.op # op \/ e.pos.gen # epoch => e \in chan'
  BY <1>1 DEF ZAdd, EntryOf
<1>3. /\ epoch \in 1..MaxEpoch /\ epoch \in Nat
      /\ seq \in [1..MaxEpoch -> Nat] /\ seq[epoch] \in Nat
  BY ReplogAssumption DEF TypeOK
<1>4. \A e \in chan : /\ e.pos \in Position /\ e.pos.gen \in 1..epoch
                      /\ e.pos.counter \in 1..seq[e.pos.gen]
                      /\ e.call \in Call
  BY DEF TypeOK, ChanInv
<1>5. \A g \in 1..MaxEpoch : seq'[g] = IF g = epoch THEN seq[epoch] + 1 ELSE seq[g]
  BY <1>1, <1>3
<1> HIDE DEF new
<1>6. \A e \in chan : e.pos # Top' /\ Newer(Top', e.pos)
  BY <1>1, <1>3, <1>4 DEF Newer, Position
<1>7. \A e \in chan' : /\ e.pos.gen \in 1..epoch'
                       /\ e.pos.counter \in 1..seq'[e.pos.gen]
  <2> SUFFICES ASSUME NEW e \in chan'
               PROVE  e.pos.gen \in 1..epoch' /\ e.pos.counter \in 1..seq'[e.pos.gen]
    OBVIOUS
  <2>1. CASE e = new
    BY <1>1, <1>2, <1>3, <1>5, <2>1
  <2>2. CASE e # new
    <3>1. e \in chan
      BY <1>2, <2>2
    <3>2. e.pos.gen \in 1..MaxEpoch
      BY <1>3, <1>4, <3>1, ReplogAssumption
    <3> QED
      BY <1>3, <1>4, <1>5, <3>1, <3>2
  <2> QED BY <2>1, <2>2
<1>8. \A e, x \in chan' : e.pos = x.pos => e = x
  BY <1>2, <1>6 DEF ChanInv
<1>9. \A g \in 1..MaxEpoch :
        /\ g > epoch' => seq'[g] = 0
        /\ seq'[g] > 0 => \E e \in chan' : e.pos = [gen |-> g, counter |-> seq'[g]]
  <2> SUFFICES ASSUME NEW g \in 1..MaxEpoch
               PROVE  /\ g > epoch' => seq'[g] = 0
                      /\ seq'[g] > 0 =>
                           \E e \in chan' : e.pos = [gen |-> g, counter |-> seq'[g]]
    OBVIOUS
  <2>1. CASE g = epoch
    <3>1. Top' = [gen |-> g, counter |-> seq'[g]]
      BY <1>1, <1>5, <2>1 DEF Position
    <3> QED
      BY <1>2, <1>3, <2>1, <3>1
  <2>2. CASE g # epoch
    <3>1. seq'[g] = seq[g]
      BY <1>5, <2>2
    <3>2. seq[g] > 0 => \E e \in chan : e.pos = [gen |-> g, counter |-> seq[g]]
      BY DEF ChanInv
    <3> QED
      BY <1>2, <2>2, <3>1, <3>2 DEF ChanInv
  <2> QED BY <2>1, <2>2
<1>10. \A d \in Call : /\ last'[d].op = "none" => last'[d].pos = Origin
                       /\ last'[d].pos # Origin =>
                            EntryOf(last'[d].op, d, last'[d].pos) \in chan'
  <2> SUFFICES ASSUME NEW d \in Call
               PROVE  /\ last'[d].op = "none" => last'[d].pos = Origin
                      /\ last'[d].pos # Origin =>
                           EntryOf(last'[d].op, d, last'[d].pos) \in chan'
    OBVIOUS
  <2>1. CASE d = c
    BY <1>1, <1>2, <2>1 DEF TypeOK, new
  <2>2. CASE d # c
    <3>1. last'[d] = last[d]
      BY <1>1, <2>2 DEF TypeOK
    <3>2. EntryOf(last[d].op, d, last[d].pos).call # c
      BY <2>2 DEF EntryOf
    <3> QED
      BY <1>2, <3>1, <3>2 DEF ChanInv
  <2> QED BY <2>1, <2>2
<1>11. \A e \in chan' : ~Newer(e.pos, last'[e.call].pos)
  <2> SUFFICES ASSUME NEW e \in chan' PROVE ~Newer(e.pos, last'[e.call].pos)
    OBVIOUS
  <2>1. CASE e = new
    BY <1>1, <1>2, <2>1, NewerOrder DEF TypeOK
  <2>2. CASE e # new /\ e.call = c
    <3>1. last'[c].pos = Top'
      BY <1>1 DEF TypeOK
    <3>2. e \in chan /\ Newer(Top', e.pos)
      BY <1>2, <1>6, <2>2
    <3> QED
      BY <1>1, <1>4, <2>2, <3>1, <3>2, NewerOrder
  <2>3. CASE e # new /\ e.call # c
    <3>1. e \in chan /\ last'[e.call] = last[e.call]
      BY <1>1, <1>2, <1>4, <2>3 DEF TypeOK
    <3> QED
      BY <3>1 DEF ChanInv
  <2> QED BY <2>1, <2>2, <2>3
<1> QED
  BY <1>7, <1>8, <1>9, <1>10, <1>11 DEF ChanInv

LEMMA ChanRestart ==
  ASSUME TypeOK, ChanInv, NEW keep \in BOOLEAN, NEW imported \in SUBSET Call,
         OwnerRestart(keep, imported)
  PROVE  ChanInv'
<1>1. epoch \in Nat /\ epoch' = epoch + 1
  BY ReplogAssumption DEF TypeOK, OwnerRestart
<1>2. CASE keep
  <2>1. UNCHANGED <<chan, seq, last>>
    BY <1>2 DEF OwnerRestart
  <2>2. \A e \in chan : e.pos.gen \in 1..epoch'
    BY <1>1 DEF ChanInv
  <2>3. \A g \in 1..MaxEpoch : g > epoch' => seq'[g] = 0
    <3>1. \A g \in 1..MaxEpoch : g > epoch => seq[g] = 0
      BY DEF ChanInv
    <3> QED BY <1>1, <2>1, <3>1, ReplogAssumption
  <2> QED
    BY <2>1, <2>2, <2>3 DEF ChanInv
<1>3. CASE ~keep
  <2>1. /\ chan' = {}
        /\ seq' = [g \in 1..MaxEpoch |-> 0]
        /\ last' = [c \in Call |->
                      [op |-> IF c \in imported THEN "U" ELSE "none",
                       pos |-> Origin]]
    BY <1>3 DEF OwnerRestart
  <2> QED
    BY <2>1 DEF ChanInv
<1> QED BY <1>2, <1>3

LEMMA ChanNext ==
  ASSUME TypeOK, ChanInv, [Next]_vars PROVE ChanInv'
<1>1. CASE \E c \in Call, op \in {"U", "D"} : \E copy :
             Announce(op, c, copy) /\ UNCHANGED epoch
  BY <1>1, ChanAnnounce
<1>2. CASE \E keep \in BOOLEAN, imported \in SUBSET Call :
             OwnerRestart(keep, imported)
  BY <1>2, ChanRestart
<1>3. CASE UNCHANGED <<epoch, seq, chan, last>>
  BY <1>3 DEF ChanInv
<1> QED BY <1>1, <1>2, <1>3, ChannelSteps

(* The head the memory backend computes from the entries is the one the    *)
(* Lua script reads from the bucket counter.                               *)
LEMMA HeadParityHolds == ASSUME TypeOK, ChanInv PROVE HeadParity
<1> SUFFICES ASSUME NEW h \in HeadCandidates(chan), IsHead(chan, h)
             PROVE  IsCounterHead(chan, seq, h)
  BY DEF HeadParity
<1>1. CASE chan = {}
  BY <1>1 DEF IsHead, IsCounterHead
<1>2. CASE chan # {}
  <2>1. PICK e \in chan : e.pos = h
    BY <1>2 DEF IsHead
  <2>2. \A x \in chan : ~Newer(x.pos, h)
    BY <1>2 DEF IsHead
  <2>3. \A x \in chan : /\ x.pos \in Position /\ x.pos.gen \in 1..epoch
                        /\ x.pos.counter \in 1..seq[x.pos.gen]
    BY DEF TypeOK, ChanInv
  <2>4. \A x \in chan : x.pos.gen =< e.pos.gen
    BY <2>1, <2>2, <2>3 DEF Newer, Position
  <2>5. h.gen \in 1..MaxEpoch /\ seq[h.gen] \in Nat
    BY <2>1, <2>3, ReplogAssumption DEF TypeOK
  <2>6. PICK x \in chan : x.pos = [gen |-> h.gen, counter |-> seq[h.gen]]
    BY <2>1, <2>3, <2>5 DEF ChanInv
  <2>7. h.counter = seq[h.gen]
    BY <2>1, <2>2, <2>3, <2>5, <2>6 DEF Newer, Position
  <2>8. h = [gen |-> e.pos.gen, counter |-> seq[e.pos.gen]]
    BY <2>1, <2>3, <2>7 DEF Position
  <2> QED
    BY <2>4, <2>8 DEF IsCounterHead
<1> QED BY <1>1, <1>2

(* Both backends report the same head in every reachable state             *)
(* (computeHead in KvBackend.ts and PULL_BATCH_LUA).                       *)
THEOREM HeadsAgree == Spec => []HeadParity
<1>1. Init => TypeOK /\ ChanInv
  BY TypeInit, ChanInit
<1>2. TypeOK /\ ChanInv /\ [Next]_vars => (TypeOK /\ ChanInv)'
  BY TypeNext, ChanNext
<1>3. TypeOK /\ ChanInv => HeadParity
  BY HeadParityHolds
<1> QED BY <1>1, <1>2, <1>3, PTL DEF Spec

-----------------------------------------------------------------------------
(* The stream                                                              *)

(* The positions StreamInv compares, with their types. *)
LEMMA PositionTypes ==
  ASSUME TypeOK
  PROVE  /\ wm \in Position /\ cursor \in Position /\ Top \in Position
         /\ Origin \in Position
         /\ \A p \in noops : p \in Position
         /\ \A f \in pipe : f.pos \in Position /\ f.call \in Call
         /\ \A e \in chan : e.pos \in Position /\ e.call \in Call
         /\ \A c \in Call : last[c].pos \in Position
<1>1. Top \in Position
  BY ReplogAssumption DEF TypeOK, Top, Position
<1> QED BY <1>1, OriginIsPosition DEF TypeOK

(* Every entry lies at or below the top. *)
LEMMA BelowTop ==
  ASSUME TypeOK, ChanInv, NEW e \in chan
  PROVE  ~Newer(e.pos, Top) /\ Newer(e.pos, Origin)
<1>1. /\ e.pos.gen \in 1..epoch /\ e.pos.counter \in 1..seq[e.pos.gen]
      /\ e.pos \in Position
  BY DEF TypeOK, ChanInv
<1>2. epoch \in Nat /\ seq[epoch] \in Nat
  BY ReplogAssumption DEF TypeOK
<1>3. ~(e.pos.gen > epoch)
  BY <1>1, <1>2
<1>4. e.pos.gen = epoch => ~(e.pos.counter > seq[epoch])
  BY <1>1, <1>2
<1> QED BY <1>1, <1>3, <1>4 DEF Newer, Top, Origin, Position

LEMMA StreamInit == Init => StreamInv
<1> SUFFICES ASSUME Init PROVE StreamInv
  OBVIOUS
<1>1. Top = [gen |-> 1, counter |-> 0]
  BY ReplogAssumption DEF Init, Top
<1>2. ~Newer(wm, Top)
  BY <1>1 DEF Init, Newer, Origin
<1> QED BY <1>2 DEF Init, StreamInv

LEMMA StreamQuiet ==
  ASSUME StreamInv,
         UNCHANGED <<epoch, seq, chan, last, conn, cursor, pipe, noops, wm>>
  PROVE  StreamInv'
  BY DEF StreamInv, Top

LEMMA StreamClosed ==
  ASSUME StreamInv, conn' # "open", pipe' = {}, noops' = {},
         UNCHANGED <<epoch, seq, wm>>
  PROVE  StreamInv'
  BY DEF StreamInv, Top

LEMMA StreamAnnounce ==
  ASSUME TypeOK, ChanInv, StreamInv,
         NEW c \in Call, NEW op \in {"U", "D"}, NEW copy,
         Announce(op, c, copy),
         UNCHANGED <<epoch, conn, cursor, pipe, noops, wm>>
  PROVE  StreamInv'
<1>1. /\ Top \in Position /\ Top' \in Position /\ Newer(Top', Top)
      /\ last' = [last EXCEPT ![c] = [op |-> op, pos |-> Top']]
      /\ chan' = ZAdd(chan, op, c, Top')
  BY AnnounceTop
<1>2. \A p \in Position : ~Newer(p, Top) => ~Newer(p, Top') /\ Newer(Top', p)
  BY <1>1, NewerOrder
<1>3. ~Newer(wm', Top')
  BY <1>2, PositionTypes DEF StreamInv
<1>4. ASSUME conn' = "open"
      PROVE  /\ ~Newer(cursor', Top') /\ ~Newer(wm', cursor')
             /\ \A p \in noops' : ~Newer(p, cursor')
             /\ \A f, g \in pipe' : f.pos = g.pos => f = g
  BY <1>2, <1>4, PositionTypes DEF StreamInv
<1>5. ASSUME conn' = "open", NEW f \in pipe'
      PROVE  /\ ~Newer(f.pos, cursor') /\ Newer(f.pos, Origin)
             /\ ~Newer(f.pos, last'[f.call].pos)
             /\ f.pos = last'[f.call].pos => f.op = last'[f.call].op
  <2>1. /\ f \in pipe /\ conn = "open" /\ f.pos \in Position /\ f.call \in Call
        /\ ~Newer(f.pos, cursor) /\ ~Newer(cursor, Top)
    BY <1>5, PositionTypes DEF StreamInv
  <2>2. ~Newer(f.pos, Top)
    BY <2>1, <1>1, NewerOrder, PositionTypes
  <2>3. Newer(Top', f.pos)
    BY <1>2, <2>1, <2>2
  <2>4. CASE f.call = c
    <3>1. last'[f.call].pos = Top'
      BY <1>1, <2>4 DEF TypeOK
    <3>2. f.pos # Top' /\ ~Newer(f.pos, Top')
      BY <1>1, <2>1, <2>3, NewerOrder
    <3> QED BY <2>1, <3>1, <3>2, <1>5 DEF StreamInv
  <2>5. CASE f.call # c
    <3>1. last'[f.call] = last[f.call]
      BY <1>1, <2>1, <2>5 DEF TypeOK
    <3> QED BY <2>1, <3>1, <1>5 DEF StreamInv
  <2> QED BY <2>4, <2>5
<1>6. ASSUME conn' = "open", NEW e \in chan', Newer(e.pos, wm')
      PROVE  \/ Newer(e.pos, cursor')
             \/ \E f \in pipe' : f.op = e.op /\ f.call = e.call /\ f.pos = e.pos
  <2>1. CASE e \in chan
    BY <1>6, <2>1 DEF StreamInv
  <2>2. CASE e \notin chan
    <3>1. e.pos = Top'
      BY <1>1, <1>6, <2>2 DEF ZAdd, EntryOf
    <3> QED BY <1>2, <1>6, <3>1, PositionTypes DEF StreamInv
  <2> QED BY <2>1, <2>2
<1> QED BY <1>3, <1>4, <1>5, <1>6 DEF StreamInv

LEMMA StreamOwnerRestart ==
  ASSUME TypeOK, StreamInv, NEW keep \in BOOLEAN, NEW imported \in SUBSET Call,
         OwnerRestart(keep, imported), TypeOK'
  PROVE  StreamInv'
<1>1. /\ conn' # "open" /\ pipe' = {} /\ noops' = {} /\ wm' = wm
      /\ epoch' = epoch + 1 /\ epoch \in Nat
  BY ReplogAssumption DEF OwnerRestart, TypeOK
<1>2. Newer(Top', Top)
  BY <1>1 DEF Top, Newer
<1>3. Top \in Position /\ Top' \in Position /\ wm \in Position
  <2>1. Top' \in Position
    BY ReplogAssumption DEF TypeOK, Top, Position
  <2> QED BY <2>1, PositionTypes
<1>4. ~Newer(wm', Top')
  BY <1>1, <1>2, <1>3, NewerOrder DEF StreamInv
<1> QED BY <1>1, <1>4 DEF StreamInv

LEMMA StreamConnect ==
  ASSUME TypeOK, StreamInv, Connect
  PROVE  StreamInv'
<1>1. /\ pipe' = {} /\ noops' = {} /\ cursor' = wm
      /\ UNCHANGED <<epoch, seq, chan, last, wm>>
  BY DEF StreamInv, Connect, wireVars, backupVars, ownerVars, ghostVars
<1>2. ~Newer(wm, wm)
  BY PositionTypes, NewerOrder
<1> QED BY <1>1, <1>2 DEF StreamInv, Top

(* A batch: what it leaves unread is newer than its last entry. *)
LEMMA StreamPullBatch ==
  ASSUME TypeOK, ChanInv, StreamInv, PullBatch
  PROVE  StreamInv'
<1>1. PICK b \in SUBSET Unread(chan, cursor), h \in HeadCandidates(chan) :
        /\ IsBatch(chan, cursor, ChunkSize, b)
        /\ IsHead(chan, h)
        /\ pipe' = pipe \cup {FrameOf(e, body[e.call]) : e \in b}
        /\ cursor' \in {cursor} \cup {e.pos : e \in b}
        /\ \A e \in b : ~Newer(e.pos, cursor')
        /\ noops' = IF IsPartial(b) THEN noops \cup {h} ELSE noops
  BY DEF PullBatch
<1>2. /\ conn = "open" /\ conn' = "open"
      /\ UNCHANGED <<epoch, seq, chan, last, wm>>
  BY DEF PullBatch, ownerVars, backupVars, ghostVars
<1>3. /\ \A e \in b : e \in chan /\ Newer(e.pos, cursor)
      /\ \A e \in chan : Newer(e.pos, cursor) => e \in Unread(chan, cursor)
  BY DEF Unread
<1>4. cursor' \in Position /\ h \in Position
  BY <1>1, <1>3, PositionTypes, HeadTypes
<1>5. ~Newer(cursor, cursor')
  <2>1. CASE cursor' = cursor
    BY <2>1, PositionTypes, NewerOrder
  <2>2. CASE \E e \in b : cursor' = e.pos
    BY <1>3, <2>2, PositionTypes, NewerOrder
  <2> QED BY <1>1, <2>1, <2>2
<1>6. \A p \in Position : ~Newer(p, cursor) => ~Newer(p, cursor')
  BY <1>4, <1>5, PositionTypes, NewerOrder
<1>7. ~Newer(cursor', Top) /\ ~Newer(wm, cursor')
  <2>1. ~Newer(wm, cursor')
    BY <1>2, <1>6, PositionTypes DEF StreamInv
  <2>2. ~Newer(cursor', Top)
    BY <1>1, <1>2, <1>3, BelowTop DEF StreamInv
  <2> QED BY <2>1, <2>2
<1>8. ASSUME IsPartial(b) PROVE ~Newer(h, cursor')
  <2>1. b = Unread(chan, cursor)
    <3>1. Cardinality(b) # ChunkSize
      BY <1>8, ReplogAssumption DEF IsPartial
    <3> QED BY <1>1, <3>1 DEF IsBatch
  <2>2. CASE h = Origin
    BY <1>4, <2>2, NewerOrder
  <2>3. ASSUME NEW e \in chan, h = e.pos PROVE ~Newer(h, cursor')
    <3>1. CASE Newer(e.pos, cursor)
      BY <1>1, <1>3, <2>1, <2>3, <3>1
    <3>2. CASE ~Newer(e.pos, cursor)
      BY <1>6, <2>3, <3>2, PositionTypes
    <3> QED BY <3>1, <3>2
  <2> QED BY <1>1, <2>2, <2>3 DEF HeadCandidates
<1>9. \A p \in noops' : ~Newer(p, cursor')
  <2>1. \A p \in noops : ~Newer(p, cursor')
    BY <1>2, <1>6, PositionTypes DEF StreamInv
  <2> QED BY <1>1, <1>8, <2>1
<1>10. \A f \in pipe' : f \in pipe \/ \E e \in b : f = FrameOf(e, body[e.call])
  BY <1>1
<1>11. ASSUME NEW f \in pipe'
       PROVE  /\ ~Newer(f.pos, cursor') /\ Newer(f.pos, Origin)
              /\ ~Newer(f.pos, last[f.call].pos)
              /\ f.pos = last[f.call].pos => f.op = last[f.call].op
  <2>1. CASE f \in pipe
    BY <1>2, <1>6, <2>1, PositionTypes DEF StreamInv
  <2>2. ASSUME NEW e \in b, f = FrameOf(e, body[e.call])
        PROVE  /\ ~Newer(f.pos, cursor') /\ Newer(f.pos, Origin)
               /\ ~Newer(f.pos, last[f.call].pos)
               /\ f.pos = last[f.call].pos => f.op = last[f.call].op
    <3>1. f.pos = e.pos /\ f.op = e.op /\ f.call = e.call /\ e \in chan
      BY <1>3, <2>2 DEF FrameOf
    <3>2. ~Newer(f.pos, cursor') /\ Newer(f.pos, Origin)
      BY <1>1, <3>1, BelowTop
    <3>3. ~Newer(f.pos, last[f.call].pos)
      BY <3>1 DEF ChanInv
    <3>4. ASSUME f.pos = last[f.call].pos PROVE f.op = last[f.call].op
      <4>1. last[f.call].pos # Origin
        BY <3>2, <3>4, PositionTypes, NewerOrder
      <4>2. /\ EntryOf(last[e.call].op, e.call, last[e.call].pos) \in chan
            /\ EntryOf(last[e.call].op, e.call, last[e.call].pos).pos = e.pos
        BY <3>1, <3>4, <4>1, PositionTypes DEF ChanInv, EntryOf
      <4>3. EntryOf(last[e.call].op, e.call, last[e.call].pos) = e
        BY <3>1, <4>2 DEF ChanInv
      <4>4. e.op = last[e.call].op
        BY <4>3 DEF EntryOf
      <4> QED BY <3>1, <4>4
    <3> QED BY <3>2, <3>3, <3>4
  <2> QED BY <1>10, <2>1, <2>2
<1>12. ASSUME NEW f \in pipe', NEW g \in pipe', f.pos = g.pos PROVE f = g
  <2>1. \A k \in pipe : ~Newer(k.pos, cursor)
    BY <1>2 DEF StreamInv
  <2>2. \A e \in b : /\ FrameOf(e, body[e.call]).pos = e.pos
                     /\ Newer(e.pos, cursor) /\ e \in chan
    BY <1>3 DEF FrameOf
  <2>3. CASE f \in pipe /\ g \in pipe
    BY <1>2, <1>12, <2>3 DEF StreamInv
  <2>4. CASE f \notin pipe /\ g \notin pipe
    <3>1. PICK d \in b : f = FrameOf(d, body[d.call])
      BY <1>10, <2>4
    <3>2. PICK e \in b : g = FrameOf(e, body[e.call])
      BY <1>10, <2>4
    <3>3. d = e
      BY <1>12, <2>2, <3>1, <3>2 DEF ChanInv
    <3> QED BY <3>1, <3>2, <3>3
  <2>5. CASE f \in pipe /\ g \notin pipe
    BY <1>10, <1>12, <2>1, <2>2, <2>5
  <2>6. CASE f \notin pipe /\ g \in pipe
    BY <1>10, <1>12, <2>1, <2>2, <2>6
  <2> QED BY <2>3, <2>4, <2>5, <2>6
<1>13. ASSUME NEW e \in chan, Newer(e.pos, wm)
       PROVE  \/ Newer(e.pos, cursor')
              \/ \E f \in pipe' : f.op = e.op /\ f.call = e.call /\ f.pos = e.pos
  <2>1. CASE e \in b
    <3>1. /\ FrameOf(e, body[e.call]) \in pipe'
          /\ FrameOf(e, body[e.call]).op = e.op
          /\ FrameOf(e, body[e.call]).call = e.call
          /\ FrameOf(e, body[e.call]).pos = e.pos
      BY <1>1, <2>1 DEF FrameOf
    <3> QED BY <3>1
  <2>2. CASE e \notin b /\ Newer(e.pos, cursor)
    <3>1. \A x \in b : ~Newer(x.pos, e.pos)
      BY <1>1, <1>3, <2>2 DEF IsBatch
    <3>2. CASE cursor' = cursor
      BY <2>2, <3>2
    <3>3. ASSUME NEW x \in b, cursor' = x.pos PROVE Newer(e.pos, cursor')
      <4>1. x \in chan /\ x # e /\ ~Newer(x.pos, e.pos)
        BY <1>3, <2>2, <3>1
      <4>2. x.pos # e.pos
        BY <4>1 DEF ChanInv
      <4> QED BY <3>3, <4>1, <4>2, PositionTypes, NewerOrder
    <3> QED BY <1>1, <3>2, <3>3
  <2>3. CASE ~Newer(e.pos, cursor)
    <3>1. PICK f \in pipe : f.op = e.op /\ f.call = e.call /\ f.pos = e.pos
      BY <1>2, <1>13, <2>3 DEF StreamInv
    <3>2. f \in pipe'
      BY <1>1
    <3> QED BY <3>1, <3>2
  <2> QED BY <2>1, <2>2, <2>3
<1>14. Top' = Top /\ ~Newer(wm, Top)
  BY <1>2 DEF StreamInv, Top
<1> QED
  BY <1>2, <1>7, <1>9, <1>11, <1>12, <1>13, <1>14 DEF StreamInv

(* The frame that is received is the least position on the wire: whatever  *)
(* entry the watermark does not cover and the frame does not answer to is  *)
(* newer than the frame.                                                   *)
LEMMA UncoveredIsNewer ==
  ASSUME TypeOK, StreamInv, NEW f \in pipe, NextOnWire(f),
         NEW e \in chan, Newer(e.pos, wm), e.pos # f.pos
  PROVE  Newer(e.pos, f.pos)
<1>1. conn = "open" /\ ~Newer(f.pos, cursor)
  BY DEF NextOnWire, StreamInv
<1>2. CASE Newer(e.pos, cursor)
  BY <1>1, <1>2, PositionTypes, NewerOrder
<1>3. ASSUME NEW g \in pipe, g.pos = e.pos PROVE Newer(e.pos, f.pos)
  <2>1. ~Newer(f.pos, g.pos)
    BY DEF NextOnWire
  <2> QED BY <1>3, <2>1, PositionTypes, NewerOrder
<1> QED BY <1>1, <1>2, <1>3 DEF StreamInv

LEMMA StreamApplyFrame ==
  ASSUME TypeOK, ChanInv, StreamInv, NEW f \in pipe, ApplyFrame(f)
  PROVE  StreamInv'
<1>1. /\ conn = "open" /\ NextOnWire(f) /\ wm' = f.pos /\ pipe' = pipe \ {f}
      /\ UNCHANGED <<epoch, seq, chan, last, conn, cursor, noops>>
  BY DEF ApplyFrame, NextOnWire, Advance, ownerVars, serverVars
<1>2. ~Newer(f.pos, cursor) /\ ~Newer(cursor, Top) /\ Newer(f.pos, wm)
  BY <1>1 DEF StreamInv, ApplyFrame
<1>3. ~Newer(f.pos, Top)
  BY <1>2, PositionTypes, NewerOrder
<1>4. ASSUME NEW e \in chan, Newer(e.pos, f.pos)
      PROVE  \/ Newer(e.pos, cursor)
             \/ \E g \in pipe' : g.op = e.op /\ g.call = e.call /\ g.pos = e.pos
  <2>1. Newer(e.pos, wm) /\ e.pos # f.pos
    BY <1>2, <1>4, PositionTypes, NewerOrder
  <2>2. CASE Newer(e.pos, cursor)
    BY <2>2
  <2>3. ASSUME NEW g \in pipe, g.op = e.op, g.call = e.call, g.pos = e.pos
        PROVE  g \in pipe'
    BY <1>1, <2>1, <2>3
  <2> QED BY <1>1, <2>1, <2>2, <2>3 DEF StreamInv
<1> QED
  BY <1>1, <1>2, <1>3, <1>4 DEF StreamInv, Top

LEMMA StreamSkipFrame ==
  ASSUME TypeOK, StreamInv, NEW f \in pipe, SkipFrame(f)
  PROVE  StreamInv'
<1>1. /\ conn = "open" /\ pipe' = pipe \ {f} /\ ~Newer(f.pos, wm)
      /\ UNCHANGED <<epoch, seq, chan, last, conn, cursor, noops, wm>>
  BY DEF SkipFrame, NextOnWire, ownerVars, serverVars, backupVars, ghostVars
<1>2. ASSUME NEW e \in chan, Newer(e.pos, wm)
      PROVE  \/ Newer(e.pos, cursor)
             \/ \E g \in pipe' : g.op = e.op /\ g.call = e.call /\ g.pos = e.pos
  BY <1>1, <1>2 DEF StreamInv
<1> QED BY <1>1, <1>2 DEF StreamInv, Top

LEMMA StreamReceiveNoop ==
  ASSUME TypeOK, StreamInv, NEW p \in noops, ReceiveNoop(p)
  PROVE  StreamInv'
<1>1. /\ conn = "open" /\ noops' = noops \ {p}
      /\ wm' = IF Newer(p, wm) THEN p ELSE wm
      /\ UNCHANGED <<epoch, seq, chan, last, conn, cursor, pipe>>
  BY DEF ReceiveNoop, NoopIsNext, Advance, ownerVars, serverVars, ghostVars
<1>2. ~Newer(p, cursor) /\ ~Newer(cursor, Top) /\ p \in Position
  BY <1>1, PositionTypes DEF StreamInv
<1>3. ~Newer(p, Top)
  BY <1>2, PositionTypes, NewerOrder
<1>4. wm' \in Position /\ ~Newer(wm', Top) /\ ~Newer(wm', cursor)
  BY <1>1, <1>2, <1>3, PositionTypes DEF StreamInv
<1>5. \A e \in chan : Newer(e.pos, wm') => Newer(e.pos, wm)
  BY <1>1, <1>2, PositionTypes, NewerOrder
<1> QED BY <1>1, <1>4, <1>5 DEF StreamInv, Top

LEMMA StreamBackupRestart ==
  ASSUME TypeOK, ChanInv, NEW keep \in BOOLEAN, NEW seeded \in BOOLEAN,
         BackupRestart(keep, seeded)
  PROVE  StreamInv'
<1>1. /\ conn' # "open" /\ pipe' = {} /\ noops' = {}
      /\ UNCHANGED <<epoch, seq>>
      /\ wm' = Origin \/ \E e \in chan : wm' = e.pos
  BY DEF BackupRestart, HeadCandidates, ownerVars
<1>2. ~Newer(wm', Top)
  BY <1>1, BelowTop, PositionTypes, NewerOrder
<1> QED BY <1>1, <1>2 DEF StreamInv, Top

LEMMA StreamNext ==
  ASSUME TypeOK, TypeOK', ChanInv, StreamInv, [Next]_vars
  PROVE  StreamInv'
<1>1. ASSUME NEW c \in Call, OwnerStep(c) PROVE StreamInv'
  <2>1. CASE Flush(c) \/ FlushDedup(c) \/ Remove(c)
    <3>1. \E op \in {"U", "D"} : \E copy :
            /\ Announce(op, c, copy)
            /\ UNCHANGED <<epoch, conn, cursor, pipe, noops, wm>>
      BY <2>1 DEF Flush, FlushDedup, Remove, serverVars, wireVars, backupVars
    <3> QED BY <3>1, StreamAnnounce
  <2>2. CASE Create(c) \/ Touch(c) \/ LoadCall(c) \/ DropTerminating(c) \/ Expire(c)
    BY <2>2, StreamQuiet
       DEF Create, Touch, LoadCall, DropTerminating, Expire, serverVars,
           wireVars, backupVars, ghostVars
  <2> QED BY <1>1, <2>1, <2>2 DEF OwnerStep
<1>2. CASE PullBatch
  BY <1>2, StreamPullBatch
<1>3. CASE IdleTick
  BY <1>3, StreamQuiet DEF IdleTick, ownerVars, wireVars, backupVars, ghostVars
<1>4. CASE Connect
  BY <1>4, StreamConnect
<1>5. CASE \E f \in pipe : ApplyFrame(f) \/ SkipFrame(f)
  BY <1>5, StreamApplyFrame, StreamSkipFrame
<1>6. CASE \E p \in noops : ReceiveNoop(p)
  BY <1>6, StreamReceiveNoop
<1>7. CASE \E keep \in BOOLEAN, imported \in SUBSET Call :
             OwnerRestart(keep, imported)
  BY <1>7, StreamOwnerRestart
<1>8. CASE \E keep, seeded \in BOOLEAN : BackupRestart(keep, seeded)
  BY <1>8, StreamBackupRestart
<1>9. CASE Disconnect \/ \E f \in pipe : InterruptedApply(f) \/ ApplyFails(f)
  BY <1>9, StreamClosed
     DEF Disconnect, InterruptedApply, ApplyFails, ownerVars, backupVars
<1>10. CASE Refork
  <2>1. pipe = {} /\ noops = {}
    BY <1>10 DEF Refork, StreamInv
  <2> QED
    BY <1>10, <2>1, StreamClosed DEF Refork, ownerVars, wireVars, backupVars
<1>11. CASE \E c \in Call : ReplicaExpire(c) \/ IndexExpire(c)
  BY <1>11, StreamQuiet
     DEF ReplicaExpire, IndexExpire, ownerVars, serverVars, wireVars, ghostVars
<1>12. CASE UNCHANGED vars
  BY <1>12, StreamQuiet
     DEF vars, ownerVars, serverVars, wireVars, backupVars, ghostVars
<1> QED
  BY <1>1, <1>2, <1>3, <1>4, <1>5, <1>6, <1>7, <1>8, <1>9, <1>10, <1>11, <1>12
     DEF Next, ServerStep, PullerStep, FaultStep

LEMMA NothingPassedOverHolds ==
  ASSUME TypeOK, ChanInv, StreamInv PROVE NothingPassedOver
<1> SUFFICES ASSUME NEW c \in Call, Newer(last[c].pos, wm)
             PROVE  /\ EntryOf(last[c].op, c, last[c].pos) \in chan
                    /\ conn = "open" =>
                         \/ Newer(last[c].pos, cursor)
                         \/ \E f \in pipe : /\ f.call = c /\ f.op = last[c].op
                                            /\ f.pos = last[c].pos
  BY DEF NothingPassedOver
<1>1. last[c].pos # Origin
  BY PositionTypes, NewerOrder
<1>2. EntryOf(last[c].op, c, last[c].pos) \in chan
  BY <1>1 DEF ChanInv
<1>3. /\ EntryOf(last[c].op, c, last[c].pos).op = last[c].op
      /\ EntryOf(last[c].op, c, last[c].pos).call = c
      /\ EntryOf(last[c].op, c, last[c].pos).pos = last[c].pos
  BY DEF EntryOf
<1> QED BY <1>2, <1>3 DEF StreamInv

(* No announcement is passed over: what the watermark does not cover is in *)
(* the channel, and on an open stream still to be read or on the wire      *)
(* (buildPullStream and applyOne).                                         *)
THEOREM NoAnnouncementPassedOver == Spec => []NothingPassedOver
<1>1. Init => TypeOK /\ ChanInv /\ StreamInv
  BY TypeInit, ChanInit, StreamInit
<1>2. TypeOK /\ ChanInv /\ StreamInv /\ [Next]_vars
        => (TypeOK /\ ChanInv /\ StreamInv)'
  BY TypeNext, ChanNext, StreamNext
<1>3. TypeOK /\ ChanInv /\ StreamInv => NothingPassedOver
  BY NothingPassedOverHolds
<1> QED BY <1>1, <1>2, <1>3, PTL DEF Spec

=============================================================================
