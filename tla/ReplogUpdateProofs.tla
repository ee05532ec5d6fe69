------------------------- MODULE ReplogUpdateProofs -------------------------
(***************************************************************************)
(* Proofs about Replog: the copies on the wire and on the backup against   *)
(* the owner's, copies of an earlier life of a callRef, which a delete that *)
(* is still to come removes, and with them that what the watermark covers  *)
(* is what the backup holds.                                               *)
(***************************************************************************)
EXTENDS ReplogProofs

(* The types of the copies.                                                *)
LEMMA CopyTypes ==
  ASSUME TypeOK
  PROVE  /\ \A c \in Call : /\ mem[c] \in LiveCopy /\ body[c] \in LiveCopy
                            /\ body[c] \in StoredCopy
                            /\ replica[c] \in LiveCopy /\ replica[c] \in StoredCopy
                            /\ lives[c] \in Nat
         /\ \A f \in pipe : /\ f.call \in Call /\ f.op \in {"U", "D"}
                            /\ f.copy \in LiveCopy /\ f.copy \in StoredCopy
  BY CopyFacts DEF TypeOK

LEMMA CopyFields ==
  /\ NoCopy.life = 0 /\ NoCopy.callGen = 0
  /\ \A r \in LiveCopy : /\ r.life \in Nat /\ r.callGen \in Nat
                         /\ r # NoCopy => r.life > 0
  /\ \A r, s \in LiveCopy : r.life = s.life /\ r.callGen = s.callGen => r = s
  /\ \A r \in LiveCopy : /\ Bumped(r).life = r.life
                         /\ Bumped(r).callGen = r.callGen + 1
                         /\ Bumped(r) # NoCopy
<1>1. NoCopy.life = 0 /\ NoCopy.callGen = 0
  BY DEF NoCopy, CopyOf
<1>2. \A r \in LiveCopy : /\ r \in [life : Nat, callGen : Nat, enc : Nat]
                         /\ r.enc = r.callGen
  BY DEF LiveCopy, NoCopy, CopyOf
<1>3. \A r \in LiveCopy : r # NoCopy => r.life > 0
  BY DEF LiveCopy
<1>4. \A r \in LiveCopy : Bumped(r).life = r.life /\ Bumped(r).callGen = r.callGen + 1
  BY <1>2 DEF Bumped, CopyOf
<1>5. \A r \in LiveCopy : Bumped(r) # NoCopy
  BY <1>1, <1>2, <1>4
<1> QED BY <1>1, <1>2, <1>3, <1>4, <1>5

-----------------------------------------------------------------------------
(* The copies                                                              *)

(* What CopyInv says of one call and of one frame. *)
CallCopies(c) ==
  /\ mem[c] # NoCopy => mem[c].life \in 1..lives[c]
  /\ body[c] # NoCopy => body[c].life \in 1..lives[c]
  /\ mem[c] # NoCopy /\ body[c] # NoCopy => mem[c].life = body[c].life
  /\ body[c].callGen =< mem[c].callGen \/ mem[c] = NoCopy
  /\ c \in flushCache => mem[c] # NoCopy /\ mem[c].callGen > 0
  /\ NotAhead(c, replica[c])

FrameCopies(f) ==
  /\ NotAhead(f.call, f.copy)
  /\ f.op = "U" /\ f.pos = last[f.call].pos => body[f.call] \in {NoCopy, f.copy}

LEMMA CopyInvParts ==
  CopyInv <=> (\A c \in Call : CallCopies(c)) /\ (\A f \in pipe : FrameCopies(f))
  BY DEF CopyInv, CallCopies, FrameCopies

LEMMA CopyInit == Init => CopyInv
<1> SUFFICES ASSUME Init PROVE CopyInv
  OBVIOUS
<1>1. \A c \in Call : /\ mem[c] = NoCopy /\ body[c] = NoCopy
                      /\ replica[c] = NoCopy /\ c \notin flushCache
  BY DEF Init
<1>2. pipe = {}
  BY DEF Init
<1> QED BY <1>1, <1>2, CopyFields DEF CopyInv, NotAhead

(* What the owner's own copies must keep for every copy of a call to stay  *)
(* behind them.                                                            *)
OwnerKeeps(c) ==
  /\ lives'[c] >= lives[c]
  /\ \A r \in LiveCopy : NotAhead(c, r) => NotAhead(c, r)'

LEMMA CopyOwnerStep ==
  ASSUME TypeOK, ChanInv, StreamInv, CopyInv, NEW c \in Call, OwnerStep(c)
  PROVE  CopyInv'
<1>1. /\ UNCHANGED <<pipe, replica, conn>>
      /\ \A d \in Call \ {c} :
           /\ mem'[d] = mem[d] /\ body'[d] = body[d] /\ lives'[d] = lives[d]
           /\ last'[d] = last[d]
           /\ d \in flushCache' => d \in flushCache
  BY DEF OwnerStep, Create, Touch, Flush, FlushDedup, Remove, LoadCall,
         DropTerminating, Expire, Announce, TypeOK, wireVars, backupVars,
         ghostVars
<1>2. ASSUME NEW d \in Call \ {c}, CallCopies(d) PROVE CallCopies(d)'
  <2>1. /\ mem'[d] = mem[d] /\ body'[d] = body[d] /\ lives'[d] = lives[d]
        /\ replica'[d] = replica[d]
        /\ d \in flushCache' => d \in flushCache
    BY <1>1
  <2> QED BY <1>2, <2>1 DEF CallCopies, NotAhead
<1>3. ASSUME NEW f \in pipe, f.call # c, FrameCopies(f) PROVE FrameCopies(f)'
  <2>1. /\ mem'[f.call] = mem[f.call] /\ body'[f.call] = body[f.call]
        /\ lives'[f.call] = lives[f.call] /\ last'[f.call] = last[f.call]
    BY <1>1, <1>3, CopyTypes
  <2> QED BY <1>3, <2>1 DEF FrameCopies, NotAhead
<1>4. CallCopies(c) /\ \A f \in pipe : FrameCopies(f)
  BY CopyInvParts
<1>5. SUFFICES /\ CallCopies(c)'
               /\ \A f \in pipe : f.call = c => FrameCopies(f)'
  <2>1. (\A d \in Call : CallCopies(d)) /\ (\A f \in pipe : FrameCopies(f))
    BY CopyInvParts
  <2>2. \A d \in Call : CallCopies(d)'
    BY <1>2, <1>5, <2>1
  <2>3. \A f \in pipe' : FrameCopies(f)'
    BY <1>1, <1>3, <1>5, <2>1
  <2> QED BY <2>2, <2>3 DEF CopyInv, CallCopies, FrameCopies
<1>6. /\ mem[c] \in LiveCopy /\ body[c] \in StoredCopy /\ body[c] \in LiveCopy
      /\ replica[c] \in LiveCopy /\ lives[c] \in Nat
      /\ \A f \in pipe : f.copy \in LiveCopy
  BY CopyTypes
<1>7. SUFFICES /\ \A r \in LiveCopy : NotAhead(c, r) => NotAhead(c, r)'
               /\ CallCopies(c)'
               /\ \A f \in pipe : f.call = c /\ f.op = "U" /\ f.pos = last'[c].pos
                    => body'[c] \in {NoCopy, f.copy}
  BY <1>1, <1>4, <1>6, <1>7 DEF FrameCopies
<1>8. CASE Create(c)
  <2>1. /\ mem[c] = NoCopy /\ body[c] = NoCopy /\ body' = body
        /\ mem'[c] = CopyOf(lives[c] + 1, 0, 0) /\ lives'[c] = lives[c] + 1
        /\ c \notin flushCache'
    BY <1>8 DEF Create, TypeOK
  <2>2. mem'[c].life = lives[c] + 1 /\ mem'[c].callGen = 0
    BY <2>1 DEF CopyOf
  <2>3. \A r \in LiveCopy : NotAhead(c, r) => NotAhead(c, r)'
    BY <1>6, <2>1, <2>2, CopyFields DEF NotAhead
  <2>4. CallCopies(c)'
    BY <1>1, <1>4, <1>6, <2>1, <2>2, <2>3, CopyFields DEF CallCopies
  <2> QED BY <2>1, <2>3, <2>4
<1>9. CASE Touch(c) \/ LoadCall(c)
  <2>1. /\ body'[c] = body[c] /\ lives'[c] = lives[c] /\ last' = last
        /\ mem'[c] \in {mem[c], body[c]}
        /\ c \in flushCache' => c \in flushCache /\ mem'[c] = mem[c]
        /\ mem'[c] # NoCopy
        /\ mem'[c] = mem[c] \/ mem[c] = NoCopy
    BY <1>4, <1>9 DEF Touch, LoadCall, TypeOK, ghostVars, CallCopies
  <2>2. \A r \in LiveCopy : NotAhead(c, r) => NotAhead(c, r)'
    BY <2>1 DEF NotAhead
  <2>3. CallCopies(c)'
    BY <1>1, <1>4, <1>6, <2>1, <2>2, CopyFields DEF CallCopies
  <2> QED BY <1>4, <2>1, <2>2, <2>3 DEF FrameCopies
<1>10. CASE DropTerminating(c) \/ Expire(c)
  <2>1. /\ body'[c] = NoCopy /\ lives'[c] = lives[c] /\ mem'[c] = mem[c]
        /\ flushCache' = flushCache
    BY <1>10 DEF DropTerminating, Expire, TypeOK, ghostVars
  <2>2. \A r \in LiveCopy : NotAhead(c, r) => NotAhead(c, r)'
    BY <2>1 DEF NotAhead
  <2>3. CallCopies(c)'
    BY <1>1, <1>4, <1>6, <2>1, <2>2, CopyFields DEF CallCopies
  <2> QED BY <2>1, <2>2, <2>3
<1>11. CASE Flush(c) \/ FlushDedup(c) \/ Remove(c)
  <2>1. PICK op \in {"U", "D"}, copy \in LiveCopy :
          /\ Announce(op, c, copy) /\ epoch' = epoch
          /\ lives'[c] = lives[c]
          /\ mem'[c] = copy
          /\ copy # NoCopy =>
               /\ mem[c] # NoCopy /\ copy.life = mem[c].life
               /\ copy.callGen >= mem[c].callGen /\ copy.callGen > 0
          /\ copy = NoCopy => c \notin flushCache'
    <3>1. CASE Flush(c)
      <4>1. Bumped(mem[c]) \in LiveCopy
        BY <1>6, <3>1, CopyFacts DEF Flush
      <4> QED BY <1>6, <3>1, <4>1, CopyFields DEF Flush, TypeOK
    <3>2. CASE FlushDedup(c)
      BY <1>4, <1>6, <3>2, CopyFields DEF FlushDedup, CallCopies
    <3>3. CASE Remove(c)
      BY <3>3, NoCopyTypes DEF Remove, TypeOK
    <3> QED BY <1>11, <3>1, <3>2, <3>3
  <2>2. body'[c] = copy
    BY <2>1 DEF Announce, TypeOK
  <2>3. \A r \in LiveCopy : NotAhead(c, r) => NotAhead(c, r)'
    <3> SUFFICES ASSUME NEW r \in LiveCopy, NotAhead(c, r), r # NoCopy
                 PROVE  /\ r.life =< lives[c]
                        /\ copy # NoCopy /\ copy.life = r.life
                             => r.callGen =< copy.callGen
      BY <2>1, <2>2 DEF NotAhead
    <3>1. r.callGen \in Nat /\ copy.callGen \in Nat /\ mem[c].callGen \in Nat
      BY <1>6, <2>1, CopyFields
    <3> QED BY <2>1, <3>1 DEF NotAhead
  <2>4. CallCopies(c)'
    <3>1. copy # NoCopy => copy.life \in 1..lives[c]
      BY <1>4, <2>1 DEF CallCopies
    <3>2. NotAhead(c, replica[c])'
      BY <1>1, <1>4, <1>6, <2>3 DEF CallCopies
    <3>3. copy.callGen \in Nat
      BY <2>1, CopyFields
    <3> QED BY <2>1, <2>2, <3>1, <3>2, <3>3 DEF CallCopies
  <2>5. \A f \in pipe : f.call = c => f.pos # last'[c].pos
    <3> SUFFICES ASSUME NEW f \in pipe, f.call = c PROVE f.pos # last'[c].pos
      OBVIOUS
    <3>1. Newer(Top', Top) /\ last'[c].pos = Top' /\ Top' \in Position
      <4>1. Newer(Top', Top) /\ last' = [last EXCEPT ![c] = [op |-> op, pos |-> Top']]
            /\ Top' \in Position
        BY <2>1, AnnounceTop
      <4> QED BY <4>1 DEF TypeOK
    <3>2. ~Newer(f.pos, cursor) /\ ~Newer(cursor, Top)
      BY DEF StreamInv
    <3> QED BY <3>1, <3>2, PositionTypes, NewerOrder
  <2> QED BY <2>3, <2>4, <2>5
<1> QED BY <1>8, <1>9, <1>10, <1>11 DEF OwnerStep

LEMMA CopyOwnerRestart ==
  ASSUME TypeOK, CopyInv, NEW keep \in BOOLEAN, NEW imported \in SUBSET Call,
         OwnerRestart(keep, imported)
  PROVE  CopyInv'
<1>1. pipe' = {} /\ flushCache' = {} /\ lives' = lives /\ replica' = replica
  BY DEF OwnerRestart
<1>2. \A c \in Call : mem'[c] = NoCopy /\ body'[c] \in {NoCopy, body[c], replica[c]}
  BY DEF OwnerRestart
<1>3. ASSUME NEW c \in Call PROVE CallCopies(c)'
  <2>1. CallCopies(c)
    BY CopyInvParts
  <2>2. body'[c] # NoCopy => body'[c].life \in 1..lives[c]
    BY <1>2, <2>1, CopyTypes, CopyFields DEF CallCopies, NotAhead
  <2>3. NotAhead(c, replica[c])'
    BY <1>1, <1>2, <2>1, CopyTypes, CopyFields DEF CallCopies, NotAhead
  <2> QED BY <1>1, <1>2, <2>2, <2>3 DEF CallCopies
<1> QED BY <1>1, <1>3 DEF CopyInv, CallCopies

LEMMA CopyPullBatch ==
  ASSUME TypeOK, CopyInv, PullBatch
  PROVE  CopyInv'
<1>1. PICK b \in SUBSET Unread(chan, cursor) :
        pipe' = pipe \cup {FrameOf(e, body[e.call]) : e \in b}
  BY DEF PullBatch
<1>2. UNCHANGED <<mem, body, lives, flushCache, replica, last>>
  BY DEF PullBatch, ownerVars, backupVars, ghostVars
<1>3. \A c \in Call : CallCopies(c)'
  BY <1>2, CopyInvParts DEF CallCopies, NotAhead
<1>4. ASSUME NEW e \in b PROVE FrameCopies(FrameOf(e, body[e.call]))'
  <2>1. e.call \in Call
    BY DEF TypeOK, Unread
  <2>2. CallCopies(e.call)
    BY <2>1, CopyInvParts
  <2>3. NotAhead(e.call, body[e.call])
    BY <2>1, <2>2, CopyTypes, CopyFields DEF CallCopies, NotAhead
  <2> QED BY <1>2, <2>3 DEF FrameCopies, FrameOf, NotAhead
<1>5. \A f \in pipe : FrameCopies(f)'
  BY <1>2, CopyInvParts DEF FrameCopies, NotAhead
<1>6. \A f \in pipe' : FrameCopies(f)'
  BY <1>1, <1>2, <1>4, <1>5 DEF FrameCopies, NotAhead
<1> QED BY <1>3, <1>6 DEF CopyInv, CallCopies, FrameCopies

(* A step that leaves the owner alone, takes frames off the wire and       *)
(* leaves on the backup what was there, what a frame carried, or nothing.  *)
LEMMA CopyBackupStep ==
  ASSUME TypeOK, CopyInv, pipe' \subseteq pipe,
         UNCHANGED <<mem, body, lives, flushCache, last>>,
         \A c \in Call : \/ replica'[c] \in {NoCopy, replica[c]}
                         \/ \E f \in pipe : f.call = c /\ replica'[c] = f.copy
  PROVE  CopyInv'
<1>1. \A f \in pipe' : FrameCopies(f)'
  BY CopyInvParts DEF FrameCopies, NotAhead
<1>2. ASSUME NEW c \in Call PROVE CallCopies(c)'
  <2>1. NotAhead(c, replica'[c])
    BY CopyInvParts DEF CallCopies, FrameCopies, NotAhead
  <2> QED BY <2>1, CopyInvParts DEF CallCopies, NotAhead
<1> QED BY <1>1, <1>2 DEF CopyInv, CallCopies, FrameCopies

LEMMA AppliedCopies ==
  ASSUME TypeOK, NEW f \in pipe, Apply(f), NEW c \in Call
  PROVE  /\ c # f.call => replica'[c] = replica[c]
         /\ \/ replica'[c] \in {NoCopy, replica[c]}
            \/ f.call = c /\ replica'[c] = f.copy
  BY CopyTypes DEF TypeOK, Apply

LEMMA CopyNext ==
  ASSUME TypeOK, ChanInv, StreamInv, CopyInv, [Next]_vars
  PROVE  CopyInv'
<1>1. CASE \E c \in Call : OwnerStep(c)
  BY <1>1, CopyOwnerStep
<1>2. CASE \E keep \in BOOLEAN, imported \in SUBSET Call :
             OwnerRestart(keep, imported)
  BY <1>2, CopyOwnerRestart
<1>3. CASE PullBatch
  BY <1>3, CopyPullBatch
<1>4. CASE IdleTick \/ Connect \/ Refork \/ UNCHANGED vars
  BY <1>4, CopyBackupStep
     DEF IdleTick, Connect, Refork, vars, ownerVars, serverVars, wireVars,
         backupVars, ghostVars
<1>5. CASE \E f \in pipe : SkipFrame(f) \/ ApplyFails(f)
  BY <1>5, CopyBackupStep
     DEF SkipFrame, ApplyFails, ownerVars, backupVars, ghostVars
<1>6. CASE Disconnect \/ \E p \in noops : ReceiveNoop(p)
  BY <1>6, CopyBackupStep
     DEF Disconnect, ReceiveNoop, ownerVars, backupVars, ghostVars
<1>7. ASSUME NEW f \in pipe, ApplyFrame(f) \/ InterruptedApply(f) PROVE CopyInv'
  <2>1. /\ Apply(f) /\ pipe' \subseteq pipe
        /\ UNCHANGED <<mem, body, lives, flushCache, last>>
    BY <1>7 DEF ApplyFrame, InterruptedApply, ownerVars
  <2> QED BY <2>1, AppliedCopies, CopyBackupStep
<1>8. CASE \E keep, seeded \in BOOLEAN : BackupRestart(keep, seeded)
  <2>1. /\ pipe' \subseteq pipe
        /\ UNCHANGED <<mem, body, lives, flushCache, last>>
        /\ \A c \in Call : replica'[c] \in {NoCopy, replica[c]}
    BY <1>8 DEF BackupRestart, ownerVars
  <2> QED BY <2>1, CopyBackupStep
<1>9. CASE \E c \in Call : ReplicaExpire(c) \/ IndexExpire(c)
  <2>1. /\ pipe' \subseteq pipe
        /\ UNCHANGED <<mem, body, lives, flushCache, last>>
        /\ \A c \in Call : replica'[c] \in {NoCopy, replica[c]}
    BY <1>9 DEF ReplicaExpire, IndexExpire, TypeOK, ownerVars, wireVars, ghostVars
  <2> QED BY <2>1, CopyBackupStep
<1> QED
  BY <1>1, <1>2, <1>3, <1>4, <1>5, <1>6, <1>7, <1>8, <1>9
     DEF Next, ServerStep, PullerStep, FaultStep

-----------------------------------------------------------------------------
(* Deletes still to come                                                   *)

(* A channel write leaves every delete that was to come to come. *)
LEMMA AnnounceKeepsDeletes ==
  ASSUME TypeOK, ChanInv, NEW c \in Call, NEW op \in {"U", "D"}, NEW copy,
         Announce(op, c, copy), epoch' = epoch,
         NEW d \in Call, NEW p \in Position, DeleteAfter(d, p)
  PROVE  DeleteAfter(d, p)'
<1>1. /\ Top \in Position /\ Top' \in Position /\ Newer(Top', Top)
      /\ chan' = ZAdd(chan, op, c, Top')
  BY AnnounceTop
<1>2. PICK e \in chan : e.op = "D" /\ e.call = d /\ Newer(e.pos, p)
  BY DEF DeleteAfter
<1>3. CASE e \in chan'
  BY <1>2, <1>3 DEF DeleteAfter
<1>4. CASE e \notin chan'
  <2>1. op = "D" /\ c = d /\ EntryOf("D", d, Top') \in chan'
    BY <1>1, <1>2, <1>4 DEF ZAdd
  <2>2. ~Newer(e.pos, Top) /\ e.pos \in Position
    BY BelowTop, PositionTypes
  <2>3. Newer(Top', p)
    BY <1>1, <1>2, <2>2, NewerOrder
  <2> QED BY <2>1, <2>3 DEF DeleteAfter, EntryOf
<1> QED BY <1>3, <1>4

(* An announced delete is newer than whatever is on the wire or covered. *)
LEMMA AnnounceDelete ==
  ASSUME TypeOK, ChanInv, NEW c \in Call, NEW copy,
         Announce("D", c, copy), epoch' = epoch,
         NEW p \in Position, ~Newer(p, Top)
  PROVE  DeleteAfter(c, p)'
<1>1. /\ Top \in Position /\ Top' \in Position /\ Newer(Top', Top)
      /\ chan' = ZAdd(chan, "D", c, Top')
  BY AnnounceTop
<1>2. Newer(Top', p)
  BY <1>1, NewerOrder
<1>3. EntryOf("D", c, Top') \in chan'
  BY <1>1 DEF ZAdd
<1> QED BY <1>2, <1>3 DEF DeleteAfter, EntryOf

(* An entry the watermark does not cover is newer than the frame received, *)
(* unless it is the one the frame was made from.                           *)
LEMMA OthersRemain ==
  ASSUME TypeOK, StreamInv, NEW f \in pipe, NextOnWire(f),
         NEW e \in chan, Newer(e.pos, wm),
         e.call # f.call \/ e.op # f.op
  PROVE  Newer(e.pos, f.pos)
<1>1. CASE e.pos # f.pos
  BY <1>1, UncoveredIsNewer
<1>2. CASE e.pos = f.pos
  <2>1. conn = "open" /\ ~Newer(e.pos, cursor)
    BY <1>2 DEF NextOnWire, StreamInv
  <2>2. PICK g \in pipe : g.op = e.op /\ g.call = e.call /\ g.pos = e.pos
    BY <2>1 DEF StreamInv
  <2>3. g = f
    BY <1>2, <2>1, <2>2 DEF StreamInv
  <2> QED BY <2>2, <2>3
<1> QED BY <1>1, <1>2

(* Before a noop is received every entry it covers was covered already. *)
LEMMA NoopCoversNothing ==
  ASSUME TypeOK, StreamInv, NEW p \in noops, NoopIsNext(p),
         NEW e \in chan, Newer(e.pos, wm)
  PROVE  Newer(e.pos, p)
<1>1. conn = "open" /\ ~Newer(p, cursor) /\ p \in Position
  BY PositionTypes DEF NoopIsNext, StreamInv
<1>2. CASE Newer(e.pos, cursor)
  BY <1>1, <1>2, PositionTypes, NewerOrder
<1>3. CASE \E g \in pipe : g.pos = e.pos
  BY <1>3 DEF NoopIsNext
<1> QED BY <1>1, <1>2, <1>3 DEF StreamInv

(* An announcement newer than some position is in the channel. *)
LEMMA LastIsEntry ==
  ASSUME TypeOK, ChanInv, NEW c \in Call, NEW p \in Position,
         Newer(last[c].pos, p)
  PROVE  \E e \in chan : /\ e.op = last[c].op /\ e.call = c
                         /\ e.pos = last[c].pos
<1>1. last[c].pos # Origin
  BY PositionTypes, NewerOrder
<1>2. EntryOf(last[c].op, c, last[c].pos) \in chan
  BY <1>1 DEF ChanInv
<1> QED BY <1>2 DEF EntryOf

-----------------------------------------------------------------------------
(* Lives                                                                   *)

LEMMA LifeInit == Init => LifeInv
  BY DEF Init, LifeInv, SameLife

LEMMA LifeOwnerStep ==
  ASSUME TypeOK, ChanInv, StreamInv, CopyInv, LifeInv,
         NEW c \in Call, OwnerStep(c)
  PROVE  LifeInv'
<1>1. /\ UNCHANGED <<pipe, replica, wm, conn>> /\ skipped \subseteq skipped'
      /\ \A d \in Call \ {c} :
           /\ mem'[d] = mem[d] /\ body'[d] = body[d] /\ last'[d] = last[d]
  BY DEF OwnerStep, Create, Touch, Flush, FlushDedup, Remove, LoadCall,
         DropTerminating, Expire, Announce, TypeOK, wireVars, backupVars,
         ghostVars
<1>2. \/ chan' = chan
      \/ epoch' = epoch /\ \E op \in {"U", "D"} : \E copy : Announce(op, c, copy)
  BY DEF OwnerStep, Create, Touch, Flush, FlushDedup, Remove, LoadCall,
         DropTerminating, Expire
<1>3. ASSUME NEW d \in Call, NEW p \in Position, DeleteAfter(d, p)
      PROVE  DeleteAfter(d, p)'
  <2>1. CASE chan' = chan
    BY <1>3, <2>1 DEF DeleteAfter
  <2>2. CASE epoch' = epoch /\ \E op \in {"U", "D"} : \E copy : Announce(op, c, copy)
    BY <1>3, <2>2, AnnounceKeepsDeletes
  <2> QED BY <1>2, <2>1, <2>2
<1>4. ASSUME NEW r \in LiveCopy, NEW p \in Position, ~Newer(p, Top),
             c \notin skipped', SameLife(c, r, p), r # NoCopy,
             ~DeleteAfter(c, p)'
      PROVE  /\ last'[c].op = "U"
             /\ \A own \in {mem'[c], body'[c]} : own = NoCopy \/ own.life = r.life
  <2>1. /\ last[c].op = "U"
        /\ mem[c] = NoCopy \/ mem[c].life = r.life
        /\ body[c] = NoCopy \/ body[c].life = r.life
    BY <1>3, <1>4 DEF SameLife
  <2>2. CASE Create(c)
    BY <1>4, <2>1, <2>2 DEF Create
  <2>3. CASE Touch(c) \/ LoadCall(c)
    BY <2>1, <2>3 DEF Touch, LoadCall, TypeOK, ghostVars
  <2>4. CASE DropTerminating(c) \/ Expire(c)
    BY <2>1, <2>4 DEF DropTerminating, Expire, TypeOK, ghostVars
  <2>5. CASE Flush(c) \/ FlushDedup(c)
    <3>1. mem[c] \in LiveCopy /\ mem[c] # NoCopy
      BY <2>5, CopyTypes DEF Flush, FlushDedup
    <3>2. PICK copy : /\ Announce("U", c, copy) /\ mem'[c] = copy
                      /\ copy.life = mem[c].life
      BY <2>5, <3>1, CopyFields DEF Flush, FlushDedup, TypeOK
    <3>3. body'[c] = copy /\ last'[c].op = "U"
      BY <3>2 DEF Announce, TypeOK
    <3> QED BY <2>1, <3>1, <3>2, <3>3
  <2>6. CASE Remove(c)
    <3>1. Announce("D", c, NoCopy) /\ epoch' = epoch
      BY <2>6 DEF Remove
    <3> QED BY <1>4, <3>1, AnnounceDelete
  <2> QED BY <2>2, <2>3, <2>4, <2>5, <2>6 DEF OwnerStep
<1>5. ASSUME NEW d \in Call, NEW r \in LiveCopy, NEW p \in Position,
             ~Newer(p, Top), d \notin skipped', SameLife(d, r, p), r # NoCopy,
             ~DeleteAfter(d, p)'
      PROVE  /\ last'[d].op = "U"
             /\ \A own \in {mem'[d], body'[d]} : own = NoCopy \/ own.life = r.life
  <2>1. CASE d = c
    BY <1>4, <1>5, <2>1
  <2>2. CASE d # c
    <3>1. mem'[d] = mem[d] /\ body'[d] = body[d] /\ last'[d] = last[d]
      BY <1>1, <2>2
    <3> QED BY <1>3, <1>5, <3>1 DEF SameLife
  <2> QED BY <2>1, <2>2
<1>6. ASSUME NEW d \in Call \ skipped' PROVE SameLife(d, replica[d], wm)'
  <2>1. SameLife(d, replica[d], wm) /\ ~Newer(wm, Top) /\ wm \in Position
    BY <1>1, PositionTypes DEF LifeInv, StreamInv
  <2> QED BY <1>1, <1>5, <2>1, CopyTypes DEF SameLife, DeleteAfter
<1>7. ASSUME NEW f \in pipe, f.op = "U", f.call \notin skipped'
      PROVE  SameLife(f.call, f.copy, f.pos)'
  <2>1. SameLife(f.call, f.copy, f.pos)
    BY <1>1, <1>7 DEF LifeInv
  <2>2. ~Newer(f.pos, cursor) /\ ~Newer(cursor, Top)
    BY DEF StreamInv
  <2>3. f.pos \in Position /\ ~Newer(f.pos, Top)
    BY <2>2, PositionTypes, NewerOrder
  <2> QED BY <1>5, <1>7, <2>1, <2>3, CopyTypes DEF SameLife, DeleteAfter
<1> QED BY <1>1, <1>6, <1>7 DEF LifeInv

LEMMA LifeOwnerRestart ==
  ASSUME TypeOK, LifeInv, NEW keep \in BOOLEAN, NEW imported \in SUBSET Call,
         OwnerRestart(keep, imported)
  PROVE  LifeInv'
<1>1. pipe' = {} /\ replica' = replica /\ wm' = wm
  BY DEF OwnerRestart
<1>2. ASSUME NEW c \in Call \ skipped', replica[c] # NoCopy
      PROVE  SameLife(c, replica[c], wm)'
  <2>1. mem'[c] = NoCopy
    BY DEF OwnerRestart
  <2>2. CASE keep
    <3>1. /\ chan' = chan /\ last' = last /\ c \notin skipped
          /\ body'[c] \in {body[c], replica[c]}
      BY <2>2 DEF OwnerRestart
    <3>2. SameLife(c, replica[c], wm)
      BY <3>1 DEF LifeInv
    <3> QED BY <1>1, <2>1, <3>1, <3>2 DEF SameLife, DeleteAfter
  <2>3. CASE ~keep
    <3>1. c \in imported
      BY <1>2, <2>3 DEF OwnerRestart
    <3>2. body'[c] = replica[c] /\ last'[c].op = "U"
      BY <2>3, <3>1 DEF OwnerRestart
    <3> QED BY <1>1, <2>1, <3>2 DEF SameLife
  <2> QED BY <2>2, <2>3
<1>3. ASSUME NEW c \in Call \ skipped' PROVE SameLife(c, replica[c], wm)'
  BY <1>1, <1>2 DEF SameLife
<1> QED BY <1>1, <1>3 DEF LifeInv

(* A body read for an old entry is of the life the owner is in, or the     *)
(* delete that emptied the slot for a later life is newer than the entry.  *)
LEMMA LifeOfBody ==
  ASSUME TypeOK, ChanInv, CopyInv, NEW e \in chan, e.op = "U"
  PROVE  SameLife(e.call, body[e.call], e.pos)
<1> DEFINE c == e.call
<1>1. c \in Call /\ e.pos \in Position /\ last[c].op \in {"none", "U", "D"}
      /\ last[c].pos \in Position
  BY DEF TypeOK
<1>2. ~Newer(e.pos, last[c].pos) /\ Newer(e.pos, Origin)
  BY BelowTop DEF ChanInv
<1>3. last[c].pos # Origin
  BY <1>2
<1>4. last[c].op # "none" /\ EntryOf(last[c].op, c, last[c].pos) \in chan
  BY <1>1, <1>3 DEF ChanInv
<1>5. CASE last[c].op = "D"
  <2>1. PICK x \in chan : x.op = "D" /\ x.call = c /\ x.pos = last[c].pos
    BY <1>4, <1>5 DEF EntryOf
  <2>2. x.pos # e.pos
    BY <2>1 DEF ChanInv
  <2>3. Newer(x.pos, e.pos)
    BY <1>1, <1>2, <2>1, <2>2, NewerOrder
  <2> QED BY <2>1, <2>3 DEF SameLife, DeleteAfter
<1>6. CASE last[c].op = "U"
  <2>1. mem[c] # NoCopy /\ body[c] # NoCopy => mem[c].life = body[c].life
    BY <1>1 DEF CopyInv
  <2> QED BY <1>6, <2>1 DEF SameLife
<1> QED BY <1>1, <1>4, <1>5, <1>6

LEMMA LifePullBatch ==
  ASSUME TypeOK, ChanInv, CopyInv, LifeInv, PullBatch
  PROVE  LifeInv'
<1>1. PICK b \in SUBSET Unread(chan, cursor) :
        pipe' = pipe \cup {FrameOf(e, body[e.call]) : e \in b}
  BY DEF PullBatch
<1>2. UNCHANGED <<chan, mem, body, last, replica, wm, skipped>>
  BY DEF PullBatch, ownerVars, backupVars, ghostVars
<1>3. ASSUME NEW c \in Call \ skipped' PROVE SameLife(c, replica[c], wm)'
  BY <1>2 DEF LifeInv, SameLife, DeleteAfter
<1>4. ASSUME NEW f \in pipe', f.op = "U", f.call \notin skipped'
      PROVE  SameLife(f.call, f.copy, f.pos)'
  <2>1. SameLife(f.call, f.copy, f.pos)
    <3>1. CASE f \in pipe
      BY <1>2, <1>4, <3>1 DEF LifeInv
    <3>2. ASSUME NEW e \in b, f = FrameOf(e, body[e.call])
          PROVE  SameLife(f.call, f.copy, f.pos)
      <4>1. /\ e \in chan /\ f.op = e.op /\ f.call = e.call /\ f.pos = e.pos
            /\ f.copy = body[e.call]
        BY <3>2 DEF FrameOf, Unread
      <4> QED BY <1>4, <4>1, LifeOfBody
    <3> QED BY <1>1, <3>1, <3>2
  <2> QED BY <1>2, <2>1 DEF SameLife, DeleteAfter
<1> QED BY <1>3, <1>4 DEF LifeInv

(* A step that leaves the owner and the watermark alone, takes frames off  *)
(* the wire and leaves or removes copies on the backup.                    *)
LEMMA LifeQuiet ==
  ASSUME LifeInv, pipe' \subseteq pipe,
         UNCHANGED <<chan, mem, body, last, wm, skipped>>,
         \A c \in Call : replica'[c] \in {NoCopy, replica[c]}
  PROVE  LifeInv'
<1>1. ASSUME NEW c \in Call \ skipped' PROVE SameLife(c, replica[c], wm)'
  BY DEF LifeInv, SameLife, DeleteAfter
<1>2. ASSUME NEW f \in pipe', f.op = "U", f.call \notin skipped'
      PROVE  SameLife(f.call, f.copy, f.pos)'
  BY <1>2 DEF LifeInv, SameLife, DeleteAfter
<1> QED BY <1>1, <1>2 DEF LifeInv

LEMMA LifeReceiveNoop ==
  ASSUME TypeOK, StreamInv, LifeInv, NEW p \in noops, ReceiveNoop(p)
  PROVE  LifeInv'
<1>1. /\ UNCHANGED <<chan, mem, body, last, replica, pipe, skipped>>
      /\ NoopIsNext(p)
      /\ wm' \in {wm, p}
  BY DEF ReceiveNoop, Advance, ownerVars, ghostVars
<1>2. \A e \in chan : Newer(e.pos, wm) => Newer(e.pos, wm')
  BY <1>1, NoopCoversNothing
<1>3. ASSUME NEW c \in Call \ skipped' PROVE SameLife(c, replica[c], wm)'
  BY <1>1, <1>2 DEF LifeInv, SameLife, DeleteAfter
<1>4. ASSUME NEW f \in pipe', f.op = "U", f.call \notin skipped'
      PROVE  SameLife(f.call, f.copy, f.pos)'
  BY <1>1, <1>4 DEF LifeInv, SameLife, DeleteAfter
<1> QED BY <1>3, <1>4 DEF LifeInv

(* What an apply does, by its outcomes. *)
LEMMA ApplyEffect ==
  ASSUME TypeOK, NEW f \in pipe, Apply(f)
  PROVE  /\ skipped' \subseteq skipped
         /\ \A d \in Call \ {f.call} :
              /\ replica'[d] = replica[d]
              /\ d \in skipped => d \in skipped'
              /\ d \in lag => d \in lag'
         /\ \/ replica'[f.call] = NoCopy /\ IsDelete(f)
            \/ replica'[f.call] = f.copy /\ ~IsDelete(f)
            \/ /\ replica'[f.call] = replica[f.call] /\ ~IsDelete(f)
               /\ GateRefuses(replica[f.call], f.copy)
         /\ f.call \in skipped \ skipped' =>
              /\ f.pos = last[f.call].pos
              /\ IsDelete(f) \/ replica'[f.call] = body[f.call]
<1>1. f.call \in Call /\ replica \in [Call -> StoredCopy]
  BY DEF TypeOK
<1>2. CASE IsDelete(f)
  BY <1>1, <1>2 DEF Apply
<1>3. CASE ~IsDelete(f) /\ GateRefuses(replica[f.call], f.copy)
  BY <1>1, <1>3 DEF Apply
<1>4. CASE ~IsDelete(f) /\ ~GateRefuses(replica[f.call], f.copy)
  BY <1>1, <1>4 DEF Apply
<1> QED BY <1>2, <1>3, <1>4

LEMMA LifeApplied ==
  ASSUME TypeOK, ChanInv, StreamInv, CopyInv, LifeInv,
         NEW f \in pipe, NextOnWire(f), Newer(f.pos, wm), Apply(f),
         UNCHANGED <<chan, mem, body, last>>,
         pipe' \subseteq pipe \ {f}, wm' \in {wm, f.pos}
  PROVE  LifeInv'
<1> DEFINE c == f.call
<1>1. /\ c \in Call /\ f.op \in {"U", "D"}
      /\ conn = "open" /\ f.pos \in Position /\ wm \in Position
  BY PositionTypes, CopyTypes DEF NextOnWire
<1>2. ASSUME NEW e \in chan, Newer(e.pos, wm), e.call # c \/ e.op # f.op
      PROVE  Newer(e.pos, wm')
  BY <1>2, OthersRemain
<1>3. ASSUME NEW d \in Call \ {c}, d \notin skipped'
      PROVE  SameLife(d, replica[d], wm)'
  <2>1. replica'[d] = replica[d] /\ d \notin skipped
    BY <1>3, ApplyEffect
  <2>2. SameLife(d, replica[d], wm)
    BY <2>1 DEF LifeInv
  <2> QED BY <1>2, <2>1, <2>2 DEF SameLife, DeleteAfter
<1>4. ASSUME c \notin skipped', replica'[c] # NoCopy
      PROVE  SameLife(c, replica[c], wm)'
  <2>1. ~IsDelete(f) /\ f.op = "U"
    BY <1>1, <1>4, ApplyEffect DEF IsDelete
  <2>2. CASE c \notin skipped
    <3>1. CASE replica'[c] = replica[c]
      <4>1. SameLife(c, replica[c], wm)
        BY <1>1, <2>2 DEF LifeInv
      <4> QED BY <1>2, <2>1, <3>1, <4>1 DEF SameLife, DeleteAfter
    <3>2. CASE replica'[c] = f.copy
      <4>1. SameLife(c, f.copy, f.pos)
        BY <2>1, <2>2 DEF LifeInv
      <4>2. \A e \in chan : Newer(e.pos, f.pos) => Newer(e.pos, wm')
        BY <1>1, PositionTypes, NewerOrder
      <4> QED BY <3>2, <4>1, <4>2 DEF SameLife, DeleteAfter
    <3> QED BY <2>1, <3>1, <3>2, ApplyEffect
  <2>3. CASE c \in skipped
    <3>1. f.pos = last[c].pos /\ replica'[c] = body[c]
      BY <1>4, <2>1, <2>3, ApplyEffect
    <3>2. last[c].op = "U"
      BY <1>1, <2>1, <3>1 DEF StreamInv
    <3>3. mem[c] # NoCopy /\ body[c] # NoCopy => mem[c].life = body[c].life
      BY <1>1 DEF CopyInv
    <3> QED BY <3>1, <3>2, <3>3 DEF SameLife
  <2> QED BY <2>2, <2>3
<1>5. ASSUME NEW d \in Call \ skipped' PROVE SameLife(d, replica[d], wm)'
  BY <1>3, <1>4, <1>5 DEF SameLife
<1>6. ASSUME NEW g \in pipe', g.op = "U", g.call \notin skipped'
      PROVE  SameLife(g.call, g.copy, g.pos)'
  <2>1. g \in pipe /\ g # f /\ g.pos \in Position /\ g.call \in Call
    BY PositionTypes
  <2>2. g.call \notin skipped
    <3> SUFFICES ASSUME g.call \in skipped PROVE FALSE
      OBVIOUS
    <3>1. g.call = c /\ f.pos = last[c].pos
      BY <1>6, <2>1, ApplyEffect
    <3>2. ~Newer(g.pos, f.pos) /\ ~Newer(f.pos, g.pos)
      BY <1>1, <2>1, <3>1 DEF StreamInv, NextOnWire
    <3>3. g.pos = f.pos
      BY <1>1, <2>1, <3>2, NewerOrder
    <3> QED BY <1>1, <2>1, <3>3 DEF StreamInv
  <2>3. SameLife(g.call, g.copy, g.pos)
    BY <1>6, <2>1, <2>2 DEF LifeInv
  <2> QED BY <2>3 DEF SameLife, DeleteAfter
<1> QED BY <1>5, <1>6 DEF LifeInv

(* A call the restart does not put out of reach: nothing was covered that  *)
(* is not any more, or nothing became covered.                             *)
LEMMA LifeBackupRestart ==
  ASSUME TypeOK, ChanInv, LifeInv, NEW keep \in BOOLEAN,
         NEW seeded \in BOOLEAN, BackupRestart(keep, seeded)
  PROVE  LifeInv'
<1>1. /\ pipe' = {} /\ skipped \subseteq skipped'
      /\ UNCHANGED <<chan, mem, body, last>>
      /\ \A c \in Call : replica'[c] \in {NoCopy, replica[c]}
      /\ wm' = Origin \/ IsHead(chan, wm')
  BY DEF BackupRestart, ownerVars
<1>2. ASSUME NEW c \in Call \ skipped', replica'[c] # NoCopy
      PROVE  SameLife(c, replica[c], wm)'
  <2>1. replica'[c] = replica[c] /\ SameLife(c, replica[c], wm)
    BY <1>1, <1>2 DEF LifeInv
  <2>2. ASSUME NEW e \in chan, Newer(e.pos, wm), e.call = c
        PROVE  Newer(e.pos, wm')
    <3>1. CASE wm' = Origin
      BY <3>1, BelowTop
    <3>2. CASE IsHead(chan, wm')
      <4>1. Newer(last[c].pos, wm)
        BY <2>2, PositionTypes, NewerOrder DEF ChanInv
      <4>2. Newer(last[c].pos, wm')
        BY <1>2, <4>1 DEF BackupRestart
      <4>3. \E x \in chan : x.pos = last[c].pos
        BY <4>1, LastIsEntry, PositionTypes
      <4> QED BY <3>2, <4>2, <4>3 DEF IsHead
    <3> QED BY <1>1, <3>1, <3>2
  <2> QED BY <1>1, <2>1, <2>2 DEF SameLife, DeleteAfter
<1>3. ASSUME NEW c \in Call \ skipped' PROVE SameLife(c, replica[c], wm)'
  BY <1>2 DEF SameLife
<1> QED BY <1>1, <1>3 DEF LifeInv

LEMMA LifeNext ==
  ASSUME TypeOK, ChanInv, StreamInv, CopyInv, LifeInv, [Next]_vars
  PROVE  LifeInv'
<1>1. CASE \E c \in Call : OwnerStep(c)
  BY <1>1, LifeOwnerStep
<1>2. CASE \E keep \in BOOLEAN, imported \in SUBSET Call :
             OwnerRestart(keep, imported)
  BY <1>2, LifeOwnerRestart
<1>3. CASE PullBatch
  BY <1>3, LifePullBatch
<1>4. CASE IdleTick \/ Connect \/ Refork \/ UNCHANGED vars
  BY <1>4, LifeQuiet
     DEF IdleTick, Connect, Refork, vars, ownerVars, serverVars, wireVars,
         backupVars, ghostVars
<1>5. CASE Disconnect \/ \E f \in pipe : SkipFrame(f) \/ ApplyFails(f)
  BY <1>5, LifeQuiet
     DEF Disconnect, SkipFrame, ApplyFails, ownerVars, backupVars, ghostVars
<1>6. CASE \E p \in noops : ReceiveNoop(p)
  BY <1>6, LifeReceiveNoop
<1>7. ASSUME NEW f \in pipe, ApplyFrame(f) PROVE LifeInv'
  <2>1. /\ NextOnWire(f) /\ Newer(f.pos, wm) /\ Apply(f)
        /\ UNCHANGED <<chan, mem, body, last>>
        /\ pipe' \subseteq pipe \ {f} /\ wm' \in {wm, f.pos}
    BY <1>7 DEF ApplyFrame, Advance, ownerVars
  <2> QED BY <2>1, LifeApplied
<1>8. ASSUME NEW f \in pipe, InterruptedApply(f) PROVE LifeInv'
  <2>1. /\ NextOnWire(f) /\ Newer(f.pos, wm) /\ Apply(f)
        /\ UNCHANGED <<chan, mem, body, last>>
        /\ pipe' \subseteq pipe \ {f} /\ wm' \in {wm, f.pos}
    BY <1>8 DEF InterruptedApply, ownerVars
  <2> QED BY <2>1, LifeApplied
<1>9. CASE \E keep, seeded \in BOOLEAN : BackupRestart(keep, seeded)
  BY <1>9, LifeBackupRestart
<1>10. CASE \E c \in Call : ReplicaExpire(c) \/ IndexExpire(c)
  <2>1. /\ pipe' \subseteq pipe
        /\ UNCHANGED <<chan, mem, body, last, wm, skipped>>
        /\ \A c \in Call : replica'[c] \in {NoCopy, replica[c]}
    BY <1>10 DEF ReplicaExpire, IndexExpire, TypeOK, ownerVars, wireVars,
                 ghostVars
  <2> QED BY <2>1, LifeQuiet
<1> QED
  BY <1>1, <1>2, <1>3, <1>4, <1>5, <1>6, <1>7, <1>8, <1>9, <1>10
     DEF Next, ServerStep, PullerStep, FaultStep

-----------------------------------------------------------------------------
(* The inductive invariant                                                 *)

(* The two halves of NoLostUpdate for one call. *)
DeletedIsGone(c) == Settled(c) /\ last[c].op = "D" => replica[c] = NoCopy

UpdateKept(c) ==
  Settled(c) /\ last[c].op = "U" =>
    \/ body[c] = NoCopy
    \/ replica[c] = body[c]
    \/ replica[c] = NoCopy /\ c \in lag

LEMMA NoLostUpdateParts ==
  ASSUME TypeOK
  PROVE  NoLostUpdate <=> \A c \in Call : DeletedIsGone(c) /\ UpdateKept(c)
<1>1. \A c \in Call : last[c].op \in {"none", "U", "D"}
  BY DEF TypeOK
<1> QED BY <1>1 DEF NoLostUpdate, DeletedIsGone, UpdateKept, Settled

(* A copy the watermark is past has no delete to come. *)
LEMMA CoveredIsGone ==
  ASSUME TypeOK, ChanInv, LifeInv, NEW c \in Call
  PROVE  DeletedIsGone(c)
<1> SUFFICES ASSUME Settled(c), last[c].op = "D", replica[c] # NoCopy
             PROVE  FALSE
  BY DEF DeletedIsGone
<1>1. PICK e \in chan : e.op = "D" /\ e.call = c /\ Newer(e.pos, wm)
  BY DEF LifeInv, SameLife, DeleteAfter, Settled
<1>2. ~Newer(e.pos, last[c].pos) /\ ~Newer(last[c].pos, wm)
  BY <1>1 DEF ChanInv, Settled
<1> QED BY <1>1, <1>2, PositionTypes, NewerOrder

LEMMA UpdateInit == Init => \A c \in Call : UpdateKept(c)
  BY DEF Init, UpdateKept, NothingAnnounced

LEMMA UpdateOwnerStep ==
  ASSUME TypeOK, ChanInv, StreamInv, NEW c \in Call, OwnerStep(c),
         NEW d \in Call, UpdateKept(d)
  PROVE  UpdateKept(d)'
<1>1. /\ UNCHANGED <<replica, wm>> /\ skipped \subseteq skipped'
      /\ lag \subseteq lag'
      /\ d # c => body'[d] = body[d] /\ last'[d] = last[d]
  BY DEF OwnerStep, Create, Touch, Flush, FlushDedup, Remove, LoadCall,
         DropTerminating, Expire, Announce, TypeOK, wireVars, backupVars,
         ghostVars
<1>2. CASE d # c \/ (body'[d] = body[d] /\ last'[d] = last[d])
  BY <1>1, <1>2 DEF UpdateKept, Settled
<1>3. CASE d = c /\ (Create(c) \/ Touch(c) \/ LoadCall(c))
  BY <1>2, <1>3 DEF Create, Touch, LoadCall, ghostVars
<1>4. CASE d = c /\ (DropTerminating(c) \/ Expire(c))
  BY <1>4 DEF DropTerminating, Expire, TypeOK, UpdateKept
<1>5. CASE d = c /\ (Flush(c) \/ FlushDedup(c) \/ Remove(c))
  <2>0. PICK op \in {"U", "D"} : \E copy : Announce(op, c, copy) /\ epoch' = epoch
    BY <1>5 DEF Flush, FlushDedup, Remove
  <2>1. PICK copy : Announce(op, c, copy) /\ epoch' = epoch
    BY <2>0
  <2>2. /\ Newer(Top', Top) /\ Top \in Position /\ Top' \in Position
        /\ last' = [last EXCEPT ![c] = [op |-> op, pos |-> Top']]
    BY <2>1, AnnounceTop
  <2>3. last'[c].pos = Top'
    BY <2>2 DEF TypeOK
  <2>4. Newer(last'[c].pos, wm')
    BY <1>1, <2>2, <2>3, PositionTypes, NewerOrder DEF StreamInv
  <2> QED BY <1>5, <2>4 DEF UpdateKept, Settled
<1> QED BY <1>2, <1>3, <1>4, <1>5 DEF OwnerStep

LEMMA UpdateOwnerRestart ==
  ASSUME TypeOK, NEW keep \in BOOLEAN, NEW imported \in SUBSET Call,
         OwnerRestart(keep, imported), NEW d \in Call, UpdateKept(d)
  PROVE  UpdateKept(d)'
<1>1. /\ UNCHANGED <<replica, wm>> /\ lag' = lag \cup imported
      /\ body'[d] = IF d \in imported THEN replica[d]
                    ELSE IF keep THEN body[d] ELSE NoCopy
      /\ keep => UNCHANGED <<last, skipped>>
  BY DEF OwnerRestart
<1>2. CASE d \in imported
  BY <1>1, <1>2 DEF UpdateKept
<1>3. CASE d \notin imported /\ keep
  BY <1>1, <1>3 DEF UpdateKept, Settled
<1>4. CASE d \notin imported /\ ~keep
  BY <1>1, <1>4 DEF UpdateKept
<1> QED BY <1>2, <1>3, <1>4

LEMMA UpdateQuiet ==
  ASSUME NEW d \in Call, UpdateKept(d),
         UNCHANGED <<last, wm, body, replica, lag, skipped>>
  PROVE  UpdateKept(d)'
  BY DEF UpdateKept, Settled

LEMMA UpdateReceiveNoop ==
  ASSUME TypeOK, ChanInv, StreamInv, NEW p \in noops, ReceiveNoop(p),
         NEW d \in Call, UpdateKept(d)
  PROVE  UpdateKept(d)'
<1>1. /\ UNCHANGED <<last, body, replica, lag, skipped>>
      /\ NoopIsNext(p) /\ wm' \in {wm, p}
  BY DEF ReceiveNoop, Advance, ownerVars, ghostVars
<1>2. Newer(last[d].pos, wm) => Newer(last[d].pos, wm')
  BY <1>1, LastIsEntry, NoopCoversNothing, PositionTypes
<1> QED BY <1>1, <1>2 DEF UpdateKept, Settled

(* The frame that makes a call settled carries the last update with the    *)
(* body the owner has, and the gate skips it only when the backup has it.  *)
LEMMA UpdateApplied ==
  ASSUME TypeOK, ChanInv, StreamInv, CopyInv, LifeInv,
         NEW f \in pipe, NextOnWire(f), Newer(f.pos, wm), Apply(f),
         UNCHANGED <<body, last>>, wm' \in {wm, f.pos},
         NEW d \in Call, UpdateKept(d)
  PROVE  UpdateKept(d)'
<1>1. /\ f.call \in Call /\ f.pos \in Position /\ wm \in Position
      /\ last[d].pos \in Position
      /\ ~Newer(f.pos, last[f.call].pos)
  BY PositionTypes DEF NextOnWire, StreamInv
<1>2. CASE d # f.call
  <2>1. /\ replica'[d] = replica[d] /\ skipped' \subseteq skipped
        /\ d \in skipped => d \in skipped'
        /\ d \in lag => d \in lag'
    BY <1>2, ApplyEffect
  <2>2. ASSUME Newer(last[d].pos, wm) PROVE Newer(last[d].pos, wm')
    <3>1. PICK e \in chan : e.call = d /\ e.pos = last[d].pos
      BY <1>1, <2>2, LastIsEntry
    <3> QED BY <1>2, <2>2, <3>1, OthersRemain
  <2> QED BY <2>1, <2>2 DEF UpdateKept, Settled
<1>3. CASE d = f.call
  <2> SUFFICES ASSUME Settled(d)', last[d].op = "U", body[d] # NoCopy
               PROVE  replica'[d] = body[d]
    BY DEF UpdateKept
  <2>1. Newer(last[d].pos, wm) /\ wm' = f.pos
    <3>1. Newer(last[d].pos, wm)
      BY <1>1, <1>3, NewerOrder
    <3> QED BY <3>1 DEF Settled
  <2>2. last[d].pos = f.pos
    <3>1. PICK e \in chan : e.op = last[d].op /\ e.call = d /\ e.pos = last[d].pos
      BY <1>1, <2>1, LastIsEntry
    <3>2. ~Newer(last[d].pos, f.pos)
      BY <2>1 DEF Settled
    <3> QED BY <2>1, <3>1, <3>2, UncoveredIsNewer
  <2>3. f.op = "U" /\ f.copy = body[d]
    <3>1. f.op = "U"
      BY <1>3, <2>2 DEF StreamInv, NextOnWire
    <3>2. body[d] \in {NoCopy, f.copy}
      BY <1>3, <2>2, <3>1 DEF CopyInv
    <3> QED BY <3>1, <3>2
  <2>4. ~IsDelete(f)
    BY <2>3 DEF IsDelete
  <2>5. CASE replica'[d] = f.copy
    BY <2>3, <2>5
  <2>6. CASE replica'[d] = replica[d] /\ GateRefuses(replica[d], f.copy)
    <3>1. CASE d \in skipped
      <4>1. d \in skipped \ skipped'
        BY <3>1 DEF Settled
      <4> QED BY <1>3, <2>4, <4>1, ApplyEffect
    <3>2. CASE d \notin skipped
      <4>1. replica[d] # NoCopy /\ body[d].callGen =< replica[d].callGen
        BY <2>3, <2>6 DEF GateRefuses
      <4>2. ~DeleteAfter(d, wm)
        <5> SUFFICES ASSUME NEW e \in chan, e.op = "D", e.call = d,
                            Newer(e.pos, wm)
                     PROVE  FALSE
          BY DEF DeleteAfter
        <5>1. Newer(e.pos, f.pos)
          BY <2>3, OthersRemain
        <5> QED BY <2>2, <5>1 DEF ChanInv
      <4>3. body[d].life = replica[d].life
        BY <3>2, <4>1, <4>2 DEF LifeInv, SameLife
      <4>4. replica[d].callGen =< body[d].callGen
        BY <4>1, <4>3 DEF CopyInv, NotAhead
      <4>5. replica[d] = body[d]
        <5>1. body[d] \in LiveCopy /\ replica[d] \in LiveCopy
          BY CopyTypes
        <5>2. body[d].callGen = replica[d].callGen
          BY <4>1, <4>4, <5>1, CopyFields
        <5> QED BY <4>3, <5>1, <5>2, CopyFields
      <4> QED BY <2>6, <4>5
    <3> QED BY <3>1, <3>2
  <2> QED BY <1>3, <2>4, <2>5, <2>6, ApplyEffect
<1> QED BY <1>2, <1>3

(* The TTL of a copy runs out. *)
LEMMA UpdateReplicaExpire ==
  ASSUME TypeOK, NEW c \in Call, ReplicaExpire(c), NEW d \in Call, UpdateKept(d)
  PROVE  UpdateKept(d)'
<1>1. /\ UNCHANGED <<last, wm, body, lag, skipped>>
      /\ replica' = [replica EXCEPT ![c] = NoCopy]
      /\ replica[c] # NoCopy /\ (replica[c] # body[c] \/ c \in lag)
  BY DEF ReplicaExpire, ownerVars, ghostVars
<1>2. CASE d = c
  <2>1. replica'[c] = NoCopy
    BY <1>1 DEF TypeOK
  <2> QED BY <1>1, <1>2, <2>1 DEF UpdateKept, Settled
<1>3. CASE d # c
  <2>1. replica'[d] = replica[d]
    BY <1>1, <1>3 DEF TypeOK
  <2> QED BY <1>1, <2>1 DEF UpdateKept, Settled
<1> QED BY <1>2, <1>3

LEMMA UpdateBackupRestart ==
  ASSUME NEW keep \in BOOLEAN, NEW seeded \in BOOLEAN,
         BackupRestart(keep, seeded), NEW d \in Call, UpdateKept(d)
  PROVE  UpdateKept(d)'
<1> SUFFICES ASSUME Settled(d)' PROVE UpdateKept(d)'
  BY DEF UpdateKept
<1>1. UNCHANGED <<body, last, lag>>
  BY DEF BackupRestart, ownerVars
<1>2. /\ d \notin skipped
      /\ ~Newer(last[d].pos, wm) /\ replica'[d] = replica[d]
  BY <1>1 DEF BackupRestart, Settled
<1> QED BY <1>1, <1>2 DEF UpdateKept, Settled

LEMMA UpdateNext ==
  ASSUME TypeOK, ChanInv, StreamInv, CopyInv, LifeInv, [Next]_vars,
         NEW d \in Call, UpdateKept(d)
  PROVE  UpdateKept(d)'
<1>1. CASE \E c \in Call : OwnerStep(c)
  BY <1>1, UpdateOwnerStep
<1>2. CASE \E keep \in BOOLEAN, imported \in SUBSET Call :
             OwnerRestart(keep, imported)
  BY <1>2, UpdateOwnerRestart
<1>3. CASE PullBatch \/ IdleTick \/ Connect \/ Refork \/ UNCHANGED vars
  BY <1>3, UpdateQuiet
     DEF PullBatch, IdleTick, Connect, Refork, vars, ownerVars, wireVars,
         backupVars, ghostVars
<1>4. CASE Disconnect \/ \E f \in pipe : SkipFrame(f) \/ ApplyFails(f)
  BY <1>4, UpdateQuiet
     DEF Disconnect, SkipFrame, ApplyFails, ownerVars, backupVars, ghostVars
<1>5. CASE \E p \in noops : ReceiveNoop(p)
  BY <1>5, UpdateReceiveNoop
<1>6. ASSUME NEW f \in pipe, ApplyFrame(f) \/ InterruptedApply(f)
      PROVE  UpdateKept(d)'
  <2>1. /\ NextOnWire(f) /\ Newer(f.pos, wm) /\ Apply(f)
        /\ UNCHANGED <<body, last>> /\ wm' \in {wm, f.pos}
    BY <1>6 DEF ApplyFrame, InterruptedApply, Advance, ownerVars
  <2> QED BY <2>1, UpdateApplied
<1>7. CASE \E keep, seeded \in BOOLEAN : BackupRestart(keep, seeded)
  BY <1>7, UpdateBackupRestart
<1>8. CASE \E c \in Call : ReplicaExpire(c)
  BY <1>8, UpdateReplicaExpire
<1>9. CASE \E c \in Call : IndexExpire(c)
  BY <1>9, UpdateQuiet DEF IndexExpire, ownerVars, ghostVars
<1> QED
  BY <1>1, <1>2, <1>3, <1>4, <1>5, <1>6, <1>7, <1>8, <1>9
     DEF Next, ServerStep, PullerStep, FaultStep

-----------------------------------------------------------------------------
(* The theorems                                                            *)

UpdatesKept == \A c \in Call : UpdateKept(c)

LEMMA InvariantInit == Init => IInv
<1> SUFFICES ASSUME Init PROVE IInv
  OBVIOUS
<1>1. TypeOK /\ ChanInv /\ StreamInv /\ CopyInv /\ LifeInv
  BY TypeInit, ChanInit, StreamInit, CopyInit, LifeInit
<1>2. NoLostUpdate
  BY <1>1, UpdateInit, CoveredIsGone, NoLostUpdateParts
<1> QED BY <1>1, <1>2 DEF IInv

LEMMA InvariantParts ==
  TypeOK /\ ChanInv /\ StreamInv /\ CopyInv /\ LifeInv /\ UpdatesKept => IInv
  BY CoveredIsGone, NoLostUpdateParts DEF IInv, UpdatesKept

LEMMA InvariantNext == IInv /\ [Next]_vars => IInv'
<1>1. ASSUME IInv, [Next]_vars
      PROVE  (TypeOK /\ ChanInv /\ StreamInv /\ CopyInv /\ LifeInv
                /\ UpdatesKept)'
  <2>1. TypeOK /\ ChanInv /\ StreamInv /\ CopyInv /\ LifeInv
    BY <1>1 DEF IInv
  <2>2. TypeOK' /\ ChanInv' /\ StreamInv' /\ CopyInv' /\ LifeInv'
    BY <1>1, <2>1, TypeNext, ChanNext, StreamNext, CopyNext, LifeNext
  <2>3. \A c \in Call : UpdateKept(c)
    BY <1>1, <2>1, NoLostUpdateParts DEF IInv
  <2>4. ASSUME NEW c \in Call PROVE UpdateKept(c)'
    BY <1>1, <2>1, <2>3, UpdateNext
  <2>5. UpdatesKept'
    BY <2>4 DEF UpdatesKept
  <2> QED BY <2>2, <2>5
<1>2. (TypeOK /\ ChanInv /\ StreamInv /\ CopyInv /\ LifeInv /\ UpdatesKept)'
        => IInv'
  BY InvariantParts, PTL
<1> QED BY <1>1, <1>2

(* The channel, the stream and the copies on both workers stay as IInv     *)
(* says, whatever the two workers and the network do.                      *)
THEOREM InductiveInvariant == Spec => []IInv
  BY InvariantInit, InvariantNext, PTL DEF Spec

(* The backup holds what the owner announced last: CallState.flushToRedis  *)
(* and remove, through the channel, the stream and the gated apply, over   *)
(* lost connections, interrupted applies and restarts of both workers.     *)
THEOREM NoUpdateLost == Spec => []NoLostUpdate
<1>1. IInv => NoLostUpdate
  BY DEF IInv
<1> QED BY <1>1, InductiveInvariant, PTL

(* applyOne and the patching of the watermark: only a restart of the       *)
(* backup sets it back, not an owner that lost its channel.                *)
THEOREM WatermarkForward == Spec => WatermarkNeverBack
<1>1. ASSUME TypeOK, [Next]_vars
      PROVE  [~Newer(wm, wm') \/ BackupRestarts]_vars
  <2>1. wm \in Position /\ \A p \in Position : ~Newer(p, p)
    BY <1>1, PositionTypes, NewerOrder
  <2>2. CASE wm' = wm
    BY <2>1, <2>2
  <2>3. ASSUME NEW p \in Position, wm' = Advance(wm, p) PROVE ~Newer(wm, wm')
    BY <2>1, <2>3, NewerOrder DEF Advance
  <2>4. ASSUME NEW f \in pipe, ApplyFrame(f) PROVE ~Newer(wm, wm')
    BY <1>1, <2>3, <2>4, PositionTypes DEF ApplyFrame
  <2>5. ASSUME NEW p \in noops, ReceiveNoop(p) PROVE ~Newer(wm, wm')
    BY <1>1, <2>3, <2>5, PositionTypes DEF ReceiveNoop
  <2>6. ASSUME NEW c \in Call, OwnerStep(c) PROVE wm' = wm
    BY <2>6 DEF OwnerStep, Create, Touch, Flush, FlushDedup, Remove, LoadCall,
                DropTerminating, Expire, backupVars
  <2>7. CASE ServerStep \/ Connect \/ Disconnect \/ Refork \/ UNCHANGED vars
    BY <2>2, <2>7 DEF ServerStep, PullBatch, IdleTick, Connect, Disconnect,
                      Refork, vars, backupVars
  <2>8. CASE \E f \in pipe : SkipFrame(f) \/ InterruptedApply(f) \/ ApplyFails(f)
    BY <2>2, <2>8 DEF SkipFrame, InterruptedApply, ApplyFails, backupVars
  <2>9. CASE \E c \in Call : ReplicaExpire(c) \/ IndexExpire(c)
    BY <2>2, <2>9 DEF ReplicaExpire, IndexExpire
  <2>10. CASE \E keep \in BOOLEAN, imported \in SUBSET Call :
                OwnerRestart(keep, imported)
    BY <2>2, <2>10 DEF OwnerRestart
  <2>11. CASE BackupRestarts
    BY <2>11
  <2> QED
    BY <1>1, <2>2, <2>4, <2>5, <2>6, <2>7, <2>8, <2>9, <2>10, <2>11
       DEF Next, PullerStep, FaultStep, BackupRestarts
<1>2. TypeOK /\ [Next]_vars => [~Newer(wm, wm') \/ BackupRestarts]_vars
  BY <1>1
<1> QED BY <1>2, TypeCorrect, PTL DEF Spec, WatermarkNeverBack

=============================================================================
