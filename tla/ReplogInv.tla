----------------------------- MODULE ReplogInv -----------------------------
(***************************************************************************)
(* The inductive invariant of Replog, in named parts.  TLC checks it on    *)
(* the instances of MCReplog, the proof modules prove it.                  *)
(***************************************************************************)
EXTENDS Replog

Top == [gen |-> epoch, counter |-> seq[epoch]]

(* The channel: entries lie below the bucket counters, no two at one       *)
(* position, the counter's own position is always occupied, and the last   *)
(* announcement of a call is its newest entry.                             *)
ChanInv ==
  /\ \A e \in chan : /\ e.pos.gen \in 1..epoch
                     /\ e.pos.counter \in 1..seq[e.pos.gen]
  /\ \A e, x \in chan : e.pos = x.pos => e = x
  /\ \A g \in 1..MaxEpoch :
       /\ g > epoch => seq[g] = 0
       /\ seq[g] > 0 => \E e \in chan : e.pos = [gen |-> g, counter |-> seq[g]]
  /\ \A c \in Call : /\ last[c].op = "none" => last[c].pos = Origin
                     /\ last[c].pos # Origin =>
                          EntryOf(last[c].op, c, last[c].pos) \in chan
  /\ \A e \in chan : ~Newer(e.pos, last[e.call].pos)

(* The stream: watermark, wire and cursor follow each other below the top  *)
(* of the channel, and every entry the watermark does not cover is still   *)
(* to be read or on the wire.                                              *)
StreamInv ==
  /\ ~Newer(wm, Top)
  /\ conn # "open" => pipe = {} /\ noops = {}
  /\ conn = "open" =>
       /\ ~Newer(cursor, Top)
       /\ ~Newer(wm, cursor)
       /\ \A p \in noops : ~Newer(p, cursor)
       /\ \A f \in pipe : /\ ~Newer(f.pos, cursor)
                          /\ Newer(f.pos, Origin)
                          /\ ~Newer(f.pos, last[f.call].pos)
                          /\ f.pos = last[f.call].pos => f.op = last[f.call].op
       /\ \A f, g \in pipe : f.pos = g.pos => f = g
       /\ \A e \in chan : Newer(e.pos, wm) =>
            \/ Newer(e.pos, cursor)
            \/ \E f \in pipe : f.op = e.op /\ f.call = e.call /\ f.pos = e.pos

(* No copy is newer than the owner's of the same life. *)
NotAhead(c, r) ==
  r # NoCopy =>
    /\ r.life =< lives[c]
    /\ \A own \in {mem[c], body[c]} :
         own # NoCopy /\ own.life = r.life => r.callGen =< own.callGen

(* The owner's copies, and how the copies on the wire and on the backup    *)
(* relate to them.                                                         *)
CopyInv ==
  /\ \A c \in Call :
       /\ mem[c] # NoCopy => mem[c].life \in 1..lives[c]
       /\ body[c] # NoCopy => body[c].life \in 1..lives[c]
       /\ mem[c] # NoCopy /\ body[c] # NoCopy => mem[c].life = body[c].life
       /\ body[c].callGen =< mem[c].callGen \/ mem[c] = NoCopy
       /\ c \in flushCache => mem[c] # NoCopy /\ mem[c].callGen > 0
       /\ NotAhead(c, replica[c])
  /\ \A f \in pipe :
       /\ NotAhead(f.call, f.copy)
       /\ f.op = "U" /\ f.pos = last[f.call].pos =>
            body[f.call] \in {NoCopy, f.copy}

(* A delete of c is announced at a position newer than p. *)
DeleteAfter(c, p) ==
  \E e \in chan : e.op = "D" /\ e.call = c /\ Newer(e.pos, p)

(* A copy r of c seen at position p is of the life the owner is in, or a   *)
(* delete is still to come that will remove it.                            *)
SameLife(c, r, p) ==
  r # NoCopy =>
    \/ DeleteAfter(c, p)
    \/ /\ last[c].op = "U"
       /\ \A own \in {mem[c], body[c]} : own = NoCopy \/ own.life = r.life

LifeInv ==
  /\ \A c \in Call \ skipped : SameLife(c, replica[c], wm)
  /\ \A f \in pipe : f.op = "U" /\ f.call \notin skipped =>
                       SameLife(f.call, f.copy, f.pos)

IInv == TypeOK /\ ChanInv /\ StreamInv /\ CopyInv /\ LifeInv /\ NoLostUpdate
=============================================================================
