---------------------------- MODULE OrderedStore ----------------------------
(***************************************************************************)
(* What the write-behind path promises of the store: every call is a       *)
(* register, the requests submitted wait in a line and are served in their *)
(* order, and what has landed stays landed.  The promise is lifted for a   *)
(* call ("slip") whose newest write was put ahead of an older one, or was  *)
(* given up, until the next write is put behind all others of the call.    *)
(***************************************************************************)
EXTENDS Naturals, SequencesExt

CONSTANTS
  Calls,
  Values,   \* what a register may hold
  NoValue,  \* ... at first
  Nothing   \* none of the values: what a read writes

VARIABLES
  kept,    \* what a read of the call's register answers
  line,    \* the requests submitted and not served, in their order
  newest,  \* per call, the value written last
  slip     \* the calls the promise is lifted for

vars == <<kept, line, newest, slip>>

Write(c, v) == [call |-> c, value |-> v]
Read(c)     == [call |-> c, value |-> Nothing]

(* A write of c is among the requests of the line l. *)
Owes(l, c) == \E i \in DOMAIN l : l[i].call = c /\ l[i].value # Nothing

Init ==
  /\ kept = [c \in Calls |-> NoValue]
  /\ line = <<>>
  /\ newest = [c \in Calls |-> NoValue]
  /\ slip = {}

(* A write is put into the line behind its first i members. *)
Submit(c, v, i) ==
  /\ v \in Values
  /\ newest' = [newest EXCEPT ![c] = v]
  /\ line' = InsertAt(line, i + 1, Write(c, v))
  /\ slip' = IF Owes(SubSeq(line, i + 1, Len(line)), c)
             THEN slip \cup {c} ELSE slip \ {c}
  /\ UNCHANGED kept

(* So is a read. *)
Ask(c, i) ==
  /\ line' = InsertAt(line, i + 1, Read(c))
  /\ UNCHANGED <<kept, newest, slip>>

(* The first in line is served. *)
Serve ==
  /\ line # <<>>
  /\ line' = Tail(line)
  /\ kept' = IF Head(line).value = Nothing THEN kept
             ELSE [kept EXCEPT ![Head(line).call] = Head(line).value]
  /\ UNCHANGED <<newest, slip>>

(* Requests are given up from the front of the line: writes of the calls S *)
(* only, and a call that has no write left in line has lost its newest.    *)
Lose(S, i) ==
  /\ \A j \in 1..i : line[j].value # Nothing => line[j].call \in S
  /\ line' = SubSeq(line, i + 1, Len(line))
  /\ kept' \in [Calls -> Values]
  /\ \A c \in Calls \ S : kept'[c] = kept[c]
  /\ slip' = slip \cup {c \in S : ~Owes(line', c)}
  /\ UNCHANGED newest

(* The writer dies: what is in the store is all there is. *)
Restart ==
  /\ kept' \in [Calls -> Values]
  /\ line' = <<>>
  /\ newest' = kept' /\ slip' = {}

Next ==
  \/ \E c \in Calls : \E i \in 0..Len(line) : Submit(c, newest'[c], i) \/ Ask(c, i)
  \/ Serve
  \/ \E S \in SUBSET Calls : \E i \in 0..Len(line) : Lose(S, i)
  \/ Restart

Spec == Init /\ [][Next]_vars
=============================================================================
