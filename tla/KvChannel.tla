----------------------------- MODULE KvChannel -----------------------------
(***************************************************************************)
(* One propagate channel of the key-value backend: the compacted log in    *)
(* which a worker announces the calls it wrote and the calls it deleted    *)
(* to one peer.  The log is partitioned into buckets, one per incarnation  *)
(* ("gen") of the writer; inside a bucket a member ("U:<key>" or           *)
(* "D:<key>") holds one score, and writing the member again replaces it.   *)
(* Positions (gen, counter) are ordered lexicographically.                 *)
(***************************************************************************)
EXTENDS Naturals, FiniteSets

Position == [gen : Nat, counter : Nat]

Origin == [gen |-> 0, counter |-> 0]

(* compareGenCounter(a, b) > 0: a is strictly newer than b. *)
Newer(a, b) ==
  \/ a.gen > b.gen
  \/ a.gen = b.gen /\ a.counter > b.counter

(* An entry: the operation, the call it is about and its position.  The    *)
(* member of the sorted set is (op, call); the bucket is pos.gen.          *)
EntryOf(op, c, p) == [op |-> op, call |-> c, pos |-> p]

ZAddKeepsScore(chan, op, c, p) ==
  IF \E e \in chan : e.op = op /\ e.call = c /\ e.pos.gen = p.gen
  THEN chan ELSE chan \cup {EntryOf(op, c, p)}

(* ZADD of the member (op, c) into the bucket of p.gen. *)
ZAdd(chan, op, c, p) ==
  {e \in chan : ~(e.op = op /\ e.call = c /\ e.pos.gen = p.gen)}
    \cup {EntryOf(op, c, p)}

(* The head of a channel, as the memory backend computes it: the largest   *)
(* position of an entry.                                                   *)
IsHead(chan, h) ==
  \/ chan = {} /\ h = Origin
  \/ /\ \E e \in chan : e.pos = h
     /\ \A e \in chan : ~Newer(e.pos, h)

HeadCandidates(chan) == {Origin} \cup {e.pos : e \in chan}

(* The same head as the Lua script computes it: the counter key of the     *)
(* last bucket that holds an entry.                                        *)
IsCounterHead(chan, seq, h) ==
  \/ chan = {} /\ h = Origin
  \/ \E e \in chan : /\ \A x \in chan : x.pos.gen =< e.pos.gen
                     /\ h = [gen |-> e.pos.gen, counter |-> seq[e.pos.gen]]

Unread(chan, since) == {e \in chan : Newer(e.pos, since)}

(* b is what channelPullBatch returns for `since` and `limit`: the oldest  *)
(* unread entries, `limit` of them or all there are.                       *)
IsBatch(chan, since, limit, b) ==
  /\ \A e \in b, x \in Unread(chan, since) : Newer(e.pos, x.pos) => x \in b
  /\ \/ Cardinality(b) = limit
     \/ b = Unread(chan, since) /\ Cardinality(b) < limit
=============================================================================
