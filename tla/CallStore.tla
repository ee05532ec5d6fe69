----------------------------- MODULE CallStore -----------------------------
(***************************************************************************)
(* How a worker's calls get into its Redis sidecar and back: the flushes   *)
(* and removals of CallState, the queue and drainers of                    *)
(* BufferedTerminateWriter, the one connection all commands share, the     *)
(* load on demand and the scan after a restart.                            *)
(*                                                                         *)
(* A write is queued; a drainer takes it, issues its command and waits for *)
(* the reply.  A write that finds the queue full is issued at once by the  *)
(* handler itself, past the queue.  Redis executes the commands of the     *)
(* connection in order; a connection that breaks is made again, and what   *)
(* had no reply is issued a second time.                                   *)
(***************************************************************************)
EXTENDS Naturals, Sequences, FiniteSets

CONSTANTS
  Calls,        \* callRefs owned by this worker
  Drainers,     \* storageBufferDrainers
  QueueMax,     \* storageBufferQueueMax; 0 is the passthrough
  MaxSubmits,   \* bound: writes submitted by handlers
  MaxFaults     \* bound: broken connections, failed commands, restarts

ASSUME CallStoreAssumption ==
  /\ Calls \cap Drainers = {} /\ {"boot", "sweep", "nobody"} \cap (Calls \cup Drainers) = {}
  /\ QueueMax \in Nat /\ MaxSubmits \in Nat /\ MaxFaults \in Nat

VARIABLES
  mem,       \* callsMap
  clean,     \* calls whose flushCache entry is the call in memory
  fresh,     \* callRefs no call was created for
  queue,     \* the bounded queue of jobs
  busy,      \* who waits for a reply: drainers, handlers (by call), boot, sweep
  wire,      \* commands issued on the connection and not replied to
  done,      \* how many of them this connection has executed
  seen,      \* how many of them some connection has executed
  store,     \* the bodies in Redis
  scan,      \* what the boot scan has read, Unread, or Over
  newest,    \* per call, the write submitted last
  slip,      \* calls whose newest write was put ahead of an older or lost
  submits,   \* writes submitted so far
  faults     \* faults so far

memVars    == <<mem, clean, fresh>>
lineVars   == <<queue, busy, wire, done, seen>>
promise    == <<newest, slip>>
vars == <<memVars, lineVars, store, scan, promise, submits, faults>>

Boot == "boot"
Sweep == "sweep"
Nobody == "nobody"
States == {"active", "terminating", "terminated"}
NoBody == [state |-> "none", gen |-> 0]
Unread == [state |-> "unread", gen |-> 0]   \* of scan: not read yet
Over   == [state |-> "over", gen |-> 0]     \* of scan: gone through

Job(op, c, body) == [op |-> op, call |-> c, body |-> body]
Put(c, body) == Job("put", c, body)
Delete(c)    == Job("del", c, NoBody)
Command(by, job) == [by |-> by, job |-> job]
Writes(job) == job.op # "get"

Init ==
  /\ mem = [c \in Calls |-> NoBody] /\ clean = {} /\ fresh = Calls
  /\ queue = <<>> /\ busy = {} /\ wire = <<>> /\ done = 0 /\ seen = 0
  /\ store = [c \in Calls |-> NoBody]
  /\ scan = [c \in Calls |-> Over]
  /\ newest = [c \in Calls |-> NoBody] /\ slip = {}
  /\ submits = 0 /\ faults = 0

-----------------------------------------------------------------------------
(* BufferedTerminateWriter                                                 *)

Queued(c) == \E i \in DOMAIN queue : queue[i].call = c

(* A write of c is among the commands w. *)
OnWire(w, c) == \E i \in DOMAIN w : w[i].job.call = c /\ Writes(w[i].job)

(* The i-th is the last write of c among the first n of them. *)
LastWrite(w, n, c, i) ==
  /\ w[i].job.call = c /\ Writes(w[i].job)
  /\ \A j \in i + 1..n : ~(w[j].job.call = c /\ Writes(w[j].job))

(* A command is issued behind those of w. *)
Issue(w, by, job) ==
  /\ wire' = Append(w, Command(by, job))
  /\ busy' = busy \cup {by}

SubmitPastMax(w, by, job) ==      \* off by one at the queue's limit
  /\ submits' = submits + 1
  /\ newest' = [newest EXCEPT ![job.call] = job.body]
  /\ queue' = Append(queue, job)
  /\ wire' = w /\ busy' = busy \ {by}
  /\ slip' = slip \ {job.call}
SubmitOrDrop(w, by, job) ==        \* a full queue drops the write
  /\ submits' = submits + 1
  /\ newest' = [newest EXCEPT ![job.call] = job.body]
  /\ queue' = IF Len(queue) < QueueMax THEN Append(queue, job) ELSE queue
  /\ wire' = w /\ busy' = busy \ {by}
  /\ slip' = slip \ {job.call}
(* submit: the queue if it has room, else a direct call that the submitter *)
(* waits for.  The direct call overtakes what is queued.                   *)
Submit(w, by, job) ==
  /\ submits' = submits + 1
  /\ newest' = [newest EXCEPT ![job.call] = job.body]
  /\ IF Len(queue) < QueueMax
     THEN /\ queue' = Append(queue, job)
          /\ wire' = w /\ busy' = busy \ {by}
          /\ slip' = slip \ {job.call}
     ELSE /\ Issue(w, by, job)
          /\ slip' = IF Queued(job.call) THEN slip \cup {job.call}
                                         ELSE slip \ {job.call}
          /\ UNCHANGED queue

(* A drainer takes the oldest job and runs it. *)
Take(d) ==
  /\ d \notin busy /\ queue # <<>>
  /\ Issue(wire, d, Head(queue))
  /\ queue' = Tail(queue)
  /\ UNCHANGED <<memVars, done, seen, store, scan, promise, submits, faults>>

(* storageDropFallbackMs: the submitter goes on, its command does not go   *)
(* away.  The passthrough has no such limit.                               *)
Timeout(by) ==
  /\ QueueMax > 0
  /\ \E i \in DOMAIN wire :
       /\ wire[i].by = by /\ Writes(wire[i].job)
       /\ wire' = [wire EXCEPT ![i] = Command(Nobody, @.job)]
  /\ busy' = busy \ {by}
  /\ UNCHANGED <<memVars, queue, done, seen, store, scan, promise,
                 submits, faults>>

-----------------------------------------------------------------------------
(* CallState: a handler runs for a call when none of it waits.             *)

Idle(c) == c \notin busy /\ submits < MaxSubmits

Create(c) ==
  /\ c \in fresh /\ Idle(c)
  /\ mem' = [mem EXCEPT ![c] = [state |-> "active", gen |-> 0]]
  /\ fresh' = fresh \ {c}
  /\ UNCHANGED <<clean, lineVars, store, scan, promise, submits, faults>>

Follows(s) == CASE s = "active"      -> States
                [] s = "terminating" -> {"terminating", "terminated"}
                [] OTHER             -> {}

(* update and flushToRedis of a call that changed: the next generation. *)
Flush(c) ==
  /\ mem[c] # NoBody /\ Idle(c)
  /\ \E s \in Follows(mem[c].state) :
       LET bumped == [state |-> s, gen |-> mem[c].gen + 1]
       IN  mem' = [mem EXCEPT ![c] = bumped] /\ Submit(wire, c, Put(c, bumped))
  /\ clean' = clean \cup {c}
  /\ UNCHANGED <<fresh, done, seen, store, scan, faults>>

(* flushToRedis of a call that did not: the cached body once more. *)
FlushAgain(c) ==
  /\ c \in clean /\ mem[c].state # "terminated" /\ Idle(c)
  /\ Submit(wire, c, Put(c, mem[c]))
  /\ UNCHANGED <<memVars, done, seen, store, scan, faults>>

Forget(by, c) ==
  /\ mem' = [mem EXCEPT ![c] = NoBody]
  /\ clean' = clean \ {c}
  /\ Submit(wire, by, Delete(c))
  /\ UNCHANGED <<fresh, done, seen, store, scan, faults>>

(* remove, by a handler that ends the call. *)
Remove(c) == mem[c] # NoBody /\ Idle(c) /\ Forget(c, c)

(* forcePurgeOne, by the safety timer or the orphan sweep, which do not    *)
(* wait for the call's handler.                                            *)
Purge(c) ==
  /\ mem[c].state \in {"terminating", "terminated"}
  /\ Sweep \notin busy /\ submits < MaxSubmits
  /\ Forget(Sweep, c)

(* loadCall of a call that is not in memory asks the store, not the queue. *)
Load(c) ==
  /\ mem[c] = NoBody /\ c \notin fresh /\ Idle(c)
  /\ Issue(wire, c, Job("get", c, NoBody))
  /\ UNCHANGED <<memVars, queue, done, seen, store, scan, promise, submits, faults>>

-----------------------------------------------------------------------------
(* The connection                                                          *)

(* Redis executes the next command; a get takes its answer along. *)
Execute ==
  /\ done < Len(wire)
  /\ LET job == wire[done + 1].job IN
       IF Writes(job)
       THEN store' = [store EXCEPT ![job.call] = job.body] /\ UNCHANGED wire
       ELSE /\ wire' = [wire EXCEPT ![done + 1] =
                          Command(@.by, Job("get", job.call, store[job.call]))]
            /\ UNCHANGED store
  /\ done' = done + 1
  /\ seen' = IF seen < done + 1 THEN done + 1 ELSE seen
  /\ UNCHANGED <<memVars, queue, busy, scan, promise, submits, faults>>

Less(n) == IF n = 0 THEN 0 ELSE n - 1

(* The head of the wire is replied to. *)
HeadDone == done' = Less(done) /\ seen' = Less(seen)

ReplyUnheard ==                          \* who waits is not woken
  /\ done > 0 /\ Writes(Head(wire).job)
  /\ HeadDone /\ wire' = Tail(wire)
  /\ UNCHANGED <<memVars, queue, busy, store, scan, promise, submits, faults>>
(* A reply wakes who waits for it. *)
Reply ==
  /\ done > 0 /\ Writes(Head(wire).job)
  /\ HeadDone /\ wire' = Tail(wire)
  /\ busy' = busy \ {Head(wire).by}
  /\ UNCHANGED <<memVars, queue, store, scan, promise, submits, faults>>

(* The answer of a get: an active call enters memory, a terminating one is *)
(* deleted, and nothing is made of a terminated one.                       *)
LoadReply ==
  /\ done > 0 /\ ~Writes(Head(wire).job)
  /\ LET c == Head(wire).job.call
         body == Head(wire).job.body
     IN IF body.state = "terminating"
        THEN Submit(Tail(wire), c, Delete(c)) /\ UNCHANGED mem
        ELSE /\ mem' = IF body.state = "active"
                       THEN [mem EXCEPT ![c] = body] ELSE mem
             /\ wire' = Tail(wire) /\ busy' = busy \ {c}
             /\ UNCHANGED <<queue, promise, submits>>
  /\ HeadDone
  /\ UNCHANGED <<clean, fresh, store, scan, faults>>

(* An error reply: StorageError, logged, and the job is over. *)
Refuse ==
  /\ faults < MaxFaults
  /\ wire # <<>> /\ done = 0
  /\ LET job == Head(wire).job IN
       slip' = IF Writes(job) /\ ~Queued(job.call) /\ ~OnWire(Tail(wire), job.call)
               THEN slip \cup {job.call} ELSE slip
  /\ wire' = Tail(wire) /\ busy' = busy \ {Head(wire).by}
  /\ HeadDone
  /\ faults' = faults + 1
  /\ UNCHANGED <<memVars, queue, store, scan, newest, submits>>

ReconnectForgets ==               \* what had no reply is not issued again
  /\ faults < MaxFaults /\ wire # <<>>
  /\ wire' = <<>> /\ done' = 0 /\ seen' = 0 /\ busy' = {}
  /\ faults' = faults + 1
  /\ UNCHANGED <<memVars, queue, store, scan, promise, submits>>
ReconnectReorders ==              \* it is issued again in another order
  /\ faults < MaxFaults /\ wire # <<>>
  /\ wire' = [i \in DOMAIN wire |-> wire[Len(wire) + 1 - i]] /\ done' = 0
  /\ faults' = faults + 1
  /\ UNCHANGED <<memVars, queue, busy, seen, store, scan, promise, submits>>
(* The connection breaks and is made again: what had no reply is issued    *)
(* again in its order, executed or not.                                    *)
Reconnect ==
  /\ faults < MaxFaults /\ wire # <<>>
  /\ done' = 0
  /\ faults' = faults + 1
  /\ UNCHANGED <<memVars, queue, busy, wire, seen, store, scan, promise,
                 submits>>

(* Or the client gives up: every command waiting fails. *)
GiveUp ==
  /\ faults < MaxFaults /\ wire # <<>>
  /\ wire' = <<>> /\ done' = 0 /\ seen' = 0
  /\ busy' = {}
  /\ slip' = slip \cup {c \in Calls : OnWire(wire, c) /\ ~Queued(c)}
  /\ faults' = faults + 1
  /\ UNCHANGED <<memVars, queue, store, scan, newest, submits>>

-----------------------------------------------------------------------------
(* Restart of the worker; its sidecar goes on                              *)

(* The body of c after the commands up to n, of which done are executed. *)
After(n, c) ==
  IF \E i \in done + 1..n : LastWrite(wire, n, c, i)
  THEN wire[CHOOSE i \in done + 1..n : LastWrite(wire, n, c, i)].job.body
  ELSE store[c]

(* The queue and the memory are gone; what was on the wire arrives up to   *)
(* some command.                                                           *)
Crash ==
  /\ faults < MaxFaults
  /\ \E n \in done..Len(wire) : store' = [c \in Calls |-> After(n, c)]
  /\ mem' = [c \in Calls |-> NoBody] /\ clean' = {}
  /\ queue' = <<>> /\ busy' = {} /\ wire' = <<>> /\ done' = 0 /\ seen' = 0
  /\ scan' = [c \in Calls |-> Unread]
  /\ newest' = store' /\ slip' = {}
  /\ faults' = faults + 1
  /\ UNCHANGED <<fresh, submits>>

(* loadOwnedCalls reads every body of the partition, then goes through     *)
(* them.  Handlers run meanwhile: the router does not wait for it.         *)
ScanRead(c) ==
  /\ scan[c] = Unread /\ done = Len(wire)
  /\ scan' = [scan EXCEPT ![c] = store[c]]
  /\ UNCHANGED <<memVars, lineVars, store, promise, submits, faults>>

Rehydrate(c) ==
  /\ \A x \in Calls : scan[x] # Unread
  /\ scan[c] # Over /\ Boot \notin busy
  /\ scan' = [scan EXCEPT ![c] = Over]
  /\ IF scan[c].state = "terminating"
     THEN Submit(wire, Boot, Delete(c)) /\ UNCHANGED <<mem, clean>>
     ELSE /\ IF scan[c] = NoBody THEN UNCHANGED <<mem, clean>>
             ELSE /\ mem' = [mem EXCEPT ![c] = scan[c]]
                  /\ clean' = clean \ {c}
          /\ UNCHANGED <<queue, busy, wire, promise, submits>>
  /\ UNCHANGED <<fresh, done, seen, store, faults>>

-----------------------------------------------------------------------------
Next ==
  \/ \E d \in Drainers : Take(d)
  \/ \E by \in Calls \cup {Boot, Sweep} : Timeout(by)
  \/ \E c \in Calls : \/ Create(c) \/ Flush(c) \/ FlushAgain(c) \/ Remove(c)
                      \/ Purge(c) \/ Load(c) \/ ScanRead(c) \/ Rehydrate(c)
  \/ Execute \/ Reply \/ LoadReply
  \/ Refuse \/ Reconnect \/ GiveUp \/ Crash

Spec == Init /\ [][Next]_vars

(* Drainers run, Redis executes what it is sent, and replies arrive.  No   *)
(* fairness for handlers, timeouts, or faults.                             *)
FairSpec ==
  /\ Spec
  /\ \A d \in Drainers : WF_vars(Take(d))
  /\ WF_vars(Execute) /\ WF_vars(Reply \/ LoadReply)
  /\ \A c \in Calls : WF_vars(ScanRead(c)) /\ WF_vars(Rehydrate(c))

-----------------------------------------------------------------------------
(* Properties                                                              *)

Bodies == [state : States, gen : Nat] \cup {NoBody}
Jobs == [op : {"put", "del", "get"}, call : Calls, body : Bodies]
Issuers == Drainers \cup Calls \cup {Boot, Sweep}
Commands == [by : Issuers \cup {Nobody}, job : Jobs]

(* The types, the bound of the queue, and that the connection has executed *)
(* no more than it was given.                                              *)
TypeOK ==
  /\ mem \in [Calls -> Bodies] /\ store \in [Calls -> Bodies]
  /\ newest \in [Calls -> Bodies]
  /\ clean \subseteq Calls /\ fresh \subseteq Calls /\ slip \subseteq Calls
  /\ queue \in Seq(Jobs) /\ Len(queue) =< QueueMax
  /\ wire \in Seq(Commands)
  /\ busy \subseteq Issuers
  /\ done \in 0..Len(wire) /\ seen \in done..Len(wire)
  /\ scan \in [Calls -> (Bodies \cup {Unread, Over})]
  /\ submits \in Nat /\ faults \in Nat

Outstanding(c) == Queued(c) \/ OnWire(wire, c)

(* Once nothing is outstanding for a call, the store holds what was        *)
(* submitted last: whatever the number of drainers, the fall-throughs and  *)
(* the commands issued twice, unless the newest write was put ahead of an  *)
(* older one or was given up (submit, the drainers, runJob).               *)
Settled == \A c \in Calls : c \in slip \/ Outstanding(c) \/ store[c] = newest[c]

(* Why it is so.  The body of a call is what the last executed write of it *)
(* says, and the newest write is the last of those outstanding.            *)
StoreFollows(w, n) ==
  \A c \in Calls : \A i \in 1..n :
     LastWrite(w, n, c, i) => store[c] = w[i].job.body

NewestIsLast(w) ==
  \A c \in Calls \ slip :
    /\ \A i \in DOMAIN queue :
         queue[i].call = c /\ (\A j \in i + 1..Len(queue) : queue[j].call # c)
           => queue[i].body = newest[c]
    /\ ~Queued(c) => \A i \in DOMAIN w :
         LastWrite(w, Len(w), c, i) => w[i].job.body = newest[c]
    /\ ~Queued(c) /\ ~OnWire(w, c) => store[c] = newest[c]

LineInv ==
  /\ \A i \in DOMAIN queue : Writes(queue[i])
  /\ StoreFollows(wire, done)
  /\ NewestIsLast(wire)

(* A load that brings back anything but the newest write can only do so    *)
(* while that write, or an older one, is still in the queue or being       *)
(* issued (loadCall reads past the queue).                                 *)
LoadsNewest ==
  [][\A c \in Calls :
       mem[c] = NoBody /\ mem'[c] # NoBody /\ c \notin fresh /\ scan' = scan
       => c \in slip \/ mem'[c] = newest[c] \/ Outstanding(c)]_vars

(* Every write lands or is given up: in the end the store agrees with the  *)
(* newest write of every call that did not slip.                           *)
EventuallySettled ==
  \A c \in Calls : <>[](c \in slip \/ store[c] = newest[c])

(* The promise of OrderedStore: a command executed a second time does not  *)
(* show, because the reads of this worker come after it on the wire.  What *)
(* is in line is what no connection has executed, and then what is queued. *)
NoWrite == [state |-> "read", gen |-> 0]

Request(job) ==
  [call |-> job.call, value |-> IF Writes(job) THEN job.body ELSE NoWrite]

Line ==
  LET ahead == Len(wire) - seen
  IN  [i \in 1..ahead + Len(queue) |->
         Request(IF i =< ahead THEN wire[seen + i].job ELSE queue[i - ahead])]

Promise ==
  INSTANCE OrderedStore
    WITH Values  <- Bodies,
         NoValue <- NoBody,
         Nothing <- NoWrite,
         kept    <- [c \in Calls |-> After(seen, c)],
         line    <- Line

KeepsThePromise == Promise!Spec
=============================================================================
