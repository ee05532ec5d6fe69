---------------------------- MODULE Supervision ----------------------------
(***************************************************************************)
(* How a worker comes to follow its peers: the peer scan at boot, the      *)
(* supervisor that forks and interrupts one puller per peer as DNS lists   *)
(* and drops them, the puller's reconnects, and the controller that calls  *)
(* the worker ready.                                                       *)
(*                                                                         *)
(* Time is counted in ticks, and steps that wait for nothing take none.    *)
(* What the pullers carry is in Replog.                                    *)
(***************************************************************************)
EXTENDS Integers

CONSTANTS
  Peers,        \* the other workers
  Deadline,     \* replicationBootstrapTimeoutMs
  RetryDelay,   \* perPeerRetryDelayMs
  TMin, TMax,   \* of the readiness controller
  MaxBackoff,   \* maxBackoffMs; the initial backoff is one tick
  Threshold     \* failedThresholdMs

ASSUME SupervisionAssumption ==
  /\ Deadline \in Nat \ {0} /\ RetryDelay \in Nat
  /\ TMin \in Nat \ {0} /\ TMax \in Nat /\ TMin =< TMax
  /\ MaxBackoff \in Nat \ {0} /\ Threshold \in Nat

VARIABLES
  listed,   \* currentPeers of the enumerator
  import,   \* per peer, how far the scan of its copies is
  left,     \* ticks until the deadline of the scans
  pc,       \* of the supervisor
  snap,     \* the peers it read at the start of this reconcile
  todo,     \* those of them it has not looked at
  held,     \* peers whose slot has a fiber
  life,     \* per peer, the newest fiber itself
  view,     \* fiberState of the peer's view
  caught,   \* peers whose view says everCaughtUp
  delay,    \* per peer, the next backoff: initialBackoffMs * 2^delay, capped
  since,    \* per peer, ticks since the fiber's first error, or NoError
  sleep,    \* per peer, ticks until the next try
  elapsed,  \* ticks since the controller was started
  worker,   \* WorkerState
  always    \* peers listed without a break since boot

importVars == <<import, left>>
supVars    == <<pc, snap, todo, held>>
fiberVars  == <<life, view, caught, delay, since>>
readyVars  == <<elapsed, worker>>
vars == <<listed, importVars, supVars, fiberVars, sleep, readyVars, always>>

NoError == -1
InitialBackoff == 1
Less(n) == IF n = 0 THEN 0 ELSE n - 1
UpToPast(n, max) == IF n <= max THEN n + 1 ELSE max     \* off by one
UpTo(n, max) == IF n < max THEN n + 1 ELSE max

Init ==
  /\ listed \in SUBSET Peers /\ always = listed
  /\ import = [p \in Peers |-> IF p \in listed THEN "first" ELSE "none"]
  /\ left = Deadline
  /\ pc = "main" /\ snap = {} /\ todo = {} /\ held = {}
  /\ life = [p \in Peers |-> "none"]
  /\ view = [p \in Peers |-> "Discovered"]
  /\ caught = {}
  /\ delay = [p \in Peers |-> InitialBackoff] /\ since = [p \in Peers |-> NoError]
  /\ sleep = [p \in Peers |-> 0]
  /\ elapsed = 0 /\ worker = "Booting"

-----------------------------------------------------------------------------
(* PeerEnumerator: an answer replaces the snapshot, ENOTFOUND empties it,  *)
(* any other failure keeps it.                                             *)
Lookup ==
  /\ \E answer \in SUBSET Peers : listed' = answer
  /\ always' = always \cap listed'
  /\ UNCHANGED <<importVars, supVars, fiberVars, sleep, readyVars>>

-----------------------------------------------------------------------------
(* runPeerScanBootstrap: two attempts per peer, one deadline for all       *)

Importing(p) == import[p] \in {"first", "second"}
Over(p) == import[p] \in {"none", "ok", "error", "timeout"}

ImportOk(p) ==
  /\ Importing(p) /\ left > 0
  /\ import' = [import EXCEPT ![p] = "ok"]
  /\ UNCHANGED <<listed, left, supVars, fiberVars, sleep, readyVars, always>>

ImportFails(p) ==
  /\ Importing(p) /\ left > 0
  /\ IF import[p] = "first" /\ left > RetryDelay
     THEN /\ import' = [import EXCEPT ![p] = "pause"]
          /\ sleep' = [sleep EXCEPT ![p] = RetryDelay]
     ELSE /\ import' = [import EXCEPT ![p] = IF @ = "first" THEN "timeout"
                                                            ELSE "error"]
          /\ UNCHANGED sleep
  /\ UNCHANGED <<listed, left, supVars, fiberVars, readyVars, always>>

ImportAgain(p) ==
  /\ import[p] = "pause" /\ sleep[p] = 0 /\ left > 0
  /\ import' = [import EXCEPT ![p] = "second"]
  /\ UNCHANGED <<listed, left, supVars, fiberVars, sleep, readyVars, always>>

(* timeoutOption interrupts an attempt; a pause ends past the deadline. *)
ImportTimeout(p) ==
  /\ ~Over(p) /\ left = 0
  /\ import' = [import EXCEPT ![p] = "timeout"]
  /\ UNCHANGED <<listed, left, supVars, fiberVars, sleep, readyVars, always>>

-----------------------------------------------------------------------------
(* ReplicationSupervisor                                                   *)

(* The start of a reconcile. *)
ReadPeers == pc' = "fork" /\ snap' = listed /\ todo' = listed

(* The results of the scans are logged, nothing else. *)
LeaveMain ==
  /\ ReadPeers
  /\ import' = [p \in Peers |-> "none"] /\ left' = 0
  /\ UNCHANGED <<listed, held, fiberVars, sleep, readyVars, always>>

StartUnfinished ==                    \* the first result is enough
  /\ pc = "main" /\ (\E p \in Peers : Over(p))
  /\ ReadPeers
  /\ UNCHANGED <<listed, importVars, held, fiberVars, sleep, readyVars, always>>
(* runReplicationConsumer: all results are in, then supervisor and         *)
(* controller are started.                                                 *)
Start == pc = "main" /\ (\A p \in Peers : Over(p)) /\ LeaveMain

Reconcile ==
  /\ pc = "due" /\ ReadPeers
  /\ UNCHANGED <<listed, importVars, held, fiberVars, sleep, readyVars, always>>

(* What a fiber keeps for itself begins and ends with it. *)
NewLocals(p) ==
  /\ delay' = [delay EXCEPT ![p] = InitialBackoff]
  /\ since' = [since EXCEPT ![p] = NoError]
  /\ sleep' = [sleep EXCEPT ![p] = 0]

(* A listed peer without a fiber gets one; the view keeps its evidence. *)
Fork(p) ==
  /\ pc = "fork" /\ p \in todo
  /\ todo' = todo \ {p} /\ held' = held \cup {p}
  /\ IF p \in held THEN UNCHANGED <<fiberVars, sleep>>
     ELSE /\ life' = [life EXCEPT ![p] = "running"]
          /\ view' = [view EXCEPT ![p] = "Discovered"]
          /\ NewLocals(p)
          /\ UNCHANGED caught
  /\ UNCHANGED <<listed, importVars, pc, snap, readyVars, always>>

InterruptNoWait(p) ==                 \* the end of the fiber is not waited for
  /\ pc = "fork" /\ todo = {} /\ p \in held \ snap
  /\ held' = held \ {p}
  /\ life' = [life EXCEPT ![p] = IF @ = "running" THEN "ending" ELSE "none"]
  /\ view' = [view EXCEPT ![p] = "Disappeared"]
  /\ NewLocals(p)
  /\ UNCHANGED <<listed, importVars, pc, snap, todo, caught, readyVars, always>>
(* A peer with a fiber that is not listed: the slot is emptied, then the   *)
(* fiber is interrupted and waited for.                                    *)
Interrupt(p) ==
  /\ pc = "fork" /\ todo = {} /\ p \in held \ snap
  /\ pc' = "await" /\ held' = held \ {p}
  /\ life' = [life EXCEPT ![p] = IF @ = "running" THEN "ending" ELSE @]
  /\ NewLocals(p)
  /\ UNCHANGED <<listed, importVars, snap, todo, view, caught, readyVars, always>>

(* The interrupted fiber has closed its stream; a dead one had ended. *)
Disappear(p) ==
  /\ pc = "await" /\ p \notin held /\ life[p] \in {"ending", "dead"}
  /\ pc' = "fork"
  /\ life' = [life EXCEPT ![p] = "none"]
  /\ view' = [view EXCEPT ![p] = "Disappeared"]
  /\ UNCHANGED <<listed, importVars, snap, todo, held, caught, delay,
                 since, sleep, readyVars, always>>

Rest ==
  /\ pc = "fork" /\ todo = {} /\ held \subseteq snap
  /\ pc' = "sleep" /\ snap' = {}
  /\ UNCHANGED <<listed, importVars, todo, held, fiberVars, sleep, readyVars,
                 always>>

-----------------------------------------------------------------------------
(* PullerFiber                                                             *)

Errored == {"ErroredRetry", "ErroredFailed"}

ConnectUnlessFailed(p) ==             \* ErroredFailed is the end
  /\ life[p] = "running" /\ view[p] \in {"Discovered", "ErroredRetry"}
  /\ sleep[p] = 0
  /\ view' = [view EXCEPT ![p] = "Streaming"]
  /\ UNCHANGED <<listed, importVars, supVars, life, caught, delay,
                 since, sleep, readyVars, always>>
(* Connecting and then, nothing awaited in between, Streaming. *)
Connect(p) ==
  /\ life[p] = "running" /\ view[p] \in {"Discovered"} \cup Errored
  /\ sleep[p] = 0
  /\ view' = [view EXCEPT ![p] = "Streaming"]
  /\ UNCHANGED <<listed, importVars, supVars, life, caught, delay,
                 since, sleep, readyVars, always>>

Streams(p) == life[p] = "running" /\ view[p] = "Streaming"

(* A noop, the evidence of having caught up; of a data frame nothing is kept. *)
Frame(p) ==
  /\ Streams(p)
  /\ caught' = caught \cup {p}
  /\ UNCHANGED <<listed, importVars, supVars, life, view, delay, since,
                 sleep, readyVars, always>>

Doubled(n) == IF 2 * n < MaxBackoff THEN 2 * n ELSE MaxBackoff

(* The stream fails or ends.  Neither the delay nor the time of the first  *)
(* error are ever set back.                                                *)
Lost(p) ==
  /\ Streams(p)
  /\ since' = [since EXCEPT ![p] = IF @ = NoError THEN 0 ELSE @]
  /\ view' = [view EXCEPT ![p] = IF since'[p] >= Threshold THEN "ErroredFailed"
                                                         ELSE "ErroredRetry"]
  /\ sleep' = [sleep EXCEPT ![p] = delay[p]]
  /\ delay' = [delay EXCEPT ![p] = Doubled(@)]
  /\ UNCHANGED <<listed, importVars, supVars, life, caught, readyVars, always>>

(* A failed apply is a defect: the fiber ends, its slot and view stay. *)
Die(p) ==
  /\ Streams(p)
  /\ life' = [life EXCEPT ![p] = "dead"]
  /\ NewLocals(p)
  /\ UNCHANGED <<listed, importVars, supVars, view, caught, readyVars, always>>

-----------------------------------------------------------------------------
(* ReadinessController                                                     *)

ControllerAtOnce ==                   \* T_min is not waited for
  /\ pc # "main" /\ worker # "Ready"
  /\ worker' = IF held \subseteq caught \/ elapsed >= TMax THEN "Ready"
               ELSE IF held # {} THEN "Bootstrapping" ELSE worker
  /\ UNCHANGED <<listed, importVars, supVars, fiberVars, sleep, elapsed, always>>
ControllerNoCeiling ==                \* T_max is forgotten
  /\ pc # "main" /\ worker # "Ready"
  /\ worker' = IF elapsed >= TMin /\ held \subseteq caught THEN "Ready"
               ELSE IF held # {} THEN "Bootstrapping" ELSE worker
  /\ UNCHANGED <<listed, importVars, supVars, fiberVars, sleep, elapsed, always>>
(* One tick.  The peers that count are those with a fiber. *)
Controller ==
  /\ pc # "main" /\ worker # "Ready"
  /\ worker' = IF elapsed >= TMin /\ (held \subseteq caught \/ elapsed >= TMax)
               THEN "Ready"
               ELSE IF held # {} THEN "Bootstrapping" ELSE worker
  /\ UNCHANGED <<listed, importVars, supVars, fiberVars, sleep, elapsed, always>>

-----------------------------------------------------------------------------
(* Time passes while the supervisor sleeps or waits; watchIntervalMs is at *)
(* least one tick.                                                         *)
Tick ==
  /\ pc # "fork" /\ pc' = IF pc = "sleep" THEN "due" ELSE pc
  /\ left' = Less(left)
  /\ sleep' = [p \in Peers |-> Less(sleep[p])]
  /\ since' = [p \in Peers |-> IF since[p] = NoError THEN NoError
                                ELSE UpTo(since[p], Threshold)]
  /\ elapsed' = IF pc = "main" THEN elapsed ELSE UpTo(elapsed, TMax)
  /\ UNCHANGED <<listed, import, snap, todo, held, life, view, caught,
                 delay, worker, always>>

ImportStep(p) == ImportOk(p) \/ ImportFails(p) \/ ImportAgain(p) \/ ImportTimeout(p)
SupervisorStep ==
  \/ Start \/ Reconcile \/ Rest
  \/ \E p \in Peers : Fork(p) \/ Interrupt(p) \/ Disappear(p)

Next ==
  \/ Lookup \/ SupervisorStep \/ Controller \/ Tick
  \/ \E p \in Peers : \/ ImportStep(p) \/ Connect(p) \/ Frame(p) \/ Lost(p)
                      \/ Die(p)

Spec == Init /\ [][Next]_vars

(* Timers fire and fibers run; no fairness for DNS, peers and defects. *)
FairSpec ==
  /\ Spec
  /\ WF_vars(Tick) /\ WF_vars(Controller) /\ WF_vars(SupervisorStep)
  /\ \A p \in Peers : /\ WF_vars(Connect(p)) /\ WF_vars(ImportAgain(p))
                      /\ WF_vars(ImportTimeout(p))

-----------------------------------------------------------------------------
(* Properties                                                              *)

TypeOK ==
  /\ listed \subseteq Peers /\ snap \subseteq Peers /\ todo \subseteq snap
  /\ held \subseteq Peers /\ caught \subseteq Peers
  /\ always \subseteq listed
  /\ import \in [Peers -> {"none", "first", "pause", "second", "ok", "error",
                           "timeout"}]
  /\ left \in 0..Deadline
  /\ pc \in {"main", "fork", "await", "sleep", "due"}
  /\ life \in [Peers -> {"none", "running", "ending", "dead"}]
  /\ view \in [Peers -> {"Discovered", "Streaming", "Disappeared"} \cup Errored]
  /\ delay \in [Peers -> 1..MaxBackoff] /\ sleep \in [Peers -> Nat]
  /\ since \in [Peers -> {NoError} \cup 0..Threshold]
  /\ elapsed \in 0..TMax
  /\ worker \in {"Booting", "Bootstrapping", "Ready"}

(* A slot has a fiber if and only if the peer's newest fiber was not        *)
(* interrupted, the supervisor waits for at most one fiber at a time, and a *)
(* peer shown as Disappeared has no fiber left that could write its view    *)
(* (reconcile: slot.fiber, Fiber.interrupt, viewRef).                       *)
SlotsTrue ==
  /\ \A p \in Peers :
       /\ p \in held => life[p] \in {"running", "dead"}
       /\ p \notin held /\ life[p] # "none" => pc = "await" /\ life[p] # "running"
       /\ view[p] = "Disappeared" => life[p] = "none"
  /\ \A p, q \in Peers \ held :
       life[p] # "none" /\ life[q] # "none" => p = q

(* While any peer's copies are imported, ungated, no puller applies frames  *)
(* to the same partition (runReplicationConsumer, timeoutOption).           *)
ImportsFirst ==
  \A p, q \in Peers : ~Over(p) => life[q] = "none" /\ worker = "Booting"

(* The worker is called ready before T_max only when every peer that was    *)
(* listed at boot and ever since has sent a noop, however the supervisor    *)
(* and the controller interleave (T_min, alivePeers, everCaughtUp).         *)
ReadyHeardAll ==
  [][worker # "Ready" /\ worker' = "Ready" /\ elapsed < TMax
       => always \subseteq caught]_vars

(* Every worker gets ready, whatever its peers and DNS do. *)
EventuallyReady == <>(worker = "Ready")

(* A peer that stays listed is streamed from again and again, whatever      *)
(* happened before, unless its fiber died of a defect.                      *)
ListedIsPulled ==
  \A p \in Peers :
    <>[](p \in listed /\ life[p] # "dead") => []<>Streams(p)
=============================================================================
