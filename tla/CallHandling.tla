---------------------------- MODULE CallHandling ----------------------------
(***************************************************************************)
(* How one worker handles the events of one callRef: the queue and worker  *)
(* fiber of PerCallDispatcher, the permit and the map entry of CallState,  *)
(* the handlers SipRouter runs under it, the timers of TimerService, and   *)
(* the two fibers that force-purge a call without asking for the permit.   *)
(*                                                                         *)
(* A handler holds what it loaded (base) while it awaits other services,   *)
(* then writes the call back and runs its effects in a fixed order:        *)
(* update, critical, outbound, limiter release, CDR.  Between two of these *)
(* steps other fibers run and the handler's time budget may run out.       *)
(*                                                                         *)
(* A call that is not in memory is asked of the storage, past the writes   *)
(* that are still on their way (CallStore): a call that was removed may be *)
(* read back.                                                              *)
(***************************************************************************)
EXTENDS Naturals, Sequences, FiniteSets

CONSTANTS
  Legs,        \* the legs of the call
  QueueDepth,  \* perCallQueueDepth
  MaxLives,    \* how often the callRef is used
  MaxEvents,   \* in-dialog messages dispatched
  MaxForks,    \* asynchronous REFER lookups
  Budgets,     \* may eventHandlerTimeoutMs and timerHandlerTimeoutMs run out?
  TimerWaits   \* may a call timer's handler give way before its effects?

ASSUME HandlingAssumption ==
  /\ QueueDepth \in Nat \ {0} /\ MaxLives \in Nat /\ MaxEvents \in Nat
  /\ MaxForks \in Nat
  /\ Budgets \in BOOLEAN /\ TimerWaits \in BOOLEAN

VARIABLES
  call,       \* callsMap: the call in memory, or NoCall
  exists,     \* perCallQueues has an entry, and its worker fiber lives
  queue,      \* the per-call queue
  slot,       \* semaphores: the permit a newcomer will wait for, 0 if none
  holder,     \* who holds each permit
  entry,      \* fibersMap: a timer's fiber, "asleep" or "running" its handler
  direct,     \* the timer fiber that has not given way since it fired
  pc,         \* where each fiber is
  base,       \* the call a fiber loaded
  out,        \* what a handler made of it
  sem,        \* the permit a handler waits for or holds
  caller,     \* "idle", or "calling" until a final response is sent
  events,     \* in-dialog messages dispatched so far
  forks,      \* lookups forked so far
  lives,      \* calls created so far
  cdrs,       \* the lives a CDR was written of
  released,   \* the lives whose limiter slots were released
  stored,     \* the active calls written to the storage so far
  revived,    \* the lives that were read back from it after their removal
  stale       \* handlers whose base was overwritten since they loaded it

dispatchVars == <<exists, queue>>
permitVars   == <<slot, holder, sem>>
timerVars    == <<entry, direct>>
countVars    == <<events, forks, lives>>
endVars      == <<cdrs, released>>
storeVars    == <<stored, revived>>
vars == <<call, dispatchVars, permitVars, timerVars, pc, base, out, caller,
          countVars, endVars, storeVars, stale>>

Handlers == {"worker", "timer", "fork"}
Fibers   == Handlers \cup {"safety", "sweep"}
Timers   == {"timer", "safety"}
Nobody   == "nobody"
Permits  == 1..4

NoCall == [life |-> 0, state |-> "none", refreshed |-> {}]
Skeleton(l) == [life |-> l, state |-> "active", refreshed |-> {}]

Init ==
  /\ call = NoCall
  /\ exists = FALSE /\ queue = <<>>
  /\ slot = 0 /\ holder = [i \in Permits |-> Nobody]
  /\ sem = [h \in Handlers |-> 0]
  /\ entry = [t \in Timers |-> "none"] /\ direct = "none"
  /\ pc = [f \in Fibers |-> "idle"]
  /\ base = [f \in Fibers |-> NoCall]
  /\ out = [f \in Fibers |-> "none"]
  /\ caller = "idle"
  /\ events = 0 /\ forks = 0 /\ lives = 0
  /\ cdrs = {} /\ released = {} /\ stored = {} /\ revived = {}
  /\ stale = {}

-----------------------------------------------------------------------------
(* PerCallDispatcher                                                       *)

(* offerUnsafe: refused by a full queue. *)
Offer(item) == IF Len(queue) < QueueDepth THEN Append(queue, item) ELSE queue

(* dispatch: a queue is created on the first event of a callRef. *)
Dispatch(item) ==
  /\ exists' = TRUE
  /\ queue' = IF exists THEN Offer(item) ELSE <<item>>

(* enqueuePoison: nothing without a queue, and a full one drops it. *)
Poison == queue' = IF exists THEN Offer("poison") ELSE queue

(* A caller that was given a final response may try again with the same    *)
(* Call-ID and From tag, and so with the same callRef (RFC 3261 8.1.3.5).  *)
Invite ==
  /\ caller = "idle" /\ lives < MaxLives
  /\ caller' = "calling"
  /\ Dispatch("invite")
  /\ UNCHANGED <<call, permitVars, timerVars, pc, base, out, countVars,
                 endVars, storeVars, stale>>

(* Any other message or transaction event of the call. *)
Message ==
  /\ events < MaxEvents /\ lives > 0
  /\ events' = events + 1
  /\ Dispatch("message")
  /\ UNCHANGED <<call, permitVars, timerVars, pc, base, out, caller, forks,
                 lives, endVars, storeVars, stale>>

(* workerLoop at the POISON: what is queued behind it is discarded, the    *)
(* map entry removed, and the fiber is gone.                               *)
WorkerExits ==
  /\ exists /\ pc["worker"] = "idle"
  /\ queue # <<>> /\ Head(queue) = "poison"
  /\ exists' = FALSE /\ queue' = <<>>
  /\ UNCHANGED <<call, permitVars, timerVars, pc, base, out, caller,
                 countVars, endVars, storeVars, stale>>

-----------------------------------------------------------------------------
(* Fibers                                                                  *)

(* Fiber f goes on at step p with the outcome o; the fibers in S are over, *)
(* interrupted or done, and the permits they held are free.                *)
Moves(f, p, o, S) ==
  /\ pc' = [g \in Fibers |-> IF g \in S THEN "idle" ELSE IF g = f THEN p ELSE pc[g]]
  /\ out' = [g \in Fibers |-> IF g \in S THEN "none" ELSE IF g = f THEN o ELSE out[g]]
  /\ base' = [g \in Fibers |-> IF g \in S THEN NoCall ELSE base[g]]
  /\ sem' = [h \in Handlers |-> IF h \in S THEN 0 ELSE sem[h]]
  /\ holder' = [i \in Permits |-> IF holder[i] \in S THEN Nobody ELSE holder[i]]
  /\ direct' = IF direct \in S THEN "none" ELSE direct

(* The end of a fiber; onExit drops the entry of a timer that still has it.*)
Ends(f) ==
  /\ Moves(f, "idle", "none", {f})
  /\ entry' = [t \in Timers |->
                 IF t = f /\ entry[t] = "running" THEN "none" ELSE entry[t]]

(* The timer's fiber races its handler, as a fiber of its own, against the *)
(* handler's budget.  Until that handler first gives way, the race has not *)
(* been set up and the timer's fiber is not parked in it.                  *)
GiveWay ==
  /\ direct # "none"
  /\ ~TimerWaits /\ direct = "timer" => pc["timer"] \notin {"wait", "run", "updated"}
  /\ direct' = "none"
  /\ UNCHANGED <<call, dispatchVars, permitVars, entry, pc, base, out, caller,
                 countVars, endVars, storeVars, stale>>

(* TimerService.cancel, by fiber f: interrupt the timer's fiber and wait   *)
(* for its end.  The handler of a timer is not its own "self" here: the    *)
(* timer's fiber, once parked, ends only after its handler, which in its   *)
(* critical effects cannot be interrupted and waits for it.                *)
NeverEnds(f, t) ==
  /\ t = "timer" /\ entry[t] = "running"
  /\ pc[t] = "stuck" \/ (f = t /\ direct # t)

(* f cancels the timers in T, and fibersMap becomes e. *)
Cancels(f, p, T, e) ==
  /\ \A t \in T : ~NeverEnds(f, t)
  /\ Moves(f, p, out[f], {t \in T \ {f} : entry[t] = "running"})
  /\ entry' = e

(* ... or waits for ever, some of the sleeping ones cancelled before. *)
Hangs(f, T) ==
  /\ \E t \in T : NeverEnds(f, t)
  /\ pc' = [pc EXCEPT ![f] = "stuck"]
  /\ \E S \in SUBSET {t \in T : entry[t] = "asleep"} :
       entry' = [t \in Timers |-> IF t \in S THEN "none" ELSE entry[t]]
  /\ UNCHANGED <<call, dispatchVars, permitVars, direct, base, out, caller,
                 countVars, endVars, storeVars, stale>>

NoTimers == [t \in Timers |-> "none"]

-----------------------------------------------------------------------------
(* CallState.withCall: the permit of the callRef                           *)

Unused(i) == holder[i] = Nobody /\ \A g \in Handlers : sem[g] # i

(* getSemaphore: a new one if there is none, and the wait for its permit.  *)
Enter(h) ==
  /\ pc' = [pc EXCEPT ![h] = "wait"]
  /\ \E i \in Permits :
       /\ IF slot # 0 THEN i = slot
          ELSE Unused(i) /\ \A k \in Permits : Unused(k) => i =< k
       /\ slot' = i
       /\ sem' = [sem EXCEPT ![h] = i]

WorkerTakesMessage ==
  /\ exists /\ pc["worker"] = "idle"
  /\ queue # <<>> /\ Head(queue) = "message"
  /\ queue' = Tail(queue)
  /\ Enter("worker")
  /\ UNCHANGED <<call, exists, holder, timerVars, base, out, caller,
                 countVars, endVars, storeVars, stale>>

(* The timer's sleep is over: timerHandler. *)
TimerFires ==
  /\ entry["timer"] = "asleep" /\ pc["timer"] = "idle"
  /\ ~TimerWaits /\ slot # 0 => holder[slot] = Nobody
  /\ entry' = [entry EXCEPT !["timer"] = "running"]
  /\ direct' = "timer"
  /\ Enter("timer")
  /\ UNCHANGED <<call, dispatchVars, holder, base, out, caller, countVars,
                 endVars, storeVars, stale>>

(* The answer to a forked REFER lookup re-enters as an internal event. *)
ForkReturns ==
  /\ pc["fork"] = "http"
  /\ Enter("fork")
  /\ UNCHANGED <<call, dispatchVars, holder, timerVars, base, out, caller,
                 countVars, endVars, storeVars, stale>>

LoadAnyway(h) ==                      \* without waiting for the permit
  /\ direct \in {"none", h}
  /\ pc[h] = "wait"
  /\ holder' = [holder EXCEPT ![sem[h]] = h]
  /\ base' = [base EXCEPT ![h] = call]
  /\ pc' = [pc EXCEPT ![h] = IF call = NoCall THEN "fetch" ELSE "run"]
  /\ stale' = stale \ {h}
  /\ UNCHANGED <<call, dispatchVars, slot, sem, timerVars, out, caller,
                 countVars, endVars, storeVars>>
LoadBlindly(h) ==                     \* whether there is a call or not
  /\ direct \in {"none", h}
  /\ pc[h] = "wait" /\ holder[sem[h]] = Nobody
  /\ holder' = [holder EXCEPT ![sem[h]] = h]
  /\ base' = [base EXCEPT ![h] = call]
  /\ pc' = [pc EXCEPT ![h] = "run"]
  /\ stale' = stale \ {h}
  /\ UNCHANGED <<call, dispatchVars, slot, sem, timerVars, out, caller,
                 countVars, endVars, storeVars>>
(* The permit is taken and the call loaded from memory; if it is not       *)
(* there, the storage is asked.                                            *)
Load(h) ==
  /\ direct \in {"none", h}
  /\ pc[h] = "wait" /\ holder[sem[h]] = Nobody
  /\ holder' = [holder EXCEPT ![sem[h]] = h]
  /\ base' = [base EXCEPT ![h] = call]
  /\ pc' = [pc EXCEPT ![h] = IF call = NoCall THEN "fetch" ELSE "run"]
  /\ stale' = stale \ {h}
  /\ UNCHANGED <<call, dispatchVars, slot, sem, timerVars, out, caller,
                 countVars, endVars, storeVars>>

(* The storage answers with an active call written so far: the writes that *)
(* followed may be queued still, be overtaken by an older one or have been *)
(* given up (CallStore).  It is put into memory, whatever is there by now. *)
ReadBack(h, body) ==
  /\ direct = "none" /\ pc[h] = "fetch" /\ body \in stored
  /\ call' = body
  /\ base' = [base EXCEPT ![h] = body]
  /\ pc' = [pc EXCEPT ![h] = "run"]
  /\ revived' = revived \cup {body.life}
  /\ stale' = {g \in Handlers \ {h} : pc[g] = "run"} \cup (stale \ {h})
  /\ UNCHANGED <<dispatchVars, permitVars, timerVars, out, caller, countVars,
                 endVars, stored>>

(* A terminated body, or none, is no call; nor is a terminating one, which *)
(* is deleted from the storage.                                            *)
NotFound(h) ==
  /\ direct = "none" /\ pc[h] = "fetch"
  /\ pc' = [pc EXCEPT ![h] = "vanished"]
  /\ UNCHANGED <<call, dispatchVars, permitVars, timerVars, base, out, caller,
                 countVars, endVars, storeVars, stale>>

(* RedisError: the handler is not run, and the permit slot is not dropped. *)
FetchFails(h) ==
  /\ direct = "none" /\ pc[h] = "fetch"
  /\ Ends(h)
  /\ UNCHANGED <<call, dispatchVars, slot, caller, countVars, endVars,
                 storeVars, stale>>

(* No such call: a 481, and the permit slot is dropped - whichever permit  *)
(* it holds by now.                                                        *)
Vanished(h) ==
  /\ pc[h] = "vanished"
  /\ Ends(h)
  /\ slot' = 0
  /\ UNCHANGED <<call, dispatchVars, caller, countVars, endVars, storeVars, stale>>

-----------------------------------------------------------------------------
(* SipRouter: handleInitialInvite, processResult and CallState underneath  *)

(* handleInitialInvite: the skeleton is put in memory without the permit,  *)
(* then the decision service and the limiter are asked.                    *)
Create ==
  /\ exists /\ pc["worker"] = "idle"
  /\ queue # <<>> /\ Head(queue) = "invite" /\ lives < MaxLives
  /\ queue' = Tail(queue)
  /\ lives' = lives + 1
  /\ call' = Skeleton(lives + 1)
  /\ base' = [base EXCEPT !["worker"] = Skeleton(lives + 1)]
  /\ pc' = [pc EXCEPT !["worker"] = "run"]
  /\ stale' = {h \in Handlers \ {"worker"} : pc[h] = "run"}
  /\ UNCHANGED <<exists, permitVars, timerVars, out, caller, events, forks,
                 endVars, storeVars>>

(* A request on a terminating call, neither BYE nor ACK, is answered 481   *)
(* before any rule sees it.                                                *)
FastReject ==
  /\ pc["worker"] = "run" /\ base["worker"].state = "terminating"
  /\ Ends("worker")
  /\ UNCHANGED <<call, dispatchVars, slot, caller, countVars, endVars, storeVars, stale>>

(* What the rules may make of a call in this state; a terminating call     *)
(* whose legs are all resolved is promoted to terminated.                  *)
Outcomes(state) ==
  IF state = "active" THEN {"keep", "terminate", "reject"}
  ELSE IF state = "terminating" THEN {"keep", "resolve"}
  ELSE {"keep"}

After(b, o) ==
  [b EXCEPT !.state = CASE o = "terminate" -> "terminating"
                        [] o \in {"reject", "resolve"} -> "terminated"
                        [] OTHER -> @]

(* CallState.update with the call a handler returned: nothing for a call   *)
(* that is gone.  Entering "terminating", and once per leg while in it,    *)
(* the safety timer is scheduled in the same uninterruptible step.         *)
Update(h, o, leg) ==
  /\ pc[h] = "run" /\ o \in Outcomes(base[h].state)
  /\ LET next == After(base[h], o)
         in == next.state = "terminating" /\ call # NoCall
         enters == in /\ call.state # "terminating"
         refreshes == in /\ call.state = "terminating" /\ leg \notin next.refreshed
         legs == IF enters THEN {}
                 ELSE IF refreshes THEN next.refreshed \cup {leg} ELSE next.refreshed
         rearmed == IF enters \/ refreshes THEN {"safety"} ELSE {}
     IN /\ call' = IF call = NoCall THEN NoCall
                   ELSE [next EXCEPT !.refreshed = legs]
        /\ Moves(h, "updated", o, {t \in rearmed : entry[t] = "running"})
        /\ entry' = [t \in Timers |-> IF t \in rearmed THEN "asleep" ELSE entry[t]]
  /\ stale' = {g \in Handlers \ {h} : pc[g] = "run"} \cup (stale \ {h})
  /\ UNCHANGED <<dispatchVars, slot, caller, countVars, endVars, storeVars>>

(* flushToRedis: the call as it is in memory is written to the storage; a  *)
(* body that is not active is for a load the same as none.                 *)
Flush ==
  /\ stored' = IF call.state = "active" THEN stored \cup {call} ELSE stored
  /\ UNCHANGED revived

(* The critical effects of a call that goes on: its timer may be scheduled *)
(* again, the fiber it still has in fibersMap being cancelled; the call is *)
(* flushed if it changed in more than its count of messages.               *)
CriticalKeep(h) ==
  /\ pc[h] = "updated" /\ out[h] = "keep"
  /\ Flush \/ UNCHANGED storeVars
  /\ \/ Moves(h, "outbound", "keep", {}) /\ UNCHANGED entry
     \/ Cancels(h, "outbound", {"timer"}, [entry EXCEPT !["timer"] = "asleep"])
  /\ UNCHANGED <<call, dispatchVars, slot, caller, countVars, endVars, stale>>

(* The critical effects of begin-termination: every timer is cancelled and *)
(* the call flushed.                                                       *)
CriticalTerminate(h) ==
  /\ pc[h] = "updated" /\ out[h] = "terminate"
  /\ Flush
  /\ Cancels(h, "outbound", Timers, NoTimers)
  /\ UNCHANGED <<call, dispatchVars, slot, caller, countVars, endVars, stale>>

(* CallState.remove and the end of forcePurgeOne, the timers cancelled:    *)
(* the call and its permit slot leave memory and the worker is poisoned.   *)
RemoveCall ==
  /\ call' = NoCall /\ slot' = 0
  /\ Poison

(* The critical effects InvariantEnforcer guarantees of a terminated call. *)
CriticalEnd(h) ==
  /\ pc[h] = "updated" /\ out[h] \in {"reject", "resolve"}
  /\ Cancels(h, "outbound", Timers, NoTimers)
  /\ RemoveCall
  /\ stale' = stale \cup {g \in Handlers \ {h} : pc[g] = "run"}
  /\ UNCHANGED <<exists, caller, countVars, endVars, storeVars>>

CriticalHangs(h) ==
  /\ pc[h] = "updated"
  /\ Hangs(h, IF out[h] = "keep" THEN {"timer"} ELSE Timers)

(* The messages are sent; only a terminated call has more to do.           *)
Outbound(h) ==
  /\ pc[h] = "outbound"
  /\ IF out[h] \in {"reject", "resolve"}
     THEN Moves(h, "release", out[h], {}) /\ UNCHANGED entry ELSE Ends(h)
  /\ caller' = IF out[h] = "reject" THEN "idle" ELSE caller
  /\ UNCHANGED <<call, dispatchVars, slot, countVars, endVars, storeVars, stale>>

(* ... or a lookup is forked for a REFER and runs on without the permit.   *)
OutboundAndFork ==
  /\ pc["worker"] = "outbound" /\ out["worker"] = "keep"
  /\ pc["fork"] = "idle" /\ forks < MaxForks
  /\ forks' = forks + 1
  /\ Moves("fork", "http", "none", {"worker"})
  /\ UNCHANGED <<call, dispatchVars, slot, entry, caller, events, lives,
                 endVars, storeVars, stale>>

(* The limiter slots are released, ... *)
ReleaseLimiter(h) ==
  /\ pc[h] = "release"
  /\ released' = released \cup {base[h].life}
  /\ Moves(h, "cdr", out[h], {})
  /\ UNCHANGED <<call, dispatchVars, slot, entry, caller, countVars, cdrs,
                 storeVars, stale>>

(* ... and the CDR is written. *)
WriteCdr(h) ==
  /\ pc[h] = "cdr"
  /\ cdrs' = cdrs \cup {base[h].life}
  /\ Ends(h)
  /\ UNCHANGED <<call, dispatchVars, slot, caller, countVars, released, storeVars, stale>>

(* The time budget of a handler runs out: it is interrupted where it is,   *)
(* unless it hangs in its critical effects.  A forked lookup has none.     *)
BudgetRunsOut(f) ==
  /\ Budgets /\ f \notin {"fork", "sweep"}
  /\ pc[f] \notin {"idle", "stuck"}
  /\ Ends(f)
  /\ UNCHANGED <<call, dispatchVars, slot, caller, countVars, endVars, storeVars, stale>>

-----------------------------------------------------------------------------
(* Force-purge: the safety timer and the orphan sweep                      *)

(* Handlers that do end, end long before a deadline they set (64 s).       *)
DeadlineMayPass ==
  \A h \in Handlers : pc[h] \in {"idle", "stuck"} \/ out[h] \notin {"terminate", "keep"}

(* forcePurgeOne up to the CDR: no permit is asked for. *)
PurgeBillsTerminating(f) ==
  /\ base' = [base EXCEPT ![f] = call]
  /\ pc' = [pc EXCEPT ![f] = "release"]
  /\ cdrs' = IF call.state = "terminating" THEN cdrs \cup {call.life} ELSE cdrs

PurgeStarts(f) ==
  /\ base' = [base EXCEPT ![f] = call]
  /\ pc' = [pc EXCEPT ![f] = "release"]
  /\ cdrs' = cdrs \cup {call.life}

SafetyTimerFires ==
  /\ entry["safety"] = "asleep" /\ pc["safety"] = "idle" /\ DeadlineMayPass
  /\ IF call = NoCall
     THEN entry' = [entry EXCEPT !["safety"] = "none"]
          /\ UNCHANGED <<direct, base, pc, cdrs>>
     ELSE entry' = [entry EXCEPT !["safety"] = "running"]
          /\ direct' = "safety"
          /\ PurgeStarts("safety")
  /\ UNCHANGED <<call, dispatchVars, permitVars, out, caller, countVars,
                 released, storeVars, stale>>

(* sweepOnce: terminated calls, and terminating ones past their deadline.  *)
OrphanedTerminated == call.state = "terminated"

Orphaned ==
  \/ call.state = "terminated"
  \/ call.state = "terminating" /\ DeadlineMayPass

Sweep ==
  /\ pc["sweep"] = "idle" /\ Orphaned
  /\ PurgeStarts("sweep")
  /\ UNCHANGED <<call, dispatchVars, permitVars, timerVars, out, caller,
                 countVars, released, storeVars, stale>>

(* Only a terminating call releases its limiter slots here.                *)
PurgeReleases(f) ==
  /\ pc[f] = "release"
  /\ released' = IF base[f].state = "terminating"
                 THEN released \cup {base[f].life} ELSE released
  /\ pc' = [pc EXCEPT ![f] = "remove"]
  /\ UNCHANGED <<call, dispatchVars, permitVars, timerVars, base, out, caller,
                 countVars, cdrs, storeVars, stale>>

(* The safety timer's handler, too, cancels the fiber it is raced in.      *)
InterruptsItself(f) ==
  f = "safety" /\ entry["safety"] = "running" /\ direct # "safety"

PurgeRemoves(f) ==
  /\ pc[f] = "remove" /\ ~InterruptsItself(f)
  /\ \A t \in Timers : ~NeverEnds(f, t)
  /\ Moves(f, "idle", "none", {f} \cup {t \in Timers : entry[t] = "running"})
  /\ entry' = NoTimers
  /\ RemoveCall
  /\ stale' = stale \cup {g \in Handlers : pc[g] = "run"}
  /\ UNCHANGED <<exists, caller, countVars, endVars, storeVars>>

(* Nothing is uninterruptible here, so that the purge is cut short: the    *)
(* call stays in memory.                                                   *)
PurgeCutShort ==
  /\ pc["safety"] = "remove" /\ InterruptsItself("safety")
  /\ Ends("safety")
  /\ UNCHANGED <<call, dispatchVars, slot, caller, countVars, endVars, storeVars, stale>>

PurgeHangs(f) == pc[f] = "remove" /\ Hangs(f, Timers)

-----------------------------------------------------------------------------
Arrivals == direct = "none" /\ (Invite \/ Message)

HandlerStep(h) ==
  \/ Load(h) \/ (\E body \in stored : ReadBack(h, body)) \/ NotFound(h)
  \/ FetchFails(h) \/ Vanished(h)
  \/ \E o \in Outcomes(base[h].state), leg \in Legs : Update(h, o, leg)
  \/ CriticalKeep(h) \/ CriticalTerminate(h) \/ CriticalEnd(h) \/ CriticalHangs(h)
  \/ Outbound(h) \/ ReleaseLimiter(h) \/ WriteCdr(h)

PurgeStep(f) == PurgeReleases(f) \/ PurgeRemoves(f) \/ PurgeHangs(f)

WorkerStep ==
  /\ direct = "none"
  /\ \/ WorkerExits \/ WorkerTakesMessage \/ Create \/ FastReject
     \/ OutboundAndFork \/ HandlerStep("worker")
TimerStep  == direct \in {"none", "timer"} /\ (TimerFires \/ HandlerStep("timer"))
ForkStep   == direct = "none" /\ (ForkReturns \/ HandlerStep("fork"))
SafetyStep == direct \in {"none", "safety"} /\ (PurgeStep("safety") \/ PurgeCutShort)
SweepStep  == direct = "none" /\ (Sweep \/ PurgeStep("sweep"))

Next ==
  \/ Arrivals
  \/ WorkerStep \/ TimerStep \/ ForkStep \/ SafetyStep \/ SweepStep
  \/ GiveWay
  \/ direct = "none" /\ SafetyTimerFires
  \/ direct = "none" /\ \E f \in Fibers : BudgetRunsOut(f)

Spec == Init /\ [][Next]_vars

(* Every fiber that can run gets its turn, and the permit is handed out in *)
(* turn.  A sleep ends and a lookup is answered; the sweep ticks every     *)
(* minute and a deadline, once passed, stays passed.  Nothing is asked of  *)
(* the callers or the peers.                                               *)
FairSpec ==
  /\ Spec
  /\ WF_vars(GiveWay)
  /\ SF_vars(WorkerStep) /\ SF_vars(TimerStep) /\ SF_vars(ForkStep)
  /\ SF_vars(SafetyStep) /\ SF_vars(SweepStep)

-----------------------------------------------------------------------------
(* Properties                                                              *)

CallRecord == [life : 0..MaxLives, refreshed : SUBSET Legs,
               state : {"none", "active", "terminating", "terminated"}]

(* Types; and a handler past its load has a call, so that no effect runs   *)
(* for a callRef that was not found.                                       *)
TypeOK ==
  /\ call \in CallRecord
  /\ exists \in BOOLEAN
  /\ queue \in Seq({"invite", "message", "poison"}) /\ Len(queue) =< QueueDepth
  /\ slot \in Permits \cup {0}
  /\ holder \in [Permits -> Handlers \cup {Nobody}]
  /\ sem \in [Handlers -> Permits \cup {0}]
  /\ entry \in [Timers -> {"none", "asleep", "running"}]
  /\ direct \in Timers \cup {"none"}
  /\ pc \in [Fibers -> {"idle", "http", "wait", "fetch", "vanished", "run", "updated",
                        "outbound", "release", "cdr", "remove", "stuck"}]
  /\ base \in [Fibers -> CallRecord]
  /\ \A f \in Fibers :
       pc[f] \in {"run", "updated", "outbound", "release", "cdr", "remove", "stuck"} =>
         base[f].life > 0
  /\ out \in [Fibers -> {"none", "keep", "terminate", "reject", "resolve"}]
  /\ caller \in {"idle", "calling"}
  /\ events \in 0..MaxEvents /\ forks \in 0..MaxForks /\ lives \in 0..MaxLives
  /\ cdrs \subseteq 1..MaxLives /\ released \subseteq 1..MaxLives
  /\ stored \subseteq CallRecord /\ revived \subseteq 1..MaxLives
  /\ stale \subseteq Handlers

(* While the callRef names one call only, and that one was not read back   *)
(* from the storage, no handler writes the call back over a change it has  *)
(* not seen - made by a handler that ran out of its budget, by a timer or  *)
(* by a lookup that came back.  (A call that was purged meanwhile is not   *)
(* written back at all.)                                                   *)
UpdatesCall(h) ==
  \E o \in Outcomes(base[h].state), leg \in Legs : Update(h, o, leg)
NoLostUpdate ==
  [][revived = {} => \A h \in stale : UpdatesCall(h) => call = NoCall]_vars

(* A terminating call leaves the worker's memory: by its last response, by *)
(* its safety timer, or by the orphan sweep - although a handler may run   *)
(* out of its budget anywhere - as long as no timer's handler hangs.  (One *)
(* that was read back may be read back again, over what it has become.)    *)
TerminatingEnds ==
  \A l \in 1..MaxLives :
    call.life = l /\ call.state = "terminating"
      ~> \/ call.life # l \/ (l \in revived /\ call.state = "active")
         \/ \E h \in Handlers : pc[h] = "stuck"

(* A call that is over has a CDR, whoever ended it, as long as no handler  *)
(* runs out of its budget and the callRef names one call only.             *)
Over(l) == l =< lives /\ call.life # l /\ \A f \in Fibers : base[f].life # l
EndedIsBilled == \A l \in 1..MaxLives : Over(l) => l \in cdrs

(* A call whose limiter slots were released does not go on: no handler that *)
(* loaded it before puts it back to active, and the limiter counts all the  *)
(* calls that are active (decrement-limiter, forcePurgeOne, withCall), as   *)
(* long as the callRef names one call only - unless a handler that waited   *)
(* for the permit, or a late message, reads the call back from the storage. *)
ReleasedIsEnding ==
  \A l \in (1..MaxLives) \ revived :
    l \in released /\ call.life = l => call.state # "active"

(* TimerService never interrupts the fiber it runs in ("never interrupt     *)
(* ourselves"), which would deadlock.                                      *)
NeverHangs == \A f \in Fibers : pc[f] # "stuck"
=============================================================================
