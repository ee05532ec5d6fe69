------------------------- MODULE CallHandlingProofs -------------------------
(***************************************************************************)
(* Proofs about CallHandling: types; and, for a callRef that names one     *)
(* call, that no handler writes the call back over a change it has not     *)
(* seen, that limiter slots are not released of a call that goes on, and   *)
(* that a call that is over has a CDR.                                     *)
(*                                                                         *)
(* These three are about a callRef that names one call (MaxLives = 1): a   *)
(* caller that tries again with its Call-ID and From tag (Invite) gets the *)
(* callRef of a call that fibers may still be busy with, and none of the   *)
(* three holds of the two calls together.  The types do.  The first two    *)
(* are also about a call that nobody reads back from the storage after its *)
(* removal: they do not hold of one that is.                               *)
(***************************************************************************)
EXTENDS CallHandling, SequenceTheorems, TLAPS

Purgers == {"safety", "sweep"}

(* Until the call is created nothing runs for the callRef; afterwards no   *)
(* INVITE waits for it.                                                    *)
OneLife ==
  /\ lives = 0 =>
       /\ queue \in {<<>>, <<"invite">>} /\ (caller = "idle" => queue = <<>>)
       /\ call = NoCall /\ \A f \in Fibers : pc[f] = "idle"
       /\ \A t \in Timers : entry[t] = "none"
       /\ \A h \in Handlers : sem[h] = 0
       /\ released = {}
  /\ lives # 0 => \A i \in 1..Len(queue) : queue[i] # "invite"

(* While the call is in memory, whoever waits for a permit or has it, has  *)
(* the one that newcomers get; who runs holds the permit, ...              *)
PermitOf(h) ==
  /\ pc[h] = "wait" => sem[h] \in Permits
  /\ pc[h] \in {"fetch", "vanished"} => call = NoCall
  /\ call # NoCall => sem[h] \in {0, slot}
  /\ pc[h] = "run" => \/ h = "worker" /\ sem[h] = 0
                      \/ sem[h] \in Permits /\ holder[sem[h]] = h

(* ... but for the worker that creates the call: there is nobody else yet. *)
Creating == pc["worker"] \in {"run", "updated"} /\ sem["worker"] = 0
Alone == entry["timer"] = "none" /\ pc["timer"] = "idle" /\ pc["fork"] = "idle"

PermitInv ==
  /\ \A h \in Handlers : PermitOf(h)
  /\ Creating => Alone

(* A handler that runs has the call as it is in memory.                    *)
BaseOf(h) == pc[h] = "run" /\ call # NoCall => h \notin stale /\ base[h] = call

BaseInv == \A h \in Handlers : BaseOf(h)

(* The call is terminating or gone.                                        *)
Ending == call = NoCall \/ call.state \in {"terminating", "terminated"}

(* Who is about to release limiter slots has seen to it, or seen, that the *)
(* call does not go on.                                                    *)
EndsCall(h) ==
  \/ pc[h] \in {"release", "cdr"}
  \/ pc[h] = "outbound" /\ out[h] \in {"reject", "resolve"}

ReleaseInv ==
  /\ \A h \in Handlers : EndsCall(h) => call = NoCall
  /\ \A f \in Purgers : pc[f] = "release" /\ base[f].state = "terminating" => Ending
  /\ released # {} => Ending

(* A call that left memory has its CDR, or the handler that ended it will  *)
(* write it; nobody interrupts that one.                                   *)
WillBill(h) ==
  /\ pc[h] \in {"outbound", "release", "cdr"} /\ out[h] \in {"reject", "resolve"}
  /\ h \in Timers => entry[h] # "running"

BillInv ==
  /\ \A f \in Purgers : pc[f] \in {"release", "remove"} => 1 \in cdrs
  /\ lives # 0 /\ call = NoCall => 1 \in cdrs \/ \E h \in Handlers : WillBill(h)

HandlingInv == OneLife /\ (revived = {} => PermitInv /\ BaseInv /\ ReleaseInv)

-----------------------------------------------------------------------------
(* Types                                                                   *)

Steps == {"idle", "http", "wait", "fetch", "vanished", "run", "updated", "outbound",
          "release", "cdr", "remove", "stuck"}
Loaded == {"run", "updated", "outbound", "release", "cdr", "remove", "stuck"}
Outs == {"none", "keep", "terminate", "reject", "resolve"}

(* The part of the types that concerns the fibers and their permits, ...   *)
FibersOK ==
  /\ pc \in [Fibers -> Steps] /\ out \in [Fibers -> Outs]
  /\ base \in [Fibers -> CallRecord]
  /\ \A f \in Fibers : pc[f] \in Loaded => base[f].life > 0
  /\ slot \in Permits \cup {0} /\ holder \in [Permits -> Handlers \cup {Nobody}]
  /\ sem \in [Handlers -> Permits \cup {0}]
  /\ entry \in [Timers -> {"none", "asleep", "running"}]
  /\ direct \in Timers \cup {"none"}

(* ... the queue, ...                                                      *)
QueueOK ==
  /\ exists \in BOOLEAN
  /\ queue \in Seq({"invite", "message", "poison"}) /\ Len(queue) =< QueueDepth

(* ... and the rest.                                                       *)
CallOK ==
  /\ call \in CallRecord /\ (call = NoCall \/ call.life > 0)
  /\ caller \in {"idle", "calling"}
  /\ events \in 0..MaxEvents /\ forks \in 0..MaxForks /\ lives \in 0..MaxLives
  /\ cdrs \subseteq 1..MaxLives /\ released \subseteq 1..MaxLives
  /\ stored \subseteq CallRecord /\ revived \subseteq 1..MaxLives
  /\ \A body \in stored : body.life > 0
  /\ stale \subseteq Handlers

TypeInv == FibersOK /\ QueueOK /\ CallOK

LEMMA TypeParts == TypeInv => TypeOK
  BY DEF TypeInv, TypeOK, FibersOK, QueueOK, CallOK, Steps, Loaded, Outs

LEMMA NoCallTypes == NoCall \in CallRecord
  BY HandlingAssumption DEF NoCall, CallRecord

(* What is offered comes last, or not at all.                              *)
LEMMA OfferTypes ==
  ASSUME QueueOK, NEW item \in {"invite", "message", "poison"}
  PROVE  /\ Offer(item) \in Seq({"invite", "message", "poison"})
         /\ Len(Offer(item)) =< QueueDepth
         /\ \A i \in 1..Len(Offer(item)) :
              \/ Offer(item)[i] = item
              \/ i \in 1..Len(queue) /\ Offer(item)[i] = queue[i]
  <1> DEFINE Items == {"invite", "message", "poison"}
  <1>1. queue \in Seq(Items) /\ Len(queue) \in Nat /\ QueueDepth \in Nat
    BY HandlingAssumption DEF QueueOK
  <1>2. CASE Len(queue) < QueueDepth
    <2>1. Offer(item) = Append(queue, item)
      BY <1>2 DEF Offer
    <2>2. /\ Append(queue, item) \in Seq(Items)
          /\ Len(Append(queue, item)) = Len(queue) + 1
          /\ \A i \in 1..Len(queue) : Append(queue, item)[i] = queue[i]
          /\ Append(queue, item)[Len(queue) + 1] = item
      BY <1>1, AppendProperties
    <2>3. ASSUME NEW i \in 1..Len(queue) + 1
          PROVE  \/ Append(queue, item)[i] = item
                 \/ i \in 1..Len(queue) /\ Append(queue, item)[i] = queue[i]
      BY <1>1, <2>2
    <2>4. Len(queue) + 1 =< QueueDepth
      BY <1>1, <1>2
    <2>5. Len(Offer(item)) = Len(queue) + 1
      BY <2>1, <2>2
    <2>6. \A i \in 1..Len(Offer(item)) :
            \/ Offer(item)[i] = item
            \/ i \in 1..Len(queue) /\ Offer(item)[i] = queue[i]
      BY <2>1, <2>3, <2>5
    <2>7. Offer(item) \in Seq(Items)
      BY <2>1, <2>2
    <2>8. Len(Offer(item)) =< QueueDepth
      BY <2>4, <2>5
    <2>9. QED
      BY <2>6, <2>7, <2>8
  <1>3. CASE ~(Len(queue) < QueueDepth)
    BY <1>1, <1>3 DEF Offer, QueueOK
  <1>4. QED
    BY <1>2, <1>3

LEMMA DispatchTypes ==
  ASSUME QueueOK, NEW item \in {"invite", "message"}, Dispatch(item)
  PROVE  QueueOK'
  <1>1. /\ <<item>> \in Seq({"invite", "message", "poison"}) /\ Len(<<item>>) =< QueueDepth
    BY HandlingAssumption
  <1>2. QED
    BY <1>1, OfferTypes DEF Dispatch, QueueOK

LEMMA PoisonTypes == ASSUME QueueOK, Poison, exists' = exists PROVE QueueOK'
  BY OfferTypes DEF Poison, QueueOK

LEMMA TailTypes ==
  ASSUME QueueOK, queue # <<>>, queue' = Tail(queue), exists' = exists
  PROVE  /\ QueueOK'
         /\ Len(queue') = Len(queue) - 1
         /\ \A i \in 1..Len(queue') : queue'[i] = queue[i + 1]
  <1> DEFINE Items == {"invite", "message", "poison"}
  <1>1. /\ Tail(queue) \in Seq(Items) /\ Len(Tail(queue)) = Len(queue) - 1
        /\ \A i \in 1..Len(Tail(queue)) : Tail(queue)[i] = queue[i + 1]
        /\ Len(queue) \in Nat
    <2>1. queue \in Seq(Items)
      BY DEF QueueOK
    <2>2. QED
      BY <2>1, HeadTailProperties
  <1>2. Len(queue) =< QueueDepth /\ QueueDepth \in Nat
    BY HandlingAssumption DEF QueueOK
  <1>3. QED
    BY <1>1, <1>2 DEF QueueOK

(* Fiber f goes on, others are over.                                       *)
LEMMA MovesTypes ==
  ASSUME FibersOK, NEW f \in Fibers, NEW p \in Steps, NEW o \in Outs, NEW S,
         Moves(f, p, o, S), p \in Loaded => base[f].life > 0 \/ f \in S,
         entry' \in [Timers -> {"none", "asleep", "running"}], slot' \in Permits \cup {0}
  PROVE  FibersOK'
  <1> USE NoCallTypes DEF FibersOK
  <1>1. pc' \in [Fibers -> Steps] /\ out' \in [Fibers -> Outs]
    BY DEF Moves, Steps, Outs
  <1>2. base' \in [Fibers -> CallRecord] /\ sem' \in [Handlers -> Permits \cup {0}]
    BY DEF Moves
  <1>3. holder' \in [Permits -> Handlers \cup {Nobody}] /\ direct' \in Timers \cup {"none"}
    BY DEF Moves
  <1>4. ASSUME NEW g \in Fibers, pc'[g] \in Loaded PROVE base'[g].life > 0
    BY <1>4 DEF Moves, Loaded
  <1>5. QED
    BY <1>1, <1>2, <1>3, <1>4

LEMMA EndsTypes ==
  ASSUME FibersOK, NEW f \in Fibers, Ends(f), slot' \in Permits \cup {0}
  PROVE  FibersOK'
  <1>1. entry' \in [Timers -> {"none", "asleep", "running"}]
    BY DEF Ends, FibersOK
  <1>2. QED
    BY <1>1, MovesTypes DEF Ends, Steps, Outs

LEMMA EnterTypes ==
  ASSUME FibersOK, NEW h \in Handlers, Enter(h), UNCHANGED <<holder, base, out>>,
         entry' \in [Timers -> {"none", "asleep", "running"}],
         direct' \in Timers \cup {"none"}
  PROVE  FibersOK'
  BY DEF Enter, FibersOK, Fibers, Steps, Loaded

LEMMA HangsTypes ==
  ASSUME TypeInv, NEW f \in Fibers, NEW T, Hangs(f, T), base[f].life > 0
  PROVE  TypeInv'
  BY DEF Hangs, TypeInv, FibersOK, QueueOK, CallOK, Steps, Loaded, dispatchVars,
     permitVars, countVars, endVars, storeVars

(* A call that is in memory, or that a fiber has loaded, is one of the     *)
(* lives; and what is flushed is a call.                                   *)
LEMMA LifeTypes ==
  ASSUME NEW body \in CallRecord, body.life > 0
  PROVE  body.life \in 1..MaxLives
  BY HandlingAssumption DEF CallRecord

LEMMA FlushTypes ==
  ASSUME CallOK, Flush \/ UNCHANGED storeVars
  PROVE  /\ stored' \subseteq CallRecord /\ revived' \subseteq 1..MaxLives
         /\ \A body \in stored' : body.life > 0
  <1>1. CASE UNCHANGED storeVars
    BY <1>1 DEF storeVars, CallOK
  <1>2. CASE Flush /\ call.state = "active"
    <2>1. call \in CallRecord /\ call.life > 0
      BY <1>2 DEF CallOK, NoCall
    <2>2. stored' = stored \cup {call} /\ revived' = revived
      BY <1>2 DEF Flush
    <2>3. QED
      BY <2>1, <2>2 DEF CallOK
  <1>3. CASE Flush /\ call.state # "active"
    BY <1>3 DEF Flush, CallOK
  <1>4. QED
    BY <1>1, <1>2, <1>3

LEMMA TypeInit == Init => TypeInv
  <1> SUFFICES ASSUME Init PROVE TypeInv
    OBVIOUS
  <1>1. FibersOK
    BY NoCallTypes DEF Init, FibersOK, Nobody, Steps, Outs, Loaded
  <1>2. QueueOK
    <2>1. <<>> \in Seq({"invite", "message", "poison"}) /\ Len(<<>>) =< QueueDepth
      BY HandlingAssumption
    <2>2. exists \in BOOLEAN
      BY DEF Init
    <2>3. QED
      BY <2>1, <2>2 DEF Init, QueueOK
  <1>3. CallOK
    BY HandlingAssumption, NoCallTypes DEF Init, CallOK
  <1>4. QED
    BY <1>1, <1>2, <1>3 DEF TypeInv

(* Loading, updating and the effects of a handler keep the types.          *)
LEMMA TypeHandler ==
  ASSUME TypeInv, NEW h \in Handlers, HandlerStep(h)
  PROVE  TypeInv'
  <1> h \in Fibers
    BY DEF Fibers
  <1> USE DEF TypeInv
  <1>1. CASE Load(h)
    <2>1. base' = [base EXCEPT ![h] = call] /\ (pc'[h] \in Loaded => call.life > 0)
      BY <1>1 DEF Load, CallOK, FibersOK, Loaded
    <2>2. FibersOK'
      BY <1>1, <2>1 DEF Load, FibersOK, CallOK, timerVars, Steps, Loaded
    <2>3. QED
      BY <1>1, <2>2 DEF Load, QueueOK, CallOK, dispatchVars, countVars, endVars, storeVars
  <1>2. CASE Vanished(h)
    <2>1. FibersOK'
      BY <1>2, EndsTypes DEF Vanished
    <2>2. QED
      BY <1>2, <2>1
      DEF Vanished, QueueOK, CallOK, dispatchVars, countVars, endVars, storeVars
  <1>3. ASSUME NEW o \in Outcomes(base[h].state), NEW leg \in Legs, Update(h, o, leg)
        PROVE  TypeInv'
    <2>1. o \in Outs /\ base[h] \in CallRecord /\ base[h].life > 0
      BY <1>3 DEF Update, Outcomes, Outs, FibersOK, Loaded
    <2>2. After(base[h], o) \in CallRecord /\ After(base[h], o).life > 0
      BY <2>1 DEF After, CallRecord
    <2>3. ASSUME NEW legs, legs \in SUBSET Legs
          PROVE  /\ [After(base[h], o) EXCEPT !.refreshed = legs] \in CallRecord
                 /\ [After(base[h], o) EXCEPT !.refreshed = legs].life > 0
      BY <2>2, <2>3 DEF CallRecord
    <2>4. After(base[h], o).refreshed \in SUBSET Legs
      BY <2>2 DEF CallRecord
    <2>5. call' \in CallRecord /\ (call' = NoCall \/ call'.life > 0)
      BY <1>3, <2>3, <2>4, NoCallTypes DEF Update
    <2>6. \E S : Moves(h, "updated", o, S)
      BY <1>3 DEF Update
    <2>7. /\ entry' \in [Timers -> {"none", "asleep", "running"}] /\ slot' = slot
          /\ stale' \subseteq Handlers
      BY <1>3 DEF Update, FibersOK, CallOK
    <2>8. FibersOK'
      BY <2>1, <2>6, <2>7, MovesTypes DEF FibersOK, Steps
    <2>9. QED
      BY <1>3, <2>5, <2>7, <2>8
      DEF Update, QueueOK, CallOK, dispatchVars, countVars, endVars, storeVars
  <1>4. CASE CriticalKeep(h) \/ CriticalTerminate(h)
    <2>1. /\ \E S : Moves(h, "outbound", out[h], S)
          /\ entry' \in [Timers -> {"none", "asleep", "running"}]
          /\ slot' = slot
      BY <1>4 DEF CriticalKeep, CriticalTerminate, Cancels, NoTimers, FibersOK
    <2>2. base[h].life > 0 /\ out[h] \in Outs
      BY <1>4 DEF CriticalKeep, CriticalTerminate, FibersOK, Loaded
    <2>3. FibersOK'
      BY <2>1, <2>2, MovesTypes DEF FibersOK, Steps
    <2>4. Flush \/ UNCHANGED storeVars
      BY <1>4 DEF CriticalKeep, CriticalTerminate
    <2>5. QED
      BY <1>4, <2>3, <2>4, FlushTypes DEF CriticalKeep, CriticalTerminate, QueueOK, CallOK,
         dispatchVars, countVars, endVars
  <1>5. CASE CriticalEnd(h)
    <2>1. /\ \E S : Moves(h, "outbound", out[h], S)
          /\ entry' \in [Timers -> {"none", "asleep", "running"}]
          /\ slot' \in Permits \cup {0}
      BY <1>5 DEF CriticalEnd, Cancels, NoTimers, RemoveCall
    <2>2. base[h].life > 0 /\ out[h] \in Outs
      BY <1>5 DEF CriticalEnd, FibersOK, Loaded
    <2>3. FibersOK'
      BY <2>1, <2>2, MovesTypes DEF Steps
    <2>4. QueueOK'
      BY <1>5, PoisonTypes DEF CriticalEnd, RemoveCall
    <2>5. CallOK'
      BY <1>5, NoCallTypes
      DEF CriticalEnd, RemoveCall, CallOK, countVars, endVars, storeVars
    <2>6. QED
      BY <2>3, <2>4, <2>5
  <1>6. CASE CriticalHangs(h)
    BY <1>6, HangsTypes DEF CriticalHangs, FibersOK, Loaded
  <1>7. CASE Outbound(h)
    <2>1. base[h].life > 0 /\ out[h] \in Outs /\ slot' = slot
      BY <1>7 DEF Outbound, FibersOK, Loaded
    <2>2. (Moves(h, "release", out[h], {}) /\ entry' = entry) \/ Ends(h)
      BY <1>7 DEF Outbound
    <2>3. ASSUME Moves(h, "release", out[h], {}) /\ entry' = entry PROVE FibersOK'
      <3>1. /\ entry' \in [Timers -> {"none", "asleep", "running"}]
            /\ slot' \in Permits \cup {0} /\ "release" \in Steps
        BY <2>1, <2>3 DEF FibersOK, Steps
      <3>2. \E S : Moves(h, "release", out[h], S)
        BY <2>3
      <3>3. QED
        BY <2>1, <3>1, <3>2, MovesTypes
    <2>4. FibersOK'
      BY <2>1, <2>2, <2>3, EndsTypes DEF FibersOK
    <2>5. QED
      BY <1>7, <2>4
      DEF Outbound, QueueOK, CallOK, dispatchVars, countVars, endVars, storeVars
  <1>8. CASE ReleaseLimiter(h)
    <2>1. base[h].life > 0 /\ out[h] \in Outs /\ slot' = slot /\ entry' = entry
      BY <1>8 DEF ReleaseLimiter, FibersOK, Loaded
    <2>2. FibersOK'
      BY <1>8, <2>1, MovesTypes DEF ReleaseLimiter, FibersOK, Steps
    <2>3. QED
      BY <1>8, <2>1, <2>2, LifeTypes DEF ReleaseLimiter, FibersOK, QueueOK, CallOK,
         dispatchVars, countVars, storeVars
  <1>9. CASE WriteCdr(h)
    <2>1. FibersOK'
      BY <1>9, EndsTypes DEF WriteCdr, FibersOK
    <2>2. QED
      BY <1>9, <2>1, LifeTypes
      DEF WriteCdr, FibersOK, QueueOK, CallOK, Loaded, dispatchVars,
         countVars, storeVars
  <1>10. ASSUME NEW body \in stored, ReadBack(h, body) PROVE TypeInv'
    <2>1. body \in CallRecord /\ body.life > 0 /\ body.life \in 1..MaxLives
      BY LifeTypes DEF CallOK
    <2>2. FibersOK'
      BY <1>10, <2>1 DEF ReadBack, FibersOK, permitVars, timerVars, Steps, Loaded
    <2>3. QED
      BY <1>10, <2>1, <2>2 DEF ReadBack, QueueOK, CallOK, dispatchVars, countVars, endVars
  <1>11. CASE NotFound(h)
    BY <1>11 DEF NotFound, FibersOK, QueueOK, CallOK, dispatchVars, permitVars, timerVars,
       countVars, endVars, storeVars, Steps, Loaded
  <1>12. CASE FetchFails(h)
    <2>1. FibersOK'
      BY <1>12, EndsTypes DEF FetchFails, FibersOK
    <2>2. QED
      BY <1>12, <2>1 DEF FetchFails, QueueOK, CallOK, dispatchVars, countVars, endVars,
         storeVars
  <1>13. QED
    BY <1>1, <1>2, <1>3, <1>4, <1>5, <1>6, <1>7, <1>8, <1>9, <1>10, <1>11, <1>12
    DEF HandlerStep

(* So do the purges, ...                                                   *)
LEMMA PurgeStartsTypes ==
  ASSUME TypeInv, NEW f \in Purgers, PurgeStarts(f), call # NoCall,
         entry' \in [Timers -> {"none", "asleep", "running"}],
         direct' \in Timers \cup {"none"},
         UNCHANGED <<call, dispatchVars, permitVars, out, caller, countVars, released,
                     storeVars, stale>>
  PROVE  TypeInv'
  <1>1. f \in Fibers /\ call.life > 0
    BY DEF Purgers, Fibers, TypeInv, CallOK
  <1>2. FibersOK'
    BY <1>1 DEF PurgeStarts, TypeInv, FibersOK, CallOK, permitVars, Steps, Loaded
  <1>3. QED
    BY <1>1, <1>2, LifeTypes
    DEF PurgeStarts, TypeInv, QueueOK, CallOK, dispatchVars, countVars, storeVars

LEMMA TypePurge ==
  ASSUME TypeInv, NEW f \in Purgers,
         PurgeStep(f) \/ PurgeCutShort \/ SafetyTimerFires \/ Sweep
  PROVE  TypeInv'
  <1> f \in Fibers
    BY DEF Purgers, Fibers
  <1>1. CASE PurgeReleases(f)
    <2>1. FibersOK'
      BY <1>1 DEF PurgeReleases, TypeInv, FibersOK, permitVars, timerVars, Steps, Loaded
    <2>2. QED
      BY <1>1, <2>1, LifeTypes
      DEF PurgeReleases, TypeInv, FibersOK, QueueOK, CallOK, Loaded, dispatchVars,
      countVars,
          storeVars
  <1>2. CASE PurgeRemoves(f)
    <2>1. FibersOK'
      BY <1>2, MovesTypes DEF PurgeRemoves, RemoveCall, NoTimers, TypeInv, Steps, Outs,
         Loaded
    <2>2. QueueOK'
      BY <1>2, PoisonTypes DEF PurgeRemoves, RemoveCall, TypeInv
    <2>3. CallOK'
      BY <1>2, NoCallTypes
      DEF PurgeRemoves, RemoveCall, TypeInv, CallOK, countVars, endVars, storeVars
    <2>4. QED
      BY <2>1, <2>2, <2>3 DEF TypeInv
  <1>3. CASE PurgeHangs(f)
    BY <1>3, HangsTypes DEF PurgeHangs, TypeInv, FibersOK, Loaded
  <1>4. CASE PurgeCutShort
    <2>1. FibersOK'
      BY <1>4, EndsTypes DEF PurgeCutShort, TypeInv, FibersOK, Fibers
    <2>2. QED
      BY <1>4, <2>1 DEF PurgeCutShort, TypeInv, QueueOK, CallOK, dispatchVars, countVars,
         endVars, storeVars
  <1>5. CASE SafetyTimerFires
    <2>1. entry' \in [Timers -> {"none", "asleep", "running"}]
          /\ direct' \in Timers \cup {"none"}
      BY <1>5 DEF SafetyTimerFires, Timers, TypeInv, FibersOK
    <2>2. CASE call = NoCall
      BY <1>5, <2>1, <2>2 DEF SafetyTimerFires, TypeInv, FibersOK, QueueOK, CallOK,
         dispatchVars, permitVars, countVars, storeVars
    <2>3. CASE call # NoCall
      BY <1>5, <2>1, <2>3, PurgeStartsTypes DEF SafetyTimerFires, Purgers
    <2>4. QED
      BY <2>2, <2>3
  <1>6. CASE Sweep
    <2>1. call # NoCall
      BY <1>6 DEF Sweep, Orphaned, NoCall
    <2>2. QED
      BY <1>6, <2>1, PurgeStartsTypes DEF Sweep, Purgers, timerVars, TypeInv, FibersOK
  <1>7. QED
    BY <1>1, <1>2, <1>3, <1>4, <1>5, <1>6 DEF PurgeStep

(* ... and what comes to the callRef, and the worker's own steps.          *)
LEMMA TypeNext == TypeInv /\ [Next]_vars => TypeInv'
  <1> SUFFICES ASSUME TypeInv, [Next]_vars PROVE TypeInv'
    OBVIOUS
  <1> USE DEF TypeInv
  <1>1. CASE Invite
    <2>1. QueueOK'
      BY <1>1, DispatchTypes DEF Invite
    <2>2. QED
      BY <1>1, <2>1
      DEF Invite, FibersOK, CallOK, permitVars, timerVars, countVars, endVars, storeVars
  <1>2. CASE Message
    <2>1. QueueOK'
      BY <1>2, DispatchTypes DEF Message
    <2>2. QED
      BY <1>2, <2>1, HandlingAssumption
      DEF Message, FibersOK, CallOK, permitVars, timerVars, endVars, storeVars
  <1>3. CASE WorkerExits
    <2>1. <<>> \in Seq({"invite", "message", "poison"}) /\ Len(<<>>) =< QueueDepth
      BY HandlingAssumption
    <2>2. QueueOK'
      BY <1>3, <2>1 DEF WorkerExits, QueueOK
    <2>3. QED
      BY <1>3, <2>2 DEF WorkerExits, FibersOK, CallOK, permitVars, timerVars, countVars,
         endVars, storeVars
  <1>4. CASE WorkerTakesMessage
    <2>1. QueueOK'
      BY <1>4, TailTypes DEF WorkerTakesMessage
    <2>2. FibersOK'
      BY <1>4, EnterTypes DEF WorkerTakesMessage, timerVars, Handlers, FibersOK
    <2>3. QED
      BY <1>4, <2>1, <2>2 DEF WorkerTakesMessage, CallOK, countVars, endVars, storeVars
  <1>5. CASE Create
    <2>1. QueueOK'
      BY <1>5, TailTypes DEF Create
    <2>2. /\ lives' \in 0..MaxLives /\ lives' = lives + 1 /\ lives \in Nat
      BY <1>5, HandlingAssumption DEF Create, CallOK
    <2>3. Skeleton(lives + 1) \in CallRecord /\ Skeleton(lives + 1).life > 0
      BY <2>2 DEF Skeleton, CallRecord
    <2>4. FibersOK'
      BY <1>5, <2>3
      DEF Create, FibersOK, permitVars, timerVars, Handlers, Fibers, Steps, Loaded
    <2>5. QED
      BY <1>5, <2>1, <2>2, <2>3, <2>4 DEF Create, CallOK, endVars, storeVars
  <1>6. CASE FastReject
    <2>1. FibersOK'
      BY <1>6, EndsTypes DEF FastReject, FibersOK, Handlers, Fibers
    <2>2. QED
      BY <1>6, <2>1
      DEF FastReject, QueueOK, CallOK, dispatchVars, countVars, endVars, storeVars
  <1>7. CASE OutboundAndFork
    <2>1. FibersOK'
      BY <1>7, MovesTypes
      DEF OutboundAndFork, FibersOK, Handlers, Fibers, Steps, Outs, Loaded
    <2>2. forks' \in 0..MaxForks
      BY <1>7, HandlingAssumption DEF OutboundAndFork, CallOK
    <2>3. QED
      BY <1>7, <2>1, <2>2 DEF OutboundAndFork, QueueOK, CallOK, dispatchVars, endVars,
         storeVars
  <1>8. CASE TimerFires
    <2>1. FibersOK'
      BY <1>8, EnterTypes DEF TimerFires, FibersOK, Handlers, Timers
    <2>2. QED
      BY <1>8, <2>1
      DEF TimerFires, QueueOK, CallOK, dispatchVars, countVars, endVars, storeVars
  <1>9. CASE ForkReturns
    <2>1. FibersOK'
      BY <1>9, EnterTypes DEF ForkReturns, timerVars, FibersOK, Handlers
    <2>2. QED
      BY <1>9, <2>1
      DEF ForkReturns, QueueOK, CallOK, dispatchVars, countVars, endVars, storeVars
  <1>10. CASE GiveWay
    BY <1>10 DEF GiveWay, FibersOK, QueueOK, CallOK, dispatchVars, permitVars, countVars,
       endVars, storeVars
  <1>11. ASSUME NEW f \in Fibers, BudgetRunsOut(f) PROVE TypeInv'
    <2>1. FibersOK'
      BY <1>11, EndsTypes DEF BudgetRunsOut, FibersOK
    <2>2. QED
      BY <1>11, <2>1
      DEF BudgetRunsOut, QueueOK, CallOK, dispatchVars, countVars, endVars, storeVars
  <1>12. CASE UNCHANGED vars
    BY <1>12 DEF vars, FibersOK, QueueOK, CallOK, dispatchVars, permitVars, timerVars,
       countVars, endVars, storeVars
  <1>13. QED
    BY <1>1, <1>2, <1>3, <1>4, <1>5, <1>6, <1>7, <1>8, <1>9, <1>10, <1>11, <1>12,
       TypeHandler, TypePurge
    DEF Next, Arrivals, WorkerStep, TimerStep, ForkStep, SafetyStep, SweepStep, Handlers,
        Purgers

LEMMA TypeHolds == Spec => []TypeInv
  <1>1. QED
    BY TypeInit, TypeNext, PTL DEF Spec

(* Every variable keeps its type, and a handler past its load has a call,  *)
(* however often the callRef is used and wherever budgets run out.         *)
THEOREM TypeCorrect == Spec => []TypeOK
  <1>1. QED
    BY TypeHolds, TypeParts, PTL

-----------------------------------------------------------------------------
(* What a step leaves alone                                                *)

(* The steps, without who takes them.                                      *)
LEMMA NextSteps ==
  ASSUME [Next]_vars
  PROVE  \/ Invite \/ Message \/ WorkerExits \/ WorkerTakesMessage \/ Create \/ FastReject
         \/ OutboundAndFork \/ TimerFires \/ ForkReturns \/ GiveWay \/ PurgeCutShort
         \/ SafetyTimerFires \/ Sweep \/ UNCHANGED vars
         \/ \E h \in Handlers : HandlerStep(h)
         \/ \E f \in Purgers : PurgeStep(f)
         \/ \E f \in Fibers : BudgetRunsOut(f)
  BY DEF Next, Arrivals, WorkerStep, TimerStep, ForkStep, SafetyStep, SweepStep, Handlers,
     Purgers

(* Fiber g goes on as it was or is over.                                   *)
Keeps(g) ==
  \/ pc'[g] = "idle" /\ (g \in Handlers => sem'[g] = 0)
  \/ /\ pc'[g] = pc[g] /\ out'[g] = out[g] /\ base'[g] = base[g]
     /\ g \in Handlers =>
          /\ sem'[g] = sem[g]
          /\ sem[g] \in Permits /\ holder[sem[g]] = g => holder'[sem[g]] = g

(* Fiber f goes on to a step at which it neither waits nor runs.           *)
Settles(f) ==
  /\ pc'[f] \notin {"wait", "fetch", "vanished", "run"}
  /\ f \in Handlers => sem'[f] \in {0, sem[f]}

LEMMA MovesFrame ==
  ASSUME FibersOK, NEW f \in Fibers, NEW p, NEW o, NEW S, Moves(f, p, o, S)
  PROVE  /\ \A g \in Fibers \ {f} : Keeps(g)
         /\ p \notin {"wait", "fetch", "vanished", "run"} => Settles(f)
         /\ \A g \in Fibers : g \in S => pc'[g] = "idle"
         /\ f \notin S => pc'[f] = p /\ out'[f] = o /\ base'[f] = base[f]
         /\ \A h \in Handlers : h \notin S => sem'[h] = sem[h]
  BY DEF Moves, FibersOK, Keeps, Settles, Handlers, Fibers

LEMMA EndsFrame ==
  ASSUME FibersOK, NEW f \in Fibers, Ends(f)
  PROVE  /\ \A g \in Fibers : Keeps(g)
         /\ pc'[f] = "idle"
         /\ \A t \in Timers : entry'[t] \in {entry[t], "none"}
  <1>1. pc'[f] = "idle" /\ \A g \in Fibers \ {f} : Keeps(g)
    BY MovesFrame DEF Ends
  <1>2. f \in Handlers => sem'[f] = 0
    BY DEF Ends, Moves
  <1>3. QED
    BY <1>1, <1>2 DEF Ends, Keeps

LEMMA HangsFrame ==
  ASSUME FibersOK, NEW f \in Fibers, NEW T, Hangs(f, T)
  PROVE  /\ \A g \in Fibers \ {f} : Keeps(g)
         /\ Settles(f) /\ pc'[f] = "stuck"
         /\ \A t \in Timers : entry'[t] \in {entry[t], "none"}
  BY DEF Hangs, FibersOK, Keeps, Settles, permitVars

(* A handler loads the call, from memory or from the storage, or finds     *)
(* none.                                                                   *)
Loads(h) == Load(h) \/ (\E body \in stored : ReadBack(h, body)) \/ NotFound(h)

(* The step a handler takes leaves the others alone or ends them.          *)
LEMMA HandlerFrame ==
  ASSUME TypeInv, NEW h \in Handlers, HandlerStep(h)
  PROVE  /\ \A g \in Fibers \ {h} : Keeps(g)
         /\ ~Loads(h) => Settles(h)
  <1> h \in Fibers
    BY DEF Fibers
  <1> USE DEF TypeInv
  <1>1. CASE Loads(h)
    BY <1>1 DEF Loads, Load, ReadBack, NotFound, Keeps, FibersOK, Handlers, Nobody,
       permitVars, timerVars
  <1>2. CASE Vanished(h) \/ FetchFails(h)
    BY <1>2, MovesFrame DEF Vanished, FetchFails, Ends
  <1>3. ASSUME NEW o \in Outcomes(base[h].state), NEW leg \in Legs, Update(h, o, leg)
        PROVE  (\A g \in Fibers \ {h} : Keeps(g)) /\ Settles(h)
    <2>1. \E S : Moves(h, "updated", o, S)
      BY <1>3 DEF Update
    <2>2. QED
      BY <2>1, MovesFrame
  <1>4. CASE CriticalKeep(h) \/ CriticalTerminate(h) \/ CriticalEnd(h)
    <2>1. \E S : Moves(h, "outbound", out[h], S)
      BY <1>4 DEF CriticalKeep, CriticalTerminate, CriticalEnd, Cancels
    <2>2. QED
      BY <2>1, MovesFrame
  <1>5. CASE CriticalHangs(h)
    BY <1>5, HangsFrame DEF CriticalHangs
  <1>6. CASE Outbound(h)
    <2>1. \E p \in {"release", "idle"} : \E o, S : Moves(h, p, o, S)
      BY <1>6 DEF Outbound, Ends
    <2>2. QED
      BY <2>1, MovesFrame
  <1>7. CASE ReleaseLimiter(h) \/ WriteCdr(h)
    <2>1. \E p \in {"cdr", "idle"} : \E o, S : Moves(h, p, o, S)
      BY <1>7 DEF ReleaseLimiter, WriteCdr, Ends
    <2>2. QED
      BY <2>1, MovesFrame
  <1>8. QED
    BY <1>1, <1>2, <1>3, <1>4, <1>5, <1>6, <1>7 DEF HandlerStep, Loads

(* So does the step of a purge.                                            *)
LEMMA PurgeFrame ==
  ASSUME TypeInv, NEW f \in Purgers,
         \/ PurgeStep(f)
         \/ f = "safety" /\ (PurgeCutShort \/ SafetyTimerFires)
         \/ f = "sweep" /\ Sweep
  PROVE  \A g \in Fibers \ {f} : Keeps(g)
  <1> f \in Fibers
    BY DEF Purgers, Fibers
  <1> USE DEF TypeInv
  <1>1. CASE PurgeReleases(f)
    BY <1>1 DEF PurgeReleases, Keeps, FibersOK, permitVars
  <1>2. CASE PurgeRemoves(f)
    <2>1. \E S : Moves(f, "idle", "none", S)
      BY <1>2 DEF PurgeRemoves
    <2>2. QED
      BY <2>1, MovesFrame
  <1>3. CASE PurgeHangs(f)
    BY <1>3, HangsFrame DEF PurgeHangs
  <1>4. CASE f = "safety" /\ PurgeCutShort
    BY <1>4, EndsFrame DEF PurgeCutShort
  <1>5. CASE f = "safety" /\ SafetyTimerFires
    BY <1>5 DEF SafetyTimerFires, PurgeStarts, Keeps, FibersOK, permitVars
  <1>6. CASE f = "sweep" /\ Sweep
    BY <1>6 DEF Sweep, PurgeStarts, Keeps, FibersOK, permitVars
  <1>7. QED
    BY <1>1, <1>2, <1>3, <1>4, <1>5, <1>6 DEF PurgeStep

-----------------------------------------------------------------------------
(* One call of the callRef                                                 *)

(* What a handler or a purge does to the queue and to the count of calls.  *)
LEMMA HandlerQueue ==
  ASSUME NEW h \in Handlers, HandlerStep(h)
  PROVE  pc[h] # "idle" /\ lives' = lives /\ (queue' = queue \/ Poison)
  BY DEF HandlerStep, Load, ReadBack, NotFound, FetchFails, Vanished, Update, CriticalKeep,
     CriticalTerminate, CriticalEnd, CriticalHangs, Hangs, Outbound, ReleaseLimiter,
     WriteCdr, RemoveCall, dispatchVars,
     countVars

(* What was read back stays so.                                            *)
LEMMA RevivedGrows == ASSUME [Next]_vars PROVE revived \subseteq revived'
  <1>1. ASSUME NEW h \in Handlers, HandlerStep(h) PROVE revived \subseteq revived'
    BY <1>1 DEF HandlerStep, Load, ReadBack, NotFound, FetchFails, Vanished, Update, Flush,
       CriticalKeep, CriticalTerminate, CriticalEnd, CriticalHangs, Hangs, Outbound,
       ReleaseLimiter, WriteCdr, storeVars
  <1>2. ASSUME NEW f \in Purgers, PurgeStep(f) PROVE revived \subseteq revived'
    BY <1>2 DEF PurgeStep, PurgeReleases, PurgeRemoves, PurgeHangs, Hangs, storeVars
  <1>3. QED
    BY <1>1, <1>2, NextSteps
    DEF Invite, Message, WorkerExits, WorkerTakesMessage, Create, FastReject,
        OutboundAndFork, TimerFires, ForkReturns, GiveWay, PurgeCutShort, SafetyTimerFires,
        Sweep, BudgetRunsOut, vars, storeVars

LEMMA PurgeQueue ==
  ASSUME NEW f \in Purgers, PurgeStep(f) \/ PurgeCutShort \/ SafetyTimerFires \/ Sweep
  PROVE  lives' = lives /\ (queue' = queue \/ Poison)
  BY DEF PurgeStep, PurgeReleases, PurgeRemoves, PurgeHangs, Hangs, PurgeCutShort,
     SafetyTimerFires, Sweep, RemoveCall, dispatchVars, countVars

(* Before the call is created, only its INVITE comes and is taken.         *)
LEMMA BeforeCall ==
  ASSUME MaxLives = 1, TypeInv, OneLife, lives = 0, [Next]_vars
  PROVE  \/ Invite \/ Create
         \/ UNCHANGED <<queue, caller, call, pc, entry, sem, released, lives>>
  <1>1. /\ queue \in {<<>>, <<"invite">>} /\ call = NoCall
        /\ \A f \in Fibers : pc[f] = "idle"
        /\ \A t \in Timers : entry[t] = "none"
    BY DEF OneLife
  <1>2. queue # <<>> => Head(queue) = "invite"
    BY <1>1
  <1>3. ~Message /\ ~WorkerExits /\ ~WorkerTakesMessage
    BY <1>2 DEF Message, WorkerExits, WorkerTakesMessage
  <1>4. ~FastReject /\ ~OutboundAndFork /\ ~TimerFires /\ ~ForkReturns
    BY <1>1
    DEF FastReject, OutboundAndFork, TimerFires, ForkReturns, Handlers, Fibers, Timers
  <1>5. ~PurgeCutShort /\ ~SafetyTimerFires /\ ~Sweep
    BY <1>1 DEF PurgeCutShort, SafetyTimerFires, Sweep, Orphaned, NoCall, Fibers, Timers
  <1>6. \A h \in Handlers : ~HandlerStep(h)
    BY <1>1, HandlerQueue DEF Fibers
  <1>7. \A f \in Purgers : ~PurgeStep(f)
    BY <1>1 DEF PurgeStep, PurgeReleases, PurgeRemoves, PurgeHangs, Purgers, Fibers
  <1>8. \A f \in Fibers : ~BudgetRunsOut(f)
    BY <1>1 DEF BudgetRunsOut
  <1>9. GiveWay => UNCHANGED <<queue, caller, call, pc, entry, sem, released, lives>>
    BY DEF GiveWay, dispatchVars, permitVars, countVars, endVars, storeVars
  <1>10. QED
    BY <1>3, <1>4, <1>5, <1>6, <1>7, <1>8, <1>9, NextSteps
    DEF vars, dispatchVars, permitVars, timerVars, countVars, endVars, storeVars

LEMMA OneLifeInit == ASSUME MaxLives = 1 PROVE Init => OneLife
  BY DEF Init, OneLife

LEMMA OneLifeNext ==
  ASSUME MaxLives = 1, TypeInv, OneLife, [Next]_vars
  PROVE  OneLife'
  <1>1. CASE lives = 0
    <2>1. CASE Invite
      <3>1. queue = <<>>
        BY <1>1, <2>1 DEF OneLife, Invite
      <3>2. Append(<<>>, "invite") = <<"invite">>
        OBVIOUS
      <3>3. queue' \in {<<>>, <<"invite">>}
        BY <2>1, <3>1, <3>2 DEF Invite, Dispatch, Offer
      <3>4. QED
        BY <1>1, <2>1, <3>3
        DEF OneLife, Invite, permitVars, timerVars, countVars, endVars, storeVars
    <2>2. CASE Create
      <3>1. queue = <<"invite">>
        BY <1>1, <2>2 DEF OneLife, Create
      <3>2. Len(queue') = 0
        BY <2>2, <3>1 DEF Create
      <3>3. lives' # 0
        BY <1>1, <2>2 DEF Create
      <3>4. QED
        BY <3>2, <3>3 DEF OneLife
    <2>3. CASE UNCHANGED <<queue, caller, call, pc, entry, sem, released, lives>>
      BY <1>1, <2>3 DEF OneLife
    <2>4. QED
      BY <1>1, <2>1, <2>2, <2>3, BeforeCall
  <1>2. CASE lives # 0
    <2>1. ~Create /\ ~Invite
      BY <1>2 DEF Create, Invite, TypeInv, CallOK
    <2>2. /\ lives' = lives
          /\ \/ queue' = queue \/ Poison \/ Dispatch("message") \/ queue' = <<>>
             \/ queue # <<>> /\ queue' = Tail(queue) /\ exists' = exists
      BY <2>1, NextSteps, HandlerQueue, PurgeQueue
      DEF Message, WorkerExits, WorkerTakesMessage, FastReject, OutboundAndFork, TimerFires,
          ForkReturns, GiveWay, BudgetRunsOut, vars, dispatchVars, countVars, Purgers
    <2>3. QueueOK /\ \A i \in 1..Len(queue) : queue[i] # "invite"
      BY <1>2 DEF OneLife, TypeInv
    <2>4. CASE Poison
      <3>1. \A i \in 1..Len(Offer("poison")) : Offer("poison")[i] # "invite"
        BY <2>3, OfferTypes
      <3>2. QED
        BY <1>2, <2>2, <2>3, <2>4, <3>1 DEF OneLife, Poison
    <2>5. CASE Dispatch("message")
      <3>1. \A i \in 1..Len(Offer("message")) : Offer("message")[i] # "invite"
        BY <2>3, OfferTypes
      <3>2. \A i \in 1..Len(<<"message">>) : <<"message">>[i] # "invite"
        OBVIOUS
      <3>3. QED
        BY <1>2, <2>2, <2>5, <3>1, <3>2 DEF OneLife, Dispatch
    <2>6. CASE queue # <<>> /\ queue' = Tail(queue) /\ exists' = exists
      <3>1. /\ Len(queue) \in Nat /\ Len(queue') = Len(queue) - 1
            /\ \A i \in 1..Len(queue') : queue'[i] = queue[i + 1]
        BY <2>3, <2>6, TailTypes DEF QueueOK
      <3>2. \A i \in 1..Len(queue') : queue'[i] # "invite"
        BY <2>3, <3>1
      <3>3. QED
        BY <1>2, <2>2, <3>2 DEF OneLife
    <2>7. CASE queue' = <<>>
      BY <1>2, <2>2, <2>7 DEF OneLife
    <2>8. CASE queue' = queue
      BY <1>2, <2>2, <2>3, <2>8 DEF OneLife
    <2>9. QED
      BY <2>2, <2>4, <2>5, <2>6, <2>7, <2>8
  <1>3. QED
    BY <1>1, <1>2

(* The call comes into being once, when nothing runs for it.               *)
LEMMA CreateAlone ==
  ASSUME MaxLives = 1, TypeInv, OneLife, Create
  PROVE  /\ lives = 0 /\ lives' = 1 /\ call' = Skeleton(1) /\ call' # NoCall
         /\ \A f \in Fibers : pc[f] = "idle"
         /\ \A t \in Timers : entry[t] = "none"
         /\ \A h \in Handlers : sem[h] = 0
         /\ released = {}
  <1>1. lives = 0
    BY DEF Create, TypeInv, CallOK
  <1>2. QED
    BY <1>1 DEF Create, OneLife, Skeleton, NoCall

-----------------------------------------------------------------------------
(* Permits                                                                 *)

(* Where the permit, the loaded call and what follows from it survive: a   *)
(* call that is gone stays gone, and newcomers get the permit that those   *)
(* before them wait for, or there is none before them, or no call.         *)
GoneStays == call = NoCall => call' = NoCall
SlotStays == slot' = slot \/ slot = 0 \/ call' = NoCall

LEMMA PermitKept ==
  ASSUME NEW h \in Handlers, PermitOf(h), Keeps(h) \/ Settles(h), GoneStays, SlotStays
  PROVE  PermitOf(h)'
  BY DEF PermitOf, Keeps, Settles, GoneStays, SlotStays

(* Whoever enters takes the permit that the others wait for.               *)
LEMMA EnterPermit ==
  ASSUME TypeInv, PermitInv, NEW h \in Handlers, Enter(h), UNCHANGED <<call, holder>>
  PROVE  \A g \in Handlers : PermitOf(g)'
  <1>1. slot' = slot \/ slot = 0
    BY DEF Enter
  <1>2. ASSUME NEW g \in Handlers, g # h PROVE PermitOf(g)'
    <2>1. pc'[g] = pc[g] /\ sem'[g] = sem[g]
      BY <1>2 DEF Enter, TypeInv, FibersOK, Fibers
    <2>2. PermitOf(g)
      BY DEF PermitInv
    <2>3. QED
      BY <1>1, <2>1, <2>2 DEF PermitOf
  <1>3. PermitOf(h)'
    BY DEF Enter, TypeInv, FibersOK, Fibers, PermitOf
  <1>4. QED
    BY <1>2, <1>3

(* Whoever loads the call has waited for its permit; who finds none, none  *)
(* was there.                                                              *)
LEMMA NoReadBack ==
  ASSUME revived' = {}, NEW h \in Handlers
  PROVE  ~\E body \in stored : ReadBack(h, body)
  BY DEF ReadBack

LEMMA LoadPermit ==
  ASSUME TypeInv, PermitInv, NEW h \in Handlers, Loads(h), revived' = {}
  PROVE  \A g \in Handlers : PermitOf(g)'
  <1>1. h \in Fibers /\ pc \in [Fibers -> Steps] /\ PermitOf(h)
    BY DEF TypeInv, FibersOK, Fibers, PermitInv
  <1>2. Load(h) \/ NotFound(h)
    BY NoReadBack DEF Loads
  <1>3. GoneStays /\ SlotStays
    BY <1>2 DEF Load, NotFound, GoneStays, SlotStays, permitVars
  <1>4. ASSUME NEW g \in Handlers \ {h} PROVE PermitOf(g)'
    <2>1. Keeps(g)
      BY <1>2, HandlerFrame DEF HandlerStep, Fibers
    <2>2. QED
      BY <1>3, <2>1, PermitKept DEF PermitInv
  <1>5. CASE Load(h)
    <2>1. sem[h] \in Permits
      BY <1>1, <1>5 DEF Load, PermitOf
    <2>2. holder'[sem[h]] = h /\ sem' = sem /\ slot' = slot /\ call' = call
      BY <1>5, <2>1 DEF Load, TypeInv, FibersOK
    <2>3. pc'[h] \in {"run", "fetch"} /\ (pc'[h] = "fetch" => call = NoCall)
      BY <1>1, <1>5 DEF Load
    <2>4. PermitOf(h)'
      BY <1>1, <2>1, <2>2, <2>3 DEF PermitOf
    <2>5. QED
      BY <1>4, <2>4
  <1>6. CASE NotFound(h)
    <2>1. call' = NoCall /\ pc'[h] = "vanished"
      BY <1>1, <1>6 DEF NotFound, PermitOf
    <2>2. PermitOf(h)'
      BY <2>1 DEF PermitOf
    <2>3. QED
      BY <1>4, <2>2
  <1>7. QED
    BY <1>2, <1>5, <1>6

(* What a handler does to the call, to its permit and to the timers.       *)
LEMMA HandlerPermit ==
  ASSUME TypeInv, PermitInv, NEW h \in Handlers, HandlerStep(h), revived' = {}
  PROVE  /\ GoneStays /\ SlotStays
         /\ \/ /\ pc[h] = "wait" /\ sem[h] \in Permits /\ sem'[h] = sem[h]
            \/ pc'[h] \notin {"run", "updated"}
            \/ pc[h] = "run" /\ sem'[h] = sem[h] /\ entry'["timer"] = entry["timer"]
  <1> h \in Fibers /\ PermitOf(h)
    BY DEF Fibers, PermitInv
  <1> USE DEF GoneStays, SlotStays
  <1>1. CASE Load(h)
    BY <1>1 DEF Load, PermitOf, permitVars
  <1>2. CASE Vanished(h) \/ FetchFails(h)
    <2>1. pc'[h] = "idle" /\ call = NoCall /\ call' = call
      BY <1>2, EndsFrame DEF Vanished, FetchFails, PermitOf, TypeInv
    <2>2. QED
      BY <2>1
  <1>3. ASSUME NEW o \in Outcomes(base[h].state), NEW leg \in Legs, Update(h, o, leg)
        PROVE  /\ GoneStays /\ slot' = slot /\ pc[h] = "run"
               /\ sem'[h] = sem[h] /\ entry'["timer"] = entry["timer"]
    <2>1. GoneStays /\ slot' = slot /\ pc[h] = "run"
      BY <1>3 DEF Update
    <2>2. \E S : h \notin S /\ Moves(h, "updated", o, S)
      BY <1>3 DEF Update, Handlers
    <2>3. sem'[h] = sem[h]
      BY <2>2, MovesFrame DEF TypeInv
    <2>4. entry'["timer"] = entry["timer"]
      BY <1>3 DEF Update, Timers
    <2>5. QED
      BY <2>1, <2>3, <2>4
  <1>4. CASE CriticalKeep(h) \/ CriticalTerminate(h) \/ CriticalEnd(h)
    <2>1. \E S : h \notin S /\ Moves(h, "outbound", out[h], S)
      BY <1>4 DEF CriticalKeep, CriticalTerminate, CriticalEnd, Cancels
    <2>2. pc'[h] = "outbound"
      BY <2>1, MovesFrame DEF TypeInv
    <2>3. GoneStays /\ SlotStays
      BY <1>4 DEF CriticalKeep, CriticalTerminate, CriticalEnd, RemoveCall
    <2>4. QED
      BY <2>2, <2>3
  <1>5. CASE CriticalHangs(h)
    BY <1>5, HangsFrame DEF CriticalHangs, Hangs, TypeInv, permitVars
  <1>6. CASE Outbound(h)
    <2>1. \E p \in {"release", "idle"} : \E o, S : Moves(h, p, o, S)
      BY <1>6 DEF Outbound, Ends
    <2>2. pc'[h] \in {"release", "idle"}
      BY <2>1, MovesFrame DEF TypeInv
    <2>3. QED
      BY <1>6, <2>2 DEF Outbound
  <1>7. CASE ReleaseLimiter(h) \/ WriteCdr(h)
    <2>1. \E p \in {"cdr", "idle"} : \E o, S : Moves(h, p, o, S)
      BY <1>7 DEF ReleaseLimiter, WriteCdr, Ends
    <2>2. pc'[h] \in {"cdr", "idle"}
      BY <2>1, MovesFrame DEF TypeInv
    <2>3. QED
      BY <1>7, <2>2 DEF ReleaseLimiter, WriteCdr
  <1>8. CASE NotFound(h)
    BY <1>8 DEF NotFound, permitVars, TypeInv, FibersOK
  <1>9. QED
    BY <1>1, <1>2, <1>3, <1>4, <1>5, <1>6, <1>7, <1>8, NoReadBack DEF HandlerStep

(* What a purge does to them.                                              *)
LEMMA PurgePermit ==
  ASSUME TypeInv, NEW f \in Purgers,
         PurgeStep(f) \/ PurgeCutShort \/ SafetyTimerFires \/ Sweep
  PROVE  /\ GoneStays /\ SlotStays
         /\ entry'["timer"] \in {entry["timer"], "none"}
  <1> f \in Fibers /\ "timer" \in Timers /\ "safety" \in Fibers
    BY DEF Purgers, Fibers, Timers
  <1> USE DEF GoneStays, SlotStays
  <1>1. CASE PurgeReleases(f) \/ Sweep
    BY <1>1 DEF PurgeReleases, Sweep, permitVars, timerVars
  <1>2. CASE PurgeRemoves(f)
    BY <1>2 DEF PurgeRemoves, RemoveCall, NoTimers
  <1>3. CASE PurgeHangs(f)
    BY <1>3, HangsFrame DEF PurgeHangs, Hangs, permitVars, TypeInv
  <1>4. CASE PurgeCutShort
    BY <1>4, EndsFrame DEF PurgeCutShort, TypeInv
  <1>5. CASE SafetyTimerFires
    BY <1>5 DEF SafetyTimerFires, permitVars, TypeInv, FibersOK
  <1>6. QED
    BY <1>1, <1>2, <1>3, <1>4, <1>5 DEF PurgeStep

LEMMA PermitNext ==
  ASSUME MaxLives = 1, TypeInv, OneLife, PermitInv, revived' = {}, [Next]_vars
  PROVE  PermitInv'
  <1> "worker" \in Handlers /\ "timer" \in Handlers /\ "fork" \in Handlers
    BY DEF Handlers
  <1> Handlers \subseteq Fibers
    BY DEF Fibers
  (* Nothing but the worker moves while it creates the call. *)
  <1>1. ASSUME \A h \in Handlers : Keeps(h), entry'["timer"] \in {entry["timer"], "none"},
               GoneStays, SlotStays
        PROVE  PermitInv'
    <2>1. \A h \in Handlers : PermitOf(h)'
      BY <1>1, PermitKept DEF PermitInv
    <2>2. Creating' => Creating
      BY <1>1 DEF Creating, Keeps
    <2>3. Alone => Alone'
      BY <1>1 DEF Alone, Keeps
    <2>4. QED
      BY <2>1, <2>2, <2>3 DEF PermitInv
  <1>2. ASSUME NEW h \in Handlers, Enter(h), UNCHANGED <<call, holder>>,
               h = "fork" => pc[h] = "http", h = "timer" => entry[h] = "asleep"
        PROVE  PermitInv'
    <2>1. \A g \in Handlers : PermitOf(g)'
      BY <1>2, EnterPermit
    <2>2. pc' = [pc EXCEPT ![h] = "wait"] /\ \E i \in Permits : sem' = [sem EXCEPT ![h] = i]
      BY <1>2 DEF Enter
    <2>3. CASE h = "worker"
      BY <2>1, <2>2, <2>3 DEF PermitInv, Creating, TypeInv, FibersOK
    <2>4. CASE h # "worker"
      <3>1. Creating' => Creating
        BY <2>2, <2>4 DEF Creating, TypeInv, FibersOK
      <3>2. Alone => h = "worker"
        BY <1>2 DEF Alone, Handlers
      <3>3. QED
        BY <2>1, <2>4, <3>1, <3>2 DEF PermitInv
    <2>5. QED
      BY <2>3, <2>4
  <1>3. CASE WorkerTakesMessage
    BY <1>2, <1>3 DEF WorkerTakesMessage
  <1>4. CASE TimerFires
    BY <1>2, <1>4 DEF TimerFires
  <1>5. CASE ForkReturns
    BY <1>2, <1>5 DEF ForkReturns
  <1>6. CASE Create
    <2>1. /\ \A f \in Fibers : pc[f] = "idle"
          /\ entry["timer"] = "none" /\ \A h \in Handlers : sem[h] = 0
      BY <1>6, CreateAlone DEF Timers
    <2>2. pc' = [pc EXCEPT !["worker"] = "run"] /\ sem' = sem /\ entry' = entry
      BY <1>6 DEF Create, permitVars, timerVars
    <2>3. Alone'
      BY <2>1, <2>2 DEF Alone, TypeInv, FibersOK
    <2>4. \A h \in Handlers : PermitOf(h)'
      BY <2>1, <2>2 DEF PermitOf, TypeInv, FibersOK
    <2>5. QED
      BY <2>3, <2>4 DEF PermitInv
  <1>7. ASSUME NEW h \in Handlers, HandlerStep(h) PROVE PermitInv'
    <2>1. GoneStays /\ SlotStays /\ \A g \in Handlers \ {h} : Keeps(g)
      BY <1>7, HandlerPermit, HandlerFrame
    <2>2. ~Loads(h) => Settles(h)
      BY <1>7, HandlerFrame
    <2>3. \A g \in Handlers : PermitOf(g)'
      <3>1. ~Loads(h) => PermitOf(h)'
        BY <2>1, <2>2, PermitKept DEF PermitInv
      <3>2. \A g \in Handlers \ {h} : PermitOf(g)'
        BY <2>1, PermitKept DEF PermitInv
      <3>3. QED
        BY <3>1, <3>2, LoadPermit
    <2>4. CASE h = "worker"
      <3>1. pc[h] \notin {"wait", "run"} => ~(Creating)'
        BY <1>7, <2>4, HandlerPermit DEF Creating
      <3>2. pc[h] = "wait" => ~(Creating)'
        BY <1>7, <2>4, HandlerPermit DEF Creating, Permits
      <3>3. pc[h] = "run" /\ Creating' => Creating /\ entry'["timer"] = entry["timer"]
        BY <1>7, <2>4, HandlerPermit DEF Creating
      <3>4. Alone /\ entry'["timer"] = entry["timer"] => Alone'
        BY <2>1, <2>4 DEF Alone, Keeps
      <3>5. QED
        BY <2>3, <3>1, <3>2, <3>3, <3>4 DEF PermitInv
    <2>5. CASE h # "worker"
      <3>1. Creating' => Creating
        BY <2>1, <2>5 DEF Creating, Keeps
      <3>2. ~Alone
        BY <1>7, <2>5, HandlerQueue DEF Alone, Handlers
      <3>3. QED
        BY <2>3, <3>1, <3>2 DEF PermitInv
    <2>6. QED
      BY <2>4, <2>5
  <1>8. ASSUME NEW f \in Purgers,
               \/ PurgeStep(f)
               \/ f = "safety" /\ (PurgeCutShort \/ SafetyTimerFires)
               \/ f = "sweep" /\ Sweep
        PROVE  PermitInv'
    <2>1. \A h \in Handlers : Keeps(h)
      BY <1>8, PurgeFrame DEF Purgers, Handlers, Fibers
    <2>2. QED
      BY <1>1, <1>8, <2>1, PurgePermit
  <1>9. ASSUME NEW f \in Fibers, Ends(f), UNCHANGED <<call, slot>> PROVE PermitInv'
    BY <1>1, <1>9, EndsFrame DEF TypeInv, GoneStays, SlotStays, Timers
  <1>10. CASE OutboundAndFork
    <2>1. Moves("fork", "http", "none", {"worker"}) /\ UNCHANGED <<call, slot>>
      BY <1>10 DEF OutboundAndFork
    <2>2. /\ \A h \in Handlers \ {"fork"} : Keeps(h)
          /\ Settles("fork") /\ pc'["worker"] = "idle"
      BY <2>1, MovesFrame DEF TypeInv
    <2>3. \A h \in Handlers : PermitOf(h)'
      BY <2>1, <2>2, PermitKept DEF PermitInv, GoneStays, SlotStays
    <2>4. QED
      BY <2>2, <2>3 DEF PermitInv, Creating
  <1>11. CASE Invite \/ Message \/ WorkerExits \/ GiveWay \/ UNCHANGED vars
    <2>1. UNCHANGED <<call, slot, sem, holder, entry, pc, out, base>>
      BY <1>11 DEF Invite, Message, WorkerExits, GiveWay, vars, permitVars, timerVars
    <2>2. QED
      BY <2>1 DEF PermitInv, PermitOf, Creating, Alone
  <1>12. QED
    BY <1>3, <1>4, <1>5, <1>6, <1>7, <1>8, <1>9, <1>10, <1>11, NextSteps
    DEF FastReject, BudgetRunsOut, Purgers

-----------------------------------------------------------------------------
(* The call a handler has loaded                                           *)

(* The permit keeps handlers apart while the call is in memory.            *)
LEMMA OneRunner ==
  ASSUME PermitInv, call # NoCall, NEW g \in Handlers, NEW h \in Handlers,
         pc[g] = "run", pc[h] = "run"
  PROVE  g = h
  <1>1. PermitOf(g) /\ PermitOf(h)
    BY DEF PermitInv
  <1>2. CASE Creating
    BY <1>2 DEF PermitInv, Alone, Handlers
  <1>3. CASE ~Creating
    <2>1. sem[g] \in Permits /\ holder[sem[g]] = g /\ sem[h] \in Permits /\ holder[sem[h]] = h
      BY <1>1, <1>3 DEF PermitOf, Creating
    <2>2. sem[g] = slot /\ sem[h] = slot
      BY <1>1, <2>1 DEF PermitOf, Permits
    <2>3. QED
      BY <2>1, <2>2
  <1>4. QED
    BY <1>2, <1>3

LEMMA BaseKept ==
  ASSUME NEW h \in Handlers, BaseOf(h), Keeps(h) \/ pc'[h] # "run",
         call' \in {call, NoCall}, call' # NoCall /\ h \in stale' => h \in stale
  PROVE  BaseOf(h)'
  BY DEF BaseOf, Keeps

(* Only an update makes another call of it, and an update, the end of a    *)
(* call or a purge makes stale.                                            *)
LEMMA HandlerCall ==
  ASSUME NEW h \in Handlers, HandlerStep(h), revived' = {}
  PROVE  \/ \E o \in Outcomes(base[h].state), leg \in Legs : Update(h, o, leg)
         \/ call' = NoCall
         \/ call' = call /\ stale' \subseteq stale
  BY NoReadBack
  DEF HandlerStep, Load, NotFound, FetchFails, Vanished, CriticalKeep, CriticalTerminate,
     CriticalEnd, CriticalHangs, Hangs, Outbound, ReleaseLimiter, WriteCdr, RemoveCall

LEMMA PurgeCall ==
  ASSUME NEW f \in Purgers, PurgeStep(f) \/ PurgeCutShort \/ SafetyTimerFires \/ Sweep
  PROVE  call' = NoCall \/ (call' = call /\ stale' = stale)
  BY DEF PurgeStep, PurgeReleases, PurgeRemoves, PurgeHangs, Hangs, PurgeCutShort,
     SafetyTimerFires, Sweep, RemoveCall

LEMMA BaseNext ==
  ASSUME MaxLives = 1, TypeInv, OneLife, PermitInv, BaseInv, revived' = {}, [Next]_vars
  PROVE  BaseInv'
  <1> Handlers \subseteq Fibers
    BY DEF Fibers
  <1>1. ASSUME NEW h \in Handlers, HandlerStep(h) PROVE BaseInv'
    <2>1. \A g \in Handlers \ {h} : Keeps(g)
      BY <1>1, HandlerFrame
    <2>2. CASE call' # NoCall /\ \E o \in Outcomes(base[h].state), leg \in Legs : Update(h,
    o, leg)
      <3>1. call # NoCall /\ pc[h] = "run" /\ ~Loads(h)
        BY <2>2 DEF Update, Loads, Load, ReadBack, NotFound
      <3>2. pc'[h] # "run"
        BY <1>1, <3>1, HandlerFrame DEF Settles
      <3>3. ASSUME NEW g \in Handlers \ {h} PROVE pc'[g] # "run"
        BY <2>1, <3>1, OneRunner DEF Keeps
      <3>4. QED
        BY <3>2, <3>3 DEF BaseInv, BaseOf
    <2>3. CASE call' = NoCall
      BY <2>3 DEF BaseInv, BaseOf
    <2>4. CASE call' = call /\ stale' \subseteq stale
      <3>1. \A g \in Handlers \ {h} : BaseOf(g)'
        BY <2>1, <2>4, BaseKept DEF BaseInv
      <3>2. CASE Load(h)
        BY <3>1, <3>2 DEF Load, BaseInv, BaseOf, TypeInv, FibersOK
      <3>3. CASE NotFound(h)
        <4>1. pc'[h] # "run"
          BY <3>3 DEF NotFound, TypeInv, FibersOK
        <4>2. QED
          BY <3>1, <4>1 DEF BaseInv, BaseOf
      <3>4. CASE ~Loads(h)
        <4>1. pc'[h] # "run"
          BY <1>1, <3>4, HandlerFrame DEF Settles
        <4>2. QED
          BY <3>1, <4>1 DEF BaseInv, BaseOf
      <3>5. QED
        BY <3>2, <3>3, <3>4, NoReadBack DEF Loads
    <2>5. QED
      BY <1>1, <2>2, <2>3, <2>4, HandlerCall
  <1>2. ASSUME NEW f \in Purgers,
               \/ PurgeStep(f)
               \/ f = "safety" /\ (PurgeCutShort \/ SafetyTimerFires)
               \/ f = "sweep" /\ Sweep
        PROVE  BaseInv'
    <2>1. \A h \in Handlers : Keeps(h)
      BY <1>2, PurgeFrame DEF Purgers, Handlers, Fibers
    <2>2. QED
      BY <1>2, <2>1, PurgeCall, BaseKept DEF BaseInv, BaseOf
  <1>3. ASSUME NEW f \in Fibers, Ends(f), UNCHANGED <<call, stale>> PROVE BaseInv'
    BY <1>3, EndsFrame, BaseKept DEF TypeInv, BaseInv
  <1>4. ASSUME NEW h \in Handlers, Enter(h), UNCHANGED <<call, stale, base>> PROVE BaseInv'
    BY <1>4 DEF Enter, BaseInv, BaseOf, TypeInv, FibersOK
  <1>5. CASE Create
    <2>1. \A f \in Fibers : pc[f] = "idle"
      BY <1>5, CreateAlone
    <2>2. /\ pc' = [pc EXCEPT !["worker"] = "run"] /\ base' = [base EXCEPT !["worker"] = call']
          /\ stale' = {}
      BY <1>5, <2>1 DEF Create
    <2>3. QED
      BY <2>1, <2>2 DEF BaseInv, BaseOf, TypeInv, FibersOK
  <1>6. CASE OutboundAndFork
    <2>1. /\ \A h \in Handlers \ {"fork"} : Keeps(h)
          /\ Settles("fork") /\ UNCHANGED <<call, stale>>
      BY <1>6, MovesFrame DEF OutboundAndFork, TypeInv, Handlers, Fibers
    <2>2. QED
      BY <2>1, BaseKept DEF BaseInv, Settles
  <1>7. CASE Invite \/ Message \/ WorkerExits \/ GiveWay \/ UNCHANGED vars
    <2>1. UNCHANGED <<call, pc, base, stale>>
      BY <1>7 DEF Invite, Message, WorkerExits, GiveWay, vars
    <2>2. QED
      BY <2>1 DEF BaseInv, BaseOf
  <1>8. QED
    BY <1>1, <1>2, <1>3, <1>4, <1>5, <1>6, <1>7, NextSteps
    DEF WorkerTakesMessage, TimerFires, ForkReturns, FastReject, BudgetRunsOut, Purgers,
        Handlers

-----------------------------------------------------------------------------
(* The release of the limiter slots                                        *)

(* A call on its way out does not come back: what is written over it was   *)
(* made of it.                                                             *)
LEMMA EndingStays ==
  ASSUME BaseInv, Ending, NEW h \in Handlers,
         NEW o \in Outcomes(base[h].state), NEW leg \in Legs, Update(h, o, leg)
  PROVE  Ending'
  <1>1. CASE call = NoCall
    BY <1>1 DEF Update, Ending
  <1>2. CASE call # NoCall
    <2>1. base[h] = call /\ call.state \in {"terminating", "terminated"}
      BY <1>2 DEF BaseInv, BaseOf, Update, Ending
    <2>2. After(base[h], o).state \in {"terminating", "terminated"}
      BY <2>1 DEF After, Outcomes
    <2>3. \E legs : call' = [After(base[h], o) EXCEPT !.refreshed = legs]
      BY <1>2 DEF Update
    <2>4. call'.state = After(base[h], o).state
      BY <2>3 DEF After
    <2>5. QED
      BY <2>2, <2>4 DEF Ending
  <1>3. QED
    BY <1>1, <1>2

(* Who ends the call and what is released, by a handler's step.            *)
LEMMA HandlerEnds ==
  ASSUME TypeInv, NEW h \in Handlers, HandlerStep(h)
  PROVE  /\ EndsCall(h)' => EndsCall(h) \/ call' = NoCall
         /\ released' # released => EndsCall(h)
  <1> h \in Fibers
    BY DEF Fibers
  <1> USE DEF TypeInv, EndsCall
  <1>1. CASE Loads(h)
    BY <1>1 DEF Loads, Load, ReadBack, NotFound, FibersOK, endVars
  <1>2. CASE Vanished(h) \/ FetchFails(h)
    BY <1>2, EndsFrame DEF Vanished, FetchFails, endVars
  <1>3. ASSUME NEW o \in Outcomes(base[h].state), NEW leg \in Legs, Update(h, o, leg)
        PROVE  pc'[h] \notin {"release", "cdr", "outbound"} /\ released' = released
    <2>1. \E S : Moves(h, "updated", o, S)
      BY <1>3 DEF Update
    <2>2. pc'[h] \in {"updated", "idle"}
      BY <2>1 DEF Moves
    <2>3. QED
      BY <1>3, <2>2 DEF Update, endVars
  <1>4. CASE CriticalKeep(h) \/ CriticalTerminate(h)
    <2>1. \E S : h \notin S /\ Moves(h, "outbound", out[h], S)
      BY <1>4 DEF CriticalKeep, CriticalTerminate, Cancels
    <2>2. pc'[h] = "outbound" /\ out'[h] \in {"keep", "terminate"}
      BY <1>4, <2>1, MovesFrame DEF CriticalKeep, CriticalTerminate
    <2>3. QED
      BY <1>4, <2>2 DEF CriticalKeep, CriticalTerminate, endVars
  <1>5. CASE CriticalEnd(h)
    BY <1>5 DEF CriticalEnd, RemoveCall, endVars
  <1>6. CASE CriticalHangs(h)
    BY <1>6, HangsFrame DEF CriticalHangs, Hangs, endVars
  <1>7. CASE Outbound(h)
    <2>1. CASE out[h] \in {"reject", "resolve"}
      BY <1>7, <2>1 DEF Outbound, endVars
    <2>2. CASE out[h] \notin {"reject", "resolve"}
      BY <1>7, <2>2, EndsFrame DEF Outbound, endVars
    <2>3. QED
      BY <2>1, <2>2
  <1>8. CASE ReleaseLimiter(h)
    BY <1>8 DEF ReleaseLimiter
  <1>9. CASE WriteCdr(h)
    BY <1>9 DEF WriteCdr
  <1>10. QED
    BY <1>1, <1>2, <1>3, <1>4, <1>5, <1>6, <1>7, <1>8, <1>9 DEF HandlerStep, Loads

(* A purge that is to release has loaded the call that it ends.            *)
LEMMA PurgeEnds ==
  ASSUME TypeInv, NEW f \in Purgers,
         \/ PurgeStep(f)
         \/ f = "safety" /\ (PurgeCutShort \/ SafetyTimerFires)
         \/ f = "sweep" /\ Sweep
  PROVE  /\ pc'[f] = "release" => base'[f] = call /\ call' = call
         /\ \/ released' = released
            \/ pc[f] = "release" /\ base[f].state = "terminating" /\ call' = call
  <1> f \in Fibers
    BY DEF Purgers, Fibers
  <1> USE DEF TypeInv
  <1>1. CASE PurgeReleases(f)
    BY <1>1 DEF PurgeReleases, FibersOK
  <1>2. CASE PurgeRemoves(f)
    <2>1. pc'[f] = "idle"
      BY <1>2 DEF PurgeRemoves, Moves
    <2>2. QED
      BY <1>2, <2>1 DEF PurgeRemoves, endVars
  <1>3. CASE PurgeHangs(f)
    BY <1>3, HangsFrame DEF PurgeHangs, Hangs, endVars
  <1>4. CASE f = "safety" /\ PurgeCutShort
    BY <1>4, EndsFrame DEF PurgeCutShort, endVars
  <1>5. CASE f = "safety" /\ SafetyTimerFires
    BY <1>5 DEF SafetyTimerFires, PurgeStarts, FibersOK
  <1>6. CASE f = "sweep" /\ Sweep
    BY <1>6 DEF Sweep, PurgeStarts, FibersOK
  <1>7. QED
    BY <1>1, <1>2, <1>3, <1>4, <1>5, <1>6 DEF PurgeStep

LEMMA ReleaseNext ==
  ASSUME MaxLives = 1, TypeInv, OneLife, PermitInv, BaseInv, ReleaseInv, revived' = {},
         [Next]_vars
  PROVE  ReleaseInv'
  <1> DEFINE Releases(f) == pc[f] = "release" /\ base[f].state = "terminating"
  <1> Handlers \subseteq Fibers /\ Purgers \subseteq Fibers /\ Handlers \cap Purgers = {}
    BY DEF Fibers, Handlers, Purgers
  <1>1. ASSUME NEW h \in Handlers, HandlerStep(h) PROVE ReleaseInv'
    <2>1. \A g \in Fibers \ {h} : Keeps(g)
      BY <1>1, HandlerFrame
    <2>2. GoneStays
      BY <1>1, HandlerPermit
    <2>3. Ending => Ending'
      BY <1>1, EndingStays, HandlerCall DEF Ending
    <2>4. \A g \in Handlers : EndsCall(g)' => call' = NoCall
      <3>1. ASSUME NEW g \in Handlers \ {h}, EndsCall(g)' PROVE call' = NoCall
        BY <2>1, <2>2, <3>1 DEF Keeps, EndsCall, ReleaseInv, GoneStays
      <3>2. EndsCall(h)' => call' = NoCall
        BY <1>1, <2>2, HandlerEnds DEF ReleaseInv, GoneStays
      <3>3. QED
        BY <3>1, <3>2
    <2>5. \A f \in Purgers : Releases(f)' => Ending'
      BY <2>1, <2>3 DEF Keeps, ReleaseInv
    <2>6. released' # {} => Ending'
      BY <1>1, <2>2, <2>3, HandlerEnds DEF ReleaseInv, GoneStays, Ending
    <2>7. QED
      BY <2>4, <2>5, <2>6 DEF ReleaseInv
  <1>2. ASSUME NEW f \in Purgers,
               \/ PurgeStep(f)
               \/ f = "safety" /\ (PurgeCutShort \/ SafetyTimerFires)
               \/ f = "sweep" /\ Sweep
        PROVE  ReleaseInv'
    <2>1. \A g \in Fibers \ {f} : Keeps(g)
      BY <1>2, PurgeFrame
    <2>2. call' = NoCall \/ call' = call
      BY <1>2, PurgeCall
    <2>3. Ending => Ending'
      BY <2>2 DEF Ending
    <2>4. \A g \in Handlers : EndsCall(g)' => call' = NoCall
      BY <2>1, <2>2 DEF Keeps, EndsCall, ReleaseInv
    <2>5. \A g \in Purgers : Releases(g)' => Ending'
      <3>1. ASSUME NEW g \in Purgers \ {f} PROVE Releases(g)' => Ending'
        BY <2>1, <2>3 DEF Keeps, ReleaseInv
      <3>2. Releases(f)' => Ending'
        BY <1>2, PurgeEnds DEF Ending
      <3>3. QED
        BY <3>1, <3>2
    <2>6. released' # {} => Ending'
      BY <1>2, <2>3, PurgeEnds DEF ReleaseInv
    <2>7. QED
      BY <2>4, <2>5, <2>6 DEF ReleaseInv
  <1>3. ASSUME \A g \in Fibers : Keeps(g) \/ pc'[g] \in {"wait", "http"},
               UNCHANGED <<call, released>>
        PROVE  ReleaseInv'
    BY <1>3 DEF ReleaseInv, EndsCall, Ending, Keeps
  <1>4. ASSUME NEW f \in Fibers, Ends(f), UNCHANGED <<call, released>> PROVE ReleaseInv'
    BY <1>3, <1>4, EndsFrame DEF TypeInv
  <1>5. ASSUME NEW h \in Handlers, Enter(h), UNCHANGED <<call, released, base, out, holder>>
        PROVE  ReleaseInv'
    <2>1. \A g \in Fibers : Keeps(g) \/ pc'[g] = "wait"
      BY <1>5 DEF Enter, Keeps, TypeInv, FibersOK
    <2>2. QED
      BY <1>3, <1>5, <2>1
  <1>6. CASE Create
    <2>1. (\A f \in Fibers : pc[f] = "idle") /\ released = {}
      BY <1>6, CreateAlone
    <2>2. pc' = [pc EXCEPT !["worker"] = "run"] /\ released' = released
      BY <1>6 DEF Create, endVars
    <2>3. QED
      BY <2>1, <2>2 DEF ReleaseInv, EndsCall, TypeInv, FibersOK
  <1>7. CASE OutboundAndFork
    <2>1. /\ Moves("fork", "http", "none", {"worker"}) /\ "fork" \in Fibers
          /\ UNCHANGED <<call, released>>
      BY <1>7 DEF OutboundAndFork, endVars, Fibers, Handlers
    <2>2. (\A h \in Fibers \ {"fork"} : Keeps(h)) /\ pc'["fork"] = "http"
      BY <2>1, MovesFrame DEF TypeInv
    <2>3. QED
      BY <1>3, <2>1, <2>2
  <1>8. CASE Invite \/ Message \/ WorkerExits \/ GiveWay \/ UNCHANGED vars
    <2>1. UNCHANGED <<call, pc, base, out, released>>
      BY <1>8 DEF Invite, Message, WorkerExits, GiveWay, vars, endVars
    <2>2. QED
      BY <2>1 DEF ReleaseInv, EndsCall, Ending
  <1>9. QED
    BY <1>1, <1>2, <1>4, <1>5, <1>6, <1>7, <1>8, NextSteps
    DEF WorkerTakesMessage, TimerFires, ForkReturns, FastReject, BudgetRunsOut, Purgers,
        Handlers, endVars

-----------------------------------------------------------------------------
(* Theorems for a callRef that names one call                              *)

LEMMA HandlingInit == ASSUME MaxLives = 1 PROVE Init => HandlingInv
  <1> SUFFICES ASSUME Init PROVE HandlingInv
    OBVIOUS
  <1>1. OneLife
    BY OneLifeInit
  <1>2. PermitInv /\ BaseInv /\ ReleaseInv
    BY DEF Init, PermitInv, PermitOf, Creating, BaseInv, BaseOf, ReleaseInv, EndsCall,
       Handlers, Purgers, Fibers
  <1>3. QED
    BY <1>1, <1>2 DEF HandlingInv

LEMMA HandlingNext ==
  ASSUME MaxLives = 1
  PROVE  TypeInv /\ HandlingInv /\ [Next]_vars => HandlingInv'
  <1> SUFFICES ASSUME TypeInv, HandlingInv, [Next]_vars PROVE HandlingInv'
    OBVIOUS
  <1>1. OneLife'
    BY OneLifeNext DEF HandlingInv
  <1>2. ASSUME revived' = {} PROVE (PermitInv /\ BaseInv /\ ReleaseInv)'
    <2>1. OneLife /\ PermitInv /\ BaseInv /\ ReleaseInv
      BY <1>2, RevivedGrows DEF HandlingInv
    <2>2. QED
      BY <1>2, <2>1, PermitNext, BaseNext, ReleaseNext
  <1>3. QED
    BY <1>1, <1>2 DEF HandlingInv

LEMMA HandlingHolds == ASSUME MaxLives = 1 PROVE Spec => []HandlingInv
  <1>1. Init => HandlingInv
    BY HandlingInit
  <1>2. TypeInv /\ HandlingInv /\ [Next]_vars => HandlingInv'
    BY HandlingNext
  <1>3. QED
    BY <1>1, <1>2, TypeHolds, PTL DEF Spec

(* While the call was not read back from the storage after its removal, no *)
(* handler writes it back over a change it has not seen: by a handler that *)
(* ran out of its budget, a timer or a lookup that came back.              *)
THEOREM NoUpdateLost == ASSUME MaxLives = 1 PROVE Spec => NoLostUpdate
  <1>1. HandlingInv /\ TypeInv =>
          (revived = {} => \A h \in stale : UpdatesCall(h) => call = NoCall)
    BY DEF HandlingInv, BaseInv, BaseOf, TypeInv, CallOK, UpdatesCall, Update
  <1>2. QED
    BY <1>1, HandlingHolds, TypeHolds, PTL DEF NoLostUpdate

(* The limiter slots of a call are released by a handler or a purge that   *)
(* ended it, or saw it terminating; no handler that loaded the call before *)
(* puts it back to active, and who finds it active later has read it back  *)
(* from the storage.                                                       *)
THEOREM ReleasedEnds == ASSUME MaxLives = 1 PROVE Spec => []ReleasedIsEnding
  <1>1. HandlingInv /\ TypeInv => ReleasedIsEnding
    <2> SUFFICES ASSUME HandlingInv, TypeInv,
                        NEW l \in (1..MaxLives) \ revived, l \in released, call.life = l
                 PROVE  call.state # "active"
      BY DEF ReleasedIsEnding
    <2>1. revived = {}
      BY DEF TypeInv, CallOK
    <2>2. Ending
      BY <2>1 DEF HandlingInv, ReleaseInv
    <2>3. QED
      BY <2>2 DEF Ending, NoCall
  <1>2. QED
    BY <1>1, HandlingHolds, TypeHolds, PTL

-----------------------------------------------------------------------------
(* The CDR                                                                 *)

(* Who will write the CDR is not interrupted by the step of another: a     *)
(* handler interrupts the timers it cancels only while they run, ...       *)
BillStays(h) == WillBill(h) => WillBill(h)' \/ 1 \in cdrs'
CdrStays == 1 \in cdrs => 1 \in cdrs'

LEMMA MovesSpares ==
  ASSUME TypeInv, NEW f \in Fibers, NEW p, NEW o, NEW S, Moves(f, p, o, S),
         NEW h \in Handlers \ {f}, WillBill(h), h \notin S,
         h \in Timers => entry'[h] # "running"
  PROVE  WillBill(h)'
  BY DEF Moves, WillBill, TypeInv, FibersOK, Fibers

LEMMA EndsSpares ==
  ASSUME TypeInv, NEW f \in Fibers, Ends(f), NEW h \in Handlers \ {f}, WillBill(h)
  PROVE  WillBill(h)'
  <1>1. h \in Timers => entry'[h] # "running"
    BY EndsFrame DEF WillBill, TypeInv
  <1>2. Moves(f, "idle", "none", {f}) /\ h \notin {f}
    BY DEF Ends
  <1>3. QED
    BY <1>1, <1>2, MovesSpares

LEMMA HandlerBills ==
  ASSUME MaxLives = 1, TypeInv, NEW h \in Handlers, HandlerStep(h)
  PROVE  /\ CdrStays /\ \A g \in Handlers : BillStays(g)
         /\ call # NoCall /\ call' = NoCall => WillBill(h)'
  <1> h \in Fibers
    BY DEF Fibers
  <1> USE DEF TypeInv, CdrStays, BillStays
  <1>1. CASE Load(h) \/ NotFound(h)
    <2>1. /\ UNCHANGED <<cdrs, call, out, entry>> /\ ~WillBill(h)
          /\ \E p : pc' = [pc EXCEPT ![h] = p]
      BY <1>1 DEF Load, NotFound, WillBill, endVars, timerVars
    <2>2. QED
      BY <2>1 DEF WillBill, FibersOK
  <1>2. CASE Vanished(h) \/ FetchFails(h)
    <2>1. Ends(h) /\ ~WillBill(h) /\ UNCHANGED <<cdrs, call>>
      BY <1>2 DEF Vanished, FetchFails, WillBill, endVars
    <2>2. QED
      BY <2>1, EndsSpares
  <1>3. ASSUME NEW o \in Outcomes(base[h].state), NEW leg \in Legs, Update(h, o, leg)
        PROVE  cdrs' = cdrs /\ (\A g \in Handlers : BillStays(g)) /\ (call = NoCall \/ call' # NoCall)
    <2>1. \E S : /\ Moves(h, "updated", o, S)
                 /\ S \subseteq {t \in Timers : entry[t] = "running"}
      BY <1>3 DEF Update, Timers
    <2>2. \A t \in Timers : entry'[t] \in {entry[t], "asleep"}
      BY <1>3 DEF Update
    <2>3. cdrs' = cdrs /\ ~WillBill(h)
      BY <1>3 DEF Update, WillBill, endVars
    <2>4. \A g \in Handlers : BillStays(g)
      <3>1. ASSUME NEW g \in Handlers \ {h}, WillBill(g) PROVE WillBill(g)'
        <4>1. g \in Timers => entry[g] # "running" /\ entry'[g] # "running"
          BY <2>2, <3>1 DEF WillBill
        <4>2. \E S : Moves(h, "updated", o, S) /\ g \notin S
          BY <2>1, <4>1
        <4>3. QED
          BY <3>1, <4>1, <4>2, MovesSpares
      <3>2. QED
        BY <2>3, <3>1
    <2>5. call # NoCall => call'.life > 0
      <3>1. base[h] \in CallRecord /\ base[h].life > 0
        BY <1>3 DEF Update, FibersOK, Loaded
      <3>2. call # NoCall => \E legs : call' = [After(base[h], o) EXCEPT !.refreshed = legs]
        BY <1>3 DEF Update
      <3>3. QED
        BY <3>1, <3>2 DEF After, CallRecord
    <2>6. QED
      BY <2>3, <2>4, <2>5 DEF NoCall
  <1>4. CASE CriticalKeep(h) \/ CriticalTerminate(h) \/ CriticalEnd(h)
    <2>1. \E S : /\ Moves(h, "outbound", out[h], S)
                 /\ S \subseteq {t \in Timers \ {h} : entry[t] = "running"}
      BY <1>4 DEF CriticalKeep, CriticalTerminate, CriticalEnd, Cancels, Timers
    <2>2. \A t \in Timers : entry'[t] \in {entry[t], "none", "asleep"}
      BY <1>4 DEF CriticalKeep, CriticalTerminate, CriticalEnd, Cancels, NoTimers, FibersOK
    <2>3. cdrs' = cdrs /\ ~WillBill(h)
      BY <1>4 DEF CriticalKeep, CriticalTerminate, CriticalEnd, WillBill, endVars
    <2>4. \A g \in Handlers : BillStays(g)
      <3>1. ASSUME NEW g \in Handlers \ {h}, WillBill(g) PROVE WillBill(g)'
        <4>1. g \in Timers => entry[g] # "running" /\ entry'[g] # "running"
          BY <2>2, <3>1 DEF WillBill
        <4>2. \E S : Moves(h, "outbound", out[h], S) /\ g \notin S
          BY <2>1, <4>1
        <4>3. QED
          BY <3>1, <4>1, <4>2, MovesSpares
      <3>2. QED
        BY <2>3, <3>1
    <2>5. CASE call # NoCall /\ call' = NoCall
      <3>1. CriticalEnd(h)
        BY <1>4, <2>5 DEF CriticalKeep, CriticalTerminate
      <3>2. out[h] \in {"reject", "resolve"} /\ entry' = NoTimers
        BY <3>1 DEF CriticalEnd, Cancels
      <3>3. \E S : h \notin S /\ Moves(h, "outbound", out[h], S)
        BY <2>1
      <3>4. pc'[h] = "outbound" /\ out'[h] = out[h]
        BY <3>3, MovesFrame
      <3>5. QED
        BY <3>2, <3>4, <2>3, <2>4 DEF WillBill, NoTimers
    <2>6. QED
      BY <2>3, <2>4, <2>5
  <1>5. CASE CriticalHangs(h)
    <2>1. /\ pc[h] = "updated" /\ UNCHANGED <<call, out, cdrs>>
          /\ pc' = [pc EXCEPT ![h] = "stuck"]
      BY <1>5 DEF CriticalHangs, Hangs, endVars
    <2>2. \A t \in Timers : entry'[t] \in {entry[t], "none"}
      BY <1>5, HangsFrame DEF CriticalHangs
    <2>3. QED
      BY <2>1, <2>2 DEF WillBill, FibersOK
  <1>6. CASE Outbound(h)
    <2>1. UNCHANGED <<cdrs, call>>
      BY <1>6 DEF Outbound, endVars
    <2>2. CASE Ends(h) /\ out[h] \notin {"reject", "resolve"}
      BY <2>1, <2>2, EndsSpares DEF WillBill
    <2>3. CASE Moves(h, "release", out[h], {}) /\ entry' = entry
      BY <2>1, <2>3 DEF Moves, WillBill, FibersOK, Fibers
    <2>4. QED
      BY <1>6, <2>2, <2>3 DEF Outbound
  <1>7. CASE ReleaseLimiter(h)
    BY <1>7 DEF ReleaseLimiter, Moves, WillBill, FibersOK, Fibers
  <1>8. CASE WriteCdr(h)
    <2>1. base[h].life = 1
      BY <1>8 DEF WriteCdr, FibersOK, Loaded, CallRecord
    <2>2. 1 \in cdrs' /\ call' = call
      BY <1>8, <2>1 DEF WriteCdr
    <2>3. QED
      BY <2>2
  <1>9. ASSUME NEW body \in stored, ReadBack(h, body)
        PROVE  call' # NoCall /\ cdrs' = cdrs /\ \A g \in Handlers : BillStays(g)
    <2>1. call' # NoCall
      BY <1>9 DEF ReadBack, CallOK, NoCall
    <2>2. QED
      BY <1>9, <2>1 DEF ReadBack, WillBill, FibersOK, endVars, timerVars
  <1>10. QED
    BY <1>1, <1>2, <1>3, <1>4, <1>5, <1>6, <1>7, <1>8, <1>9 DEF HandlerStep

(* ... and a purge has billed the call before it ends it.                  *)
LEMMA PurgeStartsBills ==
  ASSUME MaxLives = 1, TypeInv, NEW f, PurgeStarts(f), call # NoCall
  PROVE  1 \in cdrs'
  <1>1. call.life = 1
    BY DEF TypeInv, CallOK, CallRecord
  <1>2. QED
    BY <1>1 DEF PurgeStarts

LEMMA PurgeBills ==
  ASSUME MaxLives = 1, TypeInv, BillInv, NEW f \in Purgers,
         \/ PurgeStep(f)
         \/ f = "safety" /\ (PurgeCutShort \/ SafetyTimerFires)
         \/ f = "sweep" /\ Sweep
  PROVE  \/ 1 \in cdrs'
         \/ /\ cdrs' = cdrs /\ call' = call /\ \A g \in Handlers : BillStays(g)
            /\ \A g \in Purgers : pc'[g] \in {pc[g], "idle", "stuck", "remove"}
            /\ pc'[f] = "remove" => pc[f] = "release"
  <1> f \in Fibers /\ Handlers \cap Purgers = {} /\ Handlers \subseteq Fibers
    BY DEF Purgers, Fibers, Handlers
  <1> Purgers \subseteq Fibers
    BY DEF Purgers, Fibers
  <1> USE DEF TypeInv, BillStays
  <1>1. CASE PurgeReleases(f)
    BY <1>1 DEF PurgeReleases, WillBill, FibersOK, timerVars
  <1>2. CASE PurgeRemoves(f)
    BY <1>2 DEF PurgeRemoves, BillInv, endVars
  <1>3. CASE PurgeHangs(f)
    BY <1>3, HangsFrame DEF PurgeHangs, Hangs, WillBill, FibersOK, endVars
  <1>4. CASE f = "safety" /\ PurgeCutShort
    <2>1. Ends(f) /\ UNCHANGED <<cdrs, call>>
      BY <1>4 DEF PurgeCutShort, endVars
    <2>2. \A g \in Handlers : BillStays(g)
      BY <2>1, EndsSpares
    <2>3. pc'[f] = "idle" /\ \A g \in Fibers \ {f} : Keeps(g)
      BY <2>1, EndsFrame
    <2>4. QED
      BY <2>1, <2>2, <2>3 DEF Keeps
  <1>5. CASE f = "safety" /\ SafetyTimerFires
    <2>1. CASE call = NoCall
      BY <1>5, <2>1 DEF SafetyTimerFires, WillBill, FibersOK
    <2>2. CASE call # NoCall
      BY <1>5, <2>2, PurgeStartsBills DEF SafetyTimerFires
    <2>3. QED
      BY <2>1, <2>2
  <1>6. CASE f = "sweep" /\ Sweep
    BY <1>6, PurgeStartsBills DEF Sweep, Orphaned, NoCall
  <1>7. QED
    BY <1>1, <1>2, <1>3, <1>4, <1>5, <1>6 DEF PurgeStep

LEMMA BillNext ==
  ASSUME MaxLives = 1, Budgets = FALSE, TypeInv, OneLife, BillInv, [Next]_vars
  PROVE  BillInv'
  <1> DEFINE Purges(f) == pc[f] \in {"release", "remove"}
  <1> Handlers \subseteq Fibers /\ Purgers \subseteq Fibers /\ Handlers \cap Purgers = {}
    BY DEF Fibers, Handlers, Purgers
  <1>1. CASE Create
    <2>1. (\A f \in Fibers : pc[f] = "idle") /\ call' # NoCall
      BY <1>1, CreateAlone
    <2>2. pc' = [pc EXCEPT !["worker"] = "run"]
      BY <1>1 DEF Create
    <2>3. QED
      BY <2>1, <2>2 DEF BillInv, TypeInv, FibersOK, Handlers, Purgers
  <1>2. ASSUME lives' = lives, call' = call, CdrStays, \A h \in Handlers : BillStays(h),
               \A f \in Purgers : Purges(f)' => Purges(f)
        PROVE  BillInv'
    BY <1>2 DEF BillInv, CdrStays, BillStays
  <1>3. ASSUME NEW h \in Handlers, HandlerStep(h) PROVE BillInv'
    <2>1. \A f \in Purgers : Purges(f)' => Purges(f)
      BY <1>3, HandlerFrame DEF Keeps
    <2>2. lives' = lives /\ CdrStays /\ \A g \in Handlers : BillStays(g)
      BY <1>3, HandlerQueue, HandlerBills
    <2>3. call # NoCall /\ call' = NoCall => WillBill(h)'
      BY <1>3, HandlerBills
    <2>4. QED
      BY <2>1, <2>2, <2>3 DEF BillInv, CdrStays, BillStays
  <1>4. ASSUME NEW f \in Purgers,
               \/ PurgeStep(f)
               \/ f = "safety" /\ (PurgeCutShort \/ SafetyTimerFires)
               \/ f = "sweep" /\ Sweep
        PROVE  BillInv'
    <2>1. lives' = lives
      BY <1>4, PurgeQueue
    <2>2. CASE 1 \in cdrs'
      BY <2>2 DEF BillInv
    <2>3. CASE /\ cdrs' = cdrs /\ call' = call /\ \A g \in Handlers : BillStays(g)
               /\ \A g \in Purgers : pc'[g] \in {pc[g], "idle", "stuck", "remove"}
               /\ pc'[f] = "remove" => pc[f] = "release"
      <3>1. \A g \in Purgers : Purges(g)' => Purges(g)
        BY <1>4, <2>3, PurgeFrame DEF Keeps
      <3>2. QED
        BY <1>2, <2>1, <2>3, <3>1 DEF CdrStays
    <2>4. QED
      BY <1>4, <2>2, <2>3, PurgeBills
  <1>5. ASSUME NEW h \in Handlers, Enter(h), pc[h] \in {"idle", "http"},
               UNCHANGED <<call, cdrs, out, lives>>,
               h # "timer" => entry' = entry
        PROVE  BillInv'
    <2>1. pc' = [pc EXCEPT ![h] = "wait"]
      BY <1>5 DEF Enter
    <2>2. \A g \in Handlers : BillStays(g)
      BY <1>5, <2>1 DEF BillStays, WillBill, TypeInv, FibersOK, Handlers, Timers
    <2>3. \A f \in Purgers : Purges(f)' => Purges(f)
      BY <2>1 DEF TypeInv, FibersOK
    <2>4. QED
      BY <1>2, <1>5, <2>2, <2>3 DEF CdrStays
  <1>6. CASE FastReject
    <2>1. Ends("worker") /\ UNCHANGED <<call, cdrs, lives>> /\ ~WillBill("worker")
      BY <1>6 DEF FastReject, WillBill, countVars, endVars, storeVars
    <2>2. \A g \in Handlers : BillStays(g)
      BY <2>1, EndsSpares DEF BillStays, Handlers
    <2>3. \A f \in Purgers : Purges(f)' => Purges(f)
      BY <2>1, EndsFrame DEF Keeps, TypeInv, Handlers
    <2>4. QED
      BY <1>2, <2>1, <2>2, <2>3 DEF CdrStays
  <1>7. CASE OutboundAndFork
    <2>1. /\ Moves("fork", "http", "none", {"worker"}) /\ entry' = entry
          /\ ~WillBill("worker") /\ ~WillBill("fork") /\ UNCHANGED <<call, cdrs, lives>>
      BY <1>7 DEF OutboundAndFork, WillBill, endVars
    <2>2. ASSUME NEW g \in Handlers, WillBill(g) PROVE WillBill(g)'
      <3>1. g = "timer" /\ g \notin {"worker"} /\ "fork" \in Fibers
        BY <2>1, <2>2 DEF Handlers, Fibers
      <3>2. entry'[g] # "running"
        BY <2>1, <2>2, <3>1 DEF WillBill, Timers
      <3>3. QED
        BY <2>1, <2>2, <3>1, <3>2, MovesSpares
    <2>3. \A f \in Purgers : Purges(f)' => Purges(f)
      BY <2>1 DEF Moves, Purgers, Fibers
    <2>4. QED
      BY <1>2, <2>1, <2>2, <2>3 DEF CdrStays, BillStays
  <1>8. CASE Invite \/ Message \/ WorkerExits \/ GiveWay \/ UNCHANGED vars
    <2>1. UNCHANGED <<call, pc, out, entry, cdrs, lives>>
      BY <1>8
      DEF Invite, Message, WorkerExits, GiveWay, vars, timerVars, countVars, endVars, storeVars
    <2>2. QED
      BY <2>1 DEF BillInv, WillBill
  <1>9. QED
    BY <1>1, <1>3, <1>4, <1>5, <1>6, <1>7, <1>8, NextSteps
    DEF WorkerTakesMessage, TimerFires, ForkReturns, BudgetRunsOut, Purgers, Handlers,
        timerVars, countVars, endVars, storeVars

(* A call that is over has a CDR, whoever ended it - a handler, its safety *)
(* timer or the orphan sweep - as long as no handler runs out of its       *)
(* budget.                                                                 *)
THEOREM EndedHasCdr ==
  ASSUME MaxLives = 1, Budgets = FALSE
  PROVE  Spec => []EndedIsBilled
  <1>1. Init => BillInv
    BY DEF Init, BillInv, Purgers, Fibers
  <1>2. TypeInv /\ HandlingInv /\ BillInv /\ [Next]_vars => BillInv'
    BY BillNext DEF HandlingInv
  <1>3. TypeInv /\ BillInv => EndedIsBilled
    <2> SUFFICES ASSUME TypeInv, BillInv, Over(1) PROVE 1 \in cdrs
      BY DEF EndedIsBilled
    <2>1. lives # 0 /\ call = NoCall
      BY DEF Over, TypeInv, CallOK, CallRecord
    <2>2. \A h \in Handlers : ~WillBill(h)
      BY DEF Over, WillBill, TypeInv, FibersOK, Handlers, Fibers, Loaded, CallRecord
    <2>3. QED
      BY <2>1, <2>2 DEF BillInv
  <1>4. QED
    BY <1>1, <1>2, <1>3, HandlingHolds, TypeHolds, PTL DEF Spec
=============================================================================
