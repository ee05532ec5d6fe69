---------------------------- MODULE Transactions ----------------------------
(***************************************************************************)
(* The transactions of one call: the requests that peers send to this      *)
(* worker (server transactions) and the requests it sends (client          *)
(* transactions), while the call is handled and evicted.  One fiber        *)
(* handles inbound packets, one handler at a time the events of the call;  *)
(* a force purge asks neither; every transaction has timers of its own.    *)
(* A fiber can be made to give way between any two operations; a step here *)
(* is a stretch in which that makes no difference.                         *)
(*                                                                         *)
(* Time is counted in ticks; storing, sending and evicting take none.      *)
(* What a peer sends arrives at once or never, what it is sent, within the *)
(* tick or never: packets of one side keep their order, and those of the   *)
(* two sides cross.                                                        *)
(***************************************************************************)
EXTENDS Integers, FiniteSets

CONSTANTS
  Incoming,    \* branches of the peers' requests
  Outgoing,    \* branches of this worker's requests
  Invites,     \* those of either that are INVITEs
  Timer,       \* 64 * T1: Timers B, F, H and J, and as long does a peer repeat
  MaxAge,      \* TXN_MAX_AGE
  QueueMax,    \* eventQueueCapacity
  Mixes        \* bound: sets of branches that occur together

ASSUME TransactionsAssumption ==
  /\ Incoming \cap Outgoing = {} /\ Invites \subseteq Incoming \cup Outgoing
  /\ Timer \in Nat \ {0} /\ MaxAge \in Nat /\ Timer =< MaxAge
  /\ QueueMax \in Nat \ {0} /\ Mixes \subseteq SUBSET (Incoming \cup Outgoing)

VARIABLES
  txn,       \* txnMap
  watch,     \* ticks until Timer B or F of a client transaction, or Off
  resend,    \* client transactions whose retransmit fiber sleeps
  cleanup,   \* ticks until the first Timer H or J of a branch, or Off
  queued,    \* how many events the queue holds
  inbound,   \* what the inbound fiber has looked up, or Idle
  handler,   \* where the handler of the call is
  live,      \* the call is in memory
  evict,     \* per evictor, where its cancelTxnsForCall is
  heard,     \* outgoing requests that reached their peer
  peer,      \* per incoming request, what its sender knows
  peerAge,   \* ticks since it was sent first
  flight,    \* per incoming request, responses that may still arrive
  told,      \* per outgoing request, what became of it for the router
  handed,    \* per incoming request, how often it was handed up
  answers,   \* per incoming request, who has sent a final response
  cancelled, \* incoming requests whose cancellation was handed up
  late,      \* outgoing requests stored after an eviction had begun
  excused    \* branches that a budget, a full queue or the sweep has cut short

layerVars == <<txn, watch, resend, cleanup>>
callVars  == <<handler, live, evict>>
peerVars  == <<heard, peer, peerAge, flight>>
history   == <<told, handed, answers, cancelled, late, excused>>
vars == <<layerVars, queued, inbound, callVars, peerVars, history>>

Branches == Incoming \cup Outgoing
Evictors == {"handler", "purge"}
Off == -1
NoTxn == [state |-> "none", last |-> "none", recorded |-> FALSE, original |-> FALSE,
          age |-> 0]
Known(b) == txn[b] # NoTxn
Idle == [at |-> "idle", branch |-> "none", seen |-> NoTxn]
Handler(at, b) == [at |-> at, branch |-> b]
AtRest == [at |-> "rest", victims |-> {}, stoppable |-> {}]
Finals == {"ok", "failure"}
Responses == Finals \cup {"provisional", "reject"}

(* What txnMap holds of a branch. *)
TxnRecord == [state : {"none", "trying", "proceeding", "completed"},
              last : Finals \cup {"none", "provisional"},
              recorded : BOOLEAN, original : BOOLEAN, age : 0..(MaxAge + 1)]

Init ==
  /\ txn = [b \in Branches |-> NoTxn]
  /\ watch = [b \in Outgoing |-> Off] /\ resend = {}
  /\ cleanup = [s \in Incoming |-> Off]
  /\ queued = 0 /\ inbound = Idle
  /\ handler = Handler("idle", "none") /\ live = TRUE
  /\ evict = [e \in Evictors |-> AtRest]
  /\ heard = {} /\ flight = [s \in Incoming |-> {}]
  /\ \E used \in Mixes :
       /\ peer = [s \in Incoming |-> IF s \in used THEN "idle" ELSE "done"]
       /\ told = [b \in Outgoing |-> IF b \in used THEN "nothing" ELSE "unused"]
  /\ peerAge = [s \in Incoming |-> 0] /\ handed = [s \in Incoming |-> 0]
  /\ answers = [s \in Incoming |-> {}]
  /\ cancelled = {} /\ late = {} /\ excused = {}

-----------------------------------------------------------------------------
(* emit, and what it is good for                                           *)

(* A full queue drops the newest. *)
Room == queued < QueueMax
EmitAnyway == queued' = queued + 1    \* the offer's answer is not looked at
Emit == queued' = IF Room THEN queued + 1 ELSE queued

HandUp(s) ==
  /\ Emit
  /\ handed' = IF Room THEN [handed EXCEPT ![s] = @ + 1] ELSE handed
  /\ excused' = IF Room THEN excused ELSE excused \cup {s}

Report(b, what) ==
  /\ Emit
  /\ told' = IF Room THEN [told EXCEPT ![b] = what] ELSE told
  /\ excused' = IF Room THEN excused ELSE excused \cup {b}

(* stopTxnTimers: the fibers that the looked-up records name. *)
Stop(S) ==
  /\ watch' = [b \in Outgoing |-> IF b \in S THEN Off ELSE watch[b]]
  /\ resend' = resend \ S

(* Timers H and J are forked anew; what the first of them deletes is gone. *)
WithinNothing(left) == 0    \* a completed transaction is deleted without delay
Within(left) == IF left = Off THEN Timer ELSE left

Deleted(S) == [b \in Branches |-> IF b \in S THEN NoTxn ELSE txn[b]]

Answer(s, response) == flight' = [flight EXCEPT ![s] = @ \cup {response}]

-----------------------------------------------------------------------------
(* Inbound requests                                                        *)

(* Peers repeat a request until they hear something: an INVITE until the   *)
(* first provisional response, others until the final one.                 *)
Repeats(s) == peer[s] \in (IF s \in Invites THEN {"idle", "calling"}
                                           ELSE {"idle", "calling", "proceeding"})
Calling(s) == peer' = [peer EXCEPT ![s] = IF @ = "idle" THEN "calling" ELSE @]

Arrives(s) == inbound = Idle /\ Repeats(s) /\ peerAge[s] < Timer /\ Calling(s)

(* A new server transaction; an INVITE is answered 100 at once. *)
NewServerTxn(s) ==
  /\ Arrives(s) /\ ~Known(s)
  /\ txn' = [txn EXCEPT ![s] = [NoTxn EXCEPT
               !.state = IF s \in Invites THEN "proceeding" ELSE "trying",
               !.original = TRUE]]
  /\ IF s \in Invites THEN Answer(s, "provisional") ELSE UNCHANGED flight
  /\ HandUp(s)
  /\ UNCHANGED <<watch, resend, cleanup, inbound, callVars, heard, peerAge, told,
                 answers, cancelled, late>>

(* The admission gate answers 503 and keeps nothing. *)
RejectStateless(s) ==
  /\ Arrives(s) /\ s \in Invites /\ ~Known(s)
  /\ Answer(s, "reject")
  /\ UNCHANGED <<layerVars, queued, inbound, callVars, heard, peerAge, history>>

(* A repeated request: the last response again, if there is one. *)
Duplicate(s) ==
  /\ Arrives(s) /\ Known(s)
  /\ IF txn[s].last = "none" THEN UNCHANGED flight ELSE Answer(s, txn[s].last)
  /\ UNCHANGED <<layerVars, queued, inbound, callVars, heard, peerAge, history>>

(* CANCEL, first half: the INVITE's transaction is looked up. *)
CancellableEarly(s) == txn[s].state = "trying"    \* proceeding is left out
Cancellable(s) == txn[s].state \in {"trying", "proceeding"}
CancelArrives(s) ==
  /\ inbound = Idle /\ s \in Invites /\ peer[s] = "proceeding"
  /\ inbound' = [at |-> "cancel", branch |-> s,
                 seen |-> IF Cancellable(s) THEN txn[s] ELSE NoTxn]
  /\ UNCHANGED <<layerVars, queued, callVars, peerVars, history>>

(* CANCEL, second half: 487, the record written back as it was looked up,  *)
(* Timer H, and the event, which is emitted whether there was a            *)
(* transaction or not.                                                     *)
CancelFinishes(s) ==
  /\ inbound.at = "cancel" /\ inbound.branch = s
  /\ IF inbound.seen.original
     THEN /\ Answer(s, "failure")
          /\ txn' = [txn EXCEPT ![s] = [inbound.seen EXCEPT
                       !.state = "completed", !.last = "failure", !.original = FALSE]]
          /\ cleanup' = [cleanup EXCEPT ![s] = Within(@)]
          /\ answers' = [answers EXCEPT ![s] = @ \cup {"layer"}]
     ELSE UNCHANGED <<flight, txn, cleanup, answers>>
  /\ Emit /\ cancelled' = IF Room THEN cancelled \cup {s} ELSE cancelled
  /\ inbound' = Idle
  /\ UNCHANGED <<watch, resend, callVars, heard, peer, peerAge, told, handed, late,
                 excused>>

(* A response reaches the sender of the request. *)
Hears(s, response) ==
  /\ response \in flight[s]
  /\ flight' = [flight EXCEPT ![s] = @ \ {response}]
  /\ peer' = [peer EXCEPT ![s] =
                IF response # "provisional" \/ @ = "done" THEN "done" ELSE "proceeding"]

PeerHears(s, response) ==
  /\ Hears(s, response)
  /\ UNCHANGED <<layerVars, queued, inbound, callVars, heard, peerAge, history>>

(* A failure of an INVITE, and the ACK that answers it: it ends a          *)
(* transaction that is completed.  Only the ACK of a failure is absorbed,  *)
(* and, elsewhere, the ACK of the 503, which has no To-tag.                *)
PeerAcks(s, response) ==
  /\ inbound = Idle /\ s \in Invites /\ response \in {"failure", "reject"}
  /\ Hears(s, response)
  /\ txn' = IF txn[s].state = "completed" THEN Deleted({s}) ELSE txn
  /\ IF txn[s].state = "completed" /\ txn[s].last = "failure" THEN UNCHANGED queued
     ELSE IF txn[s].state # "completed" /\ response = "reject" THEN UNCHANGED queued
     ELSE Emit
  /\ UNCHANGED <<watch, resend, cleanup, inbound, callVars, heard, peerAge, history>>

-----------------------------------------------------------------------------
(* Inbound responses                                                       *)

Provisional(b) ==
  /\ inbound = Idle /\ b \in heard
  /\ IF Known(b) THEN txn' = [txn EXCEPT ![b].state = "proceeding"] ELSE UNCHANGED txn
  /\ resend' = IF txn[b].recorded THEN resend \ {b} ELSE resend
  /\ queued' \in {queued, IF Room THEN queued + 1 ELSE queued}
  /\ UNCHANGED <<watch, cleanup, inbound, callVars, peerVars, history>>

(* A final response, first half: the transaction is looked up. *)
FinalArrives(b) ==
  /\ inbound = Idle /\ b \in heard
  /\ inbound' = [at |-> "final", branch |-> b, seen |-> txn[b]]
  /\ UNCHANGED <<layerVars, queued, callVars, peerVars, history>>

(* Second half: its timers are stopped, as far as they were recorded, the  *)
(* transaction is deleted, the response handed up.                         *)
FinalOnlyStops(b) ==                   \* the transaction stays in the map
  /\ inbound.at = "final" /\ inbound.branch = b
  /\ Stop(IF inbound.seen.recorded THEN {b} ELSE {})
  /\ Report(b, "final")
  /\ inbound' = Idle
  /\ UNCHANGED <<txn, cleanup, callVars, peerVars, handed, answers, cancelled, late>>
FinalFinishes(b) ==
  /\ inbound.at = "final" /\ inbound.branch = b
  /\ Stop(IF inbound.seen.recorded THEN {b} ELSE {})
  /\ txn' = IF inbound.seen = NoTxn THEN txn ELSE Deleted({b})
  /\ Report(b, "final")
  /\ inbound' = Idle
  /\ UNCHANGED <<cleanup, callVars, peerVars, handed, answers, cancelled, late>>

-----------------------------------------------------------------------------
(* The handler of the call                                                 *)

(* It takes an event, or a timer of the call starts it; an event that      *)
(* finds no call in memory leaves only an answer to give.                  *)
HandlerStarts ==
  /\ handler.at = "idle"
  /\ \/ queued > 0 /\ queued' = queued - 1
     \/ live /\ UNCHANGED queued
  /\ handler' = Handler(IF live THEN "work" ELSE "stray", "none")
  /\ UNCHANGED <<layerVars, inbound, live, evict, peerVars, history>>

HandlerEnds ==
  /\ handler.at \in {"work", "stray"}
  /\ handler' = Handler("idle", "none")
  /\ UNCHANGED <<layerVars, queued, inbound, live, evict, peerVars, history>>

(* sendRequest: the transaction is stored, *)
Store(b) ==
  /\ handler.at = "work" /\ ~Known(b) /\ told[b] = "nothing" /\ b \notin heard \cup excused
  /\ txn' = [txn EXCEPT ![b] = [NoTxn EXCEPT !.state = "trying"]]
  /\ handler' = Handler("stored", b)
  /\ late' = IF \E e \in Evictors : evict[e].at # "rest" THEN late \cup {b} ELSE late
  /\ UNCHANGED <<watch, resend, cleanup, queued, inbound, live, evict, peerVars,
                 told, handed, answers, cancelled, excused>>

(* the message sent, which may be lost, *)
Transmit(b) ==
  /\ handler = Handler("stored", b)
  /\ heard' \in {heard, heard \cup {b}}
  /\ handler' = Handler("sent", b)
  /\ UNCHANGED <<layerVars, queued, inbound, live, evict, peer, peerAge, flight, history>>

(* the retransmit and timeout fibers forked, *)
Fork(b) ==
  /\ handler = Handler("sent", b)
  /\ watch' = [watch EXCEPT ![b] = Timer]
  /\ resend' = resend \cup {b}
  /\ handler' = Handler("forked", b)
  /\ UNCHANGED <<txn, cleanup, queued, inbound, live, evict, peerVars, history>>

(* and recorded, if the transaction is still there. *)
Record(b) ==
  /\ handler = Handler("forked", b)
  /\ txn' = IF Known(b) THEN [txn EXCEPT ![b].recorded = TRUE] ELSE txn
  /\ handler' = Handler("work", "none")
  /\ UNCHANGED <<watch, resend, cleanup, queued, inbound, live, evict, peerVars, history>>

(* The handler's budget runs out in the middle of it. *)
RunsOut(b) ==
  /\ handler.at \in {"stored", "sent", "forked"} /\ handler.branch = b
  /\ handler' = Handler("idle", "none")
  /\ excused' = IF handler.at = "forked" THEN excused ELSE excused \cup {b}
  /\ UNCHANGED <<layerVars, queued, inbound, live, evict, peerVars,
                 told, handed, answers, cancelled, late>>

(* sendResponse: the record is completed or reopened whatever its state.   *)
Responded(s, response) ==
  txn' = IF ~Known(s) THEN txn
         ELSE [txn EXCEPT ![s].last = response,
                          ![s].state = IF response \in Finals THEN "completed" ELSE "proceeding",
                          ![s].original = @ /\ response \notin Finals]
MayRespond(s, response) ==
  /\ handed[s] > 0 /\ "handler" \notin answers[s]
  /\ \/ handler.at = "work" /\ response \in Finals \cup {"provisional"}
     \/ handler.at = "stray" /\ response = "failure"

SendResponse(s, response) ==
  /\ MayRespond(s, response) /\ Responded(s, response)
  /\ cleanup' = IF Known(s) /\ response \in Finals
                THEN [cleanup EXCEPT ![s] = Within(@)] ELSE cleanup
  /\ Answer(s, response)
  /\ answers' = IF response \in Finals
                THEN [answers EXCEPT ![s] = @ \cup {"handler"}] ELSE answers
  /\ UNCHANGED <<watch, resend, queued, inbound, callVars, heard, peer, peerAge,
                 told, handed, cancelled, late, excused>>

(* The budget runs out before Timer H or J is forked and anything is sent. *)
SendResponseRunsOut(s, response) ==
  /\ MayRespond(s, response) /\ response \in Finals /\ Responded(s, response)
  /\ handler' = Handler("idle", "none")
  /\ excused' = excused \cup {s}
  /\ UNCHANGED <<watch, resend, cleanup, queued, inbound, live, evict, peerVars,
                 told, handed, answers, cancelled, late>>

-----------------------------------------------------------------------------
(* Eviction of the call                                                    *)

Victims == {b \in Outgoing : Known(b)}
Cancelling == [at |-> "cancel", victims |-> Victims,
               stoppable |-> {b \in Victims : txn[b].recorded}]

(* remove, by the handler: out of memory, then cancelTxnsForCall. *)
Remove ==
  /\ handler.at = "work" /\ evict["handler"].at = "rest"
  /\ handler' = Handler("removing", "none") /\ live' = FALSE
  /\ evict' = [evict EXCEPT !["handler"] = Cancelling]
  /\ UNCHANGED <<layerVars, queued, inbound, peerVars, history>>

(* forcePurgeOne: cancelTxnsForCall, then out of memory. *)
Purge ==
  /\ live /\ evict["purge"].at = "rest"
  /\ evict' = [evict EXCEPT !["purge"] = Cancelling]
  /\ UNCHANGED <<layerVars, queued, inbound, handler, live, peerVars, history>>

(* cancelTxnsForCall, with one of the transactions it found. *)
CancelOnlyStops(e, b) ==               \* the transaction stays in the map
  /\ b \in evict[e].victims
  /\ evict' = [evict EXCEPT ![e].victims = @ \ {b}]
  /\ Stop({b} \cap evict[e].stoppable)
  /\ UNCHANGED <<txn, cleanup, queued, inbound, handler, live, peerVars, history>>
CancelOne(e, b) ==
  /\ b \in evict[e].victims
  /\ evict' = [evict EXCEPT ![e].victims = @ \ {b}]
  /\ Stop({b} \cap evict[e].stoppable)
  /\ txn' = Deleted({b})
  /\ told' = IF told[b] = "nothing" THEN [told EXCEPT ![b] = "evicted"] ELSE told
  /\ UNCHANGED <<cleanup, queued, inbound, handler, live, peerVars,
                 handed, answers, cancelled, late, excused>>

EvictEnds(e) ==
  /\ evict[e].at = "cancel" /\ evict[e].victims = {}
  /\ evict' = [evict EXCEPT ![e] = [AtRest EXCEPT !.at = "done"]]
  /\ IF e = "purge" THEN live' = FALSE /\ UNCHANGED handler
                    ELSE handler' = Handler("work", "none") /\ UNCHANGED live
  /\ UNCHANGED <<layerVars, queued, inbound, peerVars, history>>

-----------------------------------------------------------------------------
(* Timers                                                                  *)

(* The retransmit fiber wakes up: it sends again, or has come to its end,  *)
(* and it ends when it finds the transaction gone.                         *)
Retransmit(b) ==
  /\ b \in resend
  /\ \/ Known(b) /\ heard' \in {heard, heard \cup {b}} /\ UNCHANGED resend
     \/ resend' = resend \ {b} /\ UNCHANGED heard
  /\ UNCHANGED <<txn, watch, cleanup, queued, inbound, callVars, peer, peerAge, flight,
                 history>>

(* Timer B or F. *)
TimeoutWhenTrying(b) ==                \* a provisional response disarms Timer B
  /\ watch[b] = 0
  /\ watch' = [watch EXCEPT ![b] = Off]
  /\ IF txn[b].state = "trying" THEN txn' = Deleted({b}) /\ Report(b, "timeout")
                                ELSE UNCHANGED <<txn, queued, told, excused>>
  /\ UNCHANGED <<resend, cleanup, inbound, callVars, peerVars, handed, answers,
                 cancelled, late>>
TimeoutFires(b) ==
  /\ watch[b] = 0
  /\ watch' = [watch EXCEPT ![b] = Off]
  /\ IF Known(b) THEN txn' = Deleted({b}) /\ Report(b, "timeout")
                 ELSE UNCHANGED <<txn, queued, told, excused>>
  /\ UNCHANGED <<resend, cleanup, inbound, callVars, peerVars, handed, answers,
                 cancelled, late>>

(* Timer H or J. *)
CleanupFires(s) ==
  /\ cleanup[s] = 0
  /\ cleanup' = [cleanup EXCEPT ![s] = Off]
  /\ txn' = Deleted({s})
  /\ UNCHANGED <<watch, resend, queued, inbound, callVars, peerVars, history>>

(* txn-sweep: whatever is too old, in whatever state. *)
AgedCompleted == {b \in Branches : txn[b].age > MaxAge /\ txn[b].state = "completed"}
Aged == {b \in Branches : txn[b].age > MaxAge}
Sweep ==
  /\ Aged # {}
  /\ txn' = Deleted(Aged)
  /\ excused' = excused \cup {s \in Aged \cap Incoming : txn[s].state # "completed"}
  /\ UNCHANGED <<watch, resend, cleanup, queued, inbound, callVars, peerVars,
                 told, handed, answers, cancelled, late>>

Less(left) == IF left = Off THEN Off ELSE left - 1
Tick ==
  /\ inbound = Idle /\ handler.at \in {"idle", "work", "stray"}
  /\ \A e \in Evictors : evict[e].at # "cancel"
  /\ \A b \in Outgoing : watch[b] # 0
  /\ \A s \in Incoming : cleanup[s] # 0
  /\ watch' = [b \in Outgoing |-> Less(watch[b])]
  /\ cleanup' = [s \in Incoming |-> Less(cleanup[s])]
  /\ txn' = [b \in Branches |-> IF Known(b) /\ txn[b].age =< MaxAge
                                THEN [txn[b] EXCEPT !.age = @ + 1] ELSE txn[b]]
  /\ peerAge' = [s \in Incoming |-> IF peer[s] \in {"idle", "done"} \/ peerAge[s] = Timer
                                    THEN peerAge[s] ELSE peerAge[s] + 1]
  /\ flight' = [s \in Incoming |-> {}]
  /\ UNCHANGED <<resend, queued, inbound, callVars, heard, peer, history>>

-----------------------------------------------------------------------------
ForIncoming(s) ==
  \/ NewServerTxn(s) \/ RejectStateless(s) \/ Duplicate(s)
  \/ CancelArrives(s) \/ CancelFinishes(s) \/ CleanupFires(s)
  \/ \E response \in Responses :
       PeerHears(s, response) \/ PeerAcks(s, response)
  \/ \E response \in Finals \cup {"provisional"} :
       SendResponse(s, response) \/ SendResponseRunsOut(s, response)

ForOutgoing(b) ==
  \/ Provisional(b) \/ FinalArrives(b) \/ FinalFinishes(b)
  \/ Store(b) \/ Transmit(b) \/ Fork(b) \/ Record(b) \/ RunsOut(b)
  \/ Retransmit(b) \/ TimeoutFires(b)

Next ==
  \/ \E s \in Incoming : ForIncoming(s)
  \/ \E b \in Outgoing : ForOutgoing(b)
  \/ HandlerStarts \/ HandlerEnds \/ Remove \/ Purge
  \/ \E e \in Evictors : EvictEnds(e) \/ \E b \in Outgoing : CancelOne(e, b)
  \/ Sweep \/ Tick

(* Fibers that are ready run, and timers fire; time goes on although other *)
(* work keeps coming in between.  Nothing is assumed of peers, of what the *)
(* handler decides, or of the purge.                                       *)
Fairness ==
  /\ \A b \in Outgoing :
       /\ WF_vars(Transmit(b) \/ Fork(b) \/ Record(b))
       /\ WF_vars(TimeoutFires(b)) /\ WF_vars(FinalFinishes(b))
       /\ \A e \in Evictors : WF_vars(CancelOne(e, b))
  /\ \A s \in Incoming : WF_vars(CancelFinishes(s)) /\ WF_vars(CleanupFires(s))
  /\ \A e \in Evictors : WF_vars(EvictEnds(e))
  /\ WF_vars(Sweep) /\ SF_vars(Tick)

Spec == Init /\ [][Next]_vars /\ Fairness

-----------------------------------------------------------------------------
(* Properties                                                              *)

(* Every variable has a value of its type; the queue holds no more than    *)
(* its capacity, timers are within their range.                            *)
TypeOK ==
  /\ txn \in [Branches -> TxnRecord]
  /\ \A b \in Branches : /\ txn[b].recorded => b \in Outgoing
                         /\ txn[b].original => b \in Incoming
  /\ watch \in [Outgoing -> {Off} \cup 0..Timer] /\ resend \subseteq Outgoing
  /\ cleanup \in [Incoming -> {Off} \cup 0..Timer]
  /\ queued \in 0..QueueMax /\ live \in BOOLEAN
  /\ inbound \in [at : {"idle", "cancel", "final"}, branch : Branches \cup {"none"},
                  seen : TxnRecord]
  /\ inbound.at = "cancel" => inbound.branch \in Incoming /\ ~inbound.seen.recorded
  /\ handler \in [at : {"idle", "work", "stray", "stored", "sent", "forked", "removing"},
                  branch : Branches \cup {"none"}]
  /\ evict \in [Evictors -> [at : {"rest", "cancel", "done"}, victims : SUBSET Outgoing,
                             stoppable : SUBSET Outgoing]]
  /\ heard \subseteq Outgoing
  /\ peer \in [Incoming -> {"idle", "calling", "proceeding", "done"}]
  /\ peerAge \in [Incoming -> 0..Timer]
  /\ flight \in [Incoming -> SUBSET Responses]
  /\ told \in [Outgoing -> {"nothing", "final", "timeout", "evicted", "unused"}]
  /\ handed \in [Incoming -> Nat]
  /\ answers \in [Incoming -> SUBSET {"layer", "handler"}]
  /\ cancelled \subseteq Incoming /\ late \subseteq Outgoing /\ excused \subseteq Branches

(* A request is handed up to the router at most once, however often its    *)
(* sender repeats it and however its transaction was completed: a          *)
(* transaction outlives the repetitions (handleInboundRequest).            *)
HandedUpOnce == \A s \in Incoming : handed[s] =< 1

(* An INVITE whose cancellation was handed up has been sent a final        *)
(* response, on which the rules rely: handle-cancel sends none.  Excused   *)
(* is the INVITE whose transaction was swept while it rang, or whose       *)
(* completion a budget cut short.                                          *)
CancelledIsAnswered == \A s \in cancelled : answers[s] # {} \/ s \in excused

(* No timeout is reported of a request whose final response was, though    *)
(* the response may arrive before the timers are recorded (sendRequest,    *)
(* handleInboundResponse).                                                 *)
TimeoutIsLast ==
  [][\A b \in Outgoing : told[b] = "final" => told'[b] # "timeout"]_vars

(* Once a cancelTxnsForCall has come to its end, Timer B or F is reported  *)
(* of no request but those that were stored after it had begun.            *)
EvictedIsSilent ==
  [][\A b \in Outgoing \ late :
       /\ \E e \in Evictors : evict[e].at = "done"
       /\ told[b] # "timeout"
       => told'[b] # "timeout"]_vars

(* The router hears what became of every request: a final response or a    *)
(* timeout, unless the call is evicted, the event does not fit in the      *)
(* queue, or the handler is cut short inside sendRequest.                  *)
ReportedInTheEnd ==
  \A b \in Outgoing : Known(b) ~> (told[b] # "nothing" \/ b \in excused)

(* Every transaction leaves the map, with an ACK or without, with timers   *)
(* or, when the handler is cut short, without.                             *)
TxnsLeave == \A b \in Branches : Known(b) ~> ~Known(b)

=============================================================================
