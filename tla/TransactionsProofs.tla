------------------------- MODULE TransactionsProofs -------------------------
(***************************************************************************)
(* Proofs about Transactions: types, that a request is handed up once,     *)
(* that a cancelled INVITE is answered, and that no timeout is reported of *)
(* a request that was answered or evicted.                                 *)
(***************************************************************************)
EXTENDS Transactions, TLAPS

(* The sender of s has stopped, or has repeated it for t ticks. *)
Passed(s, t) ==
  \/ peer[s] = "done"
  \/ peer[s] # "idle" /\ (peerAge[s] >= t \/ peerAge[s] = Timer)

(* A transaction is as old as the repetitions at most, and so are its      *)
(* Timers H and J; without one a request handed up is repeated no more.    *)
Outlives(s) ==
  /\ handed[s] =< 1
  /\ Known(s) => Passed(s, txn[s].age)
  /\ cleanup[s] # Off => Passed(s, Timer - cleanup[s])
  /\ handed[s] > 0 /\ ~Known(s) => Passed(s, Timer)
  /\ inbound.at = "cancel" /\ inbound.branch = s /\ inbound.seen.original
       => Passed(s, inbound.seen.age)

OutlivesInv == \A s \in Incoming : Outlives(s)

(* A final response was sent, or its loss is accounted for. *)
Settled(s) == answers[s] # {} \/ s \in excused

(* Only an open transaction that no final response has closed lets a       *)
(* CANCEL send 487; every other request the handler or its sender has      *)
(* heard of has had its final response.                                    *)
AnswerOpen(s) ==
  /\ txn[s].original => txn[s].state \in {"trying", "proceeding"}
  /\ Known(s) => txn[s].original \/ Settled(s)
  /\ cleanup[s] # Off => Settled(s)
  /\ handed[s] > 0 \/ peer[s] = "proceeding" \/ "provisional" \in flight[s]
       => txn[s].original \/ Settled(s)
  /\ inbound.at = "cancel" /\ inbound.branch = s => inbound.seen.original \/ Settled(s)
  /\ s \in cancelled => Settled(s)

AnswerInv == \A s \in Incoming : AnswerOpen(s)

(* A client transaction is stored once, before its request is sent; what   *)
(* the inbound fiber did not find it will not find later; and an eviction  *)
(* that has begun has every transaction that was there on its list.        *)
ClientGone(b) ==
  /\ told[b] = "final" => ~Known(b)
  /\ inbound.at = "final" /\ inbound.branch = b
       => b \in heard /\ (inbound.seen = NoTxn => ~Known(b))
  /\ \A e \in Evictors : evict[e].at # "rest" /\ Known(b) /\ b \notin late
                           => b \in evict[e].victims

ClientInv ==
  /\ \A b \in Outgoing : ClientGone(b)
  /\ \A e \in Evictors : evict[e].at = "done" => evict[e].victims = {}

-----------------------------------------------------------------------------
(* Types                                                                   *)

TxnTypes(map) ==
  /\ map \in [Branches -> TxnRecord]
  /\ \A b \in Branches : /\ map[b].recorded => b \in Outgoing
                         /\ map[b].original => b \in Incoming

LEMMA NoTxnTypes == NoTxn \in TxnRecord
  BY TransactionsAssumption DEF NoTxn, TxnRecord

(* Deleting transactions keeps the types of the map.                       *)
LEMMA DeletedTypes ==
  ASSUME TypeOK, NEW S
  PROVE  TxnTypes(Deleted(S))
  BY NoTxnTypes DEF Deleted, TypeOK, TxnTypes, NoTxn

(* So does writing one of them, ...                                        *)
LEMMA WrittenTypes ==
  ASSUME TypeOK, NEW b \in Branches, NEW t \in TxnRecord,
         t.recorded => b \in Outgoing, t.original => b \in Incoming
  PROVE  TxnTypes([txn EXCEPT ![b] = t])
  BY DEF TypeOK, TxnTypes

(* ... a record of its own with some fields changed included.              *)
LEMMA ChangedTypes ==
  ASSUME TypeOK, NEW b \in Branches,
         NEW state \in {"none", "trying", "proceeding", "completed"},
         NEW last \in Finals \cup {"none", "provisional"}
  PROVE  /\ TxnTypes([txn EXCEPT ![b].state = state])
         /\ b \in Incoming => \A open \in BOOLEAN :
              TxnTypes([txn EXCEPT ![b].last = last, ![b].state = state,
                                   ![b].original = @ /\ open])
         /\ b \in Outgoing => TxnTypes([txn EXCEPT ![b].recorded = TRUE])
  <1>1. txn[b] \in TxnRecord
    BY DEF TypeOK
  <1>2. QED
    BY <1>1 DEF TypeOK, TxnTypes, TxnRecord

(* So does a response that is recorded.                                    *)
LEMMA RespondedTypes ==
  ASSUME TypeOK, NEW s \in Incoming, NEW response \in Finals \cup {"provisional"},
         Responded(s, response)
  PROVE  TxnTypes(txn')
  <1>1. CASE ~Known(s)
    BY <1>1 DEF Responded, TypeOK, TxnTypes
  <1>2. CASE Known(s)
    BY <1>2, ChangedTypes DEF Responded, Branches
  <1>3. QED
    BY <1>1, <1>2

LEMMA TypeInit == Init => TypeOK
  <1> SUFFICES ASSUME Init PROVE TypeOK
    OBVIOUS
  <1>1. NoTxn \in TxnRecord /\ ~NoTxn.recorded /\ ~NoTxn.original
    BY NoTxnTypes DEF NoTxn
  <1>2. /\ inbound \in [at : {"idle", "cancel", "final"}, branch : Branches \cup {"none"},
                        seen : TxnRecord]
        /\ inbound.at # "cancel"
    BY <1>1 DEF Init, Idle
  <1>3. evict \in [Evictors -> [at : {"rest", "cancel", "done"}, victims : SUBSET Outgoing,
                                stoppable : SUBSET Outgoing]]
    BY DEF Init, AtRest
  <1>4. QED
    BY <1>1, <1>2, <1>3, TransactionsAssumption DEF Init, TypeOK, Handler, Off

(* The requests and responses of the peers keep the types.                 *)
LEMMA TypeIncoming ==
  ASSUME TypeOK, NEW s \in Incoming, ForIncoming(s)
  PROVE  TypeOK'
  <1> USE TransactionsAssumption DEF Branches
  <1>1. CASE NewServerTxn(s)
    <2>1. TxnTypes(txn')
      <3> DEFINE t == [NoTxn EXCEPT
                         !.state = IF s \in Invites THEN "proceeding" ELSE "trying",
                         !.original = TRUE]
      <3>1. t \in TxnRecord /\ ~t.recorded
        BY NoTxnTypes DEF TxnRecord, NoTxn
      <3>2. QED
        BY <1>1, <3>1, WrittenTypes DEF NewServerTxn
    <2>2. /\ peer' \in [Incoming -> {"idle", "calling", "proceeding", "done"}]
          /\ flight' \in [Incoming -> SUBSET Responses]
          /\ queued' \in 0..QueueMax /\ handed' \in [Incoming -> Nat]
          /\ excused' \subseteq Branches
      BY <1>1 DEF NewServerTxn, Arrives, Calling, Answer, HandUp, Emit, Room, TypeOK,
         Responses
    <2>3. QED
      BY <1>1, <2>1, <2>2 DEF NewServerTxn, TypeOK, TxnTypes, callVars
  <1>2. CASE RejectStateless(s)
    BY <1>2 DEF RejectStateless, Arrives, Calling, Answer, TypeOK, Responses,
       layerVars, callVars, history
  <1>3. CASE Duplicate(s)
    <2>1. txn[s].last \in Responses \cup {"none"}
      BY DEF TypeOK, TxnRecord, Responses
    <2>2. QED
      BY <1>3, <2>1 DEF Duplicate, Arrives, Calling, Answer, TypeOK, layerVars, callVars,
         history
  <1>4. CASE CancelArrives(s)
    BY <1>4, NoTxnTypes DEF CancelArrives, Cancellable, TypeOK, TxnRecord, NoTxn,
       layerVars, callVars, peerVars, history
  <1>5. CASE CancelFinishes(s)
    <2>1. TxnTypes(txn')
      <3> DEFINE t == [inbound.seen EXCEPT !.state = "completed", !.last = "failure",
                                           !.original = FALSE]
      <3>1. t \in TxnRecord /\ ~t.recorded /\ ~t.original
        BY <1>5 DEF CancelFinishes, TypeOK, TxnRecord, Finals
      <3>2. TxnTypes(txn)
        BY DEF TypeOK, TxnTypes
      <3>3. txn' = txn \/ txn' = [txn EXCEPT ![s] = t]
        BY <1>5 DEF CancelFinishes
      <3>4. TxnTypes([txn EXCEPT ![s] = t])
        BY <3>1, WrittenTypes
      <3>5. QED
        BY <3>2, <3>3, <3>4
    <2>2. /\ flight' \in [Incoming -> SUBSET Responses]
          /\ cleanup' \in [Incoming -> {Off} \cup 0..Timer]
          /\ answers' \in [Incoming -> SUBSET {"layer", "handler"}]
          /\ queued' \in 0..QueueMax /\ cancelled' \subseteq Incoming
      BY <1>5 DEF CancelFinishes, Within, Answer, Emit, Room, TypeOK, Responses, Finals, Off
    <2>3. QED
      BY <1>5, <2>1, <2>2, NoTxnTypes DEF CancelFinishes, Idle, TypeOK, TxnTypes, callVars
  <1>6. CASE CleanupFires(s)
    <2>1. TxnTypes(txn')
      BY <1>6, DeletedTypes DEF CleanupFires
    <2>2. QED
      BY <1>6, <2>1 DEF CleanupFires, TypeOK, TxnTypes, Off, callVars, peerVars, history
  <1>7. ASSUME NEW response \in Responses, PeerHears(s, response) PROVE TypeOK'
    BY <1>7 DEF PeerHears, Hears, TypeOK, layerVars, callVars, history
  <1>8. ASSUME NEW response \in Responses, PeerAcks(s, response) PROVE TypeOK'
    <2>1. TxnTypes(txn')
      BY <1>8, DeletedTypes DEF PeerAcks, TypeOK, TxnTypes
    <2>2. queued' \in 0..QueueMax
      BY <1>8 DEF PeerAcks, Emit, Room, TypeOK
    <2>3. QED
      BY <1>8, <2>1, <2>2 DEF PeerAcks, Hears, TypeOK, TxnTypes, callVars, history
  <1>9. ASSUME NEW response \in Finals \cup {"provisional"}, SendResponse(s, response)
        PROVE  TypeOK'
    <2>1. TxnTypes(txn')
      BY <1>9, RespondedTypes DEF SendResponse
    <2>2. /\ flight' \in [Incoming -> SUBSET Responses]
          /\ cleanup' \in [Incoming -> {Off} \cup 0..Timer]
          /\ answers' \in [Incoming -> SUBSET {"layer", "handler"}]
      BY <1>9 DEF SendResponse, Within, Answer, TypeOK, Responses, Off
    <2>3. QED
      BY <1>9, <2>1, <2>2 DEF SendResponse, TypeOK, TxnTypes, callVars
  <1>10. ASSUME NEW response \in Finals \cup {"provisional"},
                SendResponseRunsOut(s, response)
         PROVE  TypeOK'
    <2>1. TxnTypes(txn')
      BY <1>10, RespondedTypes DEF SendResponseRunsOut
    <2>2. QED
      BY <1>10, <2>1 DEF SendResponseRunsOut, Handler, TypeOK, TxnTypes, peerVars
  <1>11. QED
    BY <1>1, <1>2, <1>3, <1>4, <1>5, <1>6, <1>7, <1>8, <1>9, <1>10 DEF ForIncoming

(* The requests of this worker and their responses keep the types.         *)
LEMMA TypeOutgoing ==
  ASSUME TypeOK, NEW b \in Outgoing, ForOutgoing(b)
  PROVE  TypeOK'
  <1> USE TransactionsAssumption DEF Branches
  <1>1. CASE Provisional(b)
    <2>1. TxnTypes(txn')
      <3>1. TxnTypes(txn) /\ TxnTypes([txn EXCEPT ![b].state = "proceeding"])
        BY ChangedTypes DEF TypeOK, TxnTypes, Finals
      <3>2. QED
        BY <1>1, <3>1 DEF Provisional
    <2>2. queued' \in 0..QueueMax /\ resend' \subseteq Outgoing
      BY <1>1 DEF Provisional, Room, TypeOK
    <2>3. QED
      BY <1>1, <2>1, <2>2 DEF Provisional, TypeOK, TxnTypes, callVars, peerVars, history
  <1>2. CASE FinalArrives(b)
    BY <1>2 DEF FinalArrives, TypeOK, layerVars, callVars, peerVars, history
  <1>3. CASE FinalFinishes(b)
    <2>1. TxnTypes(txn')
      <3>1. TxnTypes(txn) /\ TxnTypes(Deleted({b}))
        BY DeletedTypes DEF TypeOK, TxnTypes
      <3>2. QED
        BY <1>3, <3>1 DEF FinalFinishes
    <2>2. /\ queued' \in 0..QueueMax /\ excused' \subseteq Branches
          /\ told' \in [Outgoing -> {"nothing", "final", "timeout", "evicted", "unused"}]
          /\ watch' \in [Outgoing -> {Off} \cup 0..Timer] /\ resend' \subseteq Outgoing
      BY <1>3 DEF FinalFinishes, Stop, Report, Emit, Room, TypeOK, Off
    <2>3. QED
      BY <1>3, <2>1, <2>2, NoTxnTypes DEF FinalFinishes, Idle, TypeOK, TxnTypes, callVars,
         peerVars
  <1>4. CASE Store(b)
    BY <1>4, NoTxnTypes DEF Store, Handler, TypeOK, TxnRecord, NoTxn, peerVars
  <1>5. CASE Transmit(b)
    BY <1>5 DEF Transmit, Handler, TypeOK, layerVars, history
  <1>6. CASE Fork(b)
    BY <1>6 DEF Fork, Handler, TypeOK, peerVars, history
  <1>7. CASE Record(b)
    <2>1. TxnTypes(txn')
      BY <1>7, ChangedTypes DEF Record, TypeOK, TxnTypes
    <2>2. QED
      BY <1>7, <2>1 DEF Record, Handler, TypeOK, TxnTypes, peerVars, history
  <1>8. CASE RunsOut(b)
    BY <1>8 DEF RunsOut, Handler, TypeOK, layerVars, peerVars
  <1>9. CASE Retransmit(b)
    BY <1>9 DEF Retransmit, TypeOK, callVars, history
  <1>10. CASE TimeoutFires(b)
    <2>1. TxnTypes(txn')
      <3>1. TxnTypes(txn) /\ TxnTypes(Deleted({b}))
        BY DeletedTypes DEF TypeOK, TxnTypes
      <3>2. QED
        BY <1>10, <3>1 DEF TimeoutFires
    <2>2. /\ queued' \in 0..QueueMax /\ excused' \subseteq Branches
          /\ told' \in [Outgoing -> {"nothing", "final", "timeout", "evicted", "unused"}]
          /\ watch' \in [Outgoing -> {Off} \cup 0..Timer]
      BY <1>10 DEF TimeoutFires, Report, Emit, Room, TypeOK, Off
    <2>3. QED
      BY <1>10, <2>1, <2>2 DEF TimeoutFires, TypeOK, TxnTypes, callVars, peerVars
  <1>11. QED
    BY <1>1, <1>2, <1>3, <1>4, <1>5, <1>6, <1>7, <1>8, <1>9, <1>10 DEF ForOutgoing

(* The handler, the evictors, the sweep and time keep the types.           *)
LEMMA TypeNext == TypeOK /\ [Next]_vars => TypeOK'
  <1> SUFFICES ASSUME TypeOK, [Next]_vars PROVE TypeOK'
    OBVIOUS
  <1> USE TransactionsAssumption DEF Branches
  <1>1. CASE HandlerStarts
    BY <1>1 DEF HandlerStarts, Handler, TypeOK, layerVars, peerVars, history
  <1>2. CASE HandlerEnds
    BY <1>2 DEF HandlerEnds, Handler, TypeOK, layerVars, peerVars, history
  <1>3. Cancelling \in [at : {"rest", "cancel", "done"}, victims : SUBSET Outgoing,
                        stoppable : SUBSET Outgoing]
    BY DEF Cancelling, Victims
  <1>4. CASE Remove
    BY <1>3, <1>4 DEF Remove, Handler, TypeOK, layerVars, peerVars, history
  <1>5. CASE Purge
    BY <1>3, <1>5 DEF Purge, TypeOK, layerVars, peerVars, history
  <1>6. ASSUME NEW e \in Evictors, EvictEnds(e) PROVE TypeOK'
    <2>1. evict' \in [Evictors -> [at : {"rest", "cancel", "done"},
                                   victims : SUBSET Outgoing, stoppable : SUBSET Outgoing]]
      BY <1>6 DEF EvictEnds, AtRest, TypeOK
    <2>2. /\ handler' \in [at : {"idle", "work", "stray", "stored", "sent", "forked",
                               "removing"}, branch : Branches \cup {"none"}]
          /\ live' \in BOOLEAN
      <3>1. handler' = handler \/ handler' = Handler("work", "none")
        BY <1>6 DEF EvictEnds
      <3>2. live' = live \/ live' = FALSE
        BY <1>6 DEF EvictEnds
      <3>3. live' \in BOOLEAN
        BY <3>2 DEF TypeOK
      <3>4. QED
        BY <3>1, <3>3 DEF Handler, TypeOK
    <2>3. QED
      BY <1>6, <2>1, <2>2 DEF EvictEnds, TypeOK, layerVars, peerVars, history
  <1>7. ASSUME NEW e \in Evictors, NEW b \in Outgoing, CancelOne(e, b) PROVE TypeOK'
    <2>1. TxnTypes(txn')
      BY <1>7, DeletedTypes DEF CancelOne
    <2>2. /\ watch' \in [Outgoing -> {Off} \cup 0..Timer] /\ resend' \subseteq Outgoing
          /\ told' \in [Outgoing -> {"nothing", "final", "timeout", "evicted", "unused"}]
      BY <1>7 DEF CancelOne, Stop, TypeOK, Off
    <2>3. evict' \in [Evictors -> [at : {"rest", "cancel", "done"},
                                   victims : SUBSET Outgoing, stoppable : SUBSET Outgoing]]
      <3> DEFINE listed == [evict[e] EXCEPT !.victims = @ \ {b}]
      <3>1. listed \in [at : {"rest", "cancel", "done"}, victims : SUBSET Outgoing,
                        stoppable : SUBSET Outgoing]
        BY DEF TypeOK
      <3>2. evict' = [evict EXCEPT ![e] = listed]
        BY <1>7 DEF CancelOne
      <3>3. QED
        BY <3>1, <3>2 DEF TypeOK
    <2>4. QED
      BY <1>7, <2>1, <2>2, <2>3 DEF CancelOne, TypeOK, TxnTypes, peerVars
  <1>8. CASE Sweep
    <2>1. TxnTypes(txn')
      BY <1>8, DeletedTypes DEF Sweep
    <2>2. QED
      BY <1>8, <2>1 DEF Sweep, Aged, TypeOK, TxnTypes, callVars, peerVars
  <1>9. CASE Tick
    <2>1. ASSUME NEW b \in Branches
          PROVE  /\ txn'[b] \in TxnRecord
                 /\ txn'[b].recorded = txn[b].recorded
                 /\ txn'[b].original = txn[b].original
      <3>1. txn[b] \in TxnRecord
        BY DEF TypeOK
      <3>2. \/ txn'[b] = txn[b]
            \/ txn[b].age =< MaxAge /\ txn'[b] = [txn[b] EXCEPT !.age = @ + 1]
        BY <1>9, <2>1 DEF Tick
      <3>3. QED
        BY <3>1, <3>2 DEF TxnRecord
    <2>2. TxnTypes(txn')
      BY <1>9, <2>1 DEF Tick, TypeOK, TxnTypes
    <2>3. /\ watch' \in [Outgoing -> {Off} \cup 0..Timer]
          /\ cleanup' \in [Incoming -> {Off} \cup 0..Timer]
          /\ peerAge' \in [Incoming -> 0..Timer]
          /\ flight' \in [Incoming -> SUBSET Responses]
      <3>1. ASSUME NEW left \in {Off} \cup 0..Timer, left # 0
            PROVE  Less(left) \in {Off} \cup 0..Timer
        BY <3>1 DEF Less, Off
      <3>2. /\ watch' \in [Outgoing -> {Off} \cup 0..Timer]
            /\ cleanup' \in [Incoming -> {Off} \cup 0..Timer]
        BY <1>9, <3>1 DEF Tick, TypeOK
      <3>3. peerAge' \in [Incoming -> 0..Timer]
        <4>1. ASSUME NEW s \in Incoming PROVE peerAge'[s] \in 0..Timer
          <5>1. peerAge[s] \in 0..Timer
            BY DEF TypeOK
          <5>2. \/ peerAge'[s] = peerAge[s]
                \/ peerAge[s] # Timer /\ peerAge'[s] = peerAge[s] + 1
            BY <1>9 DEF Tick
          <5>3. QED
            BY <5>1, <5>2
        <4>2. QED
          BY <1>9, <4>1 DEF Tick
      <3>4. flight' \in [Incoming -> SUBSET Responses]
        BY <1>9 DEF Tick
      <3>5. QED
        BY <3>2, <3>3, <3>4
    <2>4. QED
      BY <1>9, <2>2, <2>3 DEF Tick, TypeOK, TxnTypes, callVars, history
  <1>10. CASE UNCHANGED vars
    BY <1>10 DEF TypeOK, vars, layerVars, callVars, peerVars, history
  <1>11. QED
    BY <1>1, <1>2, <1>4, <1>5, <1>6, <1>7, <1>8, <1>9, <1>10, TypeIncoming, TypeOutgoing
    DEF Next

(* Every variable keeps its type, and the queue, the timers and the ages   *)
(* their bounds, whatever peers send and handlers decide.                  *)
THEOREM TypeCorrect == Spec => []TypeOK
  <1>1. QED
    BY TypeInit, TypeNext, PTL DEF Spec

-----------------------------------------------------------------------------
(* What a step leaves alone                                                *)

(* Nothing about an incoming request changes; it may be excused.           *)
Untouched(s) ==
  /\ txn'[s] = txn[s] /\ cleanup'[s] = cleanup[s]
  /\ peer'[s] = peer[s] /\ peerAge'[s] = peerAge[s] /\ flight'[s] = flight[s]
  /\ handed'[s] = handed[s] /\ answers'[s] = answers[s]
  /\ s \in cancelled' => s \in cancelled
  /\ s \in excused => s \in excused'
  /\ inbound' = inbound \/ ~(inbound'.at = "cancel" /\ inbound'.branch = s)

(* What is done for one incoming request leaves the others alone.          *)
LEMMA OthersUntouched ==
  ASSUME TypeOK, NEW r \in Incoming, ForIncoming(r), NEW s \in Incoming, s # r
  PROVE  Untouched(s)
  <1> USE TransactionsAssumption DEF Branches, TypeOK
  <1>1. CASE NewServerTxn(r)
    BY <1>1 DEF NewServerTxn, Arrives, Calling, Answer, HandUp, Untouched
  <1>2. CASE RejectStateless(r)
    BY <1>2 DEF RejectStateless, Arrives, Calling, Answer, layerVars, history, Untouched
  <1>3. CASE Duplicate(r)
    BY <1>3 DEF Duplicate, Arrives, Calling, Answer, layerVars, history, Untouched
  <1>4. CASE CancelArrives(r)
    BY <1>4 DEF CancelArrives, layerVars, peerVars, history, Untouched
  <1>5. CASE CancelFinishes(r)
    BY <1>5 DEF CancelFinishes, Answer, Idle, Untouched
  <1>6. CASE CleanupFires(r)
    BY <1>6 DEF CleanupFires, Deleted, peerVars, history, Untouched
  <1>7. ASSUME NEW response \in Responses, PeerHears(r, response) PROVE Untouched(s)
    BY <1>7 DEF PeerHears, Hears, layerVars, history, Untouched
  <1>8. ASSUME NEW response \in Responses, PeerAcks(r, response) PROVE Untouched(s)
    BY <1>8 DEF PeerAcks, Hears, Deleted, history, Untouched
  <1>9. ASSUME NEW response \in Finals \cup {"provisional"},
               SendResponse(r, response) \/ SendResponseRunsOut(r, response)
        PROVE  Untouched(s)
    BY <1>9 DEF SendResponse, SendResponseRunsOut, Responded, Answer, peerVars, Untouched
  <1>10. QED
    BY <1>1, <1>2, <1>3, <1>4, <1>5, <1>6, <1>7, <1>8, <1>9 DEF ForIncoming

(* So does what is done for a request of this worker.                      *)
LEMMA OutgoingUntouched ==
  ASSUME TypeOK, NEW b \in Outgoing, ForOutgoing(b), NEW s \in Incoming
  PROVE  Untouched(s)
  <1> USE TransactionsAssumption DEF Branches, TypeOK
  <1>1. CASE Provisional(b)
    BY <1>1 DEF Provisional, peerVars, history, Untouched
  <1>2. CASE FinalArrives(b)
    BY <1>2 DEF FinalArrives, layerVars, peerVars, history, Untouched
  <1>3. CASE FinalFinishes(b)
    BY <1>3 DEF FinalFinishes, Deleted, Report, Idle, peerVars, Untouched
  <1>4. CASE Store(b)
    BY <1>4 DEF Store, peerVars, Untouched
  <1>5. CASE Transmit(b)
    BY <1>5 DEF Transmit, layerVars, history, Untouched
  <1>6. CASE Fork(b)
    BY <1>6 DEF Fork, peerVars, history, Untouched
  <1>7. CASE Record(b)
    BY <1>7 DEF Record, peerVars, history, Untouched
  <1>8. CASE RunsOut(b)
    BY <1>8 DEF RunsOut, layerVars, peerVars, Untouched
  <1>9. CASE Retransmit(b)
    BY <1>9 DEF Retransmit, history, Untouched
  <1>10. CASE TimeoutFires(b)
    BY <1>10 DEF TimeoutFires, Report, Deleted, peerVars, Untouched
  <1>11. QED
    BY <1>1, <1>2, <1>3, <1>4, <1>5, <1>6, <1>7, <1>8, <1>9, <1>10 DEF ForOutgoing

(* Of an incoming request, a step handles it, sweeps, passes time, or      *)
(* leaves it alone.                                                        *)
LEMMA IncomingSteps ==
  ASSUME TypeOK, [Next]_vars, NEW s \in Incoming
  PROVE  ForIncoming(s) \/ Sweep \/ Tick \/ Untouched(s)
  <1> USE TransactionsAssumption DEF Branches
  <1>1. CASE HandlerStarts \/ HandlerEnds \/ Remove \/ Purge
    BY <1>1 DEF HandlerStarts, HandlerEnds, Remove, Purge, layerVars, peerVars, history,
       Untouched
  <1>2. ASSUME NEW e \in Evictors, EvictEnds(e) PROVE Untouched(s)
    BY <1>2 DEF EvictEnds, layerVars, peerVars, history, Untouched
  <1>3. ASSUME NEW e \in Evictors, NEW b \in Outgoing, CancelOne(e, b) PROVE Untouched(s)
    BY <1>3 DEF CancelOne, Deleted, TypeOK, peerVars, Untouched
  <1>4. CASE UNCHANGED vars
    BY <1>4 DEF vars, layerVars, peerVars, history, Untouched
  <1>5. QED
    BY <1>1, <1>2, <1>3, <1>4, OthersUntouched, OutgoingUntouched DEF Next

(* A recorded response leaves a transaction as old as it was; a final one  *)
(* closes it to a CANCEL.                                                  *)
LEMMA RespondedKeeps ==
  ASSUME TypeOK, NEW s \in Incoming, NEW response \in Finals \cup {"provisional"},
         Responded(s, response)
  PROVE  /\ Known(s)' <=> Known(s)
         /\ txn'[s].age = txn[s].age
         /\ txn'[s].original => txn'[s].state \in {"trying", "proceeding"} \/ ~Known(s)
         /\ response = "provisional" => txn'[s].original = txn[s].original
  <1>1. CASE ~Known(s)
    BY <1>1 DEF Responded, Known
  <1>2. CASE Known(s)
    <2>1. txn[s] \in TxnRecord /\ s \in Branches
      BY DEF TypeOK, Branches
    <2>2. txn'[s] = [txn[s] EXCEPT
             !.last = response,
             !.state = IF response \in Finals THEN "completed" ELSE "proceeding",
             !.original = @ /\ response \notin Finals]
      BY <1>2, <2>1 DEF Responded, TypeOK
    <2>3. /\ txn'[s].age = txn[s].age
          /\ txn'[s].state \in {"completed", "proceeding"}
          /\ txn'[s].original = (txn[s].original /\ response \notin Finals)
          /\ txn'[s].state = "completed" => response \in Finals
      BY <2>1, <2>2 DEF TxnRecord, Finals
    <2>4. txn'[s] # NoTxn
      BY <2>3 DEF NoTxn
    <2>5. txn'[s].original => txn'[s].state \in {"trying", "proceeding"}
      BY <2>3
    <2>6. response = "provisional" => txn'[s].original = txn[s].original
      BY <2>1, <2>3 DEF Finals, TxnRecord
    <2>7. QED
      BY <1>2, <2>3, <2>4, <2>5, <2>6 DEF Known
  <1>3. QED
    BY <1>1, <1>2

-----------------------------------------------------------------------------
(* A request is handed up once                                             *)

LEMMA OutlivesInit == Init => OutlivesInv
  BY DEF Init, OutlivesInv, Outlives, Known, Idle, Branches

(* A new transaction is of an age of 0, and none was handed up before: its *)
(* sender would not repeat it.                                             *)
LEMMA OutlivesNew ==
  ASSUME TypeOK, OutlivesInv, NEW s \in Incoming, NewServerTxn(s)
  PROVE  Outlives(s)'
  <1> USE TransactionsAssumption DEF Branches
  <1>1. /\ Known(s)' /\ txn'[s].age = 0
    BY DEF NewServerTxn, Known, NoTxn, TypeOK
  <1>2. /\ peer[s] # "done" /\ peerAge[s] < Timer
        /\ peer'[s] \notin {"idle", "done"} /\ (peer[s] # "idle" => peer'[s] = peer[s])
        /\ peerAge' = peerAge
    BY DEF NewServerTxn, Arrives, Repeats, Calling, TypeOK
  <1>3. handed[s] = 0
    BY <1>2 DEF NewServerTxn, OutlivesInv, Outlives, Passed, TypeOK
  <1>4. handed'[s] =< 1
    BY <1>3 DEF NewServerTxn, HandUp, TypeOK
  <1>5. cleanup' = cleanup /\ inbound'.at = "idle"
    BY DEF NewServerTxn, Arrives, Idle
  <1>6. QED
    BY <1>1, <1>2, <1>4, <1>5 DEF OutlivesInv, Outlives, Passed, TypeOK

(* A response changes only what its sender knows: it repeats less, or is   *)
(* done.                                                                   *)
LEMMA PassedHears ==
  ASSUME TypeOK, NEW s \in Incoming, NEW response \in Responses, Hears(s, response),
         peerAge' = peerAge
  PROVE  /\ peer'[s] # "idle" /\ (peer[s] = "done" => peer'[s] = "done")
         /\ response # "provisional" => peer'[s] = "done"
         /\ \A r \in Incoming \ {s} : peer'[r] = peer[r]
  BY DEF Hears, TypeOK

(* A repeated, cancelled or answered request stays within its              *)
(* transaction's life; what is deleted is not repeated any more.           *)
LEMMA OutlivesIncoming ==
  ASSUME TypeOK, OutlivesInv, NEW s \in Incoming, ForIncoming(s)
  PROVE  Outlives(s)'
  <1> USE TransactionsAssumption DEF Branches
  <1>1. CASE RejectStateless(s)
    BY <1>1 DEF RejectStateless, Arrives, Calling, TypeOK, OutlivesInv, Outlives, Passed,
       Known, layerVars, history
  <1>2. CASE Duplicate(s)
    BY <1>2 DEF Duplicate, Arrives, Calling, TypeOK, OutlivesInv, Outlives, Passed, Known,
       layerVars, history
  <1>3. CASE CancelArrives(s)
    BY <1>3 DEF CancelArrives, OutlivesInv, Outlives, Passed, Known, NoTxn,
       layerVars, peerVars, history
  <1>4. CASE CancelFinishes(s)
    <2>1. CASE ~inbound.seen.original
      BY <1>4, <2>1 DEF CancelFinishes, Known, Idle, OutlivesInv, Outlives, Passed
    <2>2. CASE inbound.seen.original
      <3>1. /\ Known(s)' /\ txn'[s].age = inbound.seen.age
            /\ cleanup'[s] = cleanup[s] \/ cleanup'[s] = Timer
        <4>1. txn'[s] = [inbound.seen EXCEPT
                           !.state = "completed", !.last = "failure", !.original = FALSE]
          BY <1>4, <2>2 DEF CancelFinishes, TypeOK
        <4>2. txn'[s].state = "completed" /\ txn'[s].age = inbound.seen.age
          BY <4>1 DEF TypeOK, TxnRecord
        <4>3. cleanup'[s] = cleanup[s] \/ cleanup'[s] = Timer
          BY <1>4, <2>2 DEF CancelFinishes, Within, TypeOK
        <4>4. QED
          BY <4>2, <4>3 DEF Known, NoTxn
      <3>2. Passed(s, inbound.seen.age)
        BY <1>4, <2>2 DEF CancelFinishes, OutlivesInv, Outlives
      <3>3. inbound.seen.age \in Nat
        BY DEF TypeOK, TxnRecord
      <3>4. Passed(s, Timer - Timer)
        BY <3>2, <3>3 DEF Passed, TypeOK
      <3>5. peer' = peer /\ peerAge' = peerAge /\ handed' = handed /\ inbound'.at = "idle"
        BY <1>4 DEF CancelFinishes, Idle
      <3>6. QED
        BY <3>1, <3>2, <3>4, <3>5 DEF OutlivesInv, Outlives, Passed
    <2>3. QED
      BY <2>1, <2>2
  <1>5. CASE CleanupFires(s)
    <2>1. Passed(s, Timer)
      BY <1>5 DEF CleanupFires, OutlivesInv, Outlives, Off
    <2>2. ~Known(s)' /\ cleanup'[s] = Off
      BY <1>5 DEF CleanupFires, Deleted, Known, TypeOK
    <2>3. QED
      BY <1>5, <2>1, <2>2
      DEF CleanupFires, OutlivesInv, Outlives, Passed, peerVars, history
  <1>6. ASSUME NEW response \in Responses, PeerHears(s, response) PROVE Outlives(s)'
    BY <1>6, PassedHears DEF PeerHears, OutlivesInv, Outlives, Passed, Known,
       layerVars, history
  <1>7. ASSUME NEW response \in Responses, PeerAcks(s, response) PROVE Outlives(s)'
    <2>1. peer'[s] = "done" /\ handed' = handed
      BY <1>7, PassedHears DEF PeerAcks, history
    <2>2. QED
      BY <2>1 DEF OutlivesInv, Outlives, Passed
  <1>8. ASSUME NEW response \in Finals \cup {"provisional"},
               SendResponse(s, response) \/ SendResponseRunsOut(s, response)
        PROVE  Outlives(s)'
    <2>1. /\ peer' = peer /\ peerAge' = peerAge /\ handed' = handed /\ inbound' = inbound
      BY <1>8 DEF SendResponse, SendResponseRunsOut, peerVars
    <2>2. (Known(s)' <=> Known(s)) /\ txn'[s].age = txn[s].age
      BY <1>8, RespondedKeeps DEF SendResponse, SendResponseRunsOut
    <2>3. \/ cleanup'[s] = cleanup[s]
          \/ Known(s) /\ cleanup'[s] = Timer
      <3>1. \/ cleanup' = cleanup
            \/ Known(s) /\ cleanup' = [cleanup EXCEPT ![s] = Within(@)]
        BY <1>8 DEF SendResponse, SendResponseRunsOut
      <3>2. QED
        BY <3>1 DEF Within, TypeOK
    <2>4. Known(s) => Passed(s, Timer - Timer)
      <3>1. txn[s].age \in Nat
        BY DEF TypeOK, TxnRecord
      <3>2. QED
        BY <3>1 DEF OutlivesInv, Outlives, Passed, TypeOK
    <2>5. QED
      BY <2>1, <2>2, <2>3, <2>4 DEF OutlivesInv, Outlives, Passed
  <1>9. QED
    BY <1>1, <1>2, <1>3, <1>4, <1>5, <1>6, <1>7, <1>8, OutlivesNew DEF ForIncoming

(* The sweep takes only what is older than any repetition, and time brings *)
(* transactions and repetitions on alike.                                  *)
LEMMA OutlivesSweep ==
  ASSUME TypeOK, OutlivesInv, NEW s \in Incoming, Sweep
  PROVE  Outlives(s)'
  <1>1. Known(s)' => Known(s) /\ txn'[s] = txn[s]
    BY DEF Sweep, Deleted, Known, Branches
  <1>2. Known(s) /\ ~Known(s)' => txn[s].age > MaxAge
    BY DEF Sweep, Deleted, Aged, Known, Branches
  <1>3. Known(s) /\ ~Known(s)' => Passed(s, Timer)
    <2>1. txn[s].age \in Nat /\ peerAge[s] \in 0..Timer
      BY DEF TypeOK, TxnRecord, Branches
    <2>2. QED
      BY <1>2, <2>1, TransactionsAssumption DEF OutlivesInv, Outlives, Passed
  <1>4. /\ peer' = peer /\ peerAge' = peerAge /\ handed' = handed /\ cleanup' = cleanup
        /\ inbound' = inbound
    BY DEF Sweep, peerVars
  <1>5. QED
    BY <1>1, <1>3, <1>4 DEF OutlivesInv, Outlives, Passed

LEMMA OutlivesTick ==
  ASSUME TypeOK, OutlivesInv, NEW s \in Incoming, Tick
  PROVE  Outlives(s)'
  <1> USE TransactionsAssumption
  <1>1. /\ peer' = peer /\ handed' = handed /\ inbound'.at = "idle"
        /\ peerAge[s] \in 0..Timer
    BY DEF Tick, Idle, history, TypeOK
  <1>2. /\ peer[s] \notin {"idle", "done"} /\ peerAge[s] < Timer
             => peerAge'[s] = peerAge[s] + 1
        /\ peerAge[s] = Timer => peerAge'[s] = Timer
    BY <1>1 DEF Tick
  <1> DEFINE Then(t) == \/ peer'[s] = "done"
                        \/ peer'[s] # "idle" /\ (peerAge'[s] >= t \/ peerAge'[s] = Timer)
  <1>3. ASSUME NEW t \in Int, Passed(s, t) PROVE Then(t) /\ Then(t + 1)
    BY <1>1, <1>2, <1>3 DEF Passed
  <1>4. Known(s)' => Then(txn'[s].age)
    <2>1. txn[s] \in TxnRecord /\ s \in Branches /\ txn[s].age \in Int
      BY DEF TypeOK, TxnRecord, Branches
    <2>2. CASE txn'[s] = txn[s]
      BY <1>3, <2>1, <2>2 DEF OutlivesInv, Outlives, Known
    <2>3. CASE Known(s) /\ txn'[s] = [txn[s] EXCEPT !.age = @ + 1]
      <3>1. txn'[s].age = txn[s].age + 1
        BY <2>1, <2>3 DEF TxnRecord
      <3>2. Passed(s, txn[s].age)
        BY <2>3 DEF OutlivesInv, Outlives
      <3>3. QED
        BY <1>3, <2>1, <3>1, <3>2
    <2>4. QED
      BY <2>1, <2>2, <2>3 DEF Tick
  <1>5. Known(s) => Known(s)'
    <2>1. txn[s] \in TxnRecord /\ s \in Branches /\ txn[s].age \in Nat
      BY DEF TypeOK, TxnRecord, Branches
    <2>2. \/ txn'[s] = txn[s]
          \/ txn'[s] = [txn[s] EXCEPT !.age = @ + 1]
      BY <2>1 DEF Tick
    <2>3. txn'[s].age > txn[s].age => txn'[s].age > 0
      BY <2>1, <2>2 DEF TxnRecord
    <2>4. QED
      BY <2>1, <2>2, <2>3 DEF Known, NoTxn, TxnRecord
  <1>6. cleanup'[s] # Off => Then(Timer - cleanup'[s])
    <2>1. cleanup[s] \in {Off} \cup 1..Timer /\ cleanup'[s] = Less(cleanup[s])
      BY DEF Tick, TypeOK
    <2>2. CASE cleanup[s] # Off
      <3>1. cleanup'[s] = cleanup[s] - 1 /\ cleanup[s] \in Int
        BY <2>1, <2>2 DEF Less, Off
      <3>2. Passed(s, Timer - cleanup[s])
        BY <2>2 DEF OutlivesInv, Outlives
      <3>3. Timer - cleanup'[s] = Timer - cleanup[s] + 1 /\ Timer - cleanup[s] \in Int
        BY <3>1
      <3>4. QED
        BY <1>3, <3>2, <3>3
    <2>3. QED
      BY <2>1, <2>2 DEF Less
  <1>7. handed[s] > 0 /\ ~Known(s) => Then(Timer)
    BY <1>3 DEF OutlivesInv, Outlives
  <1>8. QED
    <2>1. /\ handed'[s] =< 1
          /\ Known(s)' => Passed(s, txn[s].age)'
          /\ cleanup'[s] # Off => Passed(s, Timer - cleanup[s])'
          /\ handed'[s] > 0 /\ ~Known(s)' => Passed(s, Timer)'
      BY <1>1, <1>4, <1>5, <1>6, <1>7 DEF OutlivesInv, Outlives, Passed
    <2>2. QED
      BY <1>1, <2>1 DEF Outlives

LEMMA OutlivesNext ==
  ASSUME TypeOK, OutlivesInv, [Next]_vars
  PROVE  OutlivesInv'
  <1> SUFFICES ASSUME NEW s \in Incoming PROVE Outlives(s)'
    BY DEF OutlivesInv
  <1>1. ASSUME Untouched(s) PROVE Outlives(s)'
    BY <1>1 DEF Untouched, OutlivesInv, Outlives, Passed, Known
  <1>2. QED
    BY <1>1, IncomingSteps, OutlivesIncoming, OutlivesSweep, OutlivesTick

(* A request is handed up at most once: handleInboundRequest keeps a       *)
(* transaction for as long as the sender may repeat the request, whatever  *)
(* ends it.                                                                *)
THEOREM HandedUpOnceHolds == Spec => []HandedUpOnce
  <1>1. TypeOK /\ OutlivesInv /\ [Next]_vars => (TypeOK /\ OutlivesInv)'
    BY TypeNext, OutlivesNext
  <1>2. OutlivesInv => HandedUpOnce
    BY DEF OutlivesInv, Outlives, HandedUpOnce
  <1>3. QED
    BY <1>1, <1>2, TypeInit, OutlivesInit, PTL DEF Spec

-----------------------------------------------------------------------------
(* A cancelled INVITE is answered                                          *)

LEMMA AnswerInit == Init => AnswerInv
  BY DEF Init, AnswerInv, AnswerOpen, Known, Idle, Branches, NoTxn, Off

(* What was settled stays so.                                              *)
LEMMA SettledStays ==
  ASSUME TypeOK, [Next]_vars, NEW s \in Incoming, Settled(s)
  PROVE  Settled(s)'
  <1> USE DEF TypeOK, Settled
  <1>1. CASE Untouched(s)
    BY <1>1 DEF Untouched
  <1>2. CASE Sweep \/ Tick
    BY <1>2 DEF Sweep, Tick, history
  <1>3. CASE ForIncoming(s)
    <2>1. CASE NewServerTxn(s)
      BY <2>1 DEF NewServerTxn, HandUp
    <2>2. CASE CancelFinishes(s)
      BY <2>2 DEF CancelFinishes
    <2>3. CASE RejectStateless(s) \/ Duplicate(s) \/ CancelArrives(s) \/ CleanupFires(s)
      BY <2>3 DEF RejectStateless, Duplicate, CancelArrives, CleanupFires, history
    <2>4. ASSUME NEW response \in Responses,
                 PeerHears(s, response) \/ PeerAcks(s, response)
          PROVE  Settled(s)'
      BY <2>4 DEF PeerHears, PeerAcks, history
    <2>5. ASSUME NEW response \in Finals \cup {"provisional"},
                 SendResponse(s, response) \/ SendResponseRunsOut(s, response)
          PROVE  Settled(s)'
      BY <2>5 DEF SendResponse, SendResponseRunsOut
    <2>6. QED
      BY <1>3, <2>1, <2>2, <2>3, <2>4, <2>5 DEF ForIncoming
  <1>4. QED
    BY <1>1, <1>2, <1>3, IncomingSteps

(* A request that is settled only has to keep what its record may say.     *)
LEMMA AnswerSettled ==
  ASSUME NEW s \in Incoming, Settled(s)',
         txn'[s].original => txn'[s].state \in {"trying", "proceeding"}
  PROVE  AnswerOpen(s)'
  BY DEF AnswerOpen

LEMMA AnswerIncoming ==
  ASSUME TypeOK, AnswerInv, NEW s \in Incoming, ForIncoming(s), Settled(s) => Settled(s)'
  PROVE  AnswerOpen(s)'
  <1> USE TransactionsAssumption DEF Branches
  <1>1. CASE NewServerTxn(s)
    <2>1. /\ txn'[s].original /\ txn'[s].state \in {"trying", "proceeding"}
          /\ cleanup' = cleanup /\ cancelled' = cancelled /\ inbound'.at = "idle"
      BY <1>1 DEF NewServerTxn, Arrives, Idle, NoTxn, TypeOK
    <2>2. QED
      BY <2>1 DEF AnswerInv, AnswerOpen
  <1>2. CASE RejectStateless(s)
    <2>1. /\ flight'[s] = flight[s] \cup {"reject"}
          /\ peer'[s] = "proceeding" => peer[s] = "proceeding"
      BY <1>2 DEF RejectStateless, Arrives, Calling, Answer, TypeOK
    <2>2. QED
      BY <1>2, <2>1 DEF RejectStateless, AnswerInv, AnswerOpen, Settled, Known, layerVars,
         history
  <1>3. CASE Duplicate(s)
    <2>1. /\ "provisional" \in flight'[s] => Known(s) \/ "provisional" \in flight[s]
          /\ peer'[s] = "proceeding" => peer[s] = "proceeding"
      BY <1>3 DEF Duplicate, Arrives, Calling, Answer, TypeOK
    <2>2. QED
      BY <1>3, <2>1 DEF Duplicate, AnswerInv, AnswerOpen, Settled, Known, layerVars, history
  <1>4. CASE CancelArrives(s)
    <2>1. inbound'.seen.original \/ Settled(s)
      <3>1. CASE Cancellable(s)
        BY <1>4, <3>1 DEF CancelArrives, AnswerInv, AnswerOpen
      <3>2. CASE ~Cancellable(s)
        BY <1>4, <3>2 DEF CancelArrives, Cancellable, AnswerInv, AnswerOpen
      <3>3. QED
        BY <3>1, <3>2
    <2>2. QED
      BY <1>4, <2>1 DEF CancelArrives, AnswerInv, AnswerOpen, Settled, Known, layerVars,
         peerVars, history
  <1>5. CASE CancelFinishes(s)
    <2>1. CASE inbound.seen.original
      <3>1. txn'[s] = [inbound.seen EXCEPT
                         !.state = "completed", !.last = "failure", !.original = FALSE]
        BY <1>5, <2>1 DEF CancelFinishes, TypeOK
      <3>2. ~txn'[s].original
        BY <3>1 DEF TypeOK, TxnRecord
      <3>3. answers' = [answers EXCEPT ![s] = @ \cup {"layer"}]
        BY <1>5, <2>1 DEF CancelFinishes
      <3>4. QED
        BY <3>2, <3>3, AnswerSettled DEF Settled, TypeOK
    <2>2. CASE ~inbound.seen.original
      BY <1>5, <2>2, AnswerSettled DEF CancelFinishes, AnswerInv, AnswerOpen
    <2>3. QED
      BY <2>1, <2>2
  <1>6. CASE CleanupFires(s)
    BY <1>6, AnswerSettled
    DEF CleanupFires, Deleted, NoTxn, Off, AnswerInv, AnswerOpen, TypeOK
  <1>7. ASSUME NEW response \in Responses, PeerHears(s, response) PROVE AnswerOpen(s)'
    <2>1. /\ peer'[s] = "proceeding" => "provisional" \in flight[s]
          /\ flight'[s] \subseteq flight[s]
      BY <1>7 DEF PeerHears, Hears, TypeOK
    <2>2. QED
      BY <1>7, <2>1 DEF PeerHears, AnswerInv, AnswerOpen, Settled, Known, layerVars, history
  <1>8. ASSUME NEW response \in Responses, PeerAcks(s, response) PROVE AnswerOpen(s)'
    <2>1. CASE txn[s].state = "completed"
      <3>1. Known(s) /\ ~txn[s].original
        BY <2>1 DEF Known, NoTxn, AnswerInv, AnswerOpen
      <3>2. ~txn'[s].original
        BY <1>8, <2>1 DEF PeerAcks, Deleted, NoTxn
      <3>3. QED
        BY <3>1, <3>2, AnswerSettled DEF AnswerInv, AnswerOpen
    <2>2. CASE txn[s].state # "completed"
      <3>1. /\ peer'[s] = "proceeding" => "provisional" \in flight[s]
            /\ flight'[s] \subseteq flight[s]
        BY <1>8 DEF PeerAcks, Hears, TypeOK
      <3>2. QED
        BY <1>8, <2>2, <3>1 DEF PeerAcks, AnswerInv, AnswerOpen, Settled, Known, history
    <2>3. QED
      BY <2>1, <2>2
  <1>9. ASSUME NEW response \in Finals \cup {"provisional"},
               SendResponse(s, response) \/ SendResponseRunsOut(s, response)
        PROVE  AnswerOpen(s)'
    <2>1. txn'[s].original => txn'[s].state \in {"trying", "proceeding"}
      BY <1>9, RespondedKeeps
      DEF SendResponse, SendResponseRunsOut, Responded, AnswerInv, AnswerOpen
    <2>2. CASE response \in Finals
      <3>1. Settled(s)'
        <4>1. \/ answers' = [answers EXCEPT ![s] = @ \cup {"handler"}]
              \/ s \in excused'
          BY <1>9, <2>2 DEF SendResponse, SendResponseRunsOut
        <4>2. answers' = [answers EXCEPT ![s] = @ \cup {"handler"}] => answers'[s] # {}
          BY DEF TypeOK
        <4>3. QED
          BY <4>1, <4>2 DEF Settled
      <3>2. QED
        BY <2>1, <3>1, AnswerSettled
    <2>3. CASE response = "provisional"
      <3>1. /\ SendResponse(s, response) /\ handed[s] > 0
        BY <1>9, <2>3 DEF SendResponse, SendResponseRunsOut, MayRespond, Finals
      <3>2. /\ txn'[s].original = txn[s].original /\ cleanup' = cleanup
            /\ inbound' = inbound /\ cancelled' = cancelled
        BY <2>3, <3>1, RespondedKeeps DEF SendResponse, Finals
      <3>3. QED
        BY <2>1, <3>1, <3>2 DEF AnswerInv, AnswerOpen
    <2>4. QED
      BY <2>2, <2>3
  <1>10. QED
    BY <1>1, <1>2, <1>3, <1>4, <1>5, <1>6, <1>7, <1>8, <1>9 DEF ForIncoming

(* An INVITE swept while no final response was sent is excused.            *)
LEMMA AnswerSweep ==
  ASSUME TypeOK, AnswerInv, NEW s \in Incoming, Sweep, Settled(s) => Settled(s)'
  PROVE  AnswerOpen(s)'
  <1>1. CASE s \in Aged
    <2>1. Known(s) /\ txn'[s] = NoTxn
      <3>1. txn[s].age > MaxAge
        BY <1>1 DEF Aged
      <3>2. ~(NoTxn.age > MaxAge)
        BY TransactionsAssumption DEF NoTxn
      <3>3. txn'[s] = NoTxn
        BY <1>1 DEF Sweep, Deleted, Branches
      <3>4. QED
        BY <3>1, <3>2, <3>3 DEF Known
    <2>2. txn[s].state # "completed" => s \in excused'
      BY <1>1 DEF Sweep
    <2>3. Settled(s)'
      BY <2>1, <2>2 DEF AnswerInv, AnswerOpen, Settled
    <2>4. QED
      BY <2>1, <2>3, AnswerSettled DEF NoTxn
  <1>2. CASE s \notin Aged
    <2>1. txn'[s] = txn[s]
      BY <1>2 DEF Sweep, Deleted, Branches
    <2>2. QED
      BY <2>1 DEF Sweep, AnswerInv, AnswerOpen, Known, peerVars
  <1>3. QED
    BY <1>1, <1>2

LEMMA AnswerTick ==
  ASSUME TypeOK, AnswerInv, NEW s \in Incoming, Tick
  PROVE  AnswerOpen(s)'
  <1>1. /\ txn'[s].original = txn[s].original /\ txn'[s].state = txn[s].state
        /\ Known(s)' => Known(s)
    <2>1. txn[s] \in TxnRecord
      BY DEF TypeOK, Branches
    <2>2. \/ txn'[s] = txn[s]
          \/ Known(s) /\ txn'[s] = [txn[s] EXCEPT !.age = @ + 1]
      BY DEF Tick, Branches
    <2>3. QED
      BY <2>1, <2>2 DEF TxnRecord, Known
  <1>2. cleanup'[s] # Off => cleanup[s] # Off
    BY DEF Tick, Less
  <1>3. /\ peer' = peer /\ flight'[s] = {} /\ handed' = handed /\ answers' = answers
        /\ cancelled' = cancelled /\ excused' = excused /\ inbound'.at = "idle"
    BY DEF Tick, Idle, history
  <1>4. QED
    BY <1>1, <1>2, <1>3 DEF AnswerInv, AnswerOpen, Settled

LEMMA AnswerNext ==
  ASSUME TypeOK, AnswerInv, [Next]_vars
  PROVE  AnswerInv'
  <1> SUFFICES ASSUME NEW s \in Incoming PROVE AnswerOpen(s)'
    BY DEF AnswerInv
  <1>1. Settled(s) => Settled(s)'
    BY SettledStays
  <1>2. CASE Untouched(s)
    BY <1>1, <1>2 DEF Untouched, AnswerInv, AnswerOpen, Known
  <1>3. QED
    BY <1>1, <1>2, IncomingSteps, AnswerIncoming, AnswerSweep, AnswerTick

(* An INVITE whose cancellation was handed up has been sent a final        *)
(* response: handleCancel sends 487 unless the transaction was closed, and *)
(* only a final response, a budget or the sweep closes it.                 *)
THEOREM CancelledIsAnsweredHolds == Spec => []CancelledIsAnswered
  <1>1. TypeOK /\ AnswerInv /\ [Next]_vars => (TypeOK /\ AnswerInv)'
    BY TypeNext, AnswerNext
  <1>2. TypeOK /\ AnswerInv => CancelledIsAnswered
    BY DEF AnswerInv, AnswerOpen, Settled, CancelledIsAnswered, TypeOK
  <1>3. QED
    BY <1>1, <1>2, TypeInit, AnswerInit, PTL DEF Spec

-----------------------------------------------------------------------------
(* No timeout is reported of what was answered or evicted                  *)

LEMMA ClientInit == Init => ClientInv
  BY DEF Init, ClientInv, ClientGone, Idle, AtRest, Evictors

(* Nothing about a request of this worker changes but that it may be sent  *)
(* or its transaction deleted.                                             *)
Quiet(b) ==
  /\ Known(b)' => Known(b)
  /\ told'[b] = "final" => told[b] = "final"
  /\ heard \subseteq heard' /\ late \subseteq late' /\ evict' = evict
  /\ inbound' = inbound \/ ~(inbound'.at = "final" /\ inbound'.branch = b)

LEMMA QuietIncoming ==
  ASSUME TypeOK, NEW b \in Outgoing, NEW s \in Incoming, ForIncoming(s)
  PROVE  Quiet(b)
  <1> USE TransactionsAssumption DEF Branches, TypeOK, Quiet, callVars
  <1>1. CASE NewServerTxn(s)
    BY <1>1 DEF NewServerTxn, Known
  <1>2. CASE RejectStateless(s) \/ Duplicate(s) \/ CancelArrives(s)
    BY <1>2 DEF RejectStateless, Duplicate, CancelArrives, Known, layerVars, peerVars,
       history
  <1>3. CASE CancelFinishes(s)
    BY <1>3 DEF CancelFinishes, Known, Idle
  <1>4. CASE CleanupFires(s)
    BY <1>4 DEF CleanupFires, Deleted, Known, peerVars, history
  <1>5. ASSUME NEW response \in Responses, PeerHears(s, response) \/ PeerAcks(s, response)
        PROVE  Quiet(b)
    BY <1>5 DEF PeerHears, PeerAcks, Deleted, Known, layerVars, history
  <1>6. ASSUME NEW response \in Finals \cup {"provisional"},
               SendResponse(s, response) \/ SendResponseRunsOut(s, response)
        PROVE  Quiet(b)
    <2>1. txn'[b] = txn[b]
      BY <1>6 DEF SendResponse, SendResponseRunsOut, Responded
    <2>2. QED
      BY <1>6, <2>1 DEF SendResponse, SendResponseRunsOut, Known, peerVars
  <1>7. QED
    BY <1>1, <1>2, <1>3, <1>4, <1>5, <1>6 DEF ForIncoming

LEMMA QuietOutgoing ==
  ASSUME TypeOK, NEW b \in Outgoing, NEW c \in Outgoing, ForOutgoing(c)
  PROVE  Quiet(b) \/ FinalArrives(b) \/ FinalFinishes(b) \/ Store(b)
  <1> USE TransactionsAssumption DEF Branches, TypeOK, Quiet, callVars
  <1>1. CASE Provisional(c)
    BY <1>1 DEF Provisional, Known, peerVars, history
  <1>2. CASE FinalArrives(c)
    BY <1>2 DEF FinalArrives, Known, layerVars, peerVars, history
  <1>3. CASE FinalFinishes(c)
    BY <1>3 DEF FinalFinishes, Report, Deleted, Known, Idle, peerVars
  <1>4. CASE Store(c)
    BY <1>4 DEF Store, Known, peerVars
  <1>5. CASE Transmit(c) \/ RunsOut(c)
    BY <1>5 DEF Transmit, RunsOut, Known, layerVars, peerVars, history
  <1>6. CASE Fork(c) \/ Retransmit(c)
    BY <1>6 DEF Fork, Retransmit, Known, peerVars, history
  <1>7. CASE Record(c)
    BY <1>7 DEF Record, Known, peerVars, history
  <1>8. CASE TimeoutFires(c)
    BY <1>8 DEF TimeoutFires, Report, Deleted, Known, peerVars
  <1>9. QED
    BY <1>1, <1>2, <1>3, <1>4, <1>5, <1>6, <1>7, <1>8 DEF ForOutgoing

(* A step stores a request, takes its final response, evicts, or is quiet. *)
LEMMA OutgoingSteps ==
  ASSUME TypeOK, [Next]_vars, NEW b \in Outgoing
  PROVE  \/ Quiet(b) \/ FinalArrives(b) \/ FinalFinishes(b) \/ Store(b)
         \/ Remove \/ Purge
         \/ \E e \in Evictors : EvictEnds(e) \/ \E c \in Outgoing : CancelOne(e, c)
  <1>1. CASE HandlerStarts \/ HandlerEnds \/ UNCHANGED vars
    BY <1>1 DEF HandlerStarts, HandlerEnds, Known, Quiet, vars, layerVars, callVars,
       peerVars, history
  <1>2. CASE Sweep
    BY <1>2 DEF Sweep, Deleted, Known, Quiet, Branches, callVars, peerVars
  <1>3. CASE Tick
    BY <1>3 DEF Tick, Known, Quiet, Branches, callVars, history
  <1>4. QED
    BY <1>1, <1>2, <1>3, QuietIncoming, QuietOutgoing DEF Next

(* An eviction is begun, gone on with or ended by its own steps only.      *)
LEMMA EvictSteps ==
  ASSUME [Next]_vars
  PROVE  \/ evict' = evict \/ Remove \/ Purge
         \/ \E e \in Evictors : EvictEnds(e) \/ \E c \in Outgoing : CancelOne(e, c)
  <1> USE DEF callVars
  <1>1. ASSUME NEW s \in Incoming, ForIncoming(s) PROVE evict' = evict
    BY <1>1 DEF ForIncoming, NewServerTxn, RejectStateless, Duplicate, CancelArrives,
       CancelFinishes, CleanupFires, PeerHears, PeerAcks, SendResponse, SendResponseRunsOut
  <1>2. ASSUME NEW b \in Outgoing, ForOutgoing(b) PROVE evict' = evict
    BY <1>2 DEF ForOutgoing, Provisional, FinalArrives, FinalFinishes, Store, Transmit,
       Fork, Record, RunsOut, Retransmit, TimeoutFires
  <1>3. CASE HandlerStarts \/ HandlerEnds \/ Sweep \/ Tick \/ UNCHANGED vars
    BY <1>3 DEF HandlerStarts, HandlerEnds, Sweep, Tick, vars
  <1>4. QED
    BY <1>1, <1>2, <1>3 DEF Next

LEMMA ClientNext ==
  ASSUME TypeOK, ClientInv, [Next]_vars
  PROVE  ClientInv'
  <1> USE TransactionsAssumption DEF Branches
  <1>1. ASSUME NEW b \in Outgoing PROVE ClientGone(b)'
    <2> USE <1>1
    <2>1. CASE Quiet(b)
      BY <2>1 DEF Quiet, ClientInv, ClientGone
    <2>2. CASE FinalArrives(b)
      BY <2>2 DEF FinalArrives, ClientInv, ClientGone, Known, layerVars, callVars,
         peerVars, history
    <2>3. CASE FinalFinishes(b)
      <3>1. ~Known(b)'
        BY <2>3 DEF FinalFinishes, Deleted, ClientInv, ClientGone, Known
      <3>2. QED
        BY <2>3, <3>1 DEF FinalFinishes, Idle, ClientGone
    <2>4. CASE Store(b)
      <3>1. /\ told' = told /\ told[b] = "nothing" /\ inbound' = inbound /\ b \notin heard
            /\ evict' = evict
        BY <2>4 DEF Store
      <3>2. b \notin late' => \A e \in Evictors : evict[e].at = "rest"
        BY <2>4 DEF Store
      <3>3. QED
        BY <3>1, <3>2 DEF ClientInv, ClientGone
    <2>5. CASE Remove \/ Purge
      <3>1. /\ txn' = txn /\ told' = told /\ heard' = heard /\ inbound' = inbound
            /\ late' = late
        BY <2>5 DEF Remove, Purge, layerVars, peerVars, history
      <3>2. ASSUME NEW e \in Evictors
            PROVE  evict'[e] = evict[e] \/ evict'[e].victims = Victims
        BY <2>5 DEF Remove, Purge, Cancelling, TypeOK
      <3>3. QED
        BY <3>1, <3>2 DEF ClientInv, ClientGone, Known, Victims
    <2>6. ASSUME NEW e \in Evictors, EvictEnds(e) PROVE ClientGone(b)'
      <3>1. /\ txn' = txn /\ told' = told /\ heard' = heard /\ inbound' = inbound
            /\ late' = late
        BY <2>6 DEF EvictEnds, layerVars, peerVars, history
      <3>2. /\ evict[e].at = "cancel" /\ evict[e].victims = {} /\ evict'[e].victims = {}
            /\ \A f \in Evictors \ {e} : evict'[f] = evict[f]
        BY <2>6 DEF EvictEnds, AtRest, TypeOK
      <3>3. QED
        BY <3>1, <3>2 DEF ClientInv, ClientGone, Known
    <2>7. ASSUME NEW e \in Evictors, NEW c \in Outgoing, CancelOne(e, c)
          PROVE  ClientGone(b)'
      <3>1. /\ Known(b)' => Known(b) /\ b # c
            /\ told'[b] = "final" => told[b] = "final"
            /\ heard' = heard /\ inbound' = inbound /\ late' = late
        BY <2>7 DEF CancelOne, Deleted, Known, TypeOK, peerVars
      <3>2. \A f \in Evictors : /\ evict'[f].at = evict[f].at
                                /\ evict[f].victims \subseteq evict'[f].victims \cup {c}
        BY <2>7 DEF CancelOne, TypeOK
      <3>3. QED
        BY <3>1, <3>2 DEF ClientInv, ClientGone
    <2>8. QED
      BY <2>1, <2>2, <2>3, <2>4, <2>5, <2>6, <2>7, OutgoingSteps
  <1>2. ASSUME NEW e \in Evictors, evict'[e].at = "done" PROVE evict'[e].victims = {}
    <2> USE <1>2
    <2>1. CASE evict' = evict
      BY <2>1 DEF ClientInv
    <2>2. CASE Remove \/ Purge
      <3>1. evict'[e] = evict[e] \/ evict'[e] = Cancelling
        BY <2>2 DEF Remove, Purge, TypeOK
      <3>2. Cancelling.at = "cancel"
        BY DEF Cancelling
      <3>3. QED
        BY <3>1, <3>2 DEF ClientInv
    <2>3. ASSUME NEW f \in Evictors, EvictEnds(f) PROVE evict'[e].victims = {}
      BY <2>3 DEF EvictEnds, AtRest, ClientInv, TypeOK
    <2>4. ASSUME NEW f \in Evictors, NEW c \in Outgoing, CancelOne(f, c)
          PROVE  evict'[e].victims = {}
      <3>1. /\ evict'[e].at = evict[e].at /\ c \in evict[f].victims
            /\ e # f => evict'[e] = evict[e]
        BY <2>4 DEF CancelOne, TypeOK
      <3>2. QED
        BY <3>1 DEF ClientInv
    <2>5. QED
      BY <2>1, <2>2, <2>3, <2>4, EvictSteps
  <1>3. QED
    BY <1>1, <1>2 DEF ClientInv

(* A timeout is reported only of a transaction that is in the map.         *)
LEMMA TimeoutSteps ==
  ASSUME TypeOK, [Next]_vars, NEW b \in Outgoing, told'[b] = "timeout", told[b] # "timeout"
  PROVE  Known(b)
  <1> USE DEF TypeOK
  <1>1. told' # told
    OBVIOUS
  <1>2. ASSUME NEW s \in Incoming, ForIncoming(s) PROVE told' = told
    BY <1>2 DEF ForIncoming, NewServerTxn, RejectStateless, Duplicate, CancelArrives,
       CancelFinishes, CleanupFires, PeerHears, PeerAcks, SendResponse,
       SendResponseRunsOut, history
  <1>3. ASSUME NEW c \in Outgoing, ForOutgoing(c) PROVE Known(b)
    <2>1. CASE FinalFinishes(c)
      BY <2>1 DEF FinalFinishes, Report
    <2>2. CASE TimeoutFires(c)
      BY <2>2 DEF TimeoutFires, Report
    <2>3. CASE Provisional(c) \/ FinalArrives(c) \/ Store(c) \/ Transmit(c) \/ Fork(c)
               \/ Record(c) \/ RunsOut(c) \/ Retransmit(c)
      BY <1>1, <2>3 DEF Provisional, FinalArrives, Store, Transmit, Fork, Record, RunsOut,
         Retransmit, history
    <2>4. QED
      BY <1>3, <2>1, <2>2, <2>3 DEF ForOutgoing
  <1>4. ASSUME NEW e \in Evictors, NEW c \in Outgoing, CancelOne(e, c) PROVE FALSE
    BY <1>4 DEF CancelOne
  <1>5. CASE \/ HandlerStarts \/ HandlerEnds \/ Remove \/ Purge \/ Sweep \/ Tick
             \/ UNCHANGED vars \/ \E e \in Evictors : EvictEnds(e)
    BY <1>1, <1>5 DEF HandlerStarts, HandlerEnds, Remove, Purge, Sweep, Tick, EvictEnds,
       vars, history
  <1>6. QED
    BY <1>1, <1>2, <1>3, <1>4, <1>5 DEF Next

LEMMA ClientHolds == Spec => [](TypeOK /\ ClientInv)
  <1>1. TypeOK /\ ClientInv /\ [Next]_vars => (TypeOK /\ ClientInv)'
    BY TypeNext, ClientNext
  <1>2. QED
    BY <1>1, TypeInit, ClientInit, PTL DEF Spec

(* No timeout is reported of a request whose final response was:           *)
(* handleInboundResponse has deleted the transaction, and a timer that     *)
(* still fires finds none.                                                 *)
THEOREM TimeoutIsLastHolds == Spec => TimeoutIsLast
  <1>1. ASSUME TypeOK, ClientInv, [Next]_vars
        PROVE  \A b \in Outgoing : told[b] = "final" => told'[b] # "timeout"
    BY <1>1, TimeoutSteps DEF ClientInv, ClientGone
  <1>2. QED
    BY <1>1, ClientHolds, PTL DEF Spec, TimeoutIsLast

(* Once a cancelTxnsForCall has come to its end, Timer B or F is reported  *)
(* of no request stored before it began: none of them is in the map.       *)
THEOREM EvictedIsSilentHolds == Spec => EvictedIsSilent
  <1>1. ASSUME TypeOK, ClientInv, [Next]_vars
        PROVE  \A b \in Outgoing \ late :
                 /\ \E e \in Evictors : evict[e].at = "done"
                 /\ told[b] # "timeout"
                 => told'[b] # "timeout"
    BY <1>1, TimeoutSteps DEF ClientInv, ClientGone
  <1>2. QED
    BY <1>1, ClientHolds, PTL DEF Spec, EvictedIsSilent

=============================================================================
