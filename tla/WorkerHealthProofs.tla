------------------------- MODULE WorkerHealthProofs -------------------------
(***************************************************************************)
(* Theorems about WorkerHealth, for any set of workers and any timing of   *)
(* the probe: how long a worker that has fallen silent can stay on the     *)
(* list (SilentIsLeft), and that a draining worker is seen before it falls *)
(* silent, when the first tier of the drain is longer than one cycle of    *)
(* the probe (DrainIsSeen).                                                *)
(*                                                                         *)
(* Both count down: Due bounds the ticks until a silent worker is found    *)
(* dead by the misses it has left, Noticed says what is still to come      *)
(* before the load of a draining worker is known.                          *)
(***************************************************************************)
EXTENDS WorkerHealth, TLAPS

Unfit(w) == phase[w] \in {"boot", "quiet", "down"}

Cycles(n) == n * Cycle

(* The probe's sleeps, and who is still to be answered. *)
ProbeClock ==
  /\ wait <= IF stage = "sleep" THEN Interval ELSE Timeout
  /\ probed # {} => stage = "sent" /\ wait = Timeout

(* A reply is handled before the probe has slept again. *)
RepliesInTime ==
  \A w \in Workers :
    reply[w] # NoReply =>
      \/ stage = "sent" /\ reply[w].left + Timeout = ReplyDelay + wait
      \/ stage = "sleep" /\ wait = Interval /\ reply[w].left = 0

(* A reply from before the worker fell silent is as old as its silence. *)
RepliesFresh ==
  \A w \in Workers :
    Unfit(w) /\ reply[w].status = "alive" =>
      clock[w] <= IF stage = "sent" THEN Timeout - wait ELSE Timeout

ProbeSound ==
  \A w \in Workers : probe[w] = "alive" => k8s[w] # "absent" /\ misses[w] < Threshold

(* Ticks until a worker that answers no more is found dead. *)
Remaining(w) ==
  IF stage = "sleep"
  THEN wait + Timeout + Cycles(Threshold - misses[w] - 1)
  ELSE wait + Cycles(IF w \in pending THEN Threshold - misses[w] - 1
                                      ELSE Threshold - misses[w])
Due ==
  \A w \in Workers :
    Unfit(w) /\ probe[w] = "alive" => clock[w] + Remaining(w) <= Detection

(* The invariant behind SilentIsLeft. *)
Found == ProbeClock /\ RepliesInTime /\ RepliesFresh /\ ProbeSound /\ Due

(* Ticks until the next requests are sent. *)
UntilSent == IF stage = "sleep" THEN wait ELSE wait + Interval

(* The reply that tells of the drain. *)
Telling(w) == reply[w].status = "alive" /\ reply[w].load = "high"

Noticed(w) ==
  \/ phase[w] = "new" /\ clock[w] + UntilSent <= Cycle
  \/ phase[w] = "new" /\ w \in probed /\ clock[w] <= Cycle
  \/ phase[w] = "new" /\ Telling(w) /\ clock[w] + reply[w].left <= Cycle + ReplyDelay
  \/ phase[w] = "quiet" /\ Telling(w) /\ clock[w] + reply[w].left < ReplyDelay
  \/ w \in hot /\ (reply[w] = NoReply \/ Telling(w))

(* The invariant behind DrainIsSeen. *)
Heeded ==
  \A w \in lossless :
    /\ phase[w] \in {"new", "quiet"}
    /\ k8s[w] = "alive" => Noticed(w)

-----------------------------------------------------------------------------
(* Arithmetic                                                              *)

LEMMA CycleNat == Cycle \in Nat /\ Interval + Timeout = Cycle
  BY WorkerHealthAssumption DEF Cycle

LEMMA CyclesStep == \A n \in Int : Cycles(n) \in Int /\ Cycles(n) = Cycles(n - 1) + Cycle
<1>1. \A n, c \in Int : n * c \in Int /\ n * c = (n - 1) * c + c
  OBVIOUS
<1> QED
  BY <1>1, CycleNat DEF Cycles

LEMMA CyclesBound == \A n \in 0..Threshold : 0 <= Cycles(n) /\ Cycles(n) <= Cycles(Threshold)
<1>1. \A n, c \in Nat : 0 <= n * c
  OBVIOUS
<1>2. \A n, m \in Nat, c \in Nat : n <= m => n * c <= m * c
  <2> SUFFICES ASSUME NEW n \in Nat, NEW m \in Nat, NEW c \in Nat, n <= m
               PROVE  n * c <= m * c
    OBVIOUS
  <2>1. m - n \in Nat /\ m * c = (m - n) * c + n * c
    OBVIOUS
  <2>2. 0 <= (m - n) * c
    BY <2>1, <1>1
  <2> QED
    BY <2>1, <2>2
<1>3. Threshold \in Nat
  BY WorkerHealthAssumption
<1> QED
  BY <1>1, <1>2, <1>3, CycleNat DEF Cycles

LEMMA UpToNat == ASSUME NEW max \in Nat, NEW n \in 0..max
                 PROVE  UpTo(n, max) \in 0..max /\ UpTo(n, max) <= n + 1 /\ n <= UpTo(n, max)
  BY DEF UpTo

LEMMA HorizonNat == /\ Horizon \in Nat /\ Tier1 <= Horizon /\ Tier2 <= Horizon
                    /\ Detection \in Nat /\ Detection < Horizon
<1>1. Detection \in Nat
  <2>1. Threshold \in 0..Threshold /\ Cycles(Threshold) \in Int
    BY WorkerHealthAssumption, CyclesStep
  <2> QED
    BY <2>1, CyclesBound, WorkerHealthAssumption DEF Detection, Cycles
<1>2. \A a, b \in Nat : Largest(a, b) \in Nat /\ a <= Largest(a, b) /\ b <= Largest(a, b)
  BY DEF Largest
<1>3. /\ Detection + 1 \in Nat /\ Largest(Tier1, Tier2) \in Nat
      /\ Tier1 <= Largest(Tier1, Tier2) /\ Tier2 <= Largest(Tier1, Tier2)
  BY <1>1, <1>2, WorkerHealthAssumption
<1>4. Horizon \in Nat /\ Detection + 1 <= Horizon /\ Largest(Tier1, Tier2) <= Horizon
  BY <1>2, <1>3 DEF Horizon
<1> QED
  BY <1>1, <1>3, <1>4, WorkerHealthAssumption

-----------------------------------------------------------------------------
(* Types                                                                   *)

LEMMA InitTypes == Init => TypeOK
<1>1. Interval \in 0..Largest(Interval, Timeout)
  BY WorkerHealthAssumption DEF Largest
<1> QED
  BY <1>1, HorizonNat, WorkerHealthAssumption DEF Init, TypeOK, WorkerTypes, CycleTypes, RegistryTypes, TiersEnd

LEMMA PairTypes ==
  ASSUME TypeOK, NEW k, NEW p, SetPairs(k, p)
  PROVE  drained' \in [Workers -> 0..Grace + 1]
  BY WorkerHealthAssumption DEF TypeOK, RegistryTypes, SetPairs

LEMMA ProbeTypes ==
  ASSUME TypeOK, NEW S, NEW health \in {"unknown", "alive", "not_ready", "dead"},
         SetProbe(S, health)
  PROVE  /\ k8s' = k8s /\ probe' \in [Workers -> {"unknown", "alive", "not_ready", "dead"}]
         /\ drained' \in [Workers -> 0..Grace + 1]
<1>1. k8s' = k8s /\ probe' = [w \in Workers |-> IF w \in S /\ k8s[w] # "absent"
                                                 THEN health ELSE probe[w]]
  BY DEF SetProbe, SetPairs
<1>2. drained' \in [Workers -> 0..Grace + 1]
  BY PairTypes DEF SetProbe
<1> QED
  BY <1>1, <1>2 DEF TypeOK, RegistryTypes

LEMMA NextTypes == ASSUME TypeOK, [Next]_vars PROVE TypeOK'
<1> USE DEF TypeOK, WorkerTypes, CycleTypes, RegistryTypes, TiersEnd
<1> USE DEF workerVars, podVars, probeVars, registryVars
<1> USE WorkerHealthAssumption, HorizonNat
<1>1. CASE FanOut
  BY <1>1 DEF FanOut, Largest
<1>2. CASE Reap
  <2> DEFINE dead == {w \in pending : misses'[w] >= Threshold}
  <2>1. SetProbe(dead, "dead")
    BY <1>2 DEF Reap
  <2>2. /\ k8s' = k8s /\ drained' \in [Workers -> 0..Grace + 1]
        /\ probe' \in [Workers -> {"unknown", "alive", "not_ready", "dead"}]
    BY <2>1, ProbeTypes
  <2>3. misses' \in [Workers -> 0..Threshold]
    BY <1>2, UpToNat DEF Reap
  <2>4. stage' = "sleep" /\ wait' \in 0..Largest(Interval, Timeout)
    BY <1>2 DEF Reap, Largest
  <2>5. pending' = {} /\ probed' = {} /\ reply' = reply /\ fresh' = fresh
    BY <1>2 DEF Reap
  <2>6. UNCHANGED <<workerVars, podVars, hot, lossless>>
    BY <1>2 DEF Reap
  <2> HIDE DEF dead
  <2> QED
    BY <2>2, <2>3, <2>4, <2>5, <2>6
<1>3. CASE Tick
  <2>1. wait' \in 0..Largest(Interval, Timeout)
    BY <1>3 DEF Tick, Largest
  <2>2. reply' \in [Workers -> {NoReply} \cup Reply]
    <3> SUFFICES ASSUME NEW w \in Workers PROVE reply'[w] \in {NoReply} \cup Reply
      BY <1>3 DEF Tick
    <3>1. CASE reply[w] = NoReply
      BY <1>3, <3>1 DEF Tick
    <3>2. CASE reply[w] # NoReply
      <4>1. reply[w] \in Reply /\ reply[w].left > 0
        BY <1>3, <3>2 DEF Tick
      <4>2. reply'[w] = [reply[w] EXCEPT !.left = reply[w].left - 1]
        BY <1>3, <3>2 DEF Tick
      <4> QED
        BY <4>1, <4>2 DEF Reply
    <3> QED
      BY <3>1, <3>2
  <2>3. clock' \in [Workers -> 0..Horizon]
    BY <1>3, UpToNat DEF Tick
  <2>4. TiersEnd'
    <3> SUFFICES ASSUME NEW w \in Workers, phase[w] \in {"new", "quiet"}
                 PROVE  clock'[w] <= clock[w] + 1
      BY <1>3, <2>3 DEF Tick
    <3>1. clock'[w] = UpTo(clock[w], Horizon)
      BY <1>3 DEF Tick
    <3> QED
      BY <3>1, UpToNat
  <2>5. drained' \in [Workers -> 0..Grace + 1]
    <3>1. Grace + 1 \in Nat
      OBVIOUS
    <3>2. \A w \in Workers : UpTo(drained[w], Grace + 1) \in 0..Grace + 1
      BY <3>1, UpToNat
    <3> QED
      BY <1>3, <3>1, <3>2 DEF Tick
  <2>6. UNCHANGED <<phase, podVars, stage, probed, pending, misses, k8s, probe, fresh,
                    hot, lossless>>
    BY <1>3 DEF Tick
  <2>7. WorkerTypes'
    <3>1. /\ phase' \in [Workers -> {"boot", "serving", "new", "quiet", "down"}]
          /\ deleting' \subseteq Workers /\ gone' \subseteq Workers
          /\ deleting' \cap gone' = {} /\ \A w \in gone' : phase'[w] = "down"
          /\ lossless' \subseteq Workers
      BY <2>6
    <3> HIDE DEF TiersEnd
    <3> QED
      BY <2>3, <2>4, <3>1
  <2>8. CycleTypes'
    BY <2>1, <2>2, <2>6
  <2>9. RegistryTypes'
    BY <2>5, <2>6
  <2> HIDE DEF WorkerTypes, CycleTypes, RegistryTypes
  <2> QED
    BY <2>7, <2>8, <2>9
<1>4. ASSUME NEW w \in Workers, WorkerStep(w) PROVE TypeOK'
  <2>1. CASE GetReady(w)
    BY <2>1 DEF GetReady
  <2>2. CASE SigTerm(w)
    BY <2>2 DEF SigTerm, Drain
  <2>3. CASE Delete(w)
    BY <2>3 DEF Delete, Drain
  <2>4. CASE Quiet(w)
    BY <2>4 DEF Quiet
  <2>5. CASE Exit(w)
    BY <2>5 DEF Exit
  <2>6. CASE Crash(w)
    BY <2>6 DEF Crash
  <2>7. CASE Restart(w)
    BY <2>7 DEF Restart
  <2>8. CASE RemovePod(w)
    BY <2>8 DEF RemovePod
  <2> QED
    BY <1>4, <2>1, <2>2, <2>3, <2>4, <2>5, <2>6, <2>7, <2>8 DEF WorkerStep
<1>5. ASSUME NEW w \in Workers, Packet(w) PROVE TypeOK'
  <2>1. CASE Answer(w)
    BY <2>1 DEF Answer, Load, Reply
  <2>2. CASE LoseRequest(w)
    BY <2>2 DEF LoseRequest
  <2>3. CASE Receive(w)
    <3>1. reply' \in [Workers -> {NoReply} \cup Reply] /\ reply[w] \in Reply
      BY <2>3 DEF Receive
    <3>2. UNCHANGED <<workerVars, podVars, stage, wait, probed, fresh, lossless>>
      BY <2>3 DEF Receive
    <3>3. pending' = pending \ {w}
      BY <2>3 DEF Receive
    <3>4. CASE w \in pending \/ k8s[w] # "absent"
      <4>1. reply[w].status \in {"unknown", "alive", "not_ready", "dead"}
        BY <3>1 DEF Reply
      <4>2. misses' = [misses EXCEPT ![w] = 0] /\ SetProbe({w}, reply[w].status)
        BY <2>3, <3>4 DEF Receive
      <4>3. /\ k8s' = k8s /\ drained' \in [Workers -> 0..Grace + 1]
            /\ probe' \in [Workers -> {"unknown", "alive", "not_ready", "dead"}]
        BY <4>1, <4>2, ProbeTypes
      <4>4. hot' \subseteq Workers
        <5>1. reply[w].load \in Load
          BY <3>1 DEF Reply
        <5> QED
          BY <2>3, <3>4, <5>1 DEF Receive, Band, Load
      <4>5. WorkerTypes'
        BY <3>2
      <4>6. CycleTypes'
        BY <3>1, <3>2, <3>3, <4>2
      <4>7. RegistryTypes'
        BY <3>2, <4>3, <4>4
      <4> HIDE DEF WorkerTypes, CycleTypes, RegistryTypes
      <4> QED
        BY <4>5, <4>6, <4>7
    <3>5. CASE ~(w \in pending \/ k8s[w] # "absent")
      BY <2>3, <3>1, <3>2, <3>3, <3>5 DEF Receive
    <3> QED
      BY <3>4, <3>5
  <2>4. CASE LoseReply(w)
    BY <2>4 DEF LoseReply
  <2> QED
    BY <1>5, <2>1, <2>2, <2>3, <2>4 DEF Packet
<1>6. ASSUME NEW w \in Workers, Observe(w) PROVE TypeOK'
  <2>1. /\ fresh' \subseteq Workers
        /\ UNCHANGED <<workerVars, podVars, probeVars, reply, hot, lossless>>
    BY <1>6 DEF Observe
  <2>2. k8s' \in [Workers -> {"absent", "alive", "draining", "dead"}]
    BY <1>6 DEF Observe, SetPairs, PodHealth
  <2>3. probe' \in [Workers -> {"unknown", "alive", "not_ready", "dead"}]
    BY <1>6 DEF Observe, SetPairs
  <2>4. drained' \in [Workers -> 0..Grace + 1]
    BY <1>6, PairTypes DEF Observe
  <2> QED
    BY <2>1, <2>2, <2>3, <2>4
<1>7. CASE UNCHANGED vars
  BY <1>7 DEF vars
<1> QED
  BY <1>1, <1>2, <1>3, <1>4, <1>5, <1>6, <1>7 DEF Next

(* The state of the proxy and of its workers stays within its types: in    *)
(* particular a wait, a count of misses and a drain never pass their ends  *)
(* (tickLoop, reapTimeouts, the drain orchestrator).                       *)
THEOREM TypeCorrect == Spec => []TypeOK
  BY InitTypes, NextTypes, PTL DEF Spec

-----------------------------------------------------------------------------
(* What the steps leave alone                                              *)

LEMMA WorkerFrame ==
  ASSUME TypeOK, NEW w \in Workers, WorkerStep(w)
  PROVE  /\ UNCHANGED <<stage, wait, probed, pending, misses, reply, k8s, probe, hot>>
         /\ \A v \in Workers :
              /\ Unfit(v)' => (Unfit(v) /\ clock'[v] = clock[v]) \/ clock'[v] = 0
              /\ v # w => phase'[v] = phase[v] /\ clock'[v] = clock[v]
                          /\ (v \in lossless' <=> v \in lossless)
<1> USE DEF Unfit, probeVars, registryVars, workerVars, podVars, TypeOK, WorkerTypes
<1>1. CASE GetReady(w)
  BY <1>1 DEF GetReady
<1>2. CASE SigTerm(w)
  BY <1>2 DEF SigTerm, Drain
<1>3. CASE Delete(w)
  BY <1>3 DEF Delete, Drain
<1>4. CASE Quiet(w)
  BY <1>4 DEF Quiet
<1>5. CASE Exit(w)
  BY <1>5 DEF Exit
<1>6. CASE Crash(w)
  BY <1>6 DEF Crash
<1>7. CASE Restart(w)
  BY <1>7 DEF Restart
<1>8. CASE RemovePod(w)
  BY <1>8 DEF RemovePod
<1> QED
  BY <1>1, <1>2, <1>3, <1>4, <1>5, <1>6, <1>7, <1>8 DEF WorkerStep

LEMMA ObserveFrame ==
  ASSUME TypeOK, NEW w \in Workers, Observe(w)
  PROVE  /\ UNCHANGED <<phase, clock, stage, wait, probed, pending, misses, reply, hot,
                        lossless>>
         /\ \A v \in Workers :
              /\ probe'[v] = "alive" => probe[v] = "alive"
              /\ probe'[v] = "alive" /\ k8s[v] # "absent" => k8s'[v] # "absent"
              /\ k8s'[v] = "alive" => k8s[v] = "alive" \/ phase[v] = "serving"
<1>1. UNCHANGED <<phase, clock, stage, wait, probed, pending, misses, reply, hot, lossless>>
  BY DEF Observe, workerVars, probeVars
<1>2. CASE w \in gone
  BY <1>1, <1>2 DEF Observe, SetPairs, TypeOK, RegistryTypes
<1>3. CASE w \notin gone
  <2>1. /\ k8s' = [k8s EXCEPT ![w] = PodHealth(w)]
        /\ probe' = [probe EXCEPT ![w] = IF w \in fresh \/ k8s[w] = "absent"
                                         THEN "unknown" ELSE @]
    BY <1>3 DEF Observe, SetPairs
  <2>2. PodHealth(w) # "absent" /\ (PodHealth(w) = "alive" => phase[w] = "serving")
    BY DEF PodHealth, TypeOK, RegistryTypes
  <2> QED
    BY <1>1, <2>1, <2>2 DEF TypeOK, RegistryTypes
<1> QED
  BY <1>2, <1>3

LEMMA ReceiveFrame ==
  ASSUME TypeOK, NEW w \in Workers, Receive(w)
  PROVE  /\ UNCHANGED <<phase, clock, stage, wait, probed, k8s, lossless>>
         /\ reply' = [reply EXCEPT ![w] = NoReply] /\ reply[w] \in Reply
         /\ pending' = pending \ {w}
         /\ \A v \in Workers :
              /\ v # w => /\ probe'[v] = probe[v] /\ misses'[v] = misses[v]
                          /\ (v \in hot' <=> v \in hot)
              /\ v = w => IF k8s[v] # "absent"
                          THEN probe'[v] = reply[v].status /\ misses'[v] = 0
                          ELSE probe'[v] = probe[v]
<1>1. /\ UNCHANGED <<phase, clock, stage, wait, probed, lossless>>
      /\ reply' = [reply EXCEPT ![w] = NoReply] /\ reply[w] \in Reply
      /\ pending' = pending \ {w}
  BY DEF Receive, workerVars, TypeOK, CycleTypes
<1>2. CASE w \in pending \/ k8s[w] # "absent"
  BY <1>1, <1>2 DEF Receive, SetProbe, SetPairs, Band, TypeOK, CycleTypes, RegistryTypes,
     Reply, Load
<1>3. CASE ~(w \in pending \/ k8s[w] # "absent")
  BY <1>1, <1>3 DEF Receive
<1> QED
  BY <1>2, <1>3

LEMMA ReapFrame ==
  ASSUME TypeOK, Reap
  PROVE  /\ stage = "sent" /\ wait = 0 /\ probed = {}
         /\ stage' = "sleep" /\ wait' = Interval /\ pending' = {}
         /\ UNCHANGED <<phase, clock, probed, reply, k8s, hot, lossless>>
         /\ \A v \in Workers :
              /\ misses'[v] = IF v \in pending THEN UpTo(misses[v], Threshold) ELSE misses[v]
              /\ probe'[v] = "alive" =>
                   probe[v] = "alive" /\ (k8s[v] # "absent" /\ v \in pending
                                          => misses'[v] < Threshold)
<1>1. /\ stage = "sent" /\ wait = 0 /\ probed = {}
      /\ stage' = "sleep" /\ wait' = Interval /\ pending' = {}
      /\ UNCHANGED <<phase, clock, probed, reply, hot, lossless>>
      /\ misses' = [w \in Workers |-> IF w \in pending THEN UpTo(misses[w], Threshold)
                                                       ELSE misses[w]]
      /\ SetProbe({w \in pending : misses'[w] >= Threshold}, "dead")
  BY DEF Reap, workerVars
<1>2. misses' \in [Workers -> 0..Threshold]
  BY <1>1, UpToNat, WorkerHealthAssumption DEF TypeOK, CycleTypes
<1>3. k8s' = k8s
  BY <1>1 DEF SetProbe, SetPairs
<1>4. \A v \in Workers : probe'[v] = IF v \in pending /\ misses'[v] >= Threshold
                                         /\ k8s[v] # "absent" THEN "dead" ELSE probe[v]
  BY <1>1 DEF SetProbe, SetPairs
<1> QED
  BY <1>1, <1>2, <1>3, <1>4, WorkerHealthAssumption

LEMMA AnswerFrame ==
  ASSUME TypeOK, NEW w \in Workers, Answer(w)
  PROVE  /\ UNCHANGED <<phase, clock, stage, wait, pending, misses, k8s, probe, hot, lossless>>
         /\ w \in probed /\ probed' = probed \ {w}
         /\ \A v \in Workers : v # w => reply'[v] = reply[v]
         /\ \/ phase[w] \in {"quiet", "down"} /\ reply'[w] = reply[w]
            \/ /\ phase[w] \in {"boot", "serving", "new"}
               /\ reply'[w] \in Reply /\ reply'[w].left = ReplyDelay
               /\ reply'[w].status = "alive" => phase[w] # "boot"
               /\ phase[w] = "new" => reply'[w].status = "alive" /\ reply'[w].load = "high"
  BY WorkerHealthAssumption
  DEF Answer, workerVars, registryVars, TypeOK, CycleTypes, Reply, Load

LEMMA TickFrame ==
  ASSUME TypeOK, Tick
  PROVE  /\ UNCHANGED <<phase, stage, probed, pending, misses, k8s, probe, hot, lossless>>
         /\ wait > 0 /\ wait' = wait - 1 /\ probed = {}
         /\ \A v \in Workers :
              /\ Unfit(v) => clock'[v] <= clock[v] + 1
              /\ phase[v] \in {"new", "quiet"} => clock'[v] = clock[v] + 1
              /\ reply[v] = NoReply => reply'[v] = NoReply
              /\ reply[v] # NoReply =>
                   /\ reply[v].left > 0 /\ reply'[v].left = reply[v].left - 1
                   /\ reply'[v].status = reply[v].status /\ reply'[v].load = reply[v].load
                   /\ reply'[v] # NoReply
<1>1. /\ UNCHANGED <<phase, stage, probed, pending, misses, k8s, probe, hot, lossless>>
      /\ wait > 0 /\ wait' = wait - 1 /\ probed = {}
  BY DEF Tick
<1> SUFFICES ASSUME NEW v \in Workers
             PROVE  /\ Unfit(v) => clock'[v] <= clock[v] + 1
                    /\ phase[v] \in {"new", "quiet"} => clock'[v] = clock[v] + 1
                    /\ reply[v] = NoReply => reply'[v] = NoReply
                    /\ reply[v] # NoReply =>
                         /\ reply[v].left > 0 /\ reply'[v].left = reply[v].left - 1
                         /\ reply'[v].status = reply[v].status
                         /\ reply'[v].load = reply[v].load /\ reply'[v] # NoReply
  BY <1>1
<1>2. clock[v] \in 0..Horizon /\ clock'[v] = IF phase[v] = "serving" THEN 0
                                                ELSE UpTo(clock[v], Horizon)
  BY DEF Tick, TypeOK, WorkerTypes
<1>3. /\ phase[v] = "new" => clock[v] < Tier1
      /\ phase[v] = "quiet" => clock[v] < Tier2
  BY DEF Tick
<1>4. /\ Unfit(v) => clock'[v] <= clock[v] + 1
      /\ phase[v] \in {"new", "quiet"} => clock'[v] = clock[v] + 1
  BY <1>2, <1>3, HorizonNat, UpToNat, WorkerHealthAssumption DEF Unfit, UpTo
<1>5. reply[v] = NoReply => reply'[v] = NoReply
  BY DEF Tick
<1>6. ASSUME reply[v] # NoReply
      PROVE  /\ reply[v].left > 0 /\ reply'[v].left = reply[v].left - 1
             /\ reply'[v].status = reply[v].status
             /\ reply'[v].load = reply[v].load /\ reply'[v] # NoReply
  <2>1. reply[v] \in Reply /\ reply[v].left > 0
    BY <1>6 DEF Tick, TypeOK, CycleTypes
  <2>2. reply'[v] = [reply[v] EXCEPT !.left = reply[v].left - 1]
    BY <1>6 DEF Tick
  <2> QED
    BY <2>1, <2>2 DEF Reply, NoReply
<1> QED
  BY <1>4, <1>5, <1>6

-----------------------------------------------------------------------------
(* A silent worker is found                                                *)

LEMMA RemainingBound ==
  ASSUME TypeOK, ProbeClock, NEW w \in Workers, misses[w] < Threshold
  PROVE  Remaining(w) \in Nat /\ Remaining(w) <= Detection
<1>1. /\ misses[w] \in 0..Threshold /\ wait \in Nat /\ Threshold \in Nat \ {0}
      /\ Interval \in Nat /\ Timeout \in Nat
  BY WorkerHealthAssumption DEF TypeOK, CycleTypes, Largest
<1>2. \A n \in 0..Threshold : Cycles(n) \in Nat /\ Cycles(n) <= Cycles(Threshold)
  BY <1>1, CyclesStep, CyclesBound
<1>3. /\ Threshold - misses[w] - 1 \in 0..Threshold - 1
      /\ Threshold - misses[w] \in 0..Threshold
  BY <1>1
<1>4. Cycles(Threshold - misses[w] - 1) + Cycle <= Cycles(Threshold)
  BY <1>1, <1>2, <1>3, CyclesStep, CycleNat
<1>5. Detection = Cycles(Threshold) + Timeout
  BY DEF Detection, Cycles
<1>6. CASE stage = "sleep"
  BY <1>1, <1>2, <1>3, <1>4, <1>5, <1>6, CycleNat DEF Remaining, ProbeClock
<1>7. CASE stage # "sleep"
  <2>1. wait <= Timeout
    BY <1>7 DEF ProbeClock
  <2> QED
    BY <1>1, <1>2, <1>3, <1>5, <1>7, <2>1 DEF Remaining
<1> QED
  BY <1>6, <1>7

LEMMA InitFound == Init => Found
  BY WorkerHealthAssumption
  DEF Init, Found, ProbeClock, RepliesInTime, RepliesFresh, ProbeSound, Due, NoReply

LEMMA ClockStep == ASSUME TypeOK, Found, [Next]_vars PROVE ProbeClock'
<1> USE DEF ProbeClock, Found
<1>1. CASE FanOut
  BY <1>1, WorkerHealthAssumption DEF FanOut
<1>2. CASE Reap
  BY <1>2, ReapFrame, WorkerHealthAssumption
<1>3. CASE Tick
  BY <1>3, TickFrame, WorkerHealthAssumption DEF TypeOK, CycleTypes, Largest
<1>4. ASSUME NEW w \in Workers, WorkerStep(w) PROVE ProbeClock'
  BY <1>4, WorkerFrame
<1>5. ASSUME NEW w \in Workers, Packet(w) PROVE ProbeClock'
  BY <1>5, AnswerFrame, ReceiveFrame DEF Packet, LoseRequest, LoseReply, probeVars
<1>6. ASSUME NEW w \in Workers, Observe(w) PROVE ProbeClock'
  BY <1>6, ObserveFrame
<1>7. CASE UNCHANGED vars
  BY <1>7 DEF vars, probeVars
<1> QED
  BY <1>1, <1>2, <1>3, <1>4, <1>5, <1>6, <1>7 DEF Next

(* No reply is left when the next requests go out. *)
LEMMA FanOutAlone ==
  ASSUME TypeOK, Found, FanOut
  PROVE  /\ UNCHANGED <<phase, clock, misses, reply, k8s, probe, hot, lossless>>
         /\ stage = "sleep" /\ wait = 0 /\ stage' = "sent" /\ wait' = Timeout
         /\ probed' = pending' /\ pending' = {w \in Workers : k8s[w] # "absent"}
         /\ \A w \in Workers : reply[w] = NoReply
  BY WorkerHealthAssumption DEF FanOut, Found, RepliesInTime, workerVars, registryVars

LEMMA InTimeStep == ASSUME TypeOK, Found, [Next]_vars PROVE RepliesInTime'
<1> USE DEF RepliesInTime, Found
<1>1. CASE FanOut
  BY <1>1, FanOutAlone
<1>2. CASE Reap
  <2> SUFFICES ASSUME NEW v \in Workers, reply'[v] # NoReply
               PROVE  reply'[v].left = 0
    BY <1>2, ReapFrame
  <2>1. reply[v] \in Reply /\ reply[v].left + Timeout = ReplyDelay
    BY <1>2, ReapFrame, WorkerHealthAssumption DEF TypeOK, CycleTypes
  <2> QED
    BY <1>2, <2>1, ReapFrame, WorkerHealthAssumption DEF Reply
<1>3. CASE Tick
  <2> SUFFICES ASSUME NEW v \in Workers, reply'[v] # NoReply
               PROVE  stage = "sent" /\ reply'[v].left + Timeout = ReplyDelay + wait'
    BY <1>3, TickFrame
  <2>1. reply[v] # NoReply /\ reply[v].left > 0 /\ reply'[v].left = reply[v].left - 1
    BY <1>3, TickFrame
  <2>2. reply[v] \in Reply /\ wait \in Int /\ wait' = wait - 1
    BY <1>3, <2>1, TickFrame DEF TypeOK, CycleTypes
  <2> QED
    BY <2>1, <2>2, WorkerHealthAssumption DEF Reply
<1>4. ASSUME NEW w \in Workers, WorkerStep(w) PROVE RepliesInTime'
  BY <1>4, WorkerFrame
<1>5. ASSUME NEW w \in Workers, Packet(w) PROVE RepliesInTime'
  <2>1. CASE Answer(w)
    <3>1. stage = "sent" /\ wait = Timeout
      BY <2>1, AnswerFrame DEF ProbeClock
    <3> QED
      BY <2>1, <3>1, AnswerFrame, WorkerHealthAssumption
  <2>2. CASE LoseRequest(w)
    BY <2>2 DEF LoseRequest
  <2>3. CASE Receive(w)
    BY <2>3, ReceiveFrame DEF TypeOK, CycleTypes
  <2>4. CASE LoseReply(w)
    BY <2>4 DEF LoseReply, probeVars, TypeOK, CycleTypes
  <2> QED
    BY <1>5, <2>1, <2>2, <2>3, <2>4 DEF Packet
<1>6. ASSUME NEW w \in Workers, Observe(w) PROVE RepliesInTime'
  BY <1>6, ObserveFrame
<1>7. CASE UNCHANGED vars
  BY <1>7 DEF vars, probeVars
<1> QED
  BY <1>1, <1>2, <1>3, <1>4, <1>5, <1>6, <1>7 DEF Next

LEMMA FreshStep == ASSUME TypeOK, Found, [Next]_vars PROVE RepliesFresh'
<1> USE DEF RepliesFresh, Found
<1>1. CASE FanOut
  BY <1>1, FanOutAlone DEF NoReply
<1>2. CASE Reap
  BY <1>2, ReapFrame, WorkerHealthAssumption DEF Unfit
<1>3. CASE Tick
  <2> SUFFICES ASSUME NEW v \in Workers, Unfit(v), reply'[v].status = "alive"
               PROVE  stage = "sent" /\ clock'[v] <= Timeout - wait'
    BY <1>3, TickFrame DEF Unfit
  <2>1. reply[v] # NoReply
    BY <1>3, TickFrame DEF NoReply
  <2>2. /\ reply[v].left > 0 /\ reply[v].status = "alive"
        /\ clock'[v] <= clock[v] + 1 /\ wait' = wait - 1
    BY <1>3, <2>1, TickFrame
  <2>3. stage = "sent" /\ clock[v] <= Timeout - wait
    BY <2>1, <2>2 DEF RepliesInTime
  <2>4. clock[v] \in Nat /\ clock'[v] \in Nat /\ wait \in Nat /\ Timeout \in Nat
    BY NextTypes, HorizonNat, WorkerHealthAssumption
    DEF TypeOK, WorkerTypes, CycleTypes, Largest
  <2> QED
    BY <2>2, <2>3, <2>4
<1>4. ASSUME NEW w \in Workers, WorkerStep(w) PROVE RepliesFresh'
  <2>1. wait \in Nat /\ Timeout \in Nat /\ (stage = "sent" => wait <= Timeout)
    BY WorkerHealthAssumption DEF ProbeClock, TypeOK, CycleTypes, Largest
  <2>2. UNCHANGED <<stage, wait, reply>>
    BY <1>4, WorkerFrame
  <2> SUFFICES ASSUME NEW v \in Workers, Unfit(v)', reply[v].status = "alive"
               PROVE  clock'[v] <= IF stage = "sent" THEN Timeout - wait ELSE Timeout
    BY <2>2
  <2>3. (Unfit(v) /\ clock'[v] = clock[v]) \/ clock'[v] = 0
    BY <1>4, WorkerFrame
  <2> QED
    BY <2>1, <2>3
<1>5. ASSUME NEW w \in Workers, Packet(w) PROVE RepliesFresh'
  <2>1. CASE Answer(w)
    BY <2>1, AnswerFrame DEF Unfit
  <2>2. CASE LoseRequest(w)
    BY <2>2 DEF LoseRequest, workerVars, Unfit
  <2>3. CASE Receive(w)
    BY <2>3, ReceiveFrame DEF TypeOK, CycleTypes, NoReply, Unfit
  <2>4. CASE LoseReply(w)
    BY <2>4 DEF LoseReply, workerVars, probeVars, TypeOK, CycleTypes, NoReply, Unfit
  <2> QED
    BY <1>5, <2>1, <2>2, <2>3, <2>4 DEF Packet
<1>6. ASSUME NEW w \in Workers, Observe(w) PROVE RepliesFresh'
  BY <1>6, ObserveFrame DEF Unfit
<1>7. CASE UNCHANGED vars
  BY <1>7 DEF vars, probeVars, workerVars, Unfit
<1> QED
  BY <1>1, <1>2, <1>3, <1>4, <1>5, <1>6, <1>7 DEF Next

LEMMA SoundStep == ASSUME TypeOK, Found, [Next]_vars PROVE ProbeSound'
<1> USE DEF ProbeSound, Found
<1>1. CASE FanOut
  BY <1>1, FanOutAlone
<1>2. CASE Reap
  BY <1>2, ReapFrame
<1>3. CASE Tick
  BY <1>3, TickFrame
<1>4. ASSUME NEW w \in Workers, WorkerStep(w) PROVE ProbeSound'
  BY <1>4, WorkerFrame
<1>5. ASSUME NEW w \in Workers, Packet(w) PROVE ProbeSound'
  <2>1. CASE Receive(w)
    <3> SUFFICES ASSUME NEW v \in Workers, probe'[v] = "alive"
                 PROVE  k8s[v] # "absent" /\ misses'[v] < Threshold
      BY <2>1, ReceiveFrame
    <3> QED
      BY <2>1, ReceiveFrame, WorkerHealthAssumption
  <2>2. CASE ~Receive(w)
    BY <1>5, <2>2, AnswerFrame DEF Packet, LoseRequest, LoseReply, probeVars, registryVars
  <2> QED
    BY <2>1, <2>2
<1>6. ASSUME NEW w \in Workers, Observe(w) PROVE ProbeSound'
  BY <1>6, ObserveFrame
<1>7. CASE UNCHANGED vars
  BY <1>7 DEF vars, probeVars, registryVars
<1> QED
  BY <1>1, <1>2, <1>3, <1>4, <1>5, <1>6, <1>7 DEF Next

LEMMA DueStep == ASSUME TypeOK, Found, [Next]_vars PROVE Due'
<1>1. CASE FanOut
  <2> SUFFICES ASSUME NEW v \in Workers, Unfit(v), probe[v] = "alive"
               PROVE  Remaining(v)' = Remaining(v)
    BY <1>1, FanOutAlone DEF Due, Found, Unfit
  <2>1. v \in pending' /\ misses'[v] = misses[v]
    BY <1>1, FanOutAlone DEF Found, ProbeSound
  <2> QED
    BY <1>1, <2>1, FanOutAlone, WorkerHealthAssumption DEF Remaining
<1>2. CASE Reap
  <2> SUFFICES ASSUME NEW v \in Workers, Unfit(v), probe'[v] = "alive"
               PROVE  Remaining(v)' = Remaining(v) /\ probe[v] = "alive"
    BY <1>2, ReapFrame DEF Due, Found, Unfit
  <2>1. probe[v] = "alive" /\ misses[v] < Threshold
    BY <1>2, ReapFrame DEF Found, ProbeSound
  <2>2. /\ misses[v] \in Nat /\ Threshold \in Nat
        /\ misses'[v] = IF v \in pending THEN misses[v] + 1 ELSE misses[v]
    BY <1>2, <2>1, ReapFrame, WorkerHealthAssumption DEF TypeOK, CycleTypes, UpTo
  <2>3. /\ Remaining(v) = Cycles(Threshold - misses'[v])
        /\ Remaining(v)' = Interval + Timeout + Cycles(Threshold - misses'[v] - 1)
    <3>1. Threshold - misses'[v] = IF v \in pending THEN Threshold - misses[v] - 1
                                                    ELSE Threshold - misses[v]
      BY <2>2
    <3>2. Cycles(Threshold - misses'[v]) \in Int
      BY <2>2, CyclesStep
    <3> QED
      BY <1>2, <2>2, <3>1, <3>2, ReapFrame DEF Remaining
  <2>4. Threshold - misses'[v] \in Int
    BY <2>2
  <2> QED
    BY <2>1, <2>3, <2>4, CyclesStep, CycleNat
<1>3. CASE Tick
  <2> SUFFICES ASSUME NEW v \in Workers, Unfit(v), probe[v] = "alive"
               PROVE  clock'[v] + Remaining(v)' <= Detection
    BY <1>3, TickFrame DEF Due, Unfit
  <2>1. clock[v] + Remaining(v) <= Detection
    BY DEF Found, Due
  <2>2. Remaining(v) \in Nat /\ misses[v] < Threshold
    BY RemainingBound DEF Found, ProbeSound
  <2>3. Remaining(v)' = Remaining(v) - 1
    <3>1. misses[v] \in Nat /\ Threshold \in Nat /\ wait \in Nat /\ Timeout \in Nat
      BY WorkerHealthAssumption DEF TypeOK, CycleTypes, Largest
    <3>2. /\ Cycles(Threshold - misses[v] - 1) \in Int
          /\ Cycles(Threshold - misses[v]) \in Int
      BY <3>1, CyclesStep
    <3> QED
      BY <1>3, <3>1, <3>2, TickFrame DEF Remaining
  <2>4. clock'[v] <= clock[v] + 1 /\ clock[v] \in Nat /\ clock'[v] \in Nat
    BY <1>3, TickFrame, NextTypes, HorizonNat DEF TypeOK, WorkerTypes
  <2> QED
    BY <2>1, <2>2, <2>3, <2>4, HorizonNat
<1>4. ASSUME NEW w \in Workers, WorkerStep(w) PROVE Due'
  <2> SUFFICES ASSUME NEW v \in Workers, Unfit(v)', probe[v] = "alive"
               PROVE  clock'[v] + Remaining(v) <= Detection
    BY <1>4, WorkerFrame DEF Due, Remaining
  <2>1. (Unfit(v) /\ clock'[v] = clock[v]) \/ clock'[v] = 0
    BY <1>4, WorkerFrame
  <2>2. Remaining(v) \in Nat /\ Remaining(v) <= Detection
    BY RemainingBound DEF Found, ProbeSound
  <2> QED
    BY <2>1, <2>2 DEF Found, Due
<1>5. ASSUME NEW w \in Workers, Packet(w) PROVE Due'
  <2> USE DEF Due, Found
  <2>1. CASE Answer(w)
    BY <2>1, AnswerFrame DEF Unfit, Remaining
  <2>2. CASE LoseRequest(w)
    BY <2>2 DEF LoseRequest, workerVars, registryVars, Unfit, Remaining
  <2>3. CASE LoseReply(w)
    BY <2>3 DEF LoseReply, workerVars, probeVars, registryVars, Unfit, Remaining
  <2>4. CASE Receive(w)
    <3> SUFFICES ASSUME NEW v \in Workers, Unfit(v), probe'[v] = "alive"
                 PROVE  clock[v] + Remaining(v)' <= Detection
      BY <2>4, ReceiveFrame DEF Unfit
    <3>1. CASE v # w
      BY <2>4, <3>1, ReceiveFrame DEF Remaining
    <3>2. CASE v = w
      <4>1. k8s[v] # "absent" /\ reply[v].status = "alive" /\ misses'[v] = 0
        BY <2>4, <3>2, ReceiveFrame DEF ProbeSound
      <4>2. clock[v] <= IF stage = "sent" THEN Timeout - wait ELSE Timeout
        BY <4>1 DEF RepliesFresh
      <4>3. v \notin pending' /\ stage' = stage /\ wait' = wait
        BY <2>4, <3>2, ReceiveFrame
      <4>4. /\ clock[v] \in Nat /\ wait \in Nat /\ Timeout \in Nat /\ Interval \in Nat
            /\ Threshold \in Nat /\ stage \in {"sleep", "sent"}
        BY HorizonNat, WorkerHealthAssumption DEF TypeOK, WorkerTypes, CycleTypes, Largest
      <4>5. /\ Cycles(Threshold) \in Int /\ Cycles(Threshold - 1) \in Int
            /\ Cycles(Threshold) = Cycles(Threshold - 1) + Interval + Timeout
            /\ Threshold - 0 = Threshold /\ Threshold - 0 - 1 = Threshold - 1
        <5>1. Cycles(Threshold) \in Int /\ Cycles(Threshold - 1) \in Int
              /\ Cycles(Threshold) = Cycles(Threshold - 1) + Cycle
          <6> DEFINE n == Threshold
          <6>1. n \in Int /\ n - 1 \in Int
            BY <4>4
          <6> HIDE DEF n
          <6>2. /\ Cycles(n) \in Int /\ Cycles(n - 1) \in Int
                /\ Cycles(n) = Cycles(n - 1) + Cycle
            BY <6>1, CyclesStep
          <6> QED
            BY <6>2 DEF n
        <5> QED
          BY <4>4, <5>1, CycleNat
      <4>6. Detection = Cycles(Threshold) + Timeout
        BY DEF Detection, Cycles
      <4>7. CASE stage = "sleep"
        <5>1. wait <= Interval
          BY <4>7 DEF ProbeClock
        <5>2. Remaining(v)' = wait + Timeout + Cycles(Threshold - 1)
          BY <4>1, <4>3, <4>5, <4>7 DEF Remaining
        <5> QED
          BY <4>2, <4>4, <4>5, <4>6, <4>7, <5>1, <5>2
      <4>8. CASE stage = "sent"
        <5>1. Remaining(v)' = wait + Cycles(Threshold)
          BY <4>1, <4>3, <4>5, <4>8 DEF Remaining
        <5> QED
          BY <4>2, <4>4, <4>5, <4>6, <4>8, <5>1
      <4> QED
        BY <4>4, <4>7, <4>8
    <3> QED
      BY <3>1, <3>2
  <2> QED
    BY <1>5, <2>1, <2>2, <2>3, <2>4 DEF Packet
<1>6. ASSUME NEW w \in Workers, Observe(w) PROVE Due'
  BY <1>6, ObserveFrame DEF Found, Due, Unfit, Remaining
<1>7. CASE UNCHANGED vars
  BY <1>7 DEF vars, workerVars, probeVars, registryVars, Found, Due, Unfit, Remaining
<1> QED
  BY <1>1, <1>2, <1>3, <1>4, <1>5, <1>6, <1>7 DEF Next

LEMMA FoundSilent == TypeOK /\ Found => SilentIsLeft
<1> SUFFICES ASSUME TypeOK, Found, NEW w \in Workers, Unfit(w), clock[w] > Detection,
                    InDialog(w)
             PROVE  k8s[w] = "draining" /\ probe[w] \in {"unknown", "not_ready"}
  BY DEF SilentIsLeft, Unfit
<1>1. probe[w] # "alive"
  <2> SUFFICES ASSUME probe[w] = "alive" PROVE FALSE
    OBVIOUS
  <2>1. Remaining(w) \in Nat /\ clock[w] + Remaining(w) <= Detection
    BY RemainingBound DEF Found, ProbeSound, Due
  <2> QED
    BY <2>1, HorizonNat DEF TypeOK, WorkerTypes
<1>2. /\ k8s[w] \in {"absent", "alive", "draining", "dead"}
      /\ probe[w] \in {"unknown", "alive", "not_ready", "dead"}
  BY DEF TypeOK, RegistryTypes
<1>3. Health(w) \in {"alive", "draining"}
  BY DEF InDialog
<1> QED
  BY <1>1, <1>2, <1>3 DEF Health, Resolve, Rank

(* However packets are lost and replies are late, and whatever the watch    *)
(* saw, a worker that has not been fit for a call for longer than the       *)
(* detection time is sent no message of a dialog but within the grace of    *)
(* its pod's drain (HealthProbe, mostRestrictiveHealth, decodeStickiness).  *)
THEOREM SilentLeft == Spec => []SilentIsLeft
<1>1. TypeOK /\ Found /\ [Next]_vars => TypeOK' /\ Found'
  BY NextTypes, ClockStep, InTimeStep, FreshStep, SoundStep, DueStep DEF Found
<1> QED
  BY <1>1, InitTypes, InitFound, FoundSilent, PTL DEF Spec

-----------------------------------------------------------------------------
(* A draining worker is seen                                               *)

LEMMA UntilSentBound == TypeOK /\ ProbeClock => UntilSent \in 0..Cycle
  BY CycleNat, WorkerHealthAssumption DEF TypeOK, CycleTypes, ProbeClock, UntilSent, Largest

LEMMA InitHeeded == Init => Heeded
  BY DEF Init, Heeded

LEMMA HeededWorker ==
  ASSUME TypeOK, Found, Heeded, Tier1 > Cycle, NEW w \in Workers, WorkerStep(w)
  PROVE  Heeded'
<1> USE DEF workerVars, podVars, probeVars, registryVars
<1>1. UNCHANGED <<stage, wait, probed, reply, k8s, hot>>
  BY WorkerFrame
<1> SUFFICES ASSUME NEW v \in lossless'
             PROVE  /\ phase'[v] \in {"new", "quiet"}
                    /\ k8s[v] = "alive" => Noticed(v)'
  BY <1>1 DEF Heeded
<1>2. CASE v # w
  <2>1. v \in Workers /\ v \in lossless /\ phase'[v] = phase[v] /\ clock'[v] = clock[v]
    BY <1>2, WorkerFrame, NextTypes DEF Next, TypeOK, WorkerTypes
  <2> QED
    BY <1>1, <2>1 DEF Heeded, Noticed, Telling, UntilSent
<1>3. CASE v = w
  <2>1. ASSUME Drain(w) PROVE phase'[w] = "new" /\ Noticed(w)'
    <3>1. phase'[w] = "new" /\ clock'[w] = 0
      BY <2>1 DEF Drain, TypeOK, WorkerTypes
    <3>2. UntilSent' = UntilSent /\ UntilSent \in 0..Cycle
      BY <1>1, UntilSentBound DEF UntilSent, Found
    <3> QED
      BY <3>1, <3>2, CycleNat DEF Noticed
  <2>2. CASE SigTerm(w)
    BY <1>3, <2>1, <2>2 DEF SigTerm
  <2>3. CASE Delete(w)
    <3>1. CASE phase[w] \in {"boot", "serving"}
      BY <1>3, <2>1, <2>3, <3>1 DEF Delete
    <3>2. CASE phase[w] \notin {"boot", "serving"}
      BY <1>1, <1>3, <2>3, <3>2 DEF Delete, Heeded, Noticed, Telling, UntilSent
    <3> QED
      BY <3>1, <3>2
  <2>4. CASE Quiet(w)
    <3>1. /\ w \in lossless /\ phase[w] = "new" /\ clock[w] = Tier1
          /\ phase'[w] = "quiet" /\ clock'[w] = 0
      BY <1>3, <2>4 DEF Quiet, TypeOK, WorkerTypes
    <3>2. ASSUME k8s[w] = "alive" PROVE Noticed(w)'
      <4>1. Noticed(w)
        BY <3>1, <3>2 DEF Heeded
      <4>2. CASE Telling(w) /\ clock[w] + reply[w].left <= Cycle + ReplyDelay
        <5>1. reply[w].left \in Nat
          BY <4>2, WorkerHealthAssumption DEF Telling, NoReply, TypeOK, CycleTypes, Reply
        <5>2. reply[w].left < ReplyDelay
          BY <3>1, <4>2, <5>1, CycleNat, WorkerHealthAssumption
        <5> QED
          BY <1>1, <3>1, <4>2, <5>1, <5>2 DEF Noticed, Telling
      <4>3. CASE w \in hot /\ (reply[w] = NoReply \/ Telling(w))
        BY <1>1, <4>3 DEF Noticed, Telling
      <4>4. UntilSent \in 0..Cycle
        BY UntilSentBound DEF Found
      <4>5. clock[w] > Cycle /\ ~(clock[w] + UntilSent <= Cycle)
        BY <3>1, <4>4, CycleNat, WorkerHealthAssumption
      <4> QED
        BY <3>1, <4>1, <4>2, <4>3, <4>5, CycleNat, WorkerHealthAssumption DEF Noticed
    <3> QED
      BY <1>3, <3>1, <3>2
  <2>5. CASE GetReady(w) \/ Restart(w) \/ RemovePod(w)
    BY <1>3, <2>5 DEF GetReady, Restart, RemovePod, Heeded
  <2>6. CASE Exit(w) \/ Crash(w)
    BY <1>3, <2>6 DEF Exit, Crash
  <2> QED
    BY <2>2, <2>3, <2>4, <2>5, <2>6 DEF WorkerStep
<1> QED
  BY <1>2, <1>3

LEMMA HeededPacket ==
  ASSUME TypeOK, Found, Heeded, NEW w \in Workers, Packet(w)
  PROVE  Heeded'
<1> SUFFICES ASSUME NEW v \in lossless'
             PROVE  /\ phase'[v] \in {"new", "quiet"}
                    /\ k8s'[v] = "alive" => Noticed(v)'
  BY DEF Heeded
<1>1. /\ UNCHANGED <<phase, clock, stage, wait, k8s>>
      /\ v \in lossless /\ v \in Workers
  BY AnswerFrame, ReceiveFrame
  DEF Packet, LoseRequest, LoseReply, workerVars, probeVars, registryVars, TypeOK, WorkerTypes
<1>2. phase[v] \in {"new", "quiet"} /\ (k8s[v] = "alive" => Noticed(v))
  BY <1>1 DEF Heeded
<1>3. UntilSent' = UntilSent /\ UntilSent \in 0..Cycle
  BY <1>1, UntilSentBound DEF UntilSent, Found
<1> SUFFICES ASSUME k8s[v] = "alive" PROVE Noticed(v)'
  BY <1>1, <1>2
<1>4. CASE v # w
  <2>1. /\ reply'[v] = reply[v] /\ (v \in probed' <=> v \in probed)
        /\ (v \in hot' <=> v \in hot)
    BY <1>1, <1>4, AnswerFrame, ReceiveFrame
    DEF Packet, LoseRequest, LoseReply, probeVars, TypeOK, CycleTypes
  <2> QED
    BY <1>1, <1>2, <1>3, <2>1 DEF Noticed, Telling
<1>5. CASE v = w /\ (LoseRequest(w) \/ LoseReply(w))
  BY <1>5 DEF LoseRequest, LoseReply
<1>6. CASE v = w /\ Answer(w)
  <2>1. CASE phase[w] = "quiet"
    BY <1>1, <1>2, <1>6, <2>1, AnswerFrame DEF Noticed, Telling
  <2>2. CASE phase[w] = "new"
    <3>1. Telling(w)' /\ reply'[w].left = ReplyDelay /\ UNCHANGED hot
      BY <1>6, <2>2, AnswerFrame DEF Telling
    <3>2. w \in probed /\ stage = "sent" /\ wait = Timeout
      BY <1>6, AnswerFrame DEF Found, ProbeClock
    <3>3. clock[w] \in Nat
      BY HorizonNat DEF TypeOK, WorkerTypes
    <3>4. CASE clock[w] <= Cycle
      BY <1>1, <1>6, <2>2, <3>1, <3>3, <3>4, CycleNat, WorkerHealthAssumption DEF Noticed
    <3>5. CASE w \in hot
      BY <1>6, <3>1, <3>5 DEF Noticed
    <3>6. CASE Telling(w) /\ clock[w] + reply[w].left <= Cycle + ReplyDelay
      <4>1. reply[w] # NoReply /\ reply[w] \in Reply
        BY <3>6 DEF Telling, NoReply, TypeOK, CycleTypes
      <4>2. reply[w].left = ReplyDelay
        BY <3>2, <4>1, WorkerHealthAssumption DEF Found, RepliesInTime, Reply
      <4> QED
        BY <3>3, <3>4, <3>6, <4>2, CycleNat, WorkerHealthAssumption
    <3>7. CASE clock[w] + UntilSent <= Cycle
      BY <1>3, <3>3, <3>4, <3>7, CycleNat
    <3> QED
      BY <1>2, <1>6, <2>2, <3>4, <3>5, <3>6, <3>7 DEF Noticed
  <2> QED
    BY <1>2, <1>6, <2>1, <2>2
<1>7. CASE v = w /\ Receive(w)
  <2>1. reply[w] # NoReply /\ reply'[w] = NoReply /\ probed' = probed
    BY <1>1, <1>7, ReceiveFrame DEF Receive, TypeOK, CycleTypes
  <2>2. CASE Telling(w)
    <3>1. w \in hot'
      BY <1>7, <2>2 DEF Receive, Band, Telling
    <3> QED
      BY <1>7, <2>1, <3>1 DEF Noticed
  <2>3. CASE ~Telling(w)
    BY <1>1, <1>2, <1>3, <1>7, <2>1, <2>3 DEF Noticed
  <2> QED
    BY <2>2, <2>3
<1> QED
  BY <1>4, <1>5, <1>6, <1>7 DEF Packet

LEMMA HeededCycle ==
  ASSUME TypeOK, Found, Heeded, FanOut \/ Reap \/ Tick
  PROVE  Heeded'
<1> SUFFICES ASSUME NEW v \in lossless'
             PROVE  /\ phase'[v] \in {"new", "quiet"}
                    /\ k8s'[v] = "alive" => Noticed(v)'
  BY DEF Heeded
<1>1. UNCHANGED <<phase, k8s, hot>> /\ v \in lossless /\ v \in Workers
  BY FanOutAlone, ReapFrame, TickFrame DEF TypeOK, WorkerTypes
<1>2. phase[v] \in {"new", "quiet"} /\ (k8s[v] = "alive" => Noticed(v))
  BY <1>1 DEF Heeded
<1>3. clock[v] \in Nat /\ wait \in Nat /\ Interval \in Nat
  <2>1. clock[v] \in 0..Horizon
    BY <1>1 DEF TypeOK, WorkerTypes
  <2>2. wait \in Nat /\ Interval \in Nat
    BY WorkerHealthAssumption DEF TypeOK, CycleTypes, Largest
  <2> QED
    BY <2>1, <2>2, HorizonNat
<1> SUFFICES ASSUME k8s[v] = "alive" PROVE Noticed(v)'
  BY <1>1, <1>2
<1>4. CASE FanOut
  <2>1. v \in probed' /\ clock'[v] = clock[v] /\ UntilSent = 0 /\ reply'[v] = NoReply
    BY <1>1, <1>4, FanOutAlone DEF UntilSent
  <2>2. ~Telling(v) /\ v \notin probed
    BY <1>1, <1>4, FanOutAlone DEF Telling, NoReply, Found, ProbeClock
  <2> QED
    BY <1>1, <1>2, <1>3, <2>1, <2>2 DEF Noticed
<1>5. CASE Reap
  <2>1. UntilSent = Interval /\ UntilSent' = Interval /\ probed = {}
    BY <1>3, <1>5, ReapFrame DEF UntilSent
  <2> QED
    BY <1>1, <1>2, <1>5, <2>1, ReapFrame DEF Noticed, Telling
<1>6. CASE Tick
  <2>1. clock'[v] = clock[v] + 1 /\ probed = {} /\ UntilSent' = UntilSent - 1
    BY <1>1, <1>2, <1>3, <1>6, TickFrame DEF UntilSent
  <2>2. UntilSent \in Nat
    BY <1>3 DEF UntilSent
  <2>3. CASE clock[v] + UntilSent <= Cycle /\ phase[v] = "new"
    BY <1>1, <1>3, <2>1, <2>2, <2>3, CycleNat DEF Noticed
  <2>4. CASE Telling(v)
    <3>1. reply[v] # NoReply /\ reply[v] \in Reply
      BY <1>1, <2>4 DEF Telling, NoReply, TypeOK, CycleTypes
    <3>2. Telling(v)' /\ reply'[v].left = reply[v].left - 1 /\ reply[v].left \in Int
      BY <1>1, <1>6, <2>4, <3>1, TickFrame, WorkerHealthAssumption DEF Telling, Reply
    <3>3. clock'[v] + reply'[v].left = clock[v] + reply[v].left
      BY <1>3, <2>1, <3>2
    <3> QED
      BY <1>1, <1>2, <2>1, <2>3, <3>2, <3>3 DEF Noticed
  <2>5. CASE v \in hot /\ reply[v] = NoReply
    BY <1>1, <1>6, <2>5, TickFrame DEF Noticed
  <2> QED
    BY <1>2, <2>1, <2>3, <2>4, <2>5 DEF Noticed
<1> QED
  BY <1>4, <1>5, <1>6

LEMMA HeededStep ==
  ASSUME TypeOK, Found, Heeded, Tier1 > Cycle, [Next]_vars
  PROVE  Heeded'
<1>1. ASSUME NEW w \in Workers, Observe(w) PROVE Heeded'
  BY <1>1, ObserveFrame DEF Heeded, Noticed, Telling, UntilSent, TypeOK, WorkerTypes
<1>2. CASE UNCHANGED vars
  BY <1>2 DEF vars, workerVars, probeVars, registryVars, Heeded, Noticed, Telling, UntilSent
<1> QED
  BY <1>1, <1>2, HeededWorker, HeededPacket, HeededCycle DEF Next

LEMMA HeededSeen == TypeOK /\ Heeded => DrainIsSeen
<1> SUFFICES ASSUME TypeOK, Heeded, NEW w \in Workers, phase[w] = "quiet",
                    clock[w] >= ReplyDelay, w \in lossless, NewDialog(w)
             PROVE  FALSE
  BY DEF DrainIsSeen
<1>1. Health(w) = "alive" /\ w \notin hot
  BY DEF NewDialog
<1>2. k8s[w] = "alive"
  BY <1>1 DEF Health, Resolve, Rank, TypeOK, RegistryTypes
<1>3. Telling(w) /\ clock[w] + reply[w].left < ReplyDelay
  BY <1>1, <1>2 DEF Heeded, Noticed
<1>4. reply[w] \in Reply /\ clock[w] \in Nat
  BY <1>3, HorizonNat DEF Telling, NoReply, TypeOK, CycleTypes, WorkerTypes
<1> QED
  BY <1>3, <1>4, WorkerHealthAssumption DEF Reply

(* With a first tier longer than one cycle of the probe, as by default      *)
(* (3000 ms against 1000 + 1500), a worker of which no packet was lost      *)
(* since its SIGTERM is not chosen for a new call once it answers no more,  *)
(* the replies still queued then being handled (DrainingState.ts, bandFor). *)
THEOREM DrainSeen == Tier1 > Cycle => (Spec => []DrainIsSeen)
<1> SUFFICES ASSUME Tier1 > Cycle PROVE Spec => []DrainIsSeen
  OBVIOUS
<1>1. Init => TypeOK /\ Found /\ Heeded
  BY InitTypes, InitFound, InitHeeded
<1>2. TypeOK /\ Found /\ Heeded /\ [Next]_vars => TypeOK' /\ Found' /\ Heeded'
  BY NextTypes, ClockStep, InTimeStep, FreshStep, SoundStep, DueStep, HeededStep DEF Found
<1>3. TypeOK /\ Heeded => DrainIsSeen
  BY HeededSeen
<1> QED
  BY <1>1, <1>2, <1>3, PTL DEF Spec
=============================================================================
