---------------------------- MODULE WorkerHealth ----------------------------
(***************************************************************************)
(* How a front proxy knows which workers to send calls to: the probe that  *)
(* sends OPTIONS to every worker and counts what is not answered, the two  *)
(* sides of the registry (probe and Kubernetes watch), the load band, and  *)
(* what a worker that boots, serves, drains in two tiers or crashes        *)
(* answers.                                                                *)
(*                                                                         *)
(* Time is counted in ticks.  A request is answered or lost within its     *)
(* tick, a reply may wait in the proxy's queue for ReplyDelay ticks.       *)
(***************************************************************************)
EXTENDS Integers

CONSTANTS
  Workers,
  Interval, Timeout, Threshold,   \* of the probe
  ReplyDelay,                     \* how late a reply is handled, at most
  Tier1, Tier2,                   \* DRAIN_TIER1_MS, DRAIN_TIER2_MS
  Grace                           \* drainGraceMs

ASSUME WorkerHealthAssumption ==
  /\ Interval \in Nat \ {0} /\ Timeout \in Nat \ {0} /\ Threshold \in Nat \ {0}
  /\ ReplyDelay \in 0..Timeout
  /\ Tier1 \in Nat \ {0} /\ Tier2 \in Nat \ {0} /\ Grace \in Nat

VARIABLES
  phase,    \* per worker, DrainingMode and readiness, or "down"
  clock,    \* ticks in draining-new, else since it last was fit for a call
  deleting, \* workers whose pod has a deletionTimestamp
  gone,     \* workers whose pod object is deleted and not yet made again
  stage,    \* of tickLoop
  wait,     \* ticks until its sleep ends
  probed,   \* workers that an OPTIONS is on the way to
  pending,  \* workers in pendingByCallId
  misses,   \* consecutiveMisses, counted up to the threshold
  reply,    \* per worker, the reply on the way or in the queue
  k8s,      \* per worker, the watch's side of the health pair, or "absent"
  probe,    \* the probe's side
  fresh,    \* workers whose pod was made again since the watch last looked
  drained,  \* ticks since drainingSince
  hot,      \* workers in the band above_critical
  lossless  \* draining workers of which no packet was lost since SIGTERM

workerVars   == <<phase, clock>>
podVars      == <<deleting, gone>>
probeVars    == <<stage, wait, probed, pending, misses>>
registryVars == <<k8s, probe, fresh, drained>>
vars == <<workerVars, podVars, probeVars, reply, registryVars, hot, lossless>>

Cycle == Interval + Timeout
(* From the last moment a worker answers to the threshold-th miss. *)
Detection == Threshold * Cycle + Timeout

NoReply == [status |-> "none", load |-> "low", left |-> 0]
Load == {"low", "mid", "high"}     \* mid: within the hysteresis
Reply == [status : {"alive", "not_ready"}, load : Load, left : 0..ReplyDelay]
UpTo(n, max) == IF n < max THEN n + 1 ELSE max
Largest(a, b) == IF a >= b THEN a ELSE b
Horizon == Largest(Detection + 1, Largest(Tier1, Tier2))

-----------------------------------------------------------------------------
(* The registry's pair of health values                                    *)

Rank == [alive |-> 0, unknown |-> 1, not_ready |-> 2, draining |-> 3, dead |-> 4]

(* The most restrictive side wins. *)
Resolve(k, p) ==
  CASE k = "absent" -> "absent"
    [] k # "absent" /\ Rank[k] >= Rank[p] -> k
    [] OTHER -> p
Health(w) == Resolve(k8s[w], probe[w])

(* Write both sides; drainingSince is stamped on entering draining. *)
SetPairs(k, p) ==
  /\ k8s' = k /\ probe' = p
  /\ drained' = [w \in Workers |->
                   IF Resolve(k[w], p[w]) # "draining" THEN 0
                   ELSE IF Health(w) = "draining" THEN drained[w] ELSE 0]

(* setHealth of the registry: nothing for a worker it does not list. *)
SetProbe(S, health) ==
  SetPairs(k8s, [w \in Workers |->
                   IF w \in S /\ k8s[w] # "absent" THEN health ELSE probe[w]])

(* selectForNewDialog and decodeStickiness *)
NewDialog(w) == Health(w) = "alive" /\ w \notin hot
InDialog(w) ==
  \/ Health(w) = "alive"
  \/ Health(w) = "draining" /\ drained[w] <= Grace

-----------------------------------------------------------------------------
Init ==
  /\ phase \in [Workers -> {"boot", "serving"}]
  /\ clock = [w \in Workers |-> 0]
  /\ deleting = {} /\ gone = {}
  /\ stage = "sleep" /\ wait = Interval /\ probed = {} /\ pending = {}
  /\ misses = [w \in Workers |-> 0]
  /\ reply = [w \in Workers |-> NoReply]
  /\ k8s = [w \in Workers |-> "absent"] /\ probe = [w \in Workers |-> "unknown"]
  /\ fresh = {} /\ drained = [w \in Workers |-> 0]
  /\ hot = {} /\ lossless = {}

-----------------------------------------------------------------------------
(* The worker's process                                                    *)

GetReady(w) ==
  /\ phase[w] = "boot"
  /\ phase' = [phase EXCEPT ![w] = "serving"]
  /\ clock' = [clock EXCEPT ![w] = 0]
  /\ UNCHANGED <<podVars, probeVars, reply, registryVars, hot, lossless>>

Drain(w) ==
  /\ phase' = [phase EXCEPT ![w] = "new"]
  /\ clock' = [clock EXCEPT ![w] = 0]
  /\ lossless' = lossless \cup {w}

(* SIGTERM from the kubelet, the pod stays. *)
SigTerm(w) ==
  /\ phase[w] \in {"boot", "serving"} /\ Drain(w)
  /\ UNCHANGED <<podVars, probeVars, reply, registryVars, hot>>

(* The pod is deleted: deletionTimestamp, and SIGTERM at once. *)
Delete(w) ==
  /\ w \notin deleting \cup gone
  /\ deleting' = deleting \cup {w}
  /\ IF phase[w] \in {"boot", "serving"} THEN Drain(w)
                                         ELSE UNCHANGED <<workerVars, lossless>>
  /\ UNCHANGED <<gone, probeVars, reply, registryVars, hot>>

Quiet(w) ==
  /\ phase[w] = "new" /\ clock[w] = Tier1
  /\ phase' = [phase EXCEPT ![w] = "quiet"]
  /\ clock' = [clock EXCEPT ![w] = 0]
  /\ UNCHANGED <<podVars, probeVars, reply, registryVars, hot, lossless>>

Exit(w) ==
  /\ phase[w] = "quiet" /\ clock[w] = Tier2
  /\ phase' = [phase EXCEPT ![w] = "down"]
  /\ lossless' = lossless \ {w}
  /\ UNCHANGED <<clock, podVars, probeVars, reply, registryVars, hot>>

Crash(w) ==
  /\ phase[w] # "down"
  /\ phase' = [phase EXCEPT ![w] = "down"]
  /\ clock' = [clock EXCEPT ![w] = IF phase[w] \in {"serving", "new"} THEN 0 ELSE @]
  /\ lossless' = lossless \ {w}
  /\ UNCHANGED <<podVars, probeVars, reply, registryVars, hot>>

(* The container is started again, in the same pod or in a new one. *)
Restart(w) ==
  /\ phase[w] = "down" /\ w \notin deleting
  /\ phase' = [phase EXCEPT ![w] = "boot"]
  /\ gone' = gone \ {w}
  /\ fresh' = IF w \in gone THEN fresh \cup {w} ELSE fresh
  /\ UNCHANGED <<clock, deleting, probeVars, reply, k8s, probe, drained, hot,
                 lossless>>

RemovePod(w) ==
  /\ phase[w] = "down" /\ w \in deleting
  /\ deleting' = deleting \ {w} /\ gone' = gone \cup {w}
  /\ UNCHANGED <<workerVars, probeVars, reply, registryVars, hot, lossless>>

-----------------------------------------------------------------------------
(* HealthProbe                                                             *)

FanOutNotDead ==                       \* workers found dead are given up
  /\ stage = "sleep" /\ wait = 0
  /\ stage' = "sent" /\ wait' = Timeout
  /\ pending' = {w \in Workers : Health(w) \notin {"absent", "dead"}}
  /\ probed' = pending'
  /\ UNCHANGED <<workerVars, podVars, misses, reply, registryVars, hot, lossless>>
(* fanOutOptions: to every listed worker, whatever its health. *)
FanOut ==
  /\ stage = "sleep" /\ wait = 0
  /\ stage' = "sent" /\ wait' = Timeout
  /\ pending' = {w \in Workers : k8s[w] # "absent"} /\ probed' = pending'
  /\ UNCHANGED <<workerVars, podVars, misses, reply, registryVars, hot, lossless>>

AnswerOwnLoad(w) ==                    \* draining-new shows the real load
  /\ w \in probed /\ probed' = probed \ {w}
  /\ \/ /\ phase[w] \in {"quiet", "down"} /\ UNCHANGED reply
     \/ /\ phase[w] \in {"boot", "serving", "new"}
        /\ \E load \in Load :
             reply' = [reply EXCEPT ![w] =
                         [status |-> IF phase[w] = "boot" THEN "not_ready" ELSE "alive",
                          load |-> load, left |-> ReplyDelay]]
  /\ UNCHANGED <<workerVars, podVars, stage, wait, pending, misses, registryVars,
                 hot, lossless>>
(* The router's branch for OPTIONS without a To tag. *)
Answer(w) ==
  /\ w \in probed /\ probed' = probed \ {w}
  /\ \/ /\ phase[w] \in {"quiet", "down"} /\ UNCHANGED reply
     \/ /\ phase[w] \in {"boot", "serving", "new"}
        /\ \E load \in IF phase[w] = "new" THEN {"high"} ELSE Load :
             reply' = [reply EXCEPT ![w] =
                         [status |-> IF phase[w] = "boot" THEN "not_ready" ELSE "alive",
                          load |-> load, left |-> ReplyDelay]]
  /\ UNCHANGED <<workerVars, podVars, stage, wait, pending, misses, registryVars,
                 hot, lossless>>

LoseRequest(w) ==
  /\ w \in probed /\ probed' = probed \ {w}
  /\ lossless' = lossless \ {w}
  /\ UNCHANGED <<workerVars, podVars, stage, wait, pending, misses, reply,
                 registryVars, hot>>

(* computeBand, at the one boundary that decides on candidates *)
Band(w, load) ==
  hot' = CASE load = "high" -> hot \cup {w}
           [] load = "mid" -> hot
           [] load = "low" -> hot \ {w}

(* inboundDrain: a reply whose Call-ID is no longer pending counts as well, *)
(* while the worker is listed.                                              *)
Receive(w) ==
  /\ reply[w] # NoReply
  /\ reply' = [reply EXCEPT ![w] = NoReply]
  /\ pending' = pending \ {w}
  /\ IF w \in pending \/ k8s[w] # "absent"
     THEN /\ misses' = [misses EXCEPT ![w] = 0]
          /\ SetProbe({w}, reply[w].status)
          /\ Band(w, reply[w].load)
     ELSE UNCHANGED <<misses, k8s, probe, drained, hot>>
  /\ UNCHANGED <<workerVars, podVars, stage, wait, probed, fresh, lossless>>

LoseReply(w) ==
  /\ reply[w] # NoReply
  /\ reply' = [reply EXCEPT ![w] = NoReply]
  /\ lossless' = lossless \ {w}
  /\ UNCHANGED <<workerVars, podVars, probeVars, registryVars, hot>>

ReapKeeps ==                           \* the Call-IDs stay pending
  /\ stage = "sent" /\ wait = 0 /\ probed = {}
  /\ stage' = "sleep" /\ wait' = Interval /\ UNCHANGED pending
  /\ misses' = [w \in Workers |-> IF w \in pending THEN UpTo(misses[w], Threshold)
                                                   ELSE misses[w]]
  /\ SetProbe({w \in pending : misses'[w] >= Threshold}, "dead")
  /\ UNCHANGED <<workerVars, podVars, probed, reply, fresh, hot, lossless>>
ReapLate ==                            \* one miss more than the threshold
  /\ stage = "sent" /\ wait = 0 /\ probed = {}
  /\ stage' = "sleep" /\ wait' = Interval /\ pending' = {}
  /\ misses' = [w \in Workers |-> IF w \in pending THEN UpTo(misses[w], Threshold)
                                                   ELSE misses[w]]
  /\ SetProbe({w \in pending : misses[w] >= Threshold}, "dead")
  /\ UNCHANGED <<workerVars, podVars, probed, reply, fresh, hot, lossless>>
(* reapTimeouts *)
Reap ==
  /\ stage = "sent" /\ wait = 0 /\ probed = {}
  /\ stage' = "sleep" /\ wait' = Interval /\ pending' = {}
  /\ misses' = [w \in Workers |-> IF w \in pending THEN UpTo(misses[w], Threshold)
                                                   ELSE misses[w]]
  /\ SetProbe({w \in pending : misses'[w] >= Threshold}, "dead")
  /\ UNCHANGED <<workerVars, podVars, probed, reply, fresh, hot, lossless>>

-----------------------------------------------------------------------------
(* The watch                                                               *)

(* interpretPod *)
PodHealth(w) ==
  CASE w \in deleting -> "draining"
    [] w \notin deleting /\ phase[w] = "serving" -> "alive"
    [] OTHER -> IF k8s[w] \in {"alive", "absent"} THEN "dead" ELSE k8s[w]

(* applyPodObservation and removeById: an event, or the first ones after a *)
(* reconnect, which do not tell of a pod that went meanwhile.              *)
Observe(w) ==
  /\ IF w \in gone
     THEN SetPairs([k8s EXCEPT ![w] = "absent"], [probe EXCEPT ![w] = "unknown"])
     ELSE SetPairs([k8s EXCEPT ![w] = PodHealth(w)],
                   [probe EXCEPT ![w] = IF w \in fresh \/ k8s[w] = "absent"
                                        THEN "unknown" ELSE @])
  /\ fresh' = fresh \ {w}
  /\ UNCHANGED <<workerVars, podVars, probeVars, reply, hot, lossless>>

-----------------------------------------------------------------------------
Tick ==
  /\ wait > 0 /\ probed = {}
  /\ \A w \in Workers :
       /\ reply[w] # NoReply => reply[w].left > 0
       /\ phase[w] = "new" => clock[w] < Tier1
       /\ phase[w] = "quiet" => clock[w] < Tier2
  /\ wait' = wait - 1
  /\ reply' = [w \in Workers |-> IF reply[w] = NoReply THEN NoReply
                                 ELSE [reply[w] EXCEPT !.left = @ - 1]]
  /\ clock' = [w \in Workers |-> IF phase[w] = "serving" THEN 0
                                 ELSE UpTo(clock[w], Horizon)]
  /\ drained' = [w \in Workers |-> IF Health(w) = "draining"
                                   THEN UpTo(drained[w], Grace + 1) ELSE 0]
  /\ UNCHANGED <<phase, podVars, stage, probed, pending, misses, k8s, probe, fresh,
                 hot, lossless>>

WorkerStep(w) ==
  \/ GetReady(w) \/ SigTerm(w) \/ Delete(w) \/ Quiet(w) \/ Exit(w) \/ Crash(w)
  \/ Restart(w) \/ RemovePod(w)
Packet(w) == Answer(w) \/ LoseRequest(w) \/ Receive(w) \/ LoseReply(w)

Next ==
  \/ FanOut \/ Reap \/ Tick
  \/ \E w \in Workers : WorkerStep(w) \/ Packet(w) \/ Observe(w)

Spec == Init /\ [][Next]_vars

(* The proxy's fibers run and the watch reconnects; nothing is asked of    *)
(* workers, the network and Kubernetes.                                    *)
FairSpec ==
  /\ Spec
  /\ WF_vars(Tick) /\ WF_vars(FanOut) /\ WF_vars(Reap)
  /\ \A w \in Workers : /\ WF_vars(Packet(w)) /\ WF_vars(Observe(w))
                        /\ WF_vars(Quiet(w)) /\ WF_vars(Exit(w))

-----------------------------------------------------------------------------
(* Properties                                                              *)

TiersEnd ==
  \A w \in Workers : /\ phase[w] = "new" => clock[w] <= Tier1
                     /\ phase[w] = "quiet" => clock[w] <= Tier2
WorkerTypes ==
  /\ phase \in [Workers -> {"boot", "serving", "new", "quiet", "down"}]
  /\ clock \in [Workers -> 0..Horizon]
  /\ TiersEnd
  /\ deleting \subseteq Workers /\ gone \subseteq Workers /\ deleting \cap gone = {}
  /\ \A w \in gone : phase[w] = "down"
  /\ lossless \subseteq Workers
CycleTypes ==
  /\ stage \in {"sleep", "sent"} /\ wait \in 0..Largest(Interval, Timeout)
  /\ pending \subseteq Workers /\ probed \subseteq Workers
  /\ stage = "sleep" => pending = {}
  /\ misses \in [Workers -> 0..Threshold]
  /\ reply \in [Workers -> {NoReply} \cup Reply]
RegistryTypes ==
  /\ k8s \in [Workers -> {"absent", "alive", "draining", "dead"}]
  /\ probe \in [Workers -> {"unknown", "alive", "not_ready", "dead"}]
  /\ fresh \subseteq Workers /\ drained \in [Workers -> 0..Grace + 1]
  /\ hot \subseteq Workers
TypeOK == WorkerTypes /\ CycleTypes /\ RegistryTypes

(* A worker that has not been fit for a call for longer than the detection  *)
(* time is sent no message of a dialog, whatever was lost or handled late   *)
(* and whatever the watch saw: except within the grace of a draining pod    *)
(* that the probe knows not to be ready, or not at all (reapTimeouts,       *)
(* inboundDrain, mostRestrictiveHealth, drainGraceMs).                      *)
SilentIsLeft ==
  \A w \in Workers :
    /\ phase[w] \in {"boot", "quiet", "down"} /\ clock[w] > Detection
    /\ InDialog(w)
    => k8s[w] = "draining" /\ probe[w] \in {"unknown", "not_ready"}

(* When no packet is lost, the proxy has seen that a worker drains before   *)
(* it falls silent, and places no new call on it (DRAIN_TIER1_MS, the load  *)
(* of 1.000 in draining-new, bandFor).                                      *)
DrainIsSeen ==
  \A w \in Workers :
    phase[w] = "quiet" /\ clock[w] >= ReplyDelay /\ w \in lossless => ~NewDialog(w)

(* A worker that serves for good, without high load or loss, gets new calls *)
(* for good: no count, mark or pair is left behind by whatever came before  *)
(* (fanOutOptions to dead workers too, misses, both sides of the pair).     *)
Disturbed(w) ==
  \/ LoseRequest(w) \/ LoseReply(w)
  \/ Answer(w) /\ reply'[w].load # "low"
EventuallyRouted ==
  \A w \in Workers :
    /\ <>[](phase[w] = "serving" /\ w \notin deleting)
    /\ <>[][~Disturbed(w)]_vars
    => <>[]NewDialog(w)
=============================================================================
