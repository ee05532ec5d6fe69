------------------------- MODULE SupervisionProofs -------------------------
(***************************************************************************)
(* Theorems about Supervision, for any set of peers and any timing         *)
(* constants.  SlotsTrue is inductive given the types; ImportsFirst and    *)
(* ReadyHeardAll rest on where the supervisor is when (MainFirst,          *)
(* Followed).                                                              *)
(***************************************************************************)
EXTENDS Supervision, TLAPS

(* Before the scans are over nothing else has begun. *)
MainFirst ==
  /\ (\E p \in Peers : ~Over(p)) => pc = "main"
  /\ pc = "main" => /\ held = {} /\ worker = "Booting" /\ elapsed = 0
                    /\ \A p \in Peers : life[p] = "none"

(* From the end of the first reconcile on, a peer that was always listed    *)
(* has a fiber; time does not pass before.                                  *)
Followed ==
  /\ pc \in {"fork", "await"} => always \subseteq snap
  /\ pc = "fork" => always \ todo \subseteq held
  /\ pc = "await" => todo = {}
  /\ pc \in {"await", "sleep", "due"} => always \subseteq held
  /\ elapsed > 0 => always \subseteq held

-----------------------------------------------------------------------------
LEMMA LessNat == ASSUME NEW n \in Nat PROVE Less(n) \in 0..n
  BY DEF Less

LEMMA UpToNat ==
  ASSUME NEW max \in Nat, NEW n \in 0..max PROVE UpTo(n, max) \in 0..max
  BY DEF UpTo

LEMMA DoubledIn ==
  ASSUME NEW n \in 1..MaxBackoff PROVE Doubled(n) \in 1..MaxBackoff
  BY SupervisionAssumption DEF Doubled

-----------------------------------------------------------------------------
(* Types                                                                   *)

LEMMA InitTypes == Init => TypeOK
  BY SupervisionAssumption
  DEF Init, TypeOK, NoError, Errored, InitialBackoff

(* What a fiber begins and ends with has its type. *)
LEMMA LocalTypes ==
  ASSUME TypeOK, NEW p \in Peers, NewLocals(p)
  PROVE  /\ sleep' \in [Peers -> Nat]
         /\ delay' \in [Peers -> 1..MaxBackoff]
         /\ since' \in [Peers -> {NoError} \cup 0..Threshold]
<1>1. InitialBackoff \in 1..MaxBackoff /\ NoError \in {NoError} \cup 0..Threshold
  BY SupervisionAssumption DEF InitialBackoff
<1> QED
  BY <1>1 DEF TypeOK, NewLocals

LEMMA NextTypes == ASSUME TypeOK, [Next]_vars PROVE TypeOK'
<1> USE DEF TypeOK, importVars, supVars, fiberVars, readyVars
<1>1. CASE Lookup
  BY <1>1 DEF Lookup
<1>2. ASSUME NEW p \in Peers, ImportStep(p) PROVE TypeOK'
  <2>1. CASE ImportOk(p)
    BY <2>1 DEF ImportOk
  <2>2. CASE ImportFails(p)
    BY <2>2, SupervisionAssumption DEF ImportFails
  <2>3. CASE ImportAgain(p)
    BY <2>3 DEF ImportAgain
  <2>4. CASE ImportTimeout(p)
    BY <2>4 DEF ImportTimeout
  <2> QED
    BY <1>2, <2>1, <2>2, <2>3, <2>4 DEF ImportStep
<1>3. CASE Start
  BY <1>3, SupervisionAssumption DEF Start, LeaveMain, ReadPeers
<1>4. CASE Reconcile
  BY <1>4 DEF Reconcile, ReadPeers
<1>5. CASE Rest
  BY <1>5 DEF Rest
<1>6. ASSUME NEW p \in Peers, Fork(p) PROVE TypeOK'
  <2>1. CASE p \in held
    BY <1>6, <2>1 DEF Fork
  <2>2. CASE p \notin held
    <3>1. NewLocals(p)
      BY <1>6, <2>2 DEF Fork
    <3> QED
      BY <1>6, <2>2, <3>1, LocalTypes DEF Fork
  <2> QED
    BY <2>1, <2>2
<1>7. ASSUME NEW p \in Peers, Interrupt(p) PROVE TypeOK'
  <2>1. NewLocals(p)
    BY <1>7 DEF Interrupt
  <2> QED
    BY <1>7, <2>1, LocalTypes DEF Interrupt
<1>8. ASSUME NEW p \in Peers, Disappear(p) PROVE TypeOK'
  BY <1>8 DEF Disappear
<1>9. ASSUME NEW p \in Peers, Connect(p) PROVE TypeOK'
  BY <1>9 DEF Connect
<1>10. ASSUME NEW p \in Peers, Frame(p) PROVE TypeOK'
  BY <1>10 DEF Frame
<1>11. ASSUME NEW p \in Peers, Lost(p) PROVE TypeOK'
  <2>1. delay[p] \in 1..MaxBackoff /\ delay[p] \in Nat
    BY SupervisionAssumption
  <2>2. delay' \in [Peers -> 1..MaxBackoff]
    BY <1>11, <2>1, DoubledIn DEF Lost
  <2>3. sleep' \in [Peers -> Nat]
    BY <1>11, <2>1 DEF Lost
  <2>4. since' \in [Peers -> {NoError} \cup 0..Threshold]
    BY <1>11, SupervisionAssumption DEF Lost
  <2>5. view' \in [Peers -> {"Discovered", "Streaming", "Disappeared"} \cup Errored]
    BY <1>11 DEF Lost, Errored
  <2> QED
    BY <1>11, <2>2, <2>3, <2>4, <2>5 DEF Lost
<1>12. ASSUME NEW p \in Peers, Die(p) PROVE TypeOK'
  <2>1. NewLocals(p)
    BY <1>12 DEF Die
  <2> QED
    BY <1>12, <2>1, LocalTypes DEF Die
<1>13. CASE Controller
  BY <1>13 DEF Controller
<1>14. CASE Tick
  <2>1. left' \in 0..Deadline
    BY <1>14, LessNat, SupervisionAssumption DEF Tick, Less
  <2>2. sleep' \in [Peers -> Nat]
    BY <1>14, LessNat DEF Tick
  <2>3. since' \in [Peers -> {NoError} \cup 0..Threshold]
    <3>1. \A p \in Peers : since[p] = NoError \/ since[p] \in 0..Threshold
      OBVIOUS
    <3> QED
      BY <1>14, <3>1, UpToNat, SupervisionAssumption DEF Tick
  <2>4. elapsed' \in 0..TMax
    BY <1>14, UpToNat, SupervisionAssumption DEF Tick
  <2>5. pc' \in {"main", "fork", "await", "sleep", "due"}
    BY <1>14 DEF Tick
  <2> QED
    BY <1>14, <2>1, <2>2, <2>3, <2>4, <2>5 DEF Tick
<1>15. CASE UNCHANGED vars
  BY <1>15 DEF vars
<1> QED
  BY <1>1, <1>2, <1>3, <1>4, <1>5, <1>6, <1>7, <1>8, <1>9, <1>10, <1>11, <1>12,
     <1>13, <1>14, <1>15 DEF Next, SupervisorStep

(* Every behaviour keeps the types of Supervision; in particular time and   *)
(* backoffs stay within their limits.                                       *)
THEOREM TypeCorrect == Spec => []TypeOK
  BY InitTypes, NextTypes, PTL DEF Spec

-----------------------------------------------------------------------------
(* Slots and fibers                                                        *)

LEMMA NextSlots == ASSUME TypeOK, SlotsTrue, [Next]_vars PROVE SlotsTrue'
<1> USE DEF TypeOK, SlotsTrue, importVars, supVars, fiberVars, readyVars
<1>1. CASE Lookup
  BY <1>1 DEF Lookup
<1>2. ASSUME NEW p \in Peers, ImportStep(p) PROVE SlotsTrue'
  BY <1>2 DEF ImportStep, ImportOk, ImportFails, ImportAgain, ImportTimeout
<1>3. CASE Start
  BY <1>3 DEF Start, LeaveMain, ReadPeers
<1>4. CASE Reconcile
  BY <1>4 DEF Reconcile, ReadPeers
<1>5. CASE Rest
  BY <1>5 DEF Rest
<1>6. ASSUME NEW p \in Peers, Fork(p) PROVE SlotsTrue'
  BY <1>6 DEF Fork
<1>7. ASSUME NEW p \in Peers, Interrupt(p) PROVE SlotsTrue'
  <2>1. \A q \in Peers \ held : life[q] = "none"
    BY <1>7 DEF Interrupt
  <2>2. \A q \in Peers \ {p} : life'[q] = life[q]
    BY <1>7 DEF Interrupt
  <2>3. life'[p] \in {"ending", "dead"} /\ life[p] # "none"
    BY <1>7 DEF Interrupt
  <2> QED
    BY <1>7, <2>1, <2>2, <2>3 DEF Interrupt
<1>8. ASSUME NEW p \in Peers, Disappear(p) PROVE SlotsTrue'
  BY <1>8 DEF Disappear
<1>9. ASSUME NEW p \in Peers, Connect(p) PROVE SlotsTrue'
  BY <1>9 DEF Connect
<1>10. ASSUME NEW p \in Peers, Frame(p) PROVE SlotsTrue'
  BY <1>10 DEF Frame
<1>11. ASSUME NEW p \in Peers, Lost(p) PROVE SlotsTrue'
  BY <1>11 DEF Lost, Streams
<1>12. ASSUME NEW p \in Peers, Die(p) PROVE SlotsTrue'
  BY <1>12 DEF Die, Streams
<1>13. CASE Controller
  BY <1>13 DEF Controller
<1>14. CASE Tick
  BY <1>14 DEF Tick
<1>15. CASE UNCHANGED vars
  BY <1>15 DEF vars
<1> QED
  BY <1>1, <1>2, <1>3, <1>4, <1>5, <1>6, <1>7, <1>8, <1>9, <1>10, <1>11, <1>12,
     <1>13, <1>14, <1>15 DEF Next, SupervisorStep

(* At any time a peer has at most one puller that is not interrupted, no    *)
(* puller of it starts before the former has ended, and the supervisor      *)
(* waits for one at most.                                                   *)
THEOREM OnePuller == Spec => []SlotsTrue
<1>1. Init => SlotsTrue
  BY DEF Init, SlotsTrue
<1> QED
  BY <1>1, TypeCorrect, NextSlots, PTL DEF Spec

-----------------------------------------------------------------------------
(* The order of boot                                                       *)

LEMMA NextMain == ASSUME TypeOK, MainFirst, [Next]_vars PROVE MainFirst'
<1> USE DEF TypeOK, MainFirst, Over, importVars, supVars, fiberVars, readyVars
<1>1. CASE Lookup
  BY <1>1 DEF Lookup
<1>2. ASSUME NEW p \in Peers, ImportStep(p) PROVE MainFirst'
  BY <1>2 DEF ImportStep, ImportOk, ImportFails, ImportAgain, ImportTimeout,
              Importing
<1>3. CASE Start
  BY <1>3 DEF Start, LeaveMain, ReadPeers
<1>4. CASE Reconcile
  BY <1>4 DEF Reconcile, ReadPeers
<1>5. CASE Rest
  BY <1>5 DEF Rest
<1>6. ASSUME NEW p \in Peers, Fork(p) \/ Interrupt(p) \/ Disappear(p)
      PROVE  MainFirst'
  BY <1>6 DEF Fork, Interrupt, Disappear
<1>7. ASSUME NEW p \in Peers, Connect(p) \/ Frame(p) \/ Lost(p) \/ Die(p)
      PROVE  MainFirst'
  BY <1>7 DEF Connect, Frame, Lost, Die, Streams
<1>8. CASE Controller
  BY <1>8 DEF Controller
<1>9. CASE Tick
  BY <1>9 DEF Tick
<1>10. CASE UNCHANGED vars
  BY <1>10 DEF vars
<1> QED
  BY <1>1, <1>2, <1>3, <1>4, <1>5, <1>6, <1>7, <1>8, <1>9, <1>10
  DEF Next, SupervisorStep

LEMMA MainKept == Spec => []MainFirst
<1>1. Init => MainFirst
  BY DEF Init, MainFirst, Over
<1> QED
  BY <1>1, TypeCorrect, NextMain, PTL DEF Spec

(* No puller runs, and the worker is not ready, while a scan may still      *)
(* import copies.                                                           *)
THEOREM ImportsComeFirst == Spec => []ImportsFirst
<1>1. MainFirst => ImportsFirst
  BY DEF MainFirst, ImportsFirst
<1> QED
  BY <1>1, MainKept, PTL

-----------------------------------------------------------------------------
(* Readiness                                                               *)

LEMMA NextFollowed ==
  ASSUME TypeOK, MainFirst, Followed, [Next]_vars PROVE Followed'
<1> USE DEF TypeOK, Followed, importVars, supVars, fiberVars, readyVars
<1>1. CASE Lookup
  BY <1>1 DEF Lookup
<1>2. ASSUME NEW p \in Peers, ImportStep(p) PROVE Followed'
  BY <1>2 DEF ImportStep, ImportOk, ImportFails, ImportAgain, ImportTimeout
<1>3. CASE Start
  BY <1>3 DEF Start, LeaveMain, ReadPeers, MainFirst
<1>4. CASE Reconcile
  BY <1>4 DEF Reconcile, ReadPeers
<1>5. CASE Rest
  BY <1>5 DEF Rest
<1>6. ASSUME NEW p \in Peers, Fork(p) PROVE Followed'
  BY <1>6 DEF Fork
<1>7. ASSUME NEW p \in Peers, Interrupt(p) PROVE Followed'
  BY <1>7 DEF Interrupt
<1>8. ASSUME NEW p \in Peers, Disappear(p) PROVE Followed'
  BY <1>8 DEF Disappear
<1>9. ASSUME NEW p \in Peers, Connect(p) \/ Frame(p) \/ Lost(p) \/ Die(p)
      PROVE  Followed'
  BY <1>9 DEF Connect, Frame, Lost, Die
<1>10. CASE Controller
  BY <1>10 DEF Controller
<1>11. CASE Tick
  BY <1>11, SupervisionAssumption DEF Tick, MainFirst, UpTo
<1>12. CASE UNCHANGED vars
  BY <1>12 DEF vars
<1> QED
  BY <1>1, <1>2, <1>3, <1>4, <1>5, <1>6, <1>7, <1>8, <1>9, <1>10, <1>11, <1>12
  DEF Next, SupervisorStep

LEMMA FollowedKept == Spec => []Followed
<1>1. Init => Followed
  BY DEF Init, Followed
<1> QED
  BY <1>1, TypeCorrect, MainKept, NextFollowed, PTL DEF Spec

(* A worker that is ready before T_max has heard a noop from every peer     *)
(* that was listed all along.                                               *)
THEOREM ReadyByEvidence == Spec => ReadyHeardAll
<1> DEFINE A == worker # "Ready" /\ worker' = "Ready" /\ elapsed < TMax
                  => always \subseteq caught
<1>1. TypeOK /\ Followed /\ [Next]_vars => [A]_vars
  <2> SUFFICES ASSUME TypeOK, Followed, Next,
                      worker # "Ready", worker' = "Ready", elapsed < TMax
               PROVE  always \subseteq caught
    OBVIOUS
  <2>1. Controller
    BY DEF Next, SupervisorStep, ImportStep, Lookup, Start, LeaveMain, Reconcile,
           Rest, Fork, Interrupt, Disappear, Connect, Frame, Lost, Die, Tick,
           ImportOk, ImportFails, ImportAgain, ImportTimeout, readyVars
  <2>2. elapsed >= TMin /\ held \subseteq caught
    BY <2>1, SupervisionAssumption DEF Controller, TypeOK
  <2>3. always \subseteq held
    BY <2>2, SupervisionAssumption DEF Followed, TypeOK
  <2> QED
    BY <2>2, <2>3
<1> QED
  BY <1>1, TypeCorrect, FollowedKept, PTL DEF Spec, ReadyHeardAll
=============================================================================
