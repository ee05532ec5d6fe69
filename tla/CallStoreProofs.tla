-------------------------- MODULE CallStoreProofs --------------------------
(***************************************************************************)
(* Proofs about CallStore, for any calls, drainers, queue size and faults: *)
(* its types, that the store settles at the newest write, that a load      *)
(* brings back the newest write, and that CallStore implements             *)
(* OrderedStore.                                                           *)
(***************************************************************************)
EXTENDS CallStore, SequenceTheorems, WellFoundedInduction, TLAPS

(* What the constants are, and the values the variables may have. *)
LEMMA BodyFacts ==
  /\ NoBody \in Bodies
  /\ \A s \in States : \A n \in Nat : [state |-> s, gen |-> n] \in Bodies
  /\ \A b \in Bodies : b # NoBody => b.state \in States /\ b.gen \in Nat
  /\ \A b \in Bodies : b.state \in States => b # NoBody
  BY DEF Bodies, NoBody, States

(* Jobs and commands are built from their parts. *)
LEMMA JobFacts ==
  /\ \A c \in Calls, b \in Bodies :
       /\ Put(c, b) \in Jobs /\ Delete(c) \in Jobs
       /\ Job("get", c, b) \in Jobs
       /\ Writes(Put(c, b)) /\ Writes(Delete(c)) /\ ~Writes(Job("get", c, b))
       /\ Put(c, b).call = c /\ Delete(c).call = c
       /\ Job("get", c, b).call = c
  /\ \A by \in Issuers \cup {Nobody}, j \in Jobs :
       /\ Command(by, j) \in Commands
       /\ Command(by, j).job = j
  /\ \A j \in Jobs : j.call \in Calls /\ j.body \in Bodies
  /\ \A k \in Commands : k.job \in Jobs /\ k.by \in Issuers \cup {Nobody}
  BY BodyFacts DEF Put, Delete, Job, Jobs, Writes, Command, Commands

(* Appending to, and taking from, a sequence. *)
LEMMA AppendFacts ==
  ASSUME NEW S, NEW s \in Seq(S), NEW e \in S
  PROVE  /\ Append(s, e) \in Seq(S)
         /\ Len(Append(s, e)) = Len(s) + 1
         /\ \A i \in 1..Len(s) : Append(s, e)[i] = s[i]
         /\ Append(s, e)[Len(s) + 1] = e
         /\ DOMAIN Append(s, e) = 1..Len(s) + 1
         /\ DOMAIN s = 1..Len(s)
  OBVIOUS

LEMMA TailFacts ==
  ASSUME NEW S, NEW s \in Seq(S), s # <<>>
  PROVE  /\ Tail(s) \in Seq(S)
         /\ Head(s) \in S /\ Head(s) = s[1]
         /\ Len(s) \in Nat \ {0} /\ Len(Tail(s)) = Len(s) - 1
         /\ \A i \in 1..Len(s) - 1 : Tail(s)[i] = s[i + 1]
         /\ DOMAIN Tail(s) = 1..Len(s) - 1
         /\ DOMAIN s = 1..Len(s)
  OBVIOUS

-----------------------------------------------------------------------------
(* Types                                                                   *)

(* A submission keeps the types, and the wire does not get shorter. *)
LEMMA SubmitTypes ==
  ASSUME TypeOK, NEW w \in Seq(Commands), NEW by \in Issuers,
         NEW job \in Jobs, Submit(w, by, job)
  PROVE  /\ queue' \in Seq(Jobs) /\ Len(queue') =< QueueMax
         /\ wire' \in Seq(Commands) /\ Len(wire') >= Len(w)
         /\ busy' \subseteq Issuers
         /\ newest' \in [Calls -> Bodies] /\ slip' \subseteq Calls
         /\ submits' \in Nat
<1>1. job.call \in Calls /\ job.body \in Bodies /\ Command(by, job) \in Commands
  BY JobFacts
<1>2. /\ Append(w, Command(by, job)) \in Seq(Commands)
      /\ Len(Append(w, Command(by, job))) = Len(w) + 1
      /\ Len(w) \in Nat
  BY <1>1, AppendFacts
<1>3. newest' \in [Calls -> Bodies] /\ submits' \in Nat
  BY <1>1 DEF Submit, TypeOK
<1>4. CASE Len(queue) < QueueMax
  <2>1. queue' = Append(queue, job) /\ wire' = w /\ busy' = busy \ {by}
        /\ slip' = slip \ {job.call}
    BY <1>4 DEF Submit
  <2>2. queue' \in Seq(Jobs) /\ Len(queue') = Len(queue) + 1 /\ Len(queue) \in Nat
    BY <2>1, AppendFacts DEF TypeOK
  <2> QED BY <1>2, <1>3, <1>4, <2>1, <2>2, CallStoreAssumption
          DEF TypeOK, CallStoreAssumption
<1>5. CASE ~(Len(queue) < QueueMax)
  <2>1. queue' = queue /\ wire' = Append(w, Command(by, job))
        /\ busy' = busy \cup {by} /\ slip' \subseteq slip \cup {job.call}
    BY <1>5 DEF Submit, Issue
  <2> QED BY <1>1, <1>2, <1>3, <2>1 DEF TypeOK
<1> QED BY <1>4, <1>5

(* The initial state has the types of TypeOK. *)
LEMMA TypeInit == Init => TypeOK
<1> SUFFICES ASSUME Init PROVE TypeOK
  OBVIOUS
<1>1. <<>> \in Seq(Jobs) /\ <<>> \in Seq(Commands) /\ Len(<<>>) = 0
  OBVIOUS
<1> QED BY <1>1, BodyFacts, CallStoreAssumption
        DEF Init, TypeOK, CallStoreAssumption

(* Every step keeps the types. *)
LEMMA TypeStep == TypeOK /\ [Next]_vars => TypeOK'
<1> SUFFICES ASSUME TypeOK, [Next]_vars PROVE TypeOK'
  OBVIOUS
<1>0. /\ Calls \subseteq Issuers /\ Drainers \subseteq Issuers
      /\ Boot \in Issuers /\ Sweep \in Issuers
      /\ Len(wire) \in Nat /\ done \in Nat /\ seen \in Nat /\ DOMAIN wire = 1..Len(wire)
  BY DEF Issuers, TypeOK
<1>1. ASSUME NEW d \in Drainers, Take(d) PROVE TypeOK'
  <2>1. Head(queue) \in Jobs /\ Tail(queue) \in Seq(Jobs)
        /\ Len(Tail(queue)) = Len(queue) - 1 /\ Len(queue) \in Nat
    BY <1>1, TailFacts DEF Take, TypeOK
  <2>2. Command(d, Head(queue)) \in Commands
    BY <2>1, <1>0, JobFacts
  <2>3. wire' \in Seq(Commands) /\ Len(wire') = Len(wire) + 1
    BY <1>1, <2>2, AppendFacts DEF Take, Issue, TypeOK
  <2> QED BY <1>0, <1>1, <2>1, <2>3, CallStoreAssumption
          DEF Take, Issue, TypeOK, memVars, promise, CallStoreAssumption
<1>2. ASSUME NEW by \in Calls \cup {Boot, Sweep}, Timeout(by) PROVE TypeOK'
  <2>1. PICK i \in DOMAIN wire : wire' = [wire EXCEPT ![i] = Command(Nobody, @.job)]
    BY <1>2 DEF Timeout
  <2>2. Command(Nobody, wire[i].job) \in Commands
    <3>1. wire[i] \in Commands
      BY <1>0 DEF TypeOK
    <3>2. wire[i].job \in Jobs
      BY <3>1, JobFacts
    <3> QED BY <3>2, JobFacts
  <2>3. wire' \in Seq(Commands) /\ Len(wire') = Len(wire)
    BY <2>1, <2>2, <1>0 DEF TypeOK
  <2> QED BY <1>2, <2>3 DEF Timeout, TypeOK, memVars, promise
<1>3. ASSUME NEW c \in Calls PROVE Create(c) => TypeOK'
  <2> SUFFICES ASSUME Create(c) PROVE TypeOK'
    OBVIOUS
  <2>1. [state |-> "active", gen |-> 0] \in Bodies
    BY BodyFacts DEF States
  <2> QED BY <2>1 DEF Create, TypeOK, lineVars, promise
<1>4. ASSUME NEW c \in Calls, Flush(c) PROVE TypeOK'
  <2>1. PICK s \in Follows(mem[c].state) :
          /\ mem' = [mem EXCEPT ![c] = [state |-> s, gen |-> mem[c].gen + 1]]
          /\ Submit(wire, c, Put(c, [state |-> s, gen |-> mem[c].gen + 1]))
    BY <1>4 DEF Flush
  <2>2. mem[c].state \in States /\ mem[c].gen \in Nat /\ s \in States
    BY <1>4, BodyFacts DEF Flush, TypeOK, Follows, States
  <2>3. [state |-> s, gen |-> mem[c].gen + 1] \in Bodies
    BY <2>2, BodyFacts
  <2>4. Put(c, [state |-> s, gen |-> mem[c].gen + 1]) \in Jobs
    BY <2>3, JobFacts
  <2>5. mem' \in [Calls -> Bodies]
    BY <2>1, <2>3 DEF TypeOK
  <2> QED BY <1>0, <1>4, <2>1, <2>4, <2>5, SubmitTypes DEF Flush, TypeOK
<1>5. ASSUME NEW c \in Calls, FlushAgain(c) PROVE TypeOK'
  <2>1. Put(c, mem[c]) \in Jobs
    BY JobFacts DEF TypeOK
  <2> QED BY <1>0, <1>5, <2>1, SubmitTypes DEF FlushAgain, TypeOK, memVars
<1>6. ASSUME NEW c \in Calls, NEW by \in Issuers, Forget(by, c) PROVE TypeOK'
  <2>1. Delete(c) \in Jobs /\ NoBody \in Bodies
    BY JobFacts, BodyFacts
  <2>2. mem' \in [Calls -> Bodies]
    BY <1>6, <2>1 DEF Forget, TypeOK
  <2> QED BY <1>0, <1>6, <2>1, <2>2, SubmitTypes DEF Forget, TypeOK
<1>7. ASSUME NEW c \in Calls, Load(c) PROVE TypeOK'
  <2>1. Command(c, Job("get", c, NoBody)) \in Commands
    BY <1>0, JobFacts, BodyFacts
  <2>2. wire' \in Seq(Commands) /\ Len(wire') = Len(wire) + 1
    BY <1>7, <2>1, AppendFacts DEF Load, Issue, TypeOK
  <2> QED BY <1>0, <1>7, <2>2 DEF Load, Issue, TypeOK, memVars, promise
<1>8. ASSUME NEW c \in Calls, ScanRead(c) PROVE TypeOK'
  BY <1>8 DEF ScanRead, TypeOK, memVars, lineVars, promise
<1>9. ASSUME NEW c \in Calls, Rehydrate(c) PROVE TypeOK'
  <2>1. Delete(c) \in Jobs
    BY JobFacts, BodyFacts
  <2>2. scan' \in [Calls -> (Bodies \cup {Unread, Over})]
    BY <1>9 DEF Rehydrate, TypeOK
  <2>3. CASE scan[c].state = "terminating"
    BY <1>0, <1>9, <2>1, <2>2, <2>3, SubmitTypes DEF Rehydrate, TypeOK
  <2>4. CASE scan[c].state # "terminating"
    <3>1. scan[c] \in Bodies
      BY <1>9 DEF Rehydrate, TypeOK
    <3>2. mem' \in [Calls -> Bodies] /\ clean' \subseteq Calls
      BY <1>9, <2>4, <3>1 DEF Rehydrate, TypeOK
    <3> QED BY <1>9, <2>2, <2>4, <3>2 DEF Rehydrate, TypeOK, promise
  <2> QED BY <2>3, <2>4
<1>10. CASE Execute
  <2> DEFINE job == wire[done + 1].job
  <2>1. done + 1 \in DOMAIN wire /\ job \in Jobs /\ wire[done + 1] \in Commands
    BY <1>0, <1>10, JobFacts DEF Execute, TypeOK
  <2>2. store' \in [Calls -> Bodies]
    BY <1>10, <2>1, JobFacts DEF Execute, TypeOK
  <2>3. Command(wire[done + 1].by, Job("get", job.call, store[job.call])) \in Commands
    BY <2>1, JobFacts DEF TypeOK
  <2>4. wire' \in Seq(Commands) /\ Len(wire') = Len(wire)
    <3>1. \/ wire' = wire
          \/ wire' = [wire EXCEPT ![done + 1] =
                        Command(wire[done + 1].by, Job("get", job.call, store[job.call]))]
      BY <1>10, <2>1 DEF Execute
    <3> HIDE DEF job
    <3> QED BY <1>0, <2>1, <2>3, <3>1 DEF TypeOK
  <2>5. done' \in 0..Len(wire') /\ seen' \in done'..Len(wire')
    BY <1>0, <1>10, <2>4 DEF Execute, TypeOK
  <2> QED BY <1>10, <2>2, <2>4, <2>5 DEF Execute, TypeOK, memVars, promise
<1>11. ASSUME HeadDone, wire # <<>>
       PROVE  /\ Tail(wire) \in Seq(Commands) /\ Len(Tail(wire)) = Len(wire) - 1
              /\ done' \in 0..Len(Tail(wire)) /\ seen' \in done'..Len(Tail(wire))
              /\ Head(wire).job \in Jobs
  <2>1. /\ Tail(wire) \in Seq(Commands) /\ Len(Tail(wire)) = Len(wire) - 1
        /\ Head(wire) \in Commands /\ Len(wire) # 0
    BY <1>11, TailFacts DEF TypeOK
  <2> QED BY <1>0, <1>11, <2>1, JobFacts DEF HeadDone, Less, TypeOK
<1>12. CASE Reply
  <2>1. wire # <<>>
    BY <1>12 DEF Reply, TypeOK
  <2> QED BY <1>11, <1>12, <2>1 DEF Reply, TypeOK, memVars, promise
<1>13. CASE LoadReply
  <2> DEFINE c == Head(wire).job.call
             body == Head(wire).job.body
  <2>1. wire # <<>> /\ HeadDone
    BY <1>13 DEF LoadReply, TypeOK
  <2>2. c \in Calls /\ body \in Bodies /\ Delete(c) \in Jobs
    BY <2>1, <1>11, JobFacts, BodyFacts
  <2>3. CASE body.state = "terminating"
    <3>1. Submit(Tail(wire), c, Delete(c)) /\ mem' = mem
      BY <1>13, <2>3 DEF LoadReply
    <3>. HIDE DEF c
    <3>a. Tail(wire) \in Seq(Commands) /\ c \in Issuers
      BY <1>0, <1>11, <2>1, <2>2
    <3>b. Len(wire') >= Len(Tail(wire)) /\ wire' \in Seq(Commands)
      BY <2>2, <3>1, <3>a, SubmitTypes
    <3>2. Len(wire') >= Len(Tail(wire)) /\ wire' \in Seq(Commands)
          /\ Len(Tail(wire)) \in Nat /\ Len(wire') \in Nat
      BY <3>a, <3>b
    <3>3. done' \in 0..Len(wire') /\ seen' \in done'..Len(wire')
      BY <1>11, <2>1, <3>2
    <3> QED BY <1>0, <1>11, <1>13, <2>1, <2>2, <3>1, <3>2, <3>3, SubmitTypes
            DEF LoadReply, TypeOK
  <2>4. CASE body.state # "terminating"
    BY <1>11, <1>13, <2>1, <2>2, <2>4 DEF LoadReply, TypeOK, promise
  <2> QED BY <2>3, <2>4
<1>14. CASE Refuse
  <2>1. wire # <<>> /\ HeadDone /\ Head(wire).job.call \in Calls
    BY <1>14, <1>11, JobFacts DEF Refuse
  <2> QED BY <1>11, <1>14, <2>1 DEF Refuse, TypeOK, memVars
<1>15. CASE Reconnect
  BY <1>0, <1>15 DEF Reconnect, TypeOK, memVars, promise
<1>16. CASE GiveUp
  BY <1>0, <1>16 DEF GiveUp, TypeOK, memVars
<1>17. CASE Crash
  <2>1. PICK n \in done..Len(wire) : store' = [c \in Calls |-> After(n, c)]
    BY <1>17 DEF Crash
  <2>2. ASSUME NEW c \in Calls PROVE After(n, c) \in Bodies
    <3>1. \A i \in done + 1..n : wire[i].job.body \in Bodies
      BY <1>0, JobFacts DEF TypeOK
    <3> QED BY <3>1 DEF After, TypeOK
  <2>3. store' \in [Calls -> Bodies]
    BY <2>1, <2>2
  <2>4. <<>> \in Seq(Jobs) /\ <<>> \in Seq(Commands) /\ Len(<<>>) = 0
    OBVIOUS
  <2>5. /\ mem' \in [Calls -> Bodies] /\ newest' \in [Calls -> Bodies]
        /\ scan' \in [Calls -> (Bodies \cup {Unread, Over})]
    BY <1>17, <2>3, BodyFacts DEF Crash
  <2> QED BY <1>17, <2>3, <2>4, <2>5, CallStoreAssumption
          DEF Crash, TypeOK, CallStoreAssumption
<1>18. CASE UNCHANGED vars
  BY <1>18 DEF vars, TypeOK, memVars, lineVars, promise
<1>19. ASSUME NEW c \in Calls, Remove(c) \/ Purge(c) PROVE TypeOK'
  BY <1>0, <1>6, <1>19 DEF Remove, Purge
<1> QED BY <1>1, <1>2, <1>3, <1>4, <1>5, <1>7, <1>8, <1>9, <1>10, <1>12,
           <1>13, <1>14, <1>15, <1>16, <1>17, <1>18, <1>19 DEF Next

(* TypeOK is invariant: the queue keeps to its bound and the connection    *)
(* never executes more than was issued (submit, runJob).                   *)
THEOREM TypeCorrect == Spec => []TypeOK
  BY TypeInit, TypeStep, PTL DEF Spec

-----------------------------------------------------------------------------
(* The last write of a call on the wire                                    *)

(* A command issued behind the others. *)
LEMMA LastAppend ==
  ASSUME NEW w \in Seq(Commands), NEW k \in Commands, NEW c
  PROVE  LET a == Append(w, k) IN
         /\ \A n \in 0..Len(w) : \A i \in 1..n :
              a[i] = w[i] /\ (LastWrite(a, n, c, i) <=> LastWrite(w, n, c, i))
         /\ k.job.call # c \/ ~Writes(k.job) =>
              /\ OnWire(a, c) <=> OnWire(w, c)
              /\ \A i \in DOMAIN a : LastWrite(a, Len(a), c, i) =>
                   /\ i \in DOMAIN w /\ LastWrite(w, Len(w), c, i)
                   /\ a[i] = w[i]
         /\ k.job.call = c /\ Writes(k.job) =>
              /\ OnWire(a, c)
              /\ \A i \in DOMAIN a : LastWrite(a, Len(a), c, i) => a[i] = k
<1> DEFINE a == Append(w, k)
<1>1. /\ a \in Seq(Commands) /\ Len(a) = Len(w) + 1 /\ Len(w) \in Nat
      /\ \A i \in 1..Len(w) : a[i] = w[i]
      /\ a[Len(w) + 1] = k
      /\ DOMAIN a = 1..Len(w) + 1 /\ DOMAIN w = 1..Len(w)
  BY AppendFacts
<1> HIDE DEF a
<1>2. ASSUME NEW n \in 0..Len(w), NEW i \in 1..n
      PROVE  a[i] = w[i] /\ (LastWrite(a, n, c, i) <=> LastWrite(w, n, c, i))
  BY <1>1 DEF LastWrite
<1>3. ASSUME k.job.call # c \/ ~Writes(k.job)
      PROVE  /\ OnWire(a, c) <=> OnWire(w, c)
             /\ \A i \in DOMAIN a : LastWrite(a, Len(a), c, i) =>
                  /\ i \in DOMAIN w /\ LastWrite(w, Len(w), c, i)
                  /\ a[i] = w[i]
  BY <1>1, <1>3 DEF LastWrite, OnWire
<1>4. ASSUME k.job.call = c /\ Writes(k.job)
      PROVE  /\ OnWire(a, c)
             /\ \A i \in DOMAIN a : LastWrite(a, Len(a), c, i) => a[i] = k
  BY <1>1, <1>4 DEF LastWrite, OnWire
<1> QED BY <1>2, <1>3, <1>4 DEF a

(* The command at the head replied to. *)
LEMMA LastTail ==
  ASSUME NEW w \in Seq(Commands), w # <<>>, NEW c
  PROVE  LET t == Tail(w) IN
         /\ \A n \in 1..Len(w) : \A i \in 1..n - 1 :
              /\ t[i] = w[i + 1]
              /\ LastWrite(t, n - 1, c, i) => LastWrite(w, n, c, i + 1)
         /\ OnWire(t, c) => OnWire(w, c)
         /\ OnWire(w, c) /\ ~OnWire(t, c) =>
              /\ w[1].job.call = c /\ Writes(w[1].job)
              /\ \A n \in 1..Len(w) : LastWrite(w, n, c, 1)
<1> DEFINE t == Tail(w)
<1>1. /\ Len(w) \in Nat \ {0} /\ Len(t) = Len(w) - 1
      /\ \A i \in 1..Len(w) - 1 : t[i] = w[i + 1]
      /\ DOMAIN t = 1..Len(w) - 1 /\ DOMAIN w = 1..Len(w)
  BY TailFacts
<1> HIDE DEF t
<1>2. ASSUME NEW n \in 1..Len(w), NEW i \in 1..n - 1, LastWrite(t, n - 1, c, i)
      PROVE  LastWrite(w, n, c, i + 1)
  <2>1. \A j \in i + 2..n : j - 1 \in i + 1..n - 1 /\ w[j] = t[j - 1]
    BY <1>1
  <2>2. t[i] = w[i + 1]
    BY <1>1
  <2> QED BY <1>2, <2>1, <2>2 DEF LastWrite
<1>3. \A i \in DOMAIN t : i + 1 \in DOMAIN w /\ t[i] = w[i + 1]
  BY <1>1
<1>4. OnWire(t, c) => OnWire(w, c)
  BY <1>3 DEF OnWire
<1>5. ASSUME OnWire(w, c), ~OnWire(t, c)
      PROVE  /\ w[1].job.call = c /\ Writes(w[1].job)
             /\ \A n \in 1..Len(w) : LastWrite(w, n, c, 1)
  <2>1. \A j \in 2..Len(w) : j - 1 \in DOMAIN t /\ t[j - 1] = w[j]
    BY <1>1
  <2>2. \A j \in 2..Len(w) : ~(w[j].job.call = c /\ Writes(w[j].job))
    BY <1>5, <2>1 DEF OnWire
  <2>3. PICK i \in DOMAIN w : w[i].job.call = c /\ Writes(w[i].job)
    BY <1>5 DEF OnWire
  <2>4. i = 1
    BY <1>1, <2>2, <2>3
  <2> QED BY <1>1, <2>2, <2>3, <2>4 DEF LastWrite
<1> QED BY <1>1, <1>2, <1>4, <1>5 DEF t

(* Two wires with the same writes. *)
LEMMA SameWrites ==
  ASSUME NEW v \in Seq(Commands), NEW w \in Seq(Commands), Len(v) = Len(w),
         \A i \in 1..Len(w) :
           \/ v[i].job = w[i].job
           \/ ~Writes(v[i].job) /\ ~Writes(w[i].job),
         NEW c
  PROVE  /\ OnWire(v, c) <=> OnWire(w, c)
         /\ \A n \in 0..Len(w) : \A i \in 1..n :
              LastWrite(v, n, c, i) =>
                LastWrite(w, n, c, i) /\ v[i].job = w[i].job
<1>1. DOMAIN v = 1..Len(w) /\ DOMAIN w = 1..Len(w) /\ Len(w) \in Nat
  OBVIOUS
<1>2. OnWire(v, c) <=> OnWire(w, c)
  BY <1>1 DEF OnWire
<1>3. ASSUME NEW n \in 0..Len(w), NEW i \in 1..n, LastWrite(v, n, c, i)
      PROVE  LastWrite(w, n, c, i) /\ v[i].job = w[i].job
  <2>1. i \in 1..Len(w) /\ \A j \in i + 1..n : j \in 1..Len(w)
    BY <1>1
  <2> QED BY <1>3, <2>1 DEF LastWrite
<1> QED BY <1>2, <1>3

-----------------------------------------------------------------------------
(* The line of writes                                                      *)

QueueWrites == \A i \in DOMAIN queue : Writes(queue[i])

(* A submission puts the newest write last, or marks the call. *)
LEMMA SubmitLine ==
  ASSUME TypeOK, QueueWrites, NEW w \in Seq(Commands), NewestIsLast(w),
         NEW by \in Issuers, NEW job \in Jobs, Writes(job),
         Submit(w, by, job), store' = store
  PROVE  NewestIsLast(wire)' /\ QueueWrites'
<1>1. /\ job.call \in Calls /\ Command(by, job) \in Commands
      /\ Command(by, job).job = job
      /\ \A c \in Calls : c # job.call => newest'[c] = newest[c]
      /\ newest'[job.call] = job.body
  BY JobFacts DEF Submit, TypeOK
<1>2. CASE Len(queue) < QueueMax
  <2>1. queue' = Append(queue, job) /\ wire' = w /\ slip' = slip \ {job.call}
    BY <1>2 DEF Submit
  <2>2. /\ queue \in Seq(Jobs) /\ Len(queue) \in Nat
        /\ Len(queue') = Len(queue) + 1
        /\ \A i \in 1..Len(queue) : queue'[i] = queue[i]
        /\ queue'[Len(queue) + 1] = job
        /\ DOMAIN queue' = 1..Len(queue) + 1 /\ DOMAIN queue = 1..Len(queue)
    BY <2>1, AppendFacts DEF TypeOK
  <2>3. QueueWrites'
    BY <2>2 DEF QueueWrites
  <2>4. ASSUME NEW c \in Calls, c \notin slip'
        PROVE  /\ \A i \in DOMAIN queue' :
                    queue'[i].call = c /\ (\A j \in i + 1..Len(queue') : queue'[j].call # c)
                      => queue'[i].body = newest'[c]
               /\ ~Queued(c)' => \A i \in DOMAIN wire' :
                    LastWrite(wire', Len(wire'), c, i) => wire'[i].job.body = newest'[c]
               /\ ~Queued(c)' /\ ~OnWire(wire', c) => store'[c] = newest'[c]
    <3>1. CASE c = job.call
      <4>1. Queued(c)'
        BY <2>2, <3>1 DEF Queued
      <4>2. ASSUME NEW i \in DOMAIN queue',
                   \A j \in i + 1..Len(queue') : queue'[j].call # c
            PROVE  queue'[i].body = newest'[c]
        <5>1. i = Len(queue) + 1
          BY <2>2, <3>1, <4>2
        <5> QED BY <1>1, <2>2, <3>1, <5>1
      <4> QED BY <4>1, <4>2
    <3>2. CASE c # job.call
      <4>1. c \in Calls \ slip /\ newest'[c] = newest[c]
        BY <1>1, <2>1, <2>4, <3>2
      <4>2. Queued(c)' <=> Queued(c)
        BY <2>2, <3>2 DEF Queued
      <4>3. ASSUME NEW i \in DOMAIN queue', queue'[i].call = c,
                   \A j \in i + 1..Len(queue') : queue'[j].call # c
            PROVE  queue'[i].body = newest'[c]
        <5>1. i \in DOMAIN queue /\ queue'[i] = queue[i]
          BY <2>2, <3>2, <4>3
        <5>2. \A j \in i + 1..Len(queue) : queue[j].call # c
          BY <2>2, <4>3, <5>1
        <5> QED BY <4>1, <4>3, <5>1, <5>2 DEF NewestIsLast
      <4> QED BY <2>1, <4>1, <4>2, <4>3 DEF NewestIsLast
    <3> QED BY <3>1, <3>2
  <2> QED BY <2>3, <2>4 DEF NewestIsLast
<1>3. CASE ~(Len(queue) < QueueMax)
  <2>1. /\ queue' = queue /\ wire' = Append(w, Command(by, job))
        /\ slip' = IF Queued(job.call) THEN slip \cup {job.call}
                                       ELSE slip \ {job.call}
    BY <1>3 DEF Submit, Issue
  <2>2. ASSUME NEW c \in Calls, c \notin slip'
        PROVE  /\ \A i \in DOMAIN queue' :
                    queue'[i].call = c /\ (\A j \in i + 1..Len(queue') : queue'[j].call # c)
                      => queue'[i].body = newest'[c]
               /\ ~Queued(c)' => \A i \in DOMAIN wire' :
                    LastWrite(wire', Len(wire'), c, i) => wire'[i].job.body = newest'[c]
               /\ ~Queued(c)' /\ ~OnWire(wire', c) => store'[c] = newest'[c]
    <3>0. Queued(c)' <=> Queued(c)
      BY <2>1 DEF Queued
    <3>1. CASE c = job.call
      <4>1. ~Queued(c)
        BY <2>1, <2>2, <3>1
      <4>2. /\ OnWire(wire', c)
            /\ \A i \in DOMAIN wire' :
                 LastWrite(wire', Len(wire'), c, i) => wire'[i] = Command(by, job)
        BY <1>1, <2>1, <3>1, LastAppend
      <4>3. \A i \in DOMAIN queue' : queue'[i].call # c
        BY <2>1, <4>1 DEF Queued
      <4> QED BY <1>1, <3>1, <4>2, <4>3
    <3>2. CASE c # job.call
      <4>1. c \in Calls \ slip /\ newest'[c] = newest[c]
        BY <1>1, <2>1, <2>2, <3>2
      <4>2. /\ OnWire(wire', c) <=> OnWire(w, c)
            /\ \A i \in DOMAIN wire' : LastWrite(wire', Len(wire'), c, i) =>
                 i \in DOMAIN w /\ LastWrite(w, Len(w), c, i) /\ wire'[i] = w[i]
        <5> DEFINE k == Command(by, job)
        <5>1. k \in Commands /\ k.job.call # c
          BY <1>1, <3>2
        <5>2. wire' = Append(w, k)
          BY <2>1
        <5> HIDE DEF k
        <5> QED BY <5>1, <5>2, LastAppend
      <4> QED BY <2>1, <3>0, <4>1, <4>2 DEF NewestIsLast
    <3> QED BY <3>1, <3>2
  <2>3. QueueWrites'
    BY <2>1 DEF QueueWrites
  <2> QED BY <2>2, <2>3 DEF NewestIsLast
<1> QED BY <1>2, <1>3

(* A command issued behind those of w does not change what of them was     *)
(* executed.                                                               *)
LEMMA AppendFollows ==
  ASSUME NEW w \in Seq(Commands), NEW k \in Commands, NEW n \in 0..Len(w),
         StoreFollows(w, n), store' = store,
         wire' = w \/ wire' = Append(w, k)
  PROVE  \A c \in Calls : \A i \in 1..n :
           LastWrite(wire', n, c, i) => store'[c] = wire'[i].job.body
<1> SUFFICES ASSUME NEW c \in Calls, NEW i \in 1..n, LastWrite(wire', n, c, i)
             PROVE  store[c] = wire'[i].job.body
  OBVIOUS
<1>1. LastWrite(w, n, c, i) /\ wire'[i] = w[i]
  <2>1. CASE wire' = w
    BY <2>1
  <2>2. CASE wire' = Append(w, k)
    <3>1. LastWrite(Append(w, k), n, c, i)
      BY <2>2
    <3>2. Append(w, k)[i] = w[i] /\ LastWrite(w, n, c, i)
      BY <3>1, LastAppend
    <3> QED BY <2>2, <3>2
  <2> QED BY <2>1, <2>2
<1> QED BY <1>1 DEF StoreFollows

(* The head replied to, when it was executed or was no write. *)
LEMMA TailLine ==
  ASSUME TypeOK, wire # <<>>, done > 0 \/ ~Writes(Head(wire).job),
         StoreFollows(wire, done), NewestIsLast(wire)
  PROVE  /\ NewestIsLast(Tail(wire))
         /\ StoreFollows(Tail(wire), Less(done))
<1> DEFINE t == Tail(wire)
<1>1. /\ t \in Seq(Commands) /\ wire \in Seq(Commands)
      /\ Len(wire) \in Nat \ {0} /\ Len(t) = Len(wire) - 1
      /\ Head(wire) = wire[1]
      /\ DOMAIN t = 1..Len(wire) - 1 /\ DOMAIN wire = 1..Len(wire)
      /\ done \in 0..Len(wire)
  BY TailFacts DEF TypeOK
<1>2. ASSUME NEW c \in Calls \ slip, ~Queued(c)
      PROVE  /\ \A i \in DOMAIN t : LastWrite(t, Len(t), c, i) => t[i].job.body = newest[c]
             /\ ~OnWire(t, c) => store[c] = newest[c]
  <2>1. ASSUME NEW i \in DOMAIN t, LastWrite(t, Len(t), c, i)
        PROVE  t[i].job.body = newest[c]
    <3>1. t[i] = wire[i + 1] /\ LastWrite(wire, Len(wire), c, i + 1)
          /\ i + 1 \in DOMAIN wire
      BY <1>1, <2>1, LastTail
    <3> QED BY <1>2, <3>1 DEF NewestIsLast
  <2>2. ASSUME ~OnWire(t, c) PROVE store[c] = newest[c]
    <3>1. CASE ~OnWire(wire, c)
      BY <1>2, <3>1 DEF NewestIsLast
    <3>2. CASE OnWire(wire, c)
      <4>1. /\ Writes(wire[1].job)
            /\ \A n \in 1..Len(wire) : LastWrite(wire, n, c, 1)
        BY <1>1, <2>2, <3>2, LastTail
      <4>2. done \in 1..Len(wire)
        BY <1>1, <4>1
      <4>3. store[c] = wire[1].job.body
        BY <4>1, <4>2 DEF StoreFollows
      <4>4. wire[1].job.body = newest[c]
        BY <1>1, <1>2, <4>1 DEF NewestIsLast
      <4> QED BY <4>3, <4>4
    <3> QED BY <3>1, <3>2
  <2> QED BY <2>1, <2>2
<1>3. NewestIsLast(t)
  BY <1>2 DEF NewestIsLast
<1>4. ASSUME NEW c \in Calls, NEW i \in 1..Less(done), LastWrite(t, Less(done), c, i)
      PROVE  store[c] = t[i].job.body
  <2>1. done \in 1..Len(wire) /\ Less(done) = done - 1
    BY <1>1, <1>4 DEF Less
  <2>2. t[i] = wire[i + 1] /\ LastWrite(wire, done, c, i + 1) /\ i + 1 \in 1..done
    BY <1>1, <1>4, <2>1, LastTail
  <2> QED BY <2>2 DEF StoreFollows
<1> QED BY <1>3, <1>4 DEF StoreFollows

(* The initial line is empty. *)
LEMMA LineInit == Init => LineInv
  BY DEF Init, LineInv, StoreFollows, NewestIsLast, Queued, OnWire

(* Every step keeps the line. *)
LEMMA LineStep == TypeOK /\ LineInv /\ [Next]_vars => LineInv'
<1> SUFFICES ASSUME TypeOK, LineInv, [Next]_vars PROVE LineInv'
  OBVIOUS
<1>0. /\ QueueWrites /\ StoreFollows(wire, done) /\ NewestIsLast(wire)
      /\ wire \in Seq(Commands) /\ Len(wire) \in Nat /\ done \in 0..Len(wire)
      /\ queue \in Seq(Jobs)
      /\ Calls \subseteq Issuers /\ Boot \in Issuers /\ Sweep \in Issuers
  BY DEF LineInv, QueueWrites, TypeOK, Issuers
(* A submission behind the wire as it is. *)
<1>1. ASSUME NEW by \in Issuers, NEW job \in Jobs, Writes(job),
             Submit(wire, by, job), store' = store, done' = done
      PROVE  LineInv'
  <2>1. Command(by, job) \in Commands
    BY JobFacts
  <2>2. wire' = wire \/ wire' = Append(wire, Command(by, job))
    BY <1>1 DEF Submit, Issue
  <2>3. StoreFollows(wire, done)'
    BY <1>0, <1>1, <2>1, <2>2, AppendFollows DEF StoreFollows
  <2> QED BY <1>0, <1>1, <2>3, SubmitLine DEF LineInv, QueueWrites
(* Nothing of the line changes. *)
<1>2. ASSUME UNCHANGED <<queue, wire, done, store, newest, slip>> PROVE LineInv'
  BY <1>2 DEF LineInv, StoreFollows, NewestIsLast, Queued, OnWire, LastWrite
(* The writes on the wire stay what they are. *)
<1>3. ASSUME wire' \in Seq(Commands), Len(wire') = Len(wire),
             \A i \in 1..Len(wire) :
                \/ wire'[i].job = wire[i].job
                \/ ~Writes(wire'[i].job) /\ ~Writes(wire[i].job),
             UNCHANGED <<queue, newest, slip>>
      PROVE  /\ store' = store => NewestIsLast(wire)'
             /\ \A n \in 0..Len(wire), c \in Calls : \A i \in 1..n :
                  LastWrite(wire', n, c, i) =>
                    LastWrite(wire, n, c, i) /\ wire'[i].job = wire[i].job
             /\ \A c \in Calls : OnWire(wire', c) <=> OnWire(wire, c)
  <2>1. /\ \A n \in 0..Len(wire), c \in Calls : \A i \in 1..n :
             LastWrite(wire', n, c, i) =>
               LastWrite(wire, n, c, i) /\ wire'[i].job = wire[i].job
        /\ \A c \in Calls : OnWire(wire', c) <=> OnWire(wire, c)
    <3>1. ASSUME NEW c \in Calls
          PROVE  /\ OnWire(wire', c) <=> OnWire(wire, c)
                 /\ \A n \in 0..Len(wire) : \A i \in 1..n :
                      LastWrite(wire', n, c, i) =>
                        LastWrite(wire, n, c, i) /\ wire'[i].job = wire[i].job
      BY <1>0, <1>3, SameWrites
    <3> QED BY <3>1
  <2>2. DOMAIN wire' = 1..Len(wire) /\ DOMAIN wire = 1..Len(wire)
    BY <1>0, <1>3
  <2>3. ASSUME store' = store PROVE NewestIsLast(wire)'
    <3>1. \A c \in Calls : Queued(c)' <=> Queued(c)
      BY <1>3 DEF Queued
    <3>2. ASSUME NEW c \in Calls \ slip, ~Queued(c), NEW i \in DOMAIN wire',
                 LastWrite(wire', Len(wire'), c, i)
          PROVE  wire'[i].job.body = newest[c]
      BY <1>0, <1>3, <2>1, <2>2, <3>2 DEF NewestIsLast
    <3> QED BY <1>0, <1>3, <2>1, <2>3, <3>1, <3>2 DEF NewestIsLast
  <2> QED BY <2>1, <2>3
<1>4. ASSUME NEW d \in Drainers, Take(d) PROVE LineInv'
  <2> DEFINE k == Command(d, Head(queue))
  <2>1. /\ Head(queue) \in Jobs /\ Head(queue) = queue[1] /\ Writes(queue[1])
        /\ Len(queue) \in Nat \ {0} /\ Len(queue') = Len(queue) - 1
        /\ \A i \in 1..Len(queue) - 1 : queue'[i] = queue[i + 1]
        /\ DOMAIN queue' = 1..Len(queue) - 1 /\ DOMAIN queue = 1..Len(queue)
    BY <1>0, <1>4, TailFacts DEF Take, QueueWrites
  <2>2. k \in Commands /\ k.job = queue[1]
    BY <2>1, JobFacts DEF Issuers
  <2>3. wire' = Append(wire, k) /\ UNCHANGED <<done, store, newest, slip>>
    BY <1>4 DEF Take, Issue, promise
  <2> HIDE DEF k
  <2>4. StoreFollows(wire, done)'
    BY <1>0, <2>2, <2>3, AppendFollows DEF StoreFollows
  <2>5. QueueWrites'
    <3>1. \A i \in DOMAIN queue' : i + 1 \in DOMAIN queue /\ queue'[i] = queue[i + 1]
      BY <2>1
    <3> QED BY <1>0, <3>1 DEF QueueWrites
  <2>6. ASSUME NEW c \in Calls \ slip, NEW i \in DOMAIN queue', queue'[i].call = c,
               \A j \in i + 1..Len(queue') : queue'[j].call # c
        PROVE  queue'[i].body = newest[c]
    <3>1. queue'[i] = queue[i + 1] /\ i + 1 \in DOMAIN queue
      BY <2>1, <2>6
    <3>3. ASSUME NEW j \in (i + 1) + 1..Len(queue) PROVE queue[j].call # c
      <4>1. j - 1 \in i + 1..Len(queue') /\ queue[j] = queue'[j - 1]
        BY <2>1, <2>6
      <4> QED BY <2>6, <4>1
    <3> QED BY <1>0, <2>6, <3>1, <3>3 DEF NewestIsLast
  <2>7. ASSUME NEW c \in Calls \ slip, ~Queued(c)'
        PROVE  /\ \A i \in DOMAIN wire' :
                    LastWrite(wire', Len(wire'), c, i) => wire'[i].job.body = newest[c]
               /\ ~OnWire(wire', c) => store[c] = newest[c]
    <3>1. \A j \in 2..Len(queue) : j - 1 \in DOMAIN queue' /\ queue'[j - 1] = queue[j]
      BY <2>1
    <3>2. \A j \in 2..Len(queue) : queue[j].call # c
      BY <2>7, <3>1 DEF Queued
    <3>3. CASE queue[1].call = c
      <4>1. queue[1].body = newest[c]
        BY <1>0, <2>1, <3>2, <3>3 DEF NewestIsLast
      <4>2. /\ OnWire(wire', c)
            /\ \A i \in DOMAIN wire' : LastWrite(wire', Len(wire'), c, i) => wire'[i] = k
        <5>1. k.job.call = c /\ Writes(k.job)
          BY <2>1, <2>2, <3>3
        <5> QED BY <1>0, <2>2, <2>3, <5>1, LastAppend
      <4> QED BY <2>2, <4>1, <4>2
    <3>4. CASE queue[1].call # c
      <4>1. ~Queued(c)
        BY <2>1, <3>2, <3>4 DEF Queued
      <4>2. /\ OnWire(wire', c) <=> OnWire(wire, c)
            /\ \A i \in DOMAIN wire' : LastWrite(wire', Len(wire'), c, i) =>
                 i \in DOMAIN wire /\ LastWrite(wire, Len(wire), c, i) /\ wire'[i] = wire[i]
        <5>1. k.job.call # c
          BY <2>2, <3>4
        <5>2. /\ OnWire(Append(wire, k), c) <=> OnWire(wire, c)
              /\ \A i \in DOMAIN Append(wire, k) :
                   LastWrite(Append(wire, k), Len(Append(wire, k)), c, i) =>
                     /\ i \in DOMAIN wire /\ LastWrite(wire, Len(wire), c, i)
                     /\ Append(wire, k)[i] = wire[i]
          BY <1>0, <2>2, <5>1, LastAppend
        <5> QED BY <2>3, <5>2
      <4> QED BY <1>0, <4>1, <4>2 DEF NewestIsLast
    <3> QED BY <3>3, <3>4
  <2>8. NewestIsLast(wire)'
    BY <2>3, <2>6, <2>7 DEF NewestIsLast
  <2> QED BY <2>4, <2>5, <2>8 DEF LineInv, QueueWrites
<1>5. ASSUME NEW by \in Calls \cup {Boot, Sweep}, Timeout(by) PROVE LineInv'
  <2>1. PICK i \in DOMAIN wire : wire' = [wire EXCEPT ![i] = Command(Nobody, @.job)]
    BY <1>5 DEF Timeout
  <2>2. /\ DOMAIN wire = 1..Len(wire) /\ wire[i] \in Commands
        /\ Command(Nobody, wire[i].job) \in Commands
        /\ Command(Nobody, wire[i].job).job = wire[i].job
    <3>1. DOMAIN wire = 1..Len(wire) /\ wire[i] \in Commands
      BY <1>0
    <3>2. wire[i].job \in Jobs
      BY <3>1, JobFacts
    <3> QED BY <3>1, <3>2, JobFacts
  <2>3. /\ wire' \in Seq(Commands) /\ Len(wire') = Len(wire)
        /\ \A j \in 1..Len(wire) : wire'[j].job = wire[j].job
    BY <1>0, <2>1, <2>2
  <2>4. UNCHANGED <<queue, newest, slip, done, store>>
    BY <1>5 DEF Timeout, promise
  <2>5. NewestIsLast(wire)' /\ StoreFollows(wire, done)'
    BY <1>0, <1>3, <2>3, <2>4 DEF StoreFollows
  <2> QED BY <1>0, <2>4, <2>5 DEF LineInv, QueueWrites
<1>6. ASSUME NEW c \in Calls, Create(c) \/ ScanRead(c) PROVE LineInv'
  BY <1>2, <1>6 DEF Create, ScanRead, lineVars, promise
<1>7. ASSUME NEW c \in Calls, Flush(c) PROVE LineInv'
  <2>1. PICK s \in Follows(mem[c].state) :
          Submit(wire, c, Put(c, [state |-> s, gen |-> mem[c].gen + 1]))
    BY <1>7 DEF Flush
  <2>2. mem[c].state \in States /\ mem[c].gen \in Nat /\ s \in States
    BY <1>7, BodyFacts DEF Flush, TypeOK, Follows, States
  <2>3. [state |-> s, gen |-> mem[c].gen + 1] \in Bodies
    BY <2>2, BodyFacts
  <2> QED BY <1>0, <1>1, <1>7, <2>1, <2>3, JobFacts DEF Flush
<1>8. ASSUME NEW c \in Calls, FlushAgain(c) PROVE LineInv'
  BY <1>0, <1>1, <1>8, JobFacts DEF FlushAgain, TypeOK
<1>9. ASSUME NEW c \in Calls, Remove(c) \/ Purge(c) PROVE LineInv'
  BY <1>0, <1>1, <1>9, JobFacts, BodyFacts DEF Remove, Purge, Forget
<1>10. ASSUME NEW c \in Calls, Load(c) PROVE LineInv'
  <2> DEFINE k == Command(c, Job("get", c, NoBody))
  <2>1. k \in Commands /\ ~Writes(k.job)
    BY <1>0, JobFacts, BodyFacts
  <2>2. wire' = Append(wire, k) /\ UNCHANGED <<queue, done, store, newest, slip>>
    BY <1>10 DEF Load, Issue, promise
  <2> HIDE DEF k
  <2>3. StoreFollows(wire, done)'
    BY <1>0, <2>1, <2>2, AppendFollows DEF StoreFollows
  <2>4. \A x \in Calls : Queued(x)' <=> Queued(x)
    BY <2>2 DEF Queued
  <2>5. ASSUME NEW x \in Calls
        PROVE  /\ OnWire(wire', x) <=> OnWire(wire, x)
               /\ \A i \in DOMAIN wire' : LastWrite(wire', Len(wire'), x, i) =>
                    i \in DOMAIN wire /\ LastWrite(wire, Len(wire), x, i) /\ wire'[i] = wire[i]
    BY <1>0, <2>1, <2>2, LastAppend
  <2>6. NewestIsLast(wire)'
    BY <1>0, <2>2, <2>4, <2>5 DEF NewestIsLast
  <2> QED BY <1>0, <2>2, <2>3, <2>6 DEF LineInv, QueueWrites
<1>11. ASSUME NEW c \in Calls, Rehydrate(c) PROVE LineInv'
  <2>1. CASE scan[c].state = "terminating"
    BY <1>0, <1>1, <1>11, <2>1, JobFacts, BodyFacts DEF Rehydrate
  <2>2. CASE scan[c].state # "terminating"
    BY <1>2, <1>11, <2>2 DEF Rehydrate, promise
  <2> QED BY <2>1, <2>2
<1>12. CASE Execute
  <2> DEFINE job == wire[done + 1].job
             got == Command(wire[done + 1].by, Job("get", job.call, store[job.call]))
  <2>1. /\ done + 1 \in 1..Len(wire) /\ DOMAIN wire = 1..Len(wire) /\ done' = done + 1
        /\ UNCHANGED <<queue, newest, slip>>
    BY <1>0, <1>12 DEF Execute, promise
  <2>2. wire[done + 1] \in Commands /\ job \in Jobs
        /\ job.call \in Calls /\ job.body \in Bodies
    BY <1>0, <2>1, JobFacts
  <2>3. CASE Writes(job)
    <3>1. wire' = wire /\ store' = [store EXCEPT ![job.call] = job.body]
      BY <1>12, <2>3 DEF Execute
    <3>2. ASSUME NEW c \in Calls, NEW i \in 1..done + 1, LastWrite(wire, done + 1, c, i)
          PROVE  store'[c] = wire[i].job.body
      <4>1. CASE c = job.call
        <5>1. i = done + 1
          BY <2>1, <2>3, <3>2, <4>1 DEF LastWrite
        <5> QED BY <2>2, <3>1, <4>1, <5>1 DEF TypeOK
      <4>2. CASE c # job.call
        <5>1. i \in 1..done /\ LastWrite(wire, done, c, i)
          <6>1. i # done + 1
            BY <3>2, <4>2 DEF LastWrite
          <6>2. i \in 1..done
            BY <1>0, <6>1
          <6> QED BY <1>0, <3>2, <6>2 DEF LastWrite
        <5>2. store'[c] = store[c]
          BY <3>1, <4>2 DEF TypeOK
        <5> QED BY <1>0, <5>1, <5>2 DEF StoreFollows
      <4> QED BY <4>1, <4>2
    <3>3. OnWire(wire, job.call)
      BY <2>1, <2>3 DEF OnWire
    <3>4. \A c \in Calls : Queued(c)' <=> Queued(c)
      BY <2>1 DEF Queued
    <3>5. \A c \in Calls : ~OnWire(wire, c) => store'[c] = store[c]
      BY <3>1, <3>3 DEF TypeOK
    <3>6. NewestIsLast(wire)'
      BY <1>0, <2>1, <3>1, <3>4, <3>5 DEF NewestIsLast
    <3> QED BY <1>0, <2>1, <3>1, <3>2, <3>6 DEF LineInv, StoreFollows, QueueWrites
  <2>4. CASE ~Writes(job)
    <3>1. wire' = [wire EXCEPT ![done + 1] = got] /\ store' = store
      BY <1>12, <2>4 DEF Execute
    <3>2. got \in Commands /\ ~Writes(got.job)
      <4>1. /\ store[job.call] \in Bodies
            /\ wire[done + 1].by \in Issuers \cup {Nobody}
        BY <2>2, JobFacts DEF TypeOK
      <4> HIDE DEF job
      <4> QED BY <2>2, <4>1, JobFacts
    <3> HIDE DEF got
    <3>3. wire' \in Seq(Commands) /\ Len(wire') = Len(wire)
      BY <1>0, <2>1, <3>1, <3>2
    <3>4. \A i \in 1..Len(wire) :
            \/ wire'[i].job = wire[i].job
            \/ ~Writes(wire'[i].job) /\ ~Writes(wire[i].job)
      BY <2>1, <2>4, <3>1, <3>2
    <3>5. /\ NewestIsLast(wire)'
          /\ \A n \in 0..Len(wire), c \in Calls : \A i \in 1..n :
               LastWrite(wire', n, c, i) =>
                 LastWrite(wire, n, c, i) /\ wire'[i].job = wire[i].job
      BY <1>3, <2>1, <3>1, <3>3, <3>4
    <3>6. ASSUME NEW c \in Calls, NEW i \in 1..done + 1, LastWrite(wire', done + 1, c, i)
          PROVE  store[c] = wire'[i].job.body
      <4>1. LastWrite(wire, done + 1, c, i) /\ wire'[i].job = wire[i].job
        BY <2>1, <3>5, <3>6
      <4>2. i \in 1..done /\ LastWrite(wire, done, c, i)
        BY <1>0, <2>1, <2>4, <4>1 DEF LastWrite
      <4> QED BY <1>0, <4>1, <4>2 DEF StoreFollows
    <3> QED BY <1>0, <2>1, <3>1, <3>5, <3>6 DEF LineInv, StoreFollows, QueueWrites
  <2> QED BY <2>3, <2>4
<1>13. CASE Reply
  <2>1. wire # <<>> /\ done > 0
    BY <1>0, <1>13 DEF Reply
  <2>2. NewestIsLast(Tail(wire)) /\ StoreFollows(Tail(wire), Less(done))
    BY <1>0, <2>1, TailLine
  <2>3. wire' = Tail(wire) /\ done' = Less(done) /\ UNCHANGED <<queue, store, newest, slip>>
    BY <1>13 DEF Reply, HeadDone, promise
  <2>4. StoreFollows(wire, done)'
    BY <2>2, <2>3 DEF StoreFollows
  <2>5. NewestIsLast(wire)'
    BY <2>2, <2>3 DEF NewestIsLast, Queued
  <2> QED BY <1>0, <2>3, <2>4, <2>5 DEF LineInv, QueueWrites
<1>14. CASE LoadReply
  <2> DEFINE c == Head(wire).job.call
             t == Tail(wire)
  <2>1. wire # <<>> /\ done > 0 /\ done' = Less(done) /\ store' = store
    BY <1>0, <1>14 DEF LoadReply, HeadDone
  <2>2. NewestIsLast(t) /\ StoreFollows(t, Less(done))
    BY <1>0, <2>1, TailLine
  <2>3. /\ t \in Seq(Commands) /\ Len(t) = Len(wire) - 1
        /\ Head(wire) \in Commands /\ Less(done) \in 0..Len(t)
    BY <1>0, <2>1, TailFacts DEF Less
  <2>4. c \in Calls /\ Delete(c) \in Jobs /\ Writes(Delete(c))
        /\ Command(c, Delete(c)) \in Commands
    BY <1>0, <2>3, JobFacts, BodyFacts
  <2>5. CASE Head(wire).job.body.state = "terminating"
    <3>1. Submit(t, c, Delete(c))
      BY <1>14, <2>5 DEF LoadReply
    <3>2. wire' = t \/ wire' = Append(t, Command(c, Delete(c)))
      BY <3>1 DEF Submit, Issue
    <3> HIDE DEF c, t
    <3>3. StoreFollows(wire, done)'
      BY <2>1, <2>2, <2>3, <2>4, <3>2, AppendFollows DEF StoreFollows
    <3>4. NewestIsLast(wire)' /\ QueueWrites'
      BY <1>0, <2>1, <2>2, <2>3, <2>4, <3>1, SubmitLine
    <3> QED BY <3>3, <3>4 DEF LineInv, QueueWrites
  <2>6. CASE Head(wire).job.body.state # "terminating"
    <3>1. wire' = t /\ UNCHANGED <<queue, newest, slip>>
      BY <1>14, <2>6 DEF LoadReply, promise
    <3> HIDE DEF t
    <3>2. StoreFollows(wire, done)'
      BY <2>1, <2>2, <3>1 DEF StoreFollows
    <3>3. NewestIsLast(wire)'
      BY <2>1, <2>2, <3>1 DEF NewestIsLast, Queued
    <3> QED BY <1>0, <3>1, <3>2, <3>3 DEF LineInv, QueueWrites
  <2> QED BY <2>5, <2>6
<1>15. CASE Refuse
  <2> DEFINE job == Head(wire).job
             t == Tail(wire)
  <2>1. /\ wire # <<>> /\ done = 0 /\ done' = 0 /\ wire' = t
        /\ UNCHANGED <<queue, store, newest>>
        /\ slip' = IF Writes(job) /\ ~Queued(job.call) /\ ~OnWire(t, job.call)
                   THEN slip \cup {job.call} ELSE slip
    BY <1>15 DEF Refuse, HeadDone, Less
  <2>2. /\ t \in Seq(Commands) /\ Len(t) = Len(wire) - 1 /\ Len(wire) \in Nat \ {0}
        /\ Head(wire) = wire[1]
        /\ DOMAIN t = 1..Len(wire) - 1 /\ DOMAIN wire = 1..Len(wire)
    BY <1>0, <2>1, TailFacts
  <2>3. ASSUME NEW c \in Calls \ slip', ~Queued(c)
        PROVE  /\ \A i \in DOMAIN t : LastWrite(t, Len(t), c, i) => t[i].job.body = newest[c]
               /\ ~OnWire(t, c) => store[c] = newest[c]
    <3>0. c \in Calls \ slip
      BY <2>1, <2>3
    <3>1. ASSUME NEW i \in DOMAIN t, LastWrite(t, Len(t), c, i)
          PROVE  t[i].job.body = newest[c]
      <4>1. t[i] = wire[i + 1] /\ LastWrite(wire, Len(wire), c, i + 1) /\ i + 1 \in DOMAIN wire
        <5>1. i \in 1..Len(wire) - 1 /\ Len(wire) \in 1..Len(wire)
              /\ LastWrite(t, Len(wire) - 1, c, i)
          BY <2>2, <3>1
        <5>2. t[i] = wire[i + 1] /\ LastWrite(wire, Len(wire), c, i + 1)
          BY <1>0, <2>1, <5>1, LastTail
        <5> QED BY <2>2, <5>1, <5>2
      <4> QED BY <1>0, <2>3, <3>0, <4>1 DEF NewestIsLast
    <3>2. ASSUME ~OnWire(t, c) PROVE store[c] = newest[c]
      <4>1. ~(job.call = c /\ Writes(job))
        BY <2>1, <2>3, <3>2
      <4>2. ~OnWire(wire, c)
        BY <1>0, <2>1, <2>2, <3>2, <4>1, LastTail
      <4> QED BY <1>0, <2>3, <3>0, <4>2 DEF NewestIsLast
    <3> QED BY <3>1, <3>2
  <2>4. slip \subseteq slip'
    BY <2>1
  <2>5. NewestIsLast(wire)'
    BY <1>0, <2>1, <2>3, <2>4 DEF NewestIsLast, Queued
  <2> QED BY <1>0, <2>1, <2>5 DEF LineInv, QueueWrites, StoreFollows
<1>16. CASE Reconnect
  BY <1>0, <1>16 DEF Reconnect, LineInv, QueueWrites, StoreFollows, NewestIsLast,
                     Queued, promise
<1>17. CASE GiveUp
  <2>1. /\ wire' = <<>> /\ done' = 0 /\ UNCHANGED <<queue, store, newest>>
        /\ slip' = slip \cup {c \in Calls : OnWire(wire, c) /\ ~Queued(c)}
    BY <1>17 DEF GiveUp
  <2>2. \A c \in Calls : Queued(c)' <=> Queued(c)
    BY <2>1 DEF Queued
  <2>3. \A c \in Calls \ slip' : c \in Calls \ slip /\ (~Queued(c) => store[c] = newest[c])
    BY <1>0, <2>1 DEF NewestIsLast
  <2>4. NewestIsLast(wire)'
    BY <1>0, <2>1, <2>2, <2>3 DEF NewestIsLast
  <2> QED BY <1>0, <2>1, <2>4 DEF LineInv, QueueWrites, StoreFollows
<1>18. CASE Crash
  <2>1. queue' = <<>> /\ wire' = <<>> /\ done' = 0 /\ newest' = store' /\ slip' = {}
    BY <1>18 DEF Crash
  <2> QED BY <2>1 DEF LineInv, StoreFollows, NewestIsLast, Queued, OnWire
<1>19. CASE UNCHANGED vars
  BY <1>2, <1>19 DEF vars, lineVars, promise
<1> QED BY <1>4, <1>5, <1>6, <1>7, <1>8, <1>9, <1>10, <1>11, <1>12, <1>13,
           <1>14, <1>15, <1>16, <1>17, <1>18, <1>19 DEF Next

(* The line is kept in every reachable state. *)
THEOREM LineKept == Spec => []LineInv
<1>1. TypeOK /\ LineInv /\ [Next]_vars => TypeOK' /\ LineInv'
  BY TypeStep, LineStep
<1>2. Init => TypeOK /\ LineInv
  BY TypeInit, LineInit
<1> QED BY <1>1, <1>2, PTL DEF Spec

(* Once nothing is outstanding for a call, the store holds its newest      *)
(* write, unless that write overtook an older one or was given up          *)
(* (submit, the drainers, remove and flushToRedis).                        *)
THEOREM StoreSettles == Spec => []Settled
<1>1. LineInv => Settled
  BY DEF LineInv, NewestIsLast, Settled, Outstanding
<1> QED BY <1>1, LineKept, PTL

-----------------------------------------------------------------------------
(* What a load brings back                                                 *)

(* The body an executed get takes along is the one in the store s, unless  *)
(* the call was written since.                                             *)
Unwritten(w, n, i) ==
  \A j \in i + 1..n : ~(w[j].job.call = w[i].job.call /\ Writes(w[j].job))

Answers(w, n, s) ==
  \A i \in 1..n : ~Writes(w[i].job) /\ Unwritten(w, n, i) =>
     w[i].job.body = s[w[i].job.call]

AnswerInv == Answers(wire, done, store)

LEMMA AnswersSame ==
  ASSUME NEW v, NEW w, NEW n \in Nat, NEW s, Answers(w, n, s),
         \A i \in 1..n : v[i].job = w[i].job
  PROVE  Answers(v, n, s)
<1> SUFFICES ASSUME NEW i \in 1..n, ~Writes(v[i].job), Unwritten(v, n, i)
             PROVE  v[i].job.body = s[v[i].job.call]
  BY DEF Answers
<1>1. Unwritten(w, n, i)
  <2>1. \A j \in i + 1..n : j \in 1..n
    OBVIOUS
  <2> QED BY <2>1 DEF Unwritten
<1> QED BY <1>1 DEF Answers

LEMMA AnswersTail ==
  ASSUME NEW w \in Seq(Commands), w # <<>>, NEW n \in 1..Len(w), NEW s, Answers(w, n, s)
  PROVE  Answers(Tail(w), n - 1, s)
<1> DEFINE t == Tail(w)
<1>1. Len(w) \in Nat /\ \A i \in 1..n - 1 : t[i] = w[i + 1]
  BY TailFacts
<1> HIDE DEF t
<1>2. ASSUME NEW i \in 1..n - 1, Unwritten(t, n - 1, i) PROVE Unwritten(w, n, i + 1)
  <2>1. \A j \in i + 2..n : j - 1 \in i + 1..n - 1 /\ j - 1 \in 1..n - 1
    BY <1>1
  <2>2. \A j \in i + 2..n : w[j] = t[j - 1]
    BY <1>1, <2>1
  <2>3. t[i] = w[i + 1] /\ (i + 1) + 1 = i + 2
    BY <1>1
  <2> QED BY <1>2, <2>1, <2>2, <2>3 DEF Unwritten
<1>3. Answers(t, n - 1, s)
  BY <1>1, <1>2 DEF Answers
<1> QED BY <1>3 DEF t

(* Redis executes the next command, a get among them, or a write.          *)
LEMMA AnswersExecute ==
  ASSUME TypeOK, AnswerInv, Execute
  PROVE  AnswerInv'
<1> DEFINE k == done + 1
           job == wire[k].job
<1>1. /\ k \in 1..Len(wire) /\ done \in Nat /\ k \in Nat /\ DOMAIN wire = 1..Len(wire)
      /\ done' = k /\ \A i \in 1..k : i = k \/ i \in 1..done
  BY DEF Execute, TypeOK
<1>2. wire[k] \in Commands /\ job \in Jobs /\ job.call \in Calls
  BY <1>1, JobFacts DEF TypeOK
<1>3. CASE Writes(job)
  <2>1. wire' = wire /\ store' = [store EXCEPT ![job.call] = job.body]
    BY <1>3 DEF Execute
  <2>2. ASSUME NEW i \in 1..k, ~Writes(wire[i].job), Unwritten(wire, k, i)
        PROVE  wire[i].job.body = store'[wire[i].job.call]
    <3>1. i \in 1..done /\ wire[i].job.call # job.call
      BY <1>1, <1>3, <2>2 DEF Unwritten
    <3>2. Unwritten(wire, done, i)
      BY <1>1, <2>2 DEF Unwritten
    <3>3. wire[i].job.body = store[wire[i].job.call]
      BY <2>2, <3>1, <3>2 DEF AnswerInv, Answers
    <3>4. wire[i].job.call \in Calls
      BY <1>1, JobFacts DEF TypeOK
    <3> QED BY <2>1, <3>1, <3>3, <3>4 DEF TypeOK
  <2> QED BY <1>1, <2>1, <2>2 DEF AnswerInv, Answers
<1>4. CASE ~Writes(job)
  <2> DEFINE got == Command(wire[k].by, Job("get", job.call, store[job.call]))
  <2>1. wire' = [wire EXCEPT ![k] = got] /\ store' = store
    BY <1>4 DEF Execute
  <2>2. /\ ~Writes(got.job) /\ got.job.call = job.call /\ got.job.body = store[job.call]
    <3>1. wire[k].by \in Issuers \cup {Nobody} /\ store[job.call] \in Bodies
      BY <1>2, JobFacts DEF TypeOK
    <3>2. got.job = Job("get", job.call, store[job.call])
      BY DEF Command
    <3> QED BY <3>2 DEF Job, Writes
  <2>3. wire'[k] = got /\ \A i \in 1..done : wire'[i] = wire[i]
    BY <1>1, <2>1 DEF TypeOK
  <2> HIDE DEF got, job
  <2>4. ASSUME NEW i \in 1..k, ~Writes(wire'[i].job), Unwritten(wire', k, i)
        PROVE  wire'[i].job.body = store[wire'[i].job.call]
    <3>1. CASE i = k
      BY <2>2, <2>3, <3>1
    <3>2. CASE i \in 1..done
      <4>1. Unwritten(wire, done, i)
        <5>1. \A j \in i + 1..done : j \in 1..done /\ j \in i + 1..k
          BY <1>1, <3>2
        <5> QED BY <2>3, <2>4, <3>2, <5>1 DEF Unwritten
      <4> QED BY <2>3, <2>4, <3>2, <4>1 DEF AnswerInv, Answers
    <3> QED BY <1>1, <3>1, <3>2
  <2> QED BY <1>1, <2>1, <2>4 DEF AnswerInv, Answers
<1> QED BY <1>3, <1>4

LEMMA AnswerStep ==
  ASSUME TypeOK, AnswerInv, [Next]_vars
  PROVE  AnswerInv'
<1>0. /\ wire \in Seq(Commands) /\ DOMAIN wire = 1..Len(wire) /\ done \in Nat
      /\ Len(wire) \in Nat /\ done =< Len(wire)
  BY DEF TypeOK
<1>1. ASSUME NEW w \in Seq(Commands), NEW n \in 0..Len(w), Answers(w, n, store),
             wire' = w \/ (\E k : wire' = Append(w, k)), done' = n, store' = store
      PROVE  AnswerInv'
  <2>1. \A i \in 1..n : wire'[i] = w[i]
    BY <1>1
  <2>2. Answers(wire', n, store)
    BY <1>1, <2>1, AnswersSame
  <2> QED BY <1>1, <2>2 DEF AnswerInv
<1>2. ASSUME wire' = wire \/ (\E k : wire' = Append(wire, k)), done' = done, store' = store
      PROVE  AnswerInv'
  BY <1>0, <1>1, <1>2 DEF AnswerInv
<1>3. ASSUME NEW by, NEW job, Submit(wire, by, job), done' = done, store' = store
      PROVE  AnswerInv'
  BY <1>2, <1>3 DEF Submit, Issue
<1>4. ASSUME NEW d \in Drainers, Take(d) PROVE AnswerInv'
  BY <1>2, <1>4 DEF Take, Issue
<1>5. ASSUME NEW by, Timeout(by) PROVE AnswerInv'
  <2>1. PICK i \in DOMAIN wire : wire' = [wire EXCEPT ![i] = Command(Nobody, @.job)]
    BY <1>5 DEF Timeout
  <2>2. \A j \in 1..done : wire'[j].job = wire[j].job
    BY <1>0, <2>1 DEF Command
  <2>3. done' = done /\ store' = store
    BY <1>5 DEF Timeout
  <2> QED BY <1>0, <2>2, <2>3, AnswersSame DEF AnswerInv
<1>6. ASSUME NEW c \in Calls, Create(c) \/ ScanRead(c) PROVE AnswerInv'
  BY <1>6 DEF Create, ScanRead, lineVars, AnswerInv
<1>7. ASSUME NEW c \in Calls, Flush(c) \/ FlushAgain(c) \/ Remove(c) \/ Purge(c)
      PROVE  AnswerInv'
  BY <1>3, <1>7 DEF Flush, FlushAgain, Remove, Purge, Forget
<1>8. ASSUME NEW c \in Calls, Load(c) PROVE AnswerInv'
  BY <1>2, <1>8 DEF Load, Issue
<1>9. ASSUME NEW c \in Calls, Rehydrate(c) PROVE AnswerInv'
  BY <1>2, <1>3, <1>9 DEF Rehydrate
<1>10. CASE Reply \/ LoadReply
  <2> DEFINE t == Tail(wire)
  <2>1. /\ wire # <<>> /\ done \in 1..Len(wire) /\ done' = done - 1 /\ store' = store
        /\ wire' = t \/ \E k : wire' = Append(t, k)
    BY <1>0, <1>10 DEF Reply, LoadReply, HeadDone, Less, Submit, Issue
  <2>2. t \in Seq(Commands) /\ Len(t) = Len(wire) - 1
    BY <1>0, <2>1, TailFacts
  <2>3. Answers(t, done - 1, store)
    BY <1>0, <2>1, AnswersTail DEF AnswerInv
  <2>4. done - 1 \in 0..Len(t)
    BY <1>0, <2>1, <2>2
  <2> HIDE DEF t
  <2> QED BY <1>1, <2>1, <2>2, <2>3, <2>4
<1>11. CASE Refuse \/ Reconnect \/ GiveUp \/ Crash
  <2>1. done' = 0
    BY <1>11 DEF Refuse, HeadDone, Less, Reconnect, GiveUp, Crash
  <2> QED BY <2>1 DEF AnswerInv, Answers
<1>12. CASE UNCHANGED vars
  BY <1>12 DEF vars, lineVars, AnswerInv
<1> QED BY <1>4, <1>5, <1>6, <1>7, <1>8, <1>9, <1>10, <1>11, <1>12, AnswersExecute
        DEF Next

LEMMA AnswersKept == Spec => []AnswerInv
<1>1. Init => AnswerInv
  BY DEF Init, AnswerInv, Answers
<1> QED BY <1>1, AnswerStep, TypeCorrect, PTL DEF Spec

(* A load reads past the queue; still what it brings into memory is the    *)
(* newest write of the call, unless that write, or an older one, has not   *)
(* landed, or the call slipped (loadCall).                                 *)
THEOREM LoadedIsNewest == Spec => LoadsNewest
<1>1. TypeOK /\ LineInv /\ AnswerInv /\ [Next]_vars =>
        [\A c \in Calls :
           mem[c] = NoBody /\ mem'[c] # NoBody /\ c \notin fresh /\ scan' = scan
           => c \in slip \/ mem'[c] = newest[c] \/ Outstanding(c)]_vars
  <2> SUFFICES ASSUME TypeOK, LineInv, AnswerInv, [Next]_vars, NEW c \in Calls,
                      mem[c] = NoBody, mem'[c] # NoBody, c \notin fresh, scan' = scan,
                      c \notin slip, ~Outstanding(c)
               PROVE  mem'[c] = newest[c]
    OBVIOUS
  <2>0. /\ mem \in [Calls -> Bodies] /\ scan \in [Calls -> (Bodies \cup {Unread, Over})]
        /\ mem' # mem
    BY DEF TypeOK
  <2>1. ~(\E x \in Calls : Create(x) \/ Flush(x) \/ Remove(x) \/ Purge(x))
    BY <2>0 DEF Create, Flush, Remove, Purge, Forget, Submit
  <2>2. ~(\E x \in Calls : Rehydrate(x))
    BY <2>0 DEF Rehydrate
  <2>3. LoadReply
    BY <2>0, <2>1, <2>2
    DEF Next, Take, Timeout, FlushAgain, Load, ScanRead, Execute, Reply, Refuse, Reconnect,
        GiveUp, Crash, vars, memVars
  <2> DEFINE job == Head(wire).job
  <2>4. /\ wire # <<>> /\ wire[1] = Head(wire) /\ 1 \in 1..done /\ 1 \in DOMAIN wire
        /\ DOMAIN wire = 1..Len(wire) /\ done \in 0..Len(wire) /\ ~Writes(job)
    BY <2>3, TailFacts DEF LoadReply, TypeOK
  <2>5. job.call = c /\ mem'[c] = job.body
    BY <2>0, <2>3 DEF LoadReply
  <2>6. \A j \in 2..done : ~(wire[j].job.call = c /\ Writes(wire[j].job))
    BY <2>4 DEF Outstanding, OnWire
  <2>7. job.body = store[c]
    BY <2>4, <2>5, <2>6 DEF AnswerInv, Answers, Unwritten
  <2>8. store[c] = newest[c]
    BY DEF LineInv, NewestIsLast, Outstanding
  <2> QED BY <2>5, <2>7, <2>8
<1> QED BY <1>1, TypeCorrect, LineKept, AnswersKept, PTL DEF Spec, LoadsNewest

-----------------------------------------------------------------------------
(* The line of OrderedStore                                                *)

(* The line, of which the first commands of w up to k are not part.        *)
LineOf(w, k, q) ==
  [i \in 1..(Len(w) - k) + Len(q) |->
     Request(IF i =< Len(w) - k THEN w[k + i].job ELSE q[i - (Len(w) - k)])]

Requests == [call : Calls, value : Bodies \cup {NoWrite}]

LEMMA RequestFacts ==
  ASSUME NEW job \in Jobs
  PROVE  /\ Request(job) \in Requests /\ Request(job).call = job.call
         /\ Writes(job) => Request(job).value = job.body /\ Request(job).value # NoWrite
         /\ ~Writes(job) => Request(job).value = NoWrite
<1>1. job.call \in Calls /\ job.body \in Bodies
  BY JobFacts
<1>2. NoWrite \notin Bodies
  BY DEF NoWrite, Bodies, NoBody, States
<1> QED BY <1>1, <1>2 DEF Request, Requests

LEMMA LineFacts ==
  ASSUME NEW w \in Seq(Commands), NEW q \in Seq(Jobs), NEW k \in 0..Len(w)
  PROVE  /\ LineOf(w, k, q) \in Seq(Requests)
         /\ Len(LineOf(w, k, q)) = (Len(w) - k) + Len(q)
         /\ \A i \in 1..Len(w) - k : LineOf(w, k, q)[i] = Request(w[k + i].job)
         /\ \A i \in 1..Len(q) : LineOf(w, k, q)[(Len(w) - k) + i] = Request(q[i])
<1> DEFINE n == (Len(w) - k) + Len(q)
<1>1. n \in Nat /\ Len(w) \in Nat /\ Len(q) \in Nat /\ Len(w) - k \in Nat
  OBVIOUS
<1>2. \A i \in 1..n : LineOf(w, k, q)[i] \in Requests
  <2>1. ASSUME NEW i \in 1..Len(w) - k PROVE w[k + i].job \in Jobs
    <3>1. w[k + i] \in Commands
      BY <1>1
    <3> QED BY <3>1, JobFacts
  <2>2. ASSUME NEW i \in 1..n, ~(i =< Len(w) - k) PROVE q[i - (Len(w) - k)] \in Jobs
    <3>1. i - (Len(w) - k) \in 1..Len(q)
      BY <1>1, <2>2
    <3> QED BY <3>1
  <2> QED BY <1>1, <2>1, <2>2, RequestFacts DEF LineOf
<1>3. LineOf(w, k, q) \in [1..n -> Requests]
  BY <1>2 DEF LineOf
<1>4. LineOf(w, k, q) \in Seq(Requests) /\ Len(LineOf(w, k, q)) = n
  BY <1>1, <1>3
<1>5. \A i \in 1..Len(w) - k : LineOf(w, k, q)[i] = Request(w[k + i].job)
  BY <1>1 DEF LineOf
<1>6. ASSUME NEW i \in 1..Len(q) PROVE LineOf(w, k, q)[(Len(w) - k) + i] = Request(q[i])
  <2> DEFINE j == (Len(w) - k) + i
  <2>1. j \in 1..n /\ ~(j =< Len(w) - k) /\ j - (Len(w) - k) = i
    BY <1>1
  <2> QED BY <2>1 DEF LineOf
<1> QED BY <1>4, <1>5, <1>6

(* Two lines are the same when their commands and their queues say so.     *)
LEMMA LineSame ==
  ASSUME NEW v \in Seq(Commands), NEW w \in Seq(Commands), NEW q \in Seq(Jobs),
         NEW j \in 0..Len(v), NEW k \in 0..Len(w), Len(v) - j = Len(w) - k,
         \A i \in 1..Len(w) - k : Request(v[j + i].job) = Request(w[k + i].job)
  PROVE  LineOf(v, j, q) = LineOf(w, k, q)
<1>1. \A i \in 1..(Len(w) - k) + Len(q) :
        \/ i \in 1..Len(w) - k
        \/ i - (Len(w) - k) \in 1..Len(q) /\ (Len(w) - k) + (i - (Len(w) - k)) = i
  OBVIOUS
<1>2. \A i \in 1..(Len(w) - k) + Len(q) : LineOf(v, j, q)[i] = LineOf(w, k, q)[i]
  <2>1. ASSUME NEW i \in 1..Len(w) - k PROVE LineOf(v, j, q)[i] = LineOf(w, k, q)[i]
    BY LineFacts
  <2>2. ASSUME NEW i \in 1..Len(q)
        PROVE  LineOf(v, j, q)[(Len(w) - k) + i] = LineOf(w, k, q)[(Len(w) - k) + i]
    BY LineFacts
  <2> QED BY <1>1, <2>1, <2>2
<1>3. /\ LineOf(v, j, q) \in Seq(Requests) /\ Len(LineOf(v, j, q)) = (Len(w) - k) + Len(q)
      /\ LineOf(w, k, q) \in Seq(Requests) /\ Len(LineOf(w, k, q)) = (Len(w) - k) + Len(q)
  BY LineFacts
<1> QED BY <1>2, <1>3, SeqEqual

(* The head of the wire replied to was executed, and not in line.          *)
LEMMA LineReplied ==
  ASSUME NEW w \in Seq(Commands), w # <<>>, NEW q \in Seq(Jobs), NEW k \in 1..Len(w)
  PROVE  /\ Tail(w) \in Seq(Commands) /\ k - 1 \in 0..Len(Tail(w))
         /\ Len(Tail(w)) - (k - 1) = Len(w) - k
         /\ LineOf(Tail(w), k - 1, q) = LineOf(w, k, q)
<1> DEFINE t == Tail(w)
<1>1. /\ t \in Seq(Commands) /\ Len(t) = Len(w) - 1 /\ Len(w) \in Nat \ {0}
      /\ \A i \in 1..Len(w) - 1 : t[i] = w[i + 1]
  BY TailFacts
<1> HIDE DEF t
<1>2. \A i \in 1..Len(w) - k : (k - 1) + i \in 1..Len(w) - 1 /\ ((k - 1) + i) + 1 = k + i
  BY <1>1
<1>3. \A i \in 1..Len(w) - k : t[(k - 1) + i] = w[k + i]
  BY <1>1, <1>2
<1>4. k - 1 \in 0..Len(t) /\ Len(t) - (k - 1) = Len(w) - k /\ k \in 0..Len(w)
  BY <1>1
<1>5. LineOf(t, k - 1, q) = LineOf(w, k, q)
  BY <1>1, <1>3, <1>4, LineSame
<1> QED BY <1>1, <1>4, <1>5 DEF t

(* What a drainer takes from the queue is the first behind the commands.   *)
LEMMA LineTaken ==
  ASSUME NEW w \in Seq(Commands), NEW q \in Seq(Jobs), q # <<>>, NEW k \in 0..Len(w),
         NEW cmd \in Commands, cmd.job = Head(q)
  PROVE  LineOf(Append(w, cmd), k, Tail(q)) = LineOf(w, k, q)
<1> DEFINE a == Append(w, cmd)
           t == Tail(q)
<1>1. /\ a \in Seq(Commands) /\ Len(a) = Len(w) + 1 /\ a[Len(w) + 1] = cmd
      /\ \A i \in 1..Len(w) : a[i] = w[i]
  BY AppendFacts
<1>2. /\ t \in Seq(Jobs) /\ Len(t) = Len(q) - 1 /\ Len(q) \in Nat \ {0} /\ Head(q) = q[1]
      /\ \A i \in 1..Len(q) - 1 : t[i] = q[i + 1]
  BY TailFacts
<1> HIDE DEF a, t
<1>3. /\ k \in 0..Len(a) /\ Len(w) \in Nat /\ k \in Nat /\ Len(w) - k \in Nat
      /\ Len(a) - k = (Len(w) - k) + 1 /\ Len(q) \in Nat
      /\ (Len(a) - k) + Len(t) = (Len(w) - k) + Len(q)
  BY <1>1, <1>2
<1> DEFINE m == Len(w) - k
<1>4. /\ \A i \in 1..m + 1 : LineOf(a, k, t)[i] = Request(a[k + i].job)
      /\ \A i \in 1..Len(t) : LineOf(a, k, t)[(m + 1) + i] = Request(t[i])
      /\ \A i \in 1..m : LineOf(w, k, q)[i] = Request(w[k + i].job)
      /\ \A i \in 1..Len(q) : LineOf(w, k, q)[m + i] = Request(q[i])
  <2>1. /\ \A i \in 1..Len(a) - k : LineOf(a, k, t)[i] = Request(a[k + i].job)
        /\ \A i \in 1..Len(t) : LineOf(a, k, t)[(Len(a) - k) + i] = Request(t[i])
    BY <1>1, <1>2, <1>3, LineFacts
  <2>2. Len(a) - k = m + 1
    BY <1>3
  <2>3. /\ \A i \in 1..m : LineOf(w, k, q)[i] = Request(w[k + i].job)
        /\ \A i \in 1..Len(q) : LineOf(w, k, q)[m + i] = Request(q[i])
    BY LineFacts
  <2> HIDE DEF m
  <2> QED BY <2>1, <2>2, <2>3
<1>5. m \in Nat /\ k + (m + 1) = Len(w) + 1 /\ \A i \in 1..m : k + i \in 1..Len(w)
  BY <1>3
<1> HIDE DEF m
<1>6. ASSUME NEW i \in 1..m + Len(q) PROVE LineOf(a, k, t)[i] = LineOf(w, k, q)[i]
  <2>1. CASE i \in 1..m
    <3>1. i \in 1..m + 1
      BY <1>5, <2>1
    <3> QED BY <1>1, <1>4, <1>5, <2>1, <3>1
  <2>2. CASE i = m + 1
    <3>1. i \in 1..m + 1 /\ 1 \in 1..Len(q)
      BY <1>2, <1>5, <2>2
    <3>2. LineOf(a, k, t)[i] = Request(a[k + i].job) /\ k + i = Len(w) + 1
      BY <1>4, <1>5, <2>2, <3>1
    <3>3. LineOf(w, k, q)[m + 1] = Request(q[1])
      BY <1>4, <3>1
    <3> QED BY <1>1, <1>2, <2>2, <3>2, <3>3
  <2>3. CASE i > m + 1
    <3> DEFINE j == i - (m + 1)
    <3>1. j \in 1..Len(q) - 1 /\ i = (m + 1) + j
      BY <1>3, <1>5, <2>3
    <3>2. i = m + (j + 1) /\ j + 1 \in 1..Len(q) /\ j \in 1..Len(t)
      BY <1>2, <1>5, <3>1
    <3> HIDE DEF j
    <3>3. LineOf(a, k, t)[i] = Request(t[j])
      BY <1>4, <3>1, <3>2
    <3>4. LineOf(w, k, q)[i] = Request(q[j + 1])
      BY <1>4, <3>2
    <3> QED BY <1>2, <3>1, <3>3, <3>4
  <2> QED BY <1>3, <1>5, <2>1, <2>2, <2>3
<1>7. /\ LineOf(a, k, t) \in Seq(Requests) /\ Len(LineOf(a, k, t)) = m + Len(q)
      /\ LineOf(w, k, q) \in Seq(Requests) /\ Len(LineOf(w, k, q)) = m + Len(q)
  BY <1>1, <1>2, <1>3, LineFacts DEF m
<1>8. LineOf(a, k, t) = LineOf(w, k, q)
  BY <1>6, <1>7, SeqEqual
<1> QED BY <1>8 DEF a, t

(* What is inserted behind the first i members of a line.                  *)
LEMMA InsertEqual ==
  ASSUME NEW S, NEW s \in Seq(S), NEW r \in S, NEW i \in 0..Len(s), NEW u \in Seq(S),
         Len(u) = Len(s) + 1, u[i + 1] = r,
         \A j \in 1..i : u[j] = s[j],
         \A j \in i + 1..Len(s) : u[j + 1] = s[j]
  PROVE  u = Promise!InsertAt(s, i + 1, r)
<1> DEFINE before == SubSeq(s, 1, i)
           behind == SubSeq(s, i + 1, Len(s))
<1>1. /\ before \in Seq(S) /\ Len(before) = i /\ \A j \in 1..i : before[j] = s[j]
      /\ behind \in Seq(S) /\ Len(behind) = Len(s) - i
      /\ \A j \in 1..Len(s) - i : behind[j] = s[i + j]
  <2>1. Len(s) \in Nat /\ i \in Nat /\ \A j \in 1..Len(s) : s[j] \in S
    OBVIOUS
  <2>2. /\ before \in Seq(S) /\ Len(before) = (IF 1 =< i THEN i - 1 + 1 ELSE 0)
        /\ \A j \in 1..i - 1 + 1 : before[j] = s[1 + j - 1]
    BY <2>1, SubSeqProperties
  <2>3. /\ behind \in Seq(S)
        /\ Len(behind) = (IF i + 1 =< Len(s) THEN Len(s) - (i + 1) + 1 ELSE 0)
        /\ \A j \in 1..Len(s) - (i + 1) + 1 : behind[j] = s[(i + 1) + j - 1]
    BY <2>1, SubSeqProperties
  <2> HIDE DEF before, behind
  <2>4. Len(before) = i /\ \A j \in 1..i : before[j] = s[j]
    BY <2>1, <2>2
  <2>5. Len(behind) = Len(s) - i /\ \A j \in 1..Len(s) - i : behind[j] = s[i + j]
    BY <2>1, <2>3
  <2> QED BY <2>2, <2>3, <2>4, <2>5
<1> HIDE DEF before, behind
<1>2. <<r>> \in Seq(S) /\ Len(<<r>>) = 1 /\ <<r>>[1] = r
  OBVIOUS
<1> DEFINE front == before \o <<r>>
<1>3. /\ front \in Seq(S) /\ Len(front) = i + 1 /\ front[i + 1] = r
      /\ \A j \in 1..i : front[j] = s[j]
  <2>1. /\ front \in Seq(S) /\ Len(front) = Len(before) + Len(<<r>>)
        /\ \A j \in 1..Len(before) + Len(<<r>>) :
             front[j] = IF j =< Len(before) THEN before[j] ELSE <<r>>[j - Len(before)]
    BY <1>1, <1>2, ConcatProperties
  <2> HIDE DEF front
  <2>2. /\ Len(front) = i + 1
        /\ \A j \in 1..i + 1 : front[j] = IF j =< i THEN before[j] ELSE <<r>>[j - i]
    BY <1>1, <1>2, <2>1
  <2>3. i + 1 \in 1..i + 1 /\ ~(i + 1 =< i) /\ (i + 1) - i = 1
        /\ \A j \in 1..i : j \in 1..i + 1 /\ j =< i
    OBVIOUS
  <2> QED BY <1>1, <1>2, <2>1, <2>2, <2>3
<1> HIDE DEF front
<1> DEFINE all == front \o behind
<1>4. /\ all \in Seq(S) /\ Len(all) = Len(s) + 1
      /\ \A j \in 1..Len(s) + 1 :
           all[j] = IF j =< i + 1 THEN front[j] ELSE behind[j - (i + 1)]
  <2>1. /\ all \in Seq(S) /\ Len(all) = Len(front) + Len(behind)
        /\ \A j \in 1..Len(front) + Len(behind) :
             all[j] = IF j =< Len(front) THEN front[j] ELSE behind[j - Len(front)]
    BY <1>1, <1>3, ConcatProperties
  <2>2. Len(front) + Len(behind) = Len(s) + 1 /\ Len(front) = i + 1
    BY <1>1, <1>3
  <2> HIDE DEF all
  <2> QED BY <2>1, <2>2
<1> HIDE DEF all
<1>5. ASSUME NEW j \in 1..Len(s) + 1 PROVE u[j] = all[j]
  <2>1. CASE j =< i
    BY <1>3, <1>4, <2>1
  <2>2. CASE j = i + 1
    BY <1>3, <1>4, <2>2
  <2>3. CASE j > i + 1
    <3>1. /\ j - 1 \in i + 1..Len(s) /\ (j - 1) + 1 = j /\ ~(j =< i + 1)
          /\ j - (i + 1) \in 1..Len(s) - i /\ i + (j - (i + 1)) = j - 1
      BY <2>3
    <3>2. u[j] = s[j - 1]
      BY <3>1
    <3>3. behind[j - (i + 1)] = s[j - 1]
      BY <1>1, <3>1
    <3> QED BY <1>4, <3>1, <3>2, <3>3
  <2> QED BY <2>1, <2>2, <2>3
<1>6. u = all
  BY <1>4, <1>5, SeqEqual
<1>7. all = Promise!InsertAt(s, i + 1, r)
  <2>1. (i + 1) - 1 = i
    OBVIOUS
  <2>2. Promise!InsertAt(s, i + 1, r) =
          SubSeq(s, 1, (i + 1) - 1) \o <<r>> \o SubSeq(s, i + 1, Len(s))
    BY DEF Promise!InsertAt
  <2> QED BY <2>1, <2>2 DEF all, front, before, behind
<1> QED BY <1>6, <1>7

(* A write is queued at the end of the line, ...                           *)
LEMMA LineQueued ==
  ASSUME NEW w \in Seq(Commands), NEW q \in Seq(Jobs), NEW k \in 0..Len(w),
         NEW job \in Jobs
  PROVE  LET l == LineOf(w, k, q)
         IN  LineOf(w, k, Append(q, job)) = Promise!InsertAt(l, Len(l) + 1, Request(job))
<1> DEFINE a == Append(q, job)
           m == Len(w) - k
           l == LineOf(w, k, q)
           u == LineOf(w, k, a)
<1>1. /\ a \in Seq(Jobs) /\ Len(a) = Len(q) + 1 /\ a[Len(q) + 1] = job
      /\ \A i \in 1..Len(q) : a[i] = q[i]
  BY AppendFacts
<1> HIDE DEF a
<1>2. /\ l \in Seq(Requests) /\ Len(l) = m + Len(q)
      /\ u \in Seq(Requests) /\ Len(u) = m + Len(a)
      /\ \A i \in 1..m : l[i] = Request(w[k + i].job) /\ u[i] = Request(w[k + i].job)
      /\ \A i \in 1..Len(q) : l[m + i] = Request(q[i])
      /\ \A i \in 1..Len(a) : u[m + i] = Request(a[i])
  BY <1>1, LineFacts
<1>3. m \in Nat /\ Len(q) \in Nat
  OBVIOUS
<1> HIDE DEF m, l, u
<1>4. u[Len(l) + 1] = Request(job)
  <2>1. Len(q) + 1 \in 1..Len(a) /\ Len(l) + 1 = m + (Len(q) + 1)
    BY <1>1, <1>2, <1>3
  <2> QED BY <1>1, <1>2, <2>1
<1>5. ASSUME NEW i \in 1..Len(l) PROVE u[i] = l[i]
  <2>1. CASE i \in 1..m
    BY <1>2, <2>1
  <2>2. CASE i \notin 1..m
    <3>1. i - m \in 1..Len(q) /\ m + (i - m) = i /\ i - m \in 1..Len(a)
      BY <1>1, <1>2, <1>3, <2>2
    <3> QED BY <1>1, <1>2, <3>1
  <2> QED BY <2>1, <2>2
<1>6. Len(u) = Len(l) + 1 /\ Len(l) \in 0..Len(l) /\ Request(job) \in Requests
      /\ \A i \in Len(l) + 1..Len(l) : u[i + 1] = l[i]
  BY <1>1, <1>2, <1>3, RequestFacts
<1>7. u = Promise!InsertAt(l, Len(l) + 1, Request(job))
  BY <1>2, <1>4, <1>5, <1>6, InsertEqual
<1> QED BY <1>7 DEF u, l, a

(* ... and a command issued at once overtakes the queue.                   *)
LEMMA LineIssued ==
  ASSUME NEW w \in Seq(Commands), NEW q \in Seq(Jobs), NEW k \in 0..Len(w),
         NEW cmd \in Commands
  PROVE  LineOf(Append(w, cmd), k, q) =
           Promise!InsertAt(LineOf(w, k, q), (Len(w) - k) + 1, Request(cmd.job))
<1> DEFINE a == Append(w, cmd)
           m == Len(w) - k
           l == LineOf(w, k, q)
           u == LineOf(a, k, q)
<1>1. /\ a \in Seq(Commands) /\ Len(a) = Len(w) + 1 /\ a[Len(w) + 1] = cmd
      /\ \A i \in 1..Len(w) : a[i] = w[i]
  BY AppendFacts
<1> HIDE DEF a
<1>2. m \in Nat /\ Len(q) \in Nat /\ Len(w) \in Nat /\ k \in Nat /\ k \in 0..Len(a)
      /\ Len(a) - k = m + 1 /\ k + (m + 1) = Len(w) + 1
      /\ \A i \in 1..m : k + i \in 1..Len(w)
  BY <1>1
<1>3. /\ l \in Seq(Requests) /\ Len(l) = m + Len(q)
      /\ \A i \in 1..m : l[i] = Request(w[k + i].job)
      /\ \A i \in 1..Len(q) : l[m + i] = Request(q[i])
  BY LineFacts
<1>4. /\ u \in Seq(Requests) /\ Len(u) = (Len(a) - k) + Len(q)
      /\ \A i \in 1..Len(a) - k : u[i] = Request(a[k + i].job)
      /\ \A i \in 1..Len(q) : u[(Len(a) - k) + i] = Request(q[i])
  BY <1>1, <1>2, LineFacts
<1> HIDE DEF m, l, u
<1>5. Len(u) = Len(l) + 1 /\ m \in 0..Len(l) /\ Request(cmd.job) \in Requests
  BY <1>2, <1>3, <1>4, RequestFacts, JobFacts
<1>6. u[m + 1] = Request(cmd.job)
  <2>1. m + 1 \in 1..Len(a) - k
    BY <1>2
  <2>2. u[m + 1] = Request(a[k + (m + 1)].job)
    BY <1>4, <2>1
  <2> QED BY <1>1, <1>2, <2>2
<1>7. \A i \in 1..m : u[i] = l[i]
  <2>1. \A i \in 1..m : i \in 1..Len(a) - k
    BY <1>2
  <2> QED BY <1>1, <1>2, <1>3, <1>4, <2>1
<1>8. ASSUME NEW i \in m + 1..Len(l) PROVE u[i + 1] = l[i]
  <2> DEFINE j == i - m
  <2>1. Len(a) - k = m + 1
    BY <1>2
  <2>2. j \in 1..Len(q) /\ i = m + j /\ i + 1 = (m + 1) + j
    BY <1>2, <1>3
  <2> HIDE DEF j
  <2> QED BY <1>3, <1>4, <2>1, <2>2
<1>9. u = Promise!InsertAt(l, m + 1, Request(cmd.job))
  BY <1>3, <1>4, <1>5, <1>6, <1>7, <1>8, InsertEqual
<1> QED BY <1>9 DEF u, l, a, m

(* The first command in line is executed.                                  *)
LEMMA LineServed ==
  ASSUME NEW w \in Seq(Commands), NEW q \in Seq(Jobs), NEW k \in 0..Len(w), k < Len(w)
  PROVE  LET l == LineOf(w, k, q)
         IN  /\ l # <<>> /\ Head(l) = Request(w[k + 1].job)
             /\ Tail(l) = LineOf(w, k + 1, q)
<1> DEFINE m == Len(w) - k
           l == LineOf(w, k, q)
           u == LineOf(w, k + 1, q)
<1>1. m \in Nat \ {0} /\ Len(q) \in Nat /\ Len(w) \in Nat /\ k + 1 \in 0..Len(w)
      /\ Len(w) - (k + 1) = m - 1 /\ \A i \in 1..m - 1 : (k + 1) + i = k + (i + 1)
  OBVIOUS
<1>2. /\ l \in Seq(Requests) /\ Len(l) = m + Len(q)
      /\ \A i \in 1..m : l[i] = Request(w[k + i].job)
      /\ \A i \in 1..Len(q) : l[m + i] = Request(q[i])
  BY LineFacts
<1>3. /\ u \in Seq(Requests) /\ Len(u) = (Len(w) - (k + 1)) + Len(q)
      /\ \A i \in 1..Len(w) - (k + 1) : u[i] = Request(w[(k + 1) + i].job)
      /\ \A i \in 1..Len(q) : u[(Len(w) - (k + 1)) + i] = Request(q[i])
  BY <1>1, LineFacts
<1> HIDE DEF m, l, u
<1>4. /\ Len(u) = Len(l) - 1 /\ \A i \in 1..m - 1 : u[i] = Request(w[k + (i + 1)].job)
      /\ \A i \in 1..Len(q) : u[(m - 1) + i] = Request(q[i])
  <2>1. /\ Len(u) = (m - 1) + Len(q)
        /\ \A i \in 1..m - 1 : u[i] = Request(w[(k + 1) + i].job)
        /\ \A i \in 1..Len(q) : u[(m - 1) + i] = Request(q[i])
    BY <1>1, <1>3
  <2>2. (m - 1) + Len(q) = Len(l) - 1
    BY <1>1, <1>2
  <2> QED BY <1>1, <2>1, <2>2
<1>5. l # <<>> /\ Head(l) = l[1] /\ Tail(l) \in Seq(Requests) /\ Len(Tail(l)) = Len(l) - 1
      /\ \A i \in 1..Len(l) - 1 : Tail(l)[i] = l[i + 1]
  <2>1. l # <<>>
    BY <1>1, <1>2
  <2> QED BY <1>2, <2>1, TailFacts
<1>6. ASSUME NEW i \in 1..Len(u) PROVE u[i] = Tail(l)[i]
  <2>1. CASE i \in 1..m - 1
    <3>1. i + 1 \in 1..m /\ i \in 1..Len(l) - 1
      BY <1>1, <1>2, <2>1
    <3> QED BY <1>2, <1>4, <1>5, <2>1, <3>1
  <2>2. CASE i \notin 1..m - 1
    <3> DEFINE j == i - (m - 1)
    <3>1. j \in 1..Len(q) /\ i = (m - 1) + j /\ i + 1 = m + j /\ i \in 1..Len(l) - 1
      BY <1>1, <1>2, <1>4, <2>2
    <3> HIDE DEF j
    <3> QED BY <1>2, <1>4, <1>5, <3>1
  <2> QED BY <2>1, <2>2
<1>7. u = Tail(l)
  BY <1>3, <1>4, <1>5, <1>6, SeqEqual
<1>8. Head(l) = Request(w[k + 1].job)
  BY <1>1, <1>2, <1>5
<1> QED BY <1>5, <1>7, <1>8 DEF l, u

(* The queue is what is left of the line without the wire.                 *)
LEMMA LineUnplugged ==
  ASSUME NEW w \in Seq(Commands), NEW q \in Seq(Jobs), NEW k \in 0..Len(w)
  PROVE  LET l == LineOf(w, k, q)
         IN  SubSeq(l, (Len(w) - k) + 1, Len(l)) = LineOf(<<>>, 0, q)
<1> DEFINE m == Len(w) - k
           l == LineOf(w, k, q)
           u == LineOf(<<>>, 0, q)
           v == SubSeq(l, m + 1, Len(l))
<1>1. m \in Nat /\ Len(q) \in Nat
  OBVIOUS
<1>2. /\ l \in Seq(Requests) /\ Len(l) = m + Len(q)
      /\ \A i \in 1..Len(q) : l[m + i] = Request(q[i])
  BY LineFacts
<1>3. u \in Seq(Requests) /\ Len(u) = Len(q) /\ \A i \in 1..Len(q) : u[i] = Request(q[i])
  <2>1. <<>> \in Seq(Commands) /\ Len(<<>>) = 0 /\ 0 \in 0..Len(<<>>)
    OBVIOUS
  <2>2. /\ u \in Seq(Requests) /\ Len(u) = (Len(<<>>) - 0) + Len(q)
        /\ \A i \in 1..Len(q) : u[(Len(<<>>) - 0) + i] = Request(q[i])
    BY <2>1, LineFacts
  <2> HIDE DEF u
  <2> QED BY <1>1, <2>1, <2>2
<1> HIDE DEF m, l, u
<1>4. /\ v \in Seq(Requests) /\ Len(v) = (IF m + 1 =< Len(l) THEN Len(l) - (m + 1) + 1 ELSE 0)
      /\ \A i \in 1..Len(l) - (m + 1) + 1 : v[i] = l[(m + 1) + i - 1]
  <2>1. m + 1 \in Int /\ Len(l) \in Int /\ \A i \in m + 1..Len(l) : l[i] \in Requests
    BY <1>1, <1>2
  <2> QED BY <2>1, SubSeqProperties
<1> HIDE DEF v
<1>5. Len(v) = Len(q) /\ \A i \in 1..Len(q) : v[i] = l[m + i]
  <2>1. \A i \in 1..Len(q) : i \in 1..Len(l) - (m + 1) + 1 /\ (m + 1) + i - 1 = m + i
    BY <1>1, <1>2
  <2> QED BY <1>1, <1>2, <1>4, <2>1
<1>6. u = v
  BY <1>2, <1>3, <1>4, <1>5, SeqEqual
<1> QED BY <1>6 DEF u, v, l, m

(* Whose writes are in line.                                               *)
LEMMA LineOwes ==
  ASSUME NEW w \in Seq(Commands), NEW q \in Seq(Jobs), NEW k \in 0..Len(w), NEW c
  PROVE  Promise!Owes(LineOf(w, k, q), c) <=>
           \/ \E i \in k + 1..Len(w) : w[i].job.call = c /\ Writes(w[i].job)
           \/ \E i \in DOMAIN q : q[i].call = c /\ Writes(q[i])
<1> DEFINE m == Len(w) - k
           l == LineOf(w, k, q)
<1>1. /\ m \in Nat /\ Len(q) \in Nat /\ k \in Nat /\ Len(w) = k + m /\ DOMAIN q = 1..Len(q)
      /\ \A i \in 1..m : k + i \in 1..Len(w)
  OBVIOUS
<1>2. /\ l \in Seq(Requests) /\ Len(l) = m + Len(q)
      /\ \A i \in 1..m : l[i] = Request(w[k + i].job)
      /\ \A i \in 1..Len(q) : l[m + i] = Request(q[i])
  BY LineFacts
<1>3. /\ \A i \in 1..Len(w) : w[i].job \in Jobs
      /\ \A i \in 1..Len(q) : q[i] \in Jobs
  BY JobFacts
<1>4. \A job \in Jobs : /\ Request(job).call = job.call
                        /\ Request(job).value # NoWrite <=> Writes(job)
  BY RequestFacts
<1> HIDE DEF m, l
<1>5. ASSUME NEW i \in DOMAIN l, l[i].call = c, l[i].value # NoWrite
      PROVE  \/ \E j \in k + 1..Len(w) : w[j].job.call = c /\ Writes(w[j].job)
             \/ \E j \in DOMAIN q : q[j].call = c /\ Writes(q[j])
  <2>0. i \in 1..m + Len(q)
    BY <1>2
  <2>1. CASE i \in 1..m
    <3>1. k + i \in k + 1..Len(w)
      BY <1>1, <2>1
    <3> QED BY <1>1, <1>2, <1>3, <1>4, <1>5, <2>1, <3>1
  <2>2. CASE i \notin 1..m
    <3>1. i - m \in 1..Len(q) /\ m + (i - m) = i
      BY <1>1, <2>0, <2>2
    <3> QED BY <1>1, <1>2, <1>3, <1>4, <1>5, <3>1
  <2> QED BY <2>1, <2>2
<1>6. ASSUME NEW j \in k + 1..Len(w), w[j].job.call = c, Writes(w[j].job)
      PROVE  \E i \in DOMAIN l : l[i].call = c /\ l[i].value # NoWrite
  <2>1. j - k \in 1..m /\ k + (j - k) = j /\ j - k \in DOMAIN l /\ j \in 1..Len(w)
    BY <1>1, <1>2
  <2> QED BY <1>2, <1>3, <1>4, <1>6, <2>1
<1>7. ASSUME NEW j \in DOMAIN q, q[j].call = c, Writes(q[j])
      PROVE  \E i \in DOMAIN l : l[i].call = c /\ l[i].value # NoWrite
  <2>1. j \in 1..Len(q) /\ m + j \in DOMAIN l
    BY <1>1, <1>2
  <2> QED BY <1>2, <1>3, <1>4, <1>7, <2>1
<1>8. Promise!Owes(l, c) <=> \E i \in DOMAIN l : l[i].call = c /\ l[i].value # NoWrite
  BY DEF Promise!Owes
<1> QED BY <1>5, <1>6, <1>7, <1>8 DEF l

-----------------------------------------------------------------------------
(* The registers of OrderedStore                                           *)

(* What the calls' bodies are after the commands of w up to n, of which    *)
(* those up to d are in s already.                                         *)
AfterOf(w, d, s, n, c) ==
  IF \E i \in d + 1..n : LastWrite(w, n, c, i)
  THEN w[CHOOSE i \in d + 1..n : LastWrite(w, n, c, i)].job.body
  ELSE s[c]

Kept(w, d, s, n) == [c \in Calls |-> AfterOf(w, d, s, n, c)]

Registers == [c \in Calls |-> After(seen, c)]

LEMMA AfterLast ==
  ASSUME NEW w, NEW d \in Nat, NEW n \in Nat, NEW s, NEW c,
         NEW i \in d + 1..n, LastWrite(w, n, c, i)
  PROVE  AfterOf(w, d, s, n, c) = w[i].job.body
<1>1. ASSUME NEW j \in d + 1..n, LastWrite(w, n, c, j) PROVE j = i
  <2>1. j \in i + 1..n \/ i \in j + 1..n \/ i = j
    OBVIOUS
  <2> QED BY <1>1, <2>1 DEF LastWrite
<1> QED BY <1>1 DEF AfterOf

(* The k requests of v behind b are those of w behind d.                   *)
Agree(v, b, w, d, k) ==
  \A i \in 1..k : /\ v[b + i].job \in Jobs /\ w[d + i].job \in Jobs
                  /\ Request(v[b + i].job) = Request(w[d + i].job)

(* The registers are the same when the requests are.                       *)
LEMMA KeptSame ==
  ASSUME NEW v, NEW b \in Nat, NEW m \in Nat, NEW w, NEW d \in Nat, NEW n \in Nat,
         NEW s, m - b = n - d, Agree(v, b, w, d, n - d)
  PROVE  Kept(v, b, s, m) = Kept(w, d, s, n)
<1> SUFFICES ASSUME NEW c \in Calls
             PROVE  AfterOf(v, b, s, m, c) = AfterOf(w, d, s, n, c)
  BY DEF Kept
<1>1. /\ \A i \in 1..n - d : b + i \in b + 1..m /\ d + i \in d + 1..n
      /\ \A i \in d + 1..n : i - d \in 1..n - d /\ d + (i - d) = i
      /\ \A i \in b + 1..m : i - b \in 1..n - d /\ b + (i - b) = i
  OBVIOUS
<1>2. ASSUME NEW i \in 1..n - d
      PROVE  /\ v[b + i].job.call = w[d + i].job.call
             /\ Writes(v[b + i].job) <=> Writes(w[d + i].job)
             /\ Writes(w[d + i].job) => v[b + i].job.body = w[d + i].job.body
  <2>1. \A job \in Jobs : /\ Request(job).call = job.call
                          /\ Request(job).value # NoWrite <=> Writes(job)
                          /\ Writes(job) => Request(job).value = job.body
    BY RequestFacts
  <2> QED BY <2>1 DEF Agree
<1>3. ASSUME NEW i \in 1..n - d
      PROVE  LastWrite(v, m, c, b + i) <=> LastWrite(w, n, c, d + i)
  <2>1. /\ \A j \in (b + i) + 1..m :
             j - b \in 1..n - d /\ b + (j - b) = j /\ d + (j - b) \in (d + i) + 1..n
        /\ \A j \in (d + i) + 1..n :
             j - d \in 1..n - d /\ d + (j - d) = j /\ b + (j - d) \in (b + i) + 1..m
    OBVIOUS
  <2>2. ASSUME LastWrite(v, m, c, b + i) PROVE LastWrite(w, n, c, d + i)
    <3>1. ASSUME NEW j \in (d + i) + 1..n PROVE ~(w[j].job.call = c /\ Writes(w[j].job))
      BY <1>2, <2>1, <2>2 DEF LastWrite
    <3> QED BY <1>2, <2>2, <3>1 DEF LastWrite
  <2>3. ASSUME LastWrite(w, n, c, d + i) PROVE LastWrite(v, m, c, b + i)
    <3>1. ASSUME NEW j \in (b + i) + 1..m PROVE ~(v[j].job.call = c /\ Writes(v[j].job))
      BY <1>2, <2>1, <2>3 DEF LastWrite
    <3> QED BY <1>2, <2>3, <3>1 DEF LastWrite
  <2> QED BY <2>2, <2>3
<1>4. CASE \E i \in d + 1..n : LastWrite(w, n, c, i)
  <2>1. PICK i \in 1..n - d : LastWrite(w, n, c, d + i)
    BY <1>1, <1>4
  <2>2. AfterOf(w, d, s, n, c) = w[d + i].job.body
    BY <1>1, <2>1, AfterLast
  <2>3. b + i \in b + 1..m /\ LastWrite(v, m, c, b + i)
    BY <1>1, <1>3, <2>1
  <2>4. AfterOf(v, b, s, m, c) = v[b + i].job.body
    BY <2>3, AfterLast
  <2>5. Writes(w[d + i].job)
    BY <2>1 DEF LastWrite
  <2> QED BY <1>2, <2>2, <2>4, <2>5
<1>5. CASE ~\E i \in d + 1..n : LastWrite(w, n, c, i)
  <2>1. ~\E i \in b + 1..m : LastWrite(v, m, c, i)
    BY <1>1, <1>3, <1>5
  <2> QED BY <1>5, <2>1 DEF AfterOf
<1> QED BY <1>4, <1>5

(* What the promise's line and registers are, before a step and after it.  *)
LEMMA PromiseState ==
  /\ Registers = Kept(wire, done, store, seen)
  /\ Registers' = Kept(wire', done', store', seen')
  /\ Line = LineOf(wire, seen, queue) /\ Line' = LineOf(wire', seen', queue')
  BY DEF Registers, After, Kept, AfterOf, Line, LineOf

LEMMA PromiseInit == Init => Promise!Init
<1> SUFFICES ASSUME Init PROVE Promise!Init
  OBVIOUS
<1>1. Registers = [c \in Calls |-> NoBody]
  BY DEF Init, Registers, After
<1>2. Line = <<>>
  BY DEF Init, Line
<1> QED BY <1>1, <1>2 DEF Init, Promise!Init, Registers

(* The steps of the promise. *)
LEMMA PromiseSame ==
  ASSUME Registers' = Registers, Line' = Line, UNCHANGED promise
  PROVE  UNCHANGED Promise!vars
  BY DEF Promise!vars, Registers, promise

LEMMA QueueOwes ==
  ASSUME queue \in Seq(Jobs), QueueWrites, NEW c
  PROVE  Promise!Owes(LineOf(<<>>, 0, queue), c) <=> Queued(c)
<1> DEFINE w == <<>>
<1>1. w \in Seq(Commands) /\ 0 \in 0..Len(w) /\ \A i \in 0 + 1..Len(w) : FALSE
  OBVIOUS
<1> HIDE DEF w
<1>2. Promise!Owes(LineOf(w, 0, queue), c) <=>
        \/ \E i \in 0 + 1..Len(w) : w[i].job.call = c /\ Writes(w[i].job)
        \/ \E i \in DOMAIN queue : queue[i].call = c /\ Writes(queue[i])
  BY <1>1, LineOwes
<1>3. Promise!Owes(LineOf(w, 0, queue), c) <=> Queued(c)
  BY <1>1, <1>2 DEF Queued, QueueWrites
<1> QED BY <1>3 DEF w

LEMMA PromiseSubmit ==
  ASSUME TypeOK, QueueWrites, NEW w \in Seq(Commands), NEW k \in 0..Len(w),
         NEW by \in Issuers, NEW job \in Jobs, Writes(job), Submit(w, by, job),
         seen' = k, LineOf(w, k, queue) = Line, Registers' = Registers
  PROVE  Promise!Next
<1> DEFINE c == job.call
           l == LineOf(w, k, queue)
           m == Len(w) - k
<1>1. /\ c \in Calls /\ job.body \in Bodies /\ queue \in Seq(Jobs)
      /\ newest' = [newest EXCEPT ![c] = job.body] /\ newest'[c] = job.body
      /\ Command(by, job) \in Commands /\ Command(by, job).job = job
  BY JobFacts DEF TypeOK, Submit
<1>2. Promise!Write(c, newest'[c]) = Request(job)
  BY <1>1 DEF Promise!Write, Request
<1>3. l \in Seq(Requests) /\ Len(l) = m + Len(queue) /\ m \in Nat /\ Len(queue) \in Nat
  BY <1>1, LineFacts
<1>4. CASE Len(queue) < QueueMax
  <2> DEFINE i == Len(l)
  <2>1. queue' = Append(queue, job) /\ wire' = w /\ slip' = slip \ {c}
    BY <1>4 DEF Submit
  <2>2. Line' = LineOf(w, k, Append(queue, job))
    BY <2>1, PromiseState
  <2>3. Line' = Promise!InsertAt(l, i + 1, Request(job))
    BY <1>1, <2>2, LineQueued
  <2>4. ~Promise!Owes(SubSeq(l, i + 1, Len(l)), c)
    <3>1. SubSeq(l, i + 1, Len(l)) = <<>>
      BY <1>3
    <3> QED BY <3>1 DEF Promise!Owes
  <2>5. i \in 0..Len(Line)
    BY <1>3
  <2> HIDE DEF c, l
  <2>6. Promise!Submit(c, newest'[c], i)
    BY <1>1, <1>2, <2>1, <2>3, <2>4 DEF Promise!Submit, Registers, l
  <2> QED BY <1>1, <2>5, <2>6 DEF Promise!Next
<1>5. CASE ~(Len(queue) < QueueMax)
  <2>1. /\ queue' = queue /\ wire' = Append(w, Command(by, job))
        /\ slip' = IF Queued(c) THEN slip \cup {c} ELSE slip \ {c}
    BY <1>5 DEF Submit, Issue
  <2>2. Line' = LineOf(Append(w, Command(by, job)), k, queue)
    BY <2>1, PromiseState
  <2>3. Line' = Promise!InsertAt(l, m + 1, Request(job))
    BY <1>1, <2>2, LineIssued
  <2>4. Promise!Owes(SubSeq(l, m + 1, Len(l)), c) <=> Queued(c)
    <3>1. SubSeq(l, m + 1, Len(l)) = LineOf(<<>>, 0, queue)
      BY <1>1, LineUnplugged
    <3>2. Promise!Owes(LineOf(<<>>, 0, queue), c) <=> Queued(c)
      BY <1>1, QueueOwes
    <3> QED BY <3>1, <3>2
  <2>5. m \in 0..Len(Line)
    BY <1>3
  <2> HIDE DEF c, l, m
  <2>6. Promise!Submit(c, newest'[c], m)
    BY <1>1, <1>2, <2>1, <2>3, <2>4 DEF Promise!Submit, Registers, l
  <2> QED BY <1>1, <2>5, <2>6 DEF Promise!Next
<1> QED BY <1>4, <1>5

-----------------------------------------------------------------------------
(* The last write there is                                                 *)

NatLess == OpToRel(<, Nat)

LEMMA NatLessFacts ==
  /\ IsWellFoundedOn(NatLess, Nat)
  /\ \A x, y \in Nat : <<x, y>> \in NatLess <=> x < y
<1>1. \A x, y \in Nat : <<x, y>> \in OpToRel(<, Nat) <=> x < y
  BY DEF OpToRel
<1> QED BY <1>1, NatLessThanWellFounded DEF NatLess

(* A set of numbers below n has a largest. *)
LEMMA Largest ==
  ASSUME NEW n \in Nat, NEW S, S \subseteq 0..n, S # {}
  PROVE  \E m \in S : \A k \in S : k =< m
<1> DEFINE T == {n - k : k \in S}
<1>1. T \subseteq Nat /\ T # {} /\ \A k \in S : k \in Int /\ n - k \in T
  <2>1. \A k \in S : k \in Int /\ n - k \in Nat
    OBVIOUS
  <2> QED BY <2>1
<1>2. \E x \in T : \A y \in T : ~(<<y, x>> \in NatLess)
  <2> HIDE DEF T
  <2>1. IsWellFoundedOn(NatLess, Nat)
    BY NatLessFacts
  <2> QED BY <1>1, <2>1, WFMin
<1>3. PICK x \in T : \A y \in T : ~(<<y, x>> \in NatLess)
  BY <1>2
<1>4. PICK m \in S : x = n - m
  BY <1>3
<1>5. ASSUME NEW k \in S PROVE k =< m
  <2>1. n - k \in T /\ n - k \in Nat /\ x \in Nat
    BY <1>1
  <2>2. ~(n - k < n - m)
    BY <1>3, <1>4, <2>1, NatLessFacts
  <2> QED BY <1>1, <2>2
<1> QED BY <1>5

(* So a call with a write has a last one. *)
LEMMA LastExists ==
  ASSUME NEW w, NEW n \in Nat, NEW c, NEW i \in 1..n,
         w[i].job.call = c, Writes(w[i].job)
  PROVE  \E j \in i..n : LastWrite(w, n, c, j)
<1> DEFINE S == {j \in i..n : w[j].job.call = c /\ Writes(w[j].job)}
<1>1. S \subseteq 0..n /\ i \in S
  OBVIOUS
<1>2. PICK m \in S : \A k \in S : k =< m
  BY <1>1, Largest
<1>3. \A j \in m + 1..n : j \in i..n /\ ~(j =< m)
  BY <1>1
<1>4. LastWrite(w, n, c, m)
  BY <1>2, <1>3 DEF LastWrite
<1> QED BY <1>4

-----------------------------------------------------------------------------
(* The registers and the wire                                              *)

LEMMA KeptAppend ==
  ASSUME NEW w \in Seq(Commands), NEW cmd \in Commands, NEW n \in 0..Len(w),
         NEW d \in 0..n, NEW s
  PROVE  Kept(Append(w, cmd), d, s, n) = Kept(w, d, s, n)
<1> DEFINE v == Append(w, cmd)
<1>1. /\ \A i \in 1..Len(w) : v[i] = w[i] /\ w[i] \in Commands
      /\ n \in Nat /\ d \in Nat /\ Len(w) \in Nat /\ n - d = n - d
      /\ \A i \in 1..n - d : d + i \in 1..Len(w)
  BY AppendFacts
<1> HIDE DEF v
<1>2. Agree(v, d, w, d, n - d)
  BY <1>1, JobFacts DEF Agree
<1>3. Kept(v, d, s, n) = Kept(w, d, s, n)
  BY <1>1, <1>2, KeptSame
<1> QED BY <1>3 DEF v

LEMMA KeptTail ==
  ASSUME NEW w \in Seq(Commands), w # <<>>, NEW n \in 1..Len(w), NEW d \in 1..n, NEW s
  PROVE  Kept(Tail(w), d - 1, s, n - 1) = Kept(w, d, s, n)
<1> DEFINE v == Tail(w)
           b == d - 1
           m == n - 1
<1>1. /\ \A i \in 1..Len(w) - 1 : v[i] = w[i + 1]
      /\ \A i \in 1..Len(w) : w[i] \in Commands
      /\ n \in Nat /\ d \in Nat /\ Len(w) \in Nat /\ b \in Nat /\ m \in Nat
      /\ m - b = n - d
      /\ \A i \in 1..n - d : b + i \in 1..Len(w) - 1 /\ (b + i) + 1 = d + i
                             /\ d + i \in 1..Len(w)
  BY TailFacts
<1> HIDE DEF v, b, m
<1>2. Agree(v, b, w, d, n - d)
  <2>1. ASSUME NEW i \in 1..n - d PROVE v[b + i] = w[d + i] /\ w[d + i] \in Commands
    BY <1>1
  <2> QED BY <2>1, JobFacts DEF Agree
<1>3. Kept(v, b, s, m) = Kept(w, d, s, n)
  BY <1>1, <1>2, KeptSame
<1> QED BY <1>3 DEF v, b, m

(* Beyond the last write of a call nothing is added to its register.       *)
LEMMA AfterNone ==
  ASSUME NEW w, NEW d, NEW n, NEW s, NEW c,
         \A i \in d + 1..n : ~(w[i].job.call = c /\ Writes(w[i].job))
  PROVE  AfterOf(w, d, s, n, c) = s[c]
  BY DEF AfterOf, LastWrite

-----------------------------------------------------------------------------
(* Every step is one of the promise, or does not show                      *)

(* What the steps have in common. *)
LEMMA WireFacts ==
  ASSUME TypeOK
  PROVE  /\ wire \in Seq(Commands) /\ queue \in Seq(Jobs) /\ Len(wire) \in Nat
         /\ done \in Nat /\ seen \in Nat /\ seen - done \in Nat
         /\ seen \in 0..Len(wire) /\ done \in 0..seen /\ done \in 0..Len(wire)
         /\ DOMAIN wire = 1..Len(wire) /\ \A i \in 1..Len(wire) : wire[i] \in Commands
         /\ Calls \subseteq Issuers /\ Drainers \subseteq Issuers
         /\ Boot \in Issuers /\ Sweep \in Issuers
  BY DEF TypeOK, Issuers

(* The wire, the queue and the store as they were. *)
LEMMA PromiseIdle ==
  ASSUME UNCHANGED <<wire, queue, done, seen, store, newest, slip>>
  PROVE  UNCHANGED Promise!vars
<1>1. Registers' = Registers /\ Line' = Line
  BY PromiseState
<1> QED BY <1>1, PromiseSame DEF promise

(* A drainer moves a write from the queue to the wire. *)
LEMMA PromiseTake ==
  ASSUME TypeOK, NEW d \in Drainers, Take(d)
  PROVE  UNCHANGED Promise!vars
<1> DEFINE k == Command(d, Head(queue))
<1>1. queue # <<>> /\ Head(queue) \in Jobs
  BY TailFacts DEF Take, TypeOK
<1>2. k \in Commands /\ k.job = Head(queue)
  BY <1>1, WireFacts, JobFacts
<1>3. /\ wire' = Append(wire, k) /\ queue' = Tail(queue)
      /\ UNCHANGED <<done, seen, store, newest, slip>>
  BY DEF Take, Issue, promise
<1> HIDE DEF k
<1>4. LineOf(wire', seen, queue') = LineOf(wire, seen, queue)
  BY <1>1, <1>2, <1>3, WireFacts, LineTaken
<1>5. Kept(wire', done, store, seen) = Kept(wire, done, store, seen)
  BY <1>2, <1>3, WireFacts, KeptAppend
<1> QED BY <1>3, <1>4, <1>5, PromiseState, PromiseSame DEF promise

(* The wire is as long and asks the same. *)
LEMMA PromiseRenamed ==
  ASSUME TypeOK, wire' \in Seq(Commands), Len(wire') = Len(wire),
         \A i \in 1..Len(wire) : Request(wire'[i].job) = Request(wire[i].job)
  PROVE  /\ LineOf(wire', seen, queue) = LineOf(wire, seen, queue)
         /\ \A d \in 0..seen : \A s : Kept(wire', d, s, seen) = Kept(wire, d, s, seen)
<1>1. \A i \in 1..Len(wire) - seen : seen + i \in 1..Len(wire)
  BY WireFacts
<1>2. LineOf(wire', seen, queue) = LineOf(wire, seen, queue)
  <2>1. \A i \in 1..Len(wire) - seen :
          Request(wire'[seen + i].job) = Request(wire[seen + i].job)
    BY <1>1
  <2>2. Len(wire') - seen = Len(wire) - seen /\ seen \in 0..Len(wire')
    BY WireFacts
  <2> QED BY <2>1, <2>2, WireFacts, LineSame
<1>3. ASSUME NEW d \in 0..seen, NEW s
      PROVE  Kept(wire', d, s, seen) = Kept(wire, d, s, seen)
  <2>1. /\ \A i \in 1..seen - d : d + i \in 1..Len(wire)
        /\ \A i \in 1..Len(wire) : wire'[i] \in Commands /\ wire[i] \in Commands
        /\ d \in Nat /\ seen \in Nat
    BY WireFacts
  <2>2. Agree(wire', d, wire, d, seen - d)
    BY <2>1, JobFacts DEF Agree
  <2> QED BY <2>1, <2>2, KeptSame
<1> QED BY <1>2, <1>3

(* The submitter goes on without a reply. *)
LEMMA PromiseTimeout ==
  ASSUME TypeOK, NEW by, Timeout(by)
  PROVE  UNCHANGED Promise!vars
<1>1. PICK i \in DOMAIN wire : wire' = [wire EXCEPT ![i] = Command(Nobody, @.job)]
  BY DEF Timeout
<1>2. /\ DOMAIN wire = 1..Len(wire) /\ wire[i] \in Commands
      /\ Command(Nobody, wire[i].job) \in Commands
      /\ Command(Nobody, wire[i].job).job = wire[i].job
  BY WireFacts, JobFacts
<1>3. /\ wire' \in Seq(Commands) /\ Len(wire') = Len(wire)
      /\ \A j \in 1..Len(wire) : wire'[j].job = wire[j].job
  BY <1>1, <1>2, WireFacts
<1>4. UNCHANGED <<queue, done, seen, store, newest, slip>>
  BY DEF Timeout, promise
<1>5. /\ LineOf(wire', seen, queue) = LineOf(wire, seen, queue)
      /\ Kept(wire', done, store, seen) = Kept(wire, done, store, seen)
  BY <1>3, WireFacts, PromiseRenamed
<1> QED BY <1>4, <1>5, PromiseState, PromiseSame DEF promise

(* A write submitted behind the wire as it is, ... *)
LEMMA PromiseHere ==
  ASSUME TypeOK, QueueWrites, NEW by \in Issuers, NEW job \in Jobs, Writes(job),
         Submit(wire, by, job), UNCHANGED <<done, seen, store>>
  PROVE  Promise!Next
<1>1. wire' = wire \/ wire' = Append(wire, Command(by, job))
  BY DEF Submit, Issue
<1>2. Command(by, job) \in Commands
  BY JobFacts
<1>3. Kept(wire', done, store, seen) = Kept(wire, done, store, seen)
  BY <1>1, <1>2, WireFacts, KeptAppend
<1>4. Registers' = Registers /\ LineOf(wire, seen, queue) = Line /\ seen' = seen
  BY <1>3, PromiseState
<1> QED BY <1>4, WireFacts, PromiseSubmit

(* ... and behind the wire without its head, which has been replied to.    *)
LEMMA PromiseBehind ==
  ASSUME TypeOK, QueueWrites, done > 0, HeadDone, store' = store,
         NEW by \in Issuers, NEW job \in Jobs, Writes(job), Submit(Tail(wire), by, job)
  PROVE  Promise!Next
<1> DEFINE t == Tail(wire)
           k == seen - 1
<1>1. wire # <<>> /\ done \in 1..seen /\ seen \in 1..Len(wire)
      /\ done' = done - 1 /\ seen' = k
  BY WireFacts DEF HeadDone, Less
<1>2. t \in Seq(Commands) /\ k \in 0..Len(t) /\ LineOf(t, k, queue) = LineOf(wire, seen, queue)
  BY <1>1, WireFacts, LineReplied
<1>3. Kept(t, done - 1, store, k) = Kept(wire, done, store, seen)
  BY <1>1, WireFacts, KeptTail
<1>4. wire' = t \/ wire' = Append(t, Command(by, job))
  BY DEF Submit, Issue
<1>5. Command(by, job) \in Commands
  BY JobFacts
<1>6. done - 1 \in 0..k
  BY <1>1, WireFacts
<1> HIDE DEF t, k
<1>7. Kept(wire', done - 1, store, k) = Kept(t, done - 1, store, k)
  BY <1>2, <1>4, <1>5, <1>6, KeptAppend
<1>8. Registers' = Registers
  BY <1>1, <1>3, <1>7, PromiseState
<1>9. LineOf(t, k, queue) = Line
  BY <1>2, PromiseState
<1> QED BY <1>1, <1>2, <1>8, <1>9, PromiseSubmit DEF t

(* A load asks behind the wire. *)
LEMMA PromiseLoad ==
  ASSUME TypeOK, NEW c \in Calls, Load(c)
  PROVE  Promise!Next
<1> DEFINE job == Job("get", c, NoBody)
           k == Command(c, job)
           m == Len(wire) - seen
<1>1. job \in Jobs /\ job.call = c /\ ~Writes(job) /\ k \in Commands /\ k.job = job
  BY WireFacts, JobFacts, BodyFacts
<1>2. wire' = Append(wire, k) /\ UNCHANGED <<queue, done, seen, store, newest, slip>>
  BY DEF Load, Issue, promise
<1>3. Request(job) = Promise!Read(c)
  BY <1>1 DEF Request, Promise!Read
<1> HIDE DEF job, k
<1>4. LineOf(wire', seen, queue) =
        Promise!InsertAt(LineOf(wire, seen, queue), m + 1, Request(job))
  BY <1>1, <1>2, WireFacts, LineIssued
<1>5. Kept(wire', done, store, seen) = Kept(wire, done, store, seen)
  BY <1>1, <1>2, WireFacts, KeptAppend
<1>6. m \in 0..Len(Line)
  BY WireFacts, LineFacts, PromiseState
<1> HIDE DEF m
<1>7. Registers' = Registers /\ Line' = Promise!InsertAt(Line, m + 1, Promise!Read(c))
  BY <1>2, <1>3, <1>4, <1>5, PromiseState
<1>8. Promise!Ask(c, m)
  BY <1>2, <1>7 DEF Promise!Ask, Registers
<1> QED BY <1>6, <1>8 DEF Promise!Next

(* The head is replied to, and nothing comes of it. *)
LEMMA PromiseReplied ==
  ASSUME TypeOK, done > 0, HeadDone, wire' = Tail(wire),
         UNCHANGED <<queue, store, newest, slip>>
  PROVE  UNCHANGED Promise!vars
<1>1. wire # <<>> /\ done \in 1..seen /\ seen \in 1..Len(wire)
      /\ done' = done - 1 /\ seen' = seen - 1
  BY WireFacts DEF HeadDone, Less
<1>2. LineOf(wire', seen', queue) = LineOf(wire, seen, queue)
  BY <1>1, WireFacts, LineReplied
<1>3. Kept(wire', done', store, seen') = Kept(wire, done, store, seen)
  BY <1>1, WireFacts, KeptTail
<1> QED BY <1>2, <1>3, PromiseState, PromiseSame DEF promise

(* Redis executes a command for the first time: the promise serves it.     *)
LEMMA PromiseServe ==
  ASSUME TypeOK, Execute, done = seen
  PROVE  Promise!Serve
<1> DEFINE k == done + 1
           job == wire[k].job
           req == Request(job)
<1>1. k \in 1..Len(wire) /\ done < Len(wire) /\ wire[k] \in Commands /\ k \in 0..Len(wire)
  BY WireFacts DEF Execute
<1>2. job \in Jobs /\ job.call \in Calls /\ done' = k /\ seen' = k /\ queue' = queue
  BY <1>1, JobFacts DEF Execute
<1>3. Line # <<>> /\ Head(Line) = req /\ Tail(Line) = LineOf(wire, k, queue)
  BY <1>1, WireFacts, LineServed, PromiseState
<1>4. wire' \in Seq(Commands) /\ Len(wire') = Len(wire)
      /\ \A i \in 1..Len(wire) : i # k => wire'[i] = wire[i]
  <2>1. CASE Writes(job)
    BY <2>1, WireFacts DEF Execute
  <2>2. CASE ~Writes(job)
    <3>1. wire' = [wire EXCEPT ![k] =
                     Command(wire[k].by, Job("get", job.call, store[job.call]))]
      BY <2>2 DEF Execute
    <3>2. store[job.call] \in Bodies /\ wire[k].by \in Issuers \cup {Nobody}
      BY <1>1, <1>2, JobFacts DEF TypeOK
    <3>3. Command(wire[k].by, Job("get", job.call, store[job.call])) \in Commands
      BY <1>2, <3>2, JobFacts
    <3> QED BY <1>1, <3>1, <3>3, WireFacts
  <2> QED BY <2>1, <2>2
<1>5. LineOf(wire', k, queue) = LineOf(wire, k, queue)
  <2>1. \A i \in 1..Len(wire) - k : k + i \in 1..Len(wire) /\ k + i # k
    BY <1>1, WireFacts
  <2>2. \A i \in 1..Len(wire) - k : Request(wire'[k + i].job) = Request(wire[k + i].job)
    BY <1>4, <2>1
  <2>3. Len(wire') - k = Len(wire) - k /\ k \in 0..Len(wire')
    BY <1>1, <1>4
  <2> QED BY <1>1, <1>4, <2>2, <2>3, WireFacts, LineSame
<1>6. Registers = store /\ Registers' = store'
  <2>1. \A c \in Calls : AfterOf(wire, done, store, seen, c) = store[c]
    <3>1. \A c : \A i \in done + 1..seen : ~(wire[i].job.call = c /\ Writes(wire[i].job))
      BY WireFacts
    <3> QED BY <3>1, AfterNone
  <2>2. \A c \in Calls : AfterOf(wire', done', store', seen', c) = store'[c]
    <3>1. \A c : \A i \in done' + 1..seen' :
            ~(wire'[i].job.call = c /\ Writes(wire'[i].job))
      BY <1>1, <1>2
    <3> QED BY <3>1, AfterNone
  <2>3. store = [c \in Calls |-> store[c]] /\ store' = [c \in Calls |-> store'[c]]
    BY DEF TypeOK, Execute
  <2>4. Registers = [c \in Calls |-> store[c]]
    BY <2>1, PromiseState DEF Kept
  <2>5. Registers' = [c \in Calls |-> store'[c]]
    BY <2>2, PromiseState DEF Kept
  <2> QED BY <2>3, <2>4, <2>5
<1>7. /\ req.call = job.call
      /\ req.value = NoWrite <=> ~Writes(job)
      /\ Writes(job) => req.value = job.body
  BY <1>2, RequestFacts
<1>8. store' = IF req.value = NoWrite THEN store ELSE [store EXCEPT ![req.call] = req.value]
  <2>1. CASE Writes(job)
    <3>1. store' = [store EXCEPT ![job.call] = job.body]
      BY <2>1 DEF Execute
    <3> QED BY <1>7, <2>1, <3>1
  <2>2. CASE ~Writes(job)
    <3>1. store' = store
      BY <2>2 DEF Execute
    <3> QED BY <1>7, <2>2, <3>1
  <2> QED BY <2>1, <2>2
<1> HIDE DEF k, job, req
<1>9. Registers' = IF Head(Line).value = NoWrite THEN Registers
                   ELSE [Registers EXCEPT ![Head(Line).call] = Head(Line).value]
  BY <1>3, <1>6, <1>8
<1>10. Line' = Tail(Line)
  BY <1>2, <1>3, <1>5, PromiseState
<1>11. UNCHANGED <<newest, slip>>
  BY DEF Execute, promise
<1> QED BY <1>3, <1>9, <1>10, <1>11 DEF Promise!Serve, Registers

(* A command executed again by a new connection changes no register: the   *)
(* writes behind it that were executed too count already.                  *)
LEMMA PromiseRepeat ==
  ASSUME TypeOK, Execute, done < seen
  PROVE  UNCHANGED Promise!vars
<1> DEFINE k == done + 1
           job == wire[k].job
<1>1. /\ k \in 1..Len(wire) /\ k \in 1..seen /\ k \in Nat /\ seen \in Nat /\ done \in Nat
      /\ wire[k] \in Commands /\ k \in 0..seen
  BY WireFacts
<1>2. /\ job \in Jobs /\ job.call \in Calls
      /\ UNCHANGED <<queue, seen, newest, slip>> /\ done' = k
  BY <1>1, JobFacts DEF Execute, promise
<1>3. CASE Writes(job)
  <2>1. wire' = wire /\ store' = [store EXCEPT ![job.call] = job.body]
    BY <1>3 DEF Execute
  <2>2. ASSUME NEW c \in Calls
        PROVE  AfterOf(wire, k, store', seen, c) = AfterOf(wire, done, store, seen, c)
    <3>1. CASE \E i \in k + 1..seen : LastWrite(wire, seen, c, i)
      <4>1. PICK i \in k + 1..seen : LastWrite(wire, seen, c, i)
        BY <3>1
      <4>2. i \in done + 1..seen
        BY <1>1
      <4>3. AfterOf(wire, k, store', seen, c) = wire[i].job.body
        BY <1>1, <4>1, AfterLast
      <4>4. AfterOf(wire, done, store, seen, c) = wire[i].job.body
        BY <1>1, <4>1, <4>2, AfterLast
      <4> QED BY <4>3, <4>4
    <3>2. CASE ~\E i \in k + 1..seen : LastWrite(wire, seen, c, i)
      <4>1. \A i \in k + 1..seen : ~(wire[i].job.call = c /\ Writes(wire[i].job))
        <5>1. ASSUME NEW i \in k + 1..seen, wire[i].job.call = c, Writes(wire[i].job)
              PROVE  FALSE
          <6>1. i \in 1..seen
            BY <1>1
          <6>2. PICK j \in i..seen : LastWrite(wire, seen, c, j)
            BY <1>1, <5>1, <6>1, LastExists
          <6>3. j \in k + 1..seen
            BY <1>1
          <6> QED BY <3>2, <6>2, <6>3
        <5> QED BY <5>1
      <4>2. AfterOf(wire, k, store', seen, c) = store'[c]
        BY <4>1, AfterNone
      <4>3. CASE job.call = c
        <5>1. k \in done + 1..seen /\ LastWrite(wire, seen, c, k)
          BY <1>1, <1>3, <4>1, <4>3 DEF LastWrite
        <5>2. AfterOf(wire, done, store, seen, c) = job.body
          BY <1>1, <5>1, AfterLast
        <5>3. store'[c] = job.body
          BY <2>1, <4>3 DEF TypeOK
        <5> QED BY <4>2, <5>2, <5>3
      <4>4. CASE job.call # c
        <5>1. \A i \in done + 1..seen : ~(wire[i].job.call = c /\ Writes(wire[i].job))
          <6>1. \A i \in done + 1..seen : i = k \/ i \in k + 1..seen
            BY <1>1
          <6> QED BY <4>1, <4>4, <6>1
        <5>2. AfterOf(wire, done, store, seen, c) = store[c]
          BY <5>1, AfterNone
        <5>3. store'[c] = store[c]
          BY <2>1, <4>4 DEF TypeOK
        <5> QED BY <4>2, <5>2, <5>3
      <4> QED BY <4>3, <4>4
    <3> QED BY <3>1, <3>2
  <2>3. Kept(wire', done', store', seen') = Kept(wire, done, store, seen)
    BY <1>2, <2>1, <2>2 DEF Kept
  <2> QED BY <1>2, <2>1, <2>3, PromiseState, PromiseSame DEF promise
<1>4. CASE ~Writes(job)
  <2> DEFINE got == Command(wire[k].by, Job("get", job.call, store[job.call]))
  <2>1. wire' = [wire EXCEPT ![k] = got] /\ store' = store
    BY <1>4 DEF Execute
  <2>2. got \in Commands /\ got.job \in Jobs /\ ~Writes(got.job) /\ got.job.call = job.call
    <3>1. store[job.call] \in Bodies /\ wire[k].by \in Issuers \cup {Nobody}
      BY <1>1, <1>2, JobFacts DEF TypeOK
    <3> DEFINE read == Job("get", job.call, store[job.call])
    <3>2. read \in Jobs /\ ~Writes(read) /\ read.call = job.call
      BY <1>2, <3>1, JobFacts
    <3> HIDE DEF read
    <3>3. Command(wire[k].by, read) \in Commands /\ Command(wire[k].by, read).job = read
      BY <3>1, <3>2, JobFacts
    <3> QED BY <3>2, <3>3 DEF read
  <2>3. Request(got.job) = Request(job)
    BY <1>4, <2>2 DEF Request
  <2> HIDE DEF got
  <2>4. /\ wire' \in Seq(Commands) /\ Len(wire') = Len(wire)
        /\ \A i \in 1..Len(wire) : Request(wire'[i].job) = Request(wire[i].job)
    <3>1. /\ wire' \in Seq(Commands) /\ Len(wire') = Len(wire) /\ wire'[k] = got
          /\ \A i \in 1..Len(wire) : i # k => wire'[i] = wire[i]
      BY <1>1, <2>1, <2>2, WireFacts
    <3> QED BY <2>3, <3>1
  <2>5. /\ LineOf(wire', seen, queue) = LineOf(wire, seen, queue)
        /\ Kept(wire', k, store, seen) = Kept(wire, k, store, seen)
    BY <1>1, <2>4, PromiseRenamed
  <2>6. Kept(wire, k, store, seen) = Kept(wire, done, store, seen)
    <3> SUFFICES ASSUME NEW c \in Calls
                 PROVE  AfterOf(wire, k, store, seen, c) = AfterOf(wire, done, store, seen, c)
      BY DEF Kept
    <3>1. ASSUME NEW i \in done + 1..seen, LastWrite(wire, seen, c, i)
          PROVE  i \in k + 1..seen
      <4>1. i # k
        BY <1>4, <3>1 DEF LastWrite
      <4> QED BY <1>1, <4>1
    <3>2. CASE \E i \in done + 1..seen : LastWrite(wire, seen, c, i)
      <4>1. PICK i \in done + 1..seen : LastWrite(wire, seen, c, i)
        BY <3>2
      <4>2. AfterOf(wire, k, store, seen, c) = wire[i].job.body
        BY <1>1, <3>1, <4>1, AfterLast
      <4>3. AfterOf(wire, done, store, seen, c) = wire[i].job.body
        BY <1>1, <4>1, AfterLast
      <4> QED BY <4>2, <4>3
    <3>3. CASE ~\E i \in done + 1..seen : LastWrite(wire, seen, c, i)
      <4>1. \A i \in k + 1..seen : i \in done + 1..seen
        BY <1>1
      <4> QED BY <3>3, <4>1 DEF AfterOf
    <3> QED BY <3>2, <3>3
  <2> QED BY <1>2, <2>1, <2>5, <2>6, PromiseState, PromiseSame DEF promise
<1> QED BY <1>3, <1>4

(* A new connection executes again what had no reply: the store holds what *)
(* was executed, so the registers are as they were.                        *)
LEMMA PromiseReconnect ==
  ASSUME TypeOK, LineInv, Reconnect
  PROVE  UNCHANGED Promise!vars
<1>1. /\ UNCHANGED <<wire, queue, seen, store, newest, slip>> /\ done' = 0
      /\ 0 \in Nat /\ done \in Nat /\ seen \in Nat /\ done \in 0..seen
  BY WireFacts DEF Reconnect, promise
<1>2. ASSUME NEW c \in Calls
      PROVE  AfterOf(wire, 0, store, seen, c) = AfterOf(wire, done, store, seen, c)
  <2>1. CASE \E i \in done + 1..seen : LastWrite(wire, seen, c, i)
    <3>1. PICK i \in done + 1..seen : LastWrite(wire, seen, c, i)
      BY <2>1
    <3>2. i \in 0 + 1..seen
      BY <1>1
    <3>3. AfterOf(wire, 0, store, seen, c) = wire[i].job.body
      BY <1>1, <3>1, <3>2, AfterLast
    <3>4. AfterOf(wire, done, store, seen, c) = wire[i].job.body
      BY <1>1, <3>1, AfterLast
    <3> QED BY <3>3, <3>4
  <2>2. CASE ~\E i \in done + 1..seen : LastWrite(wire, seen, c, i)
    <3>1. AfterOf(wire, done, store, seen, c) = store[c]
      BY <2>2 DEF AfterOf
    <3>2. CASE \E i \in 0 + 1..seen : LastWrite(wire, seen, c, i)
      <4>1. PICK i \in 0 + 1..seen : LastWrite(wire, seen, c, i)
        BY <3>2
      <4>2. i \in 1..done /\ \A j \in i + 1..done : j \in i + 1..seen
        BY <1>1, <2>2, <4>1
      <4>3. LastWrite(wire, done, c, i)
        BY <4>1, <4>2 DEF LastWrite
      <4>4. store[c] = wire[i].job.body
        BY <4>2, <4>3 DEF LineInv, StoreFollows
      <4>5. AfterOf(wire, 0, store, seen, c) = wire[i].job.body
        BY <1>1, <4>1, AfterLast
      <4> QED BY <3>1, <4>4, <4>5
    <3>3. CASE ~\E i \in 0 + 1..seen : LastWrite(wire, seen, c, i)
      BY <3>1, <3>3 DEF AfterOf
    <3> QED BY <3>2, <3>3
  <2> QED BY <2>1, <2>2
<1>3. Kept(wire', done', store', seen') = Kept(wire, done, store, seen)
  BY <1>1, <1>2 DEF Kept
<1> QED BY <1>1, <1>3, PromiseState, PromiseSame DEF promise

(* The registers hold bodies. *)
LEMMA KeptType ==
  ASSUME NEW w \in Seq(Commands), NEW n \in 0..Len(w), NEW d \in 0..n,
         NEW s \in [Calls -> Bodies]
  PROVE  Kept(w, d, s, n) \in [Calls -> Bodies]
<1>1. ASSUME NEW c \in Calls PROVE AfterOf(w, d, s, n, c) \in Bodies
  <2>1. CASE \E i \in d + 1..n : LastWrite(w, n, c, i)
    <3>1. PICK i \in d + 1..n : LastWrite(w, n, c, i)
      BY <2>1
    <3>2. d \in Nat /\ n \in Nat /\ w[i] \in Commands
      OBVIOUS
    <3>3. AfterOf(w, d, s, n, c) = w[i].job.body
      BY <3>1, <3>2, AfterLast
    <3> QED BY <3>2, <3>3, JobFacts
  <2>2. CASE ~\E i \in d + 1..n : LastWrite(w, n, c, i)
    BY <2>2 DEF AfterOf
  <2> QED BY <2>1, <2>2
<1> QED BY <1>1 DEF Kept

(* Nothing of the wire is left. *)
LEMMA KeptStore ==
  ASSUME NEW w, NEW s \in [Calls -> Bodies]
  PROVE  Kept(w, 0, s, 0) = s
<1>1. \A c : \A i \in 0 + 1..0 : ~(w[i].job.call = c /\ Writes(w[i].job))
  OBVIOUS
<1>2. \A c \in Calls : AfterOf(w, 0, s, 0, c) = s[c]
  BY <1>1, AfterNone
<1> QED BY <1>2 DEF Kept

(* The worker dies: the registers are what the store is left with.         *)
LEMMA PromiseCrash ==
  ASSUME TypeOK, Crash
  PROVE  Promise!Restart
<1>1. /\ wire' = <<>> /\ queue' = <<>> /\ done' = 0 /\ seen' = 0
      /\ newest' = store' /\ slip' = {}
  BY DEF Crash
<1>2. store' \in [Calls -> Bodies]
  <2>1. PICK n \in done..Len(wire) : store' = [c \in Calls |-> After(n, c)]
    BY DEF Crash
  <2>2. store' = Kept(wire, done, store, n)
    BY <2>1 DEF Kept, After, AfterOf
  <2>3. n \in 0..Len(wire) /\ done \in 0..n
    BY WireFacts
  <2> QED BY <2>2, <2>3, WireFacts, KeptType DEF TypeOK
<1>3. Registers' = store'
  BY <1>1, <1>2, KeptStore, PromiseState
<1>4. Line' = <<>>
  <2> DEFINE w == <<>>
             q == <<>>
  <2>1. Line' = LineOf(w, 0, q)
    BY <1>1, PromiseState
  <2>2. w \in Seq(Commands) /\ q \in Seq(Jobs) /\ Len(w) = 0 /\ Len(q) = 0 /\ 0 \in 0..Len(w)
    OBVIOUS
  <2> HIDE DEF w, q
  <2>3. LineOf(w, 0, q) \in Seq(Requests) /\ Len(LineOf(w, 0, q)) = (Len(w) - 0) + Len(q)
    BY <2>2, LineFacts
  <2> QED BY <2>1, <2>2, <2>3
<1> QED BY <1>1, <1>2, <1>3, <1>4 DEF Promise!Restart, Registers

(* The line without the wire. *)
LEMMA LineCut ==
  ASSUME TypeOK
  PROVE  LET m == Len(wire) - seen
         IN  /\ m \in 0..Len(Line)
             /\ SubSeq(Line, m + 1, Len(Line)) = LineOf(<<>>, 0, queue)
             /\ \A j \in 1..m : Line[j] = Request(wire[seen + j].job)
<1>1. Line = LineOf(wire, seen, queue)
  BY PromiseState
<1> DEFINE m == Len(wire) - seen
<1>2. /\ m \in Nat /\ Len(queue) \in Nat /\ Len(Line) = m + Len(queue)
      /\ \A j \in 1..m : Line[j] = Request(wire[seen + j].job)
  <2> DEFINE l == LineOf(wire, seen, queue)
  <2>1. /\ Len(l) = m + Len(queue)
        /\ \A j \in 1..m : l[j] = Request(wire[seen + j].job)
    BY WireFacts, LineFacts
  <2> HIDE DEF l
  <2>2. m \in Nat /\ Len(queue) \in Nat
    BY WireFacts
  <2> QED BY <1>1, <2>1, <2>2 DEF l
<1>3. SubSeq(Line, m + 1, Len(Line)) = LineOf(<<>>, 0, queue)
  BY <1>1, WireFacts, LineUnplugged
<1> HIDE DEF m
<1>4. m \in 0..Len(Line)
  BY <1>2
<1> QED BY <1>2, <1>3, <1>4 DEF m

(* The client gives up: every write on the wire may be lost.               *)
LEMMA PromiseGiveUp ==
  ASSUME TypeOK, QueueWrites, GiveUp
  PROVE  Promise!Next
<1> DEFINE S == {c \in Calls : OnWire(wire, c)}
           m == Len(wire) - seen
<1>1. /\ wire' = <<>> /\ done' = 0 /\ seen' = 0 /\ UNCHANGED <<queue, store, newest>>
      /\ slip' = slip \cup {c \in Calls : OnWire(wire, c) /\ ~Queued(c)}
      /\ S \in SUBSET Calls
  BY DEF GiveUp
<1>2. Registers' = store /\ store \in [Calls -> Bodies]
  BY <1>1, KeptStore, PromiseState DEF TypeOK
<1>3. \A c \in Calls \ S : Registers[c] = store[c]
  <2> SUFFICES ASSUME NEW c \in Calls \ S PROVE Registers[c] = store[c]
    OBVIOUS
  <2>1. \A i \in done + 1..seen : i \in DOMAIN wire
    BY WireFacts
  <2>2. \A i \in done + 1..seen : ~(wire[i].job.call = c /\ Writes(wire[i].job))
    BY <2>1 DEF OnWire
  <2>3. AfterOf(wire, done, store, seen, c) = store[c]
    BY <2>2, AfterNone
  <2> QED BY <2>3, PromiseState DEF Kept
<1>4. m \in 0..Len(Line) /\ Line' = SubSeq(Line, m + 1, Len(Line))
  BY <1>1, LineCut, PromiseState
<1>5. \A j \in 1..m : Line[j].value # NoWrite => Line[j].call \in S
  <2> SUFFICES ASSUME NEW j \in 1..m, Line[j].value # NoWrite PROVE Line[j].call \in S
    OBVIOUS
  <2>1. seen + j \in 1..Len(wire) /\ seen + j \in DOMAIN wire
    BY WireFacts
  <2>2. wire[seen + j].job \in Jobs /\ wire[seen + j].job.call \in Calls
    BY <2>1, WireFacts, JobFacts
  <2>3. Line[j] = Request(wire[seen + j].job)
    BY LineCut
  <2>4. Writes(wire[seen + j].job) /\ Line[j].call = wire[seen + j].job.call
    BY <2>2, <2>3, RequestFacts
  <2> QED BY <2>1, <2>2, <2>4 DEF OnWire
<1>6. \A c : Promise!Owes(Line', c) <=> Queued(c)
  BY <1>1, WireFacts, QueueOwes, PromiseState
<1>7. slip' = slip \cup {c \in S : ~Promise!Owes(Line', c)}
  BY <1>1, <1>6
<1> HIDE DEF S, m
<1>8. Promise!Lose(S, m)
  BY <1>1, <1>2, <1>3, <1>4, <1>5, <1>7 DEF Promise!Lose, Registers
<1> QED BY <1>1, <1>4, <1>8 DEF Promise!Next

(* The head of the wire is refused.  A write that an earlier connection    *)
(* executed and that has a later one executed too takes nothing away; any  *)
(* other write takes the register of its call along.                       *)
LEMMA PromiseRefuse ==
  ASSUME TypeOK, QueueWrites, Refuse
  PROVE  Promise!Next
<1> DEFINE job == Head(wire).job
           t == Tail(wire)
           b == Less(seen)
           c == job.call
<1>1. /\ wire # <<>> /\ done = 0 /\ Head(wire) = wire[1] /\ job \in Jobs /\ c \in Calls
      /\ t \in Seq(Commands) /\ Len(wire) \in Nat \ {0} /\ Len(t) = Len(wire) - 1
      /\ \A i \in 1..Len(wire) - 1 : t[i] = wire[i + 1]
      /\ DOMAIN t = 1..Len(wire) - 1
  BY WireFacts, TailFacts, JobFacts DEF Refuse
<1>2. /\ wire' = t /\ done' = 0 /\ seen' = b /\ UNCHANGED <<queue, store, newest>>
      /\ slip' = IF Writes(job) /\ ~Queued(c) /\ ~OnWire(t, c) THEN slip \cup {c} ELSE slip
  BY <1>1 DEF Refuse, HeadDone, Less
<1>3. b \in 0..Len(t) /\ (seen = 0 => b = 0) /\ (seen > 0 => b = seen - 1)
  BY <1>1, WireFacts DEF Less
<1> HIDE DEF t, b
<1>4. Registers' \in [Calls -> Bodies] /\ store \in [Calls -> Bodies]
  BY <1>1, <1>2, <1>3, KeptType, PromiseState DEF TypeOK
(* Registers of calls that have no write at the head. *)
<1>5. ASSUME NEW x \in Calls,
             \/ ~(x = c /\ Writes(job))
             \/ \E i \in 2..seen : wire[i].job.call = x /\ Writes(wire[i].job)
      PROVE  Registers'[x] = Registers[x]
  <2>1. Registers[x] = AfterOf(wire, 0, store, seen, x)
    BY <1>1, PromiseState DEF Kept
  <2>2. Registers'[x] = AfterOf(t, 0, store, b, x)
    BY <1>1, <1>2, PromiseState DEF Kept
  <2>3. /\ \A i \in 1..b : i + 1 \in 2..seen /\ t[i] = wire[i + 1]
        /\ \A i \in 2..seen : i - 1 \in 1..b /\ t[i - 1] = wire[i]
        /\ b \in Nat /\ seen \in Nat
    BY <1>1, <1>3, WireFacts
  <2>4. CASE \E i \in 2..seen : wire[i].job.call = x /\ Writes(wire[i].job)
    <3>1. PICK i \in 2..seen : wire[i].job.call = x /\ Writes(wire[i].job)
      BY <2>4
    <3>2. PICK j \in i..seen : LastWrite(wire, seen, x, j)
      BY <2>3, <3>1, LastExists
    <3>3. j \in 2..seen /\ j \in 0 + 1..seen
      BY <2>3
    <3>4. AfterOf(wire, 0, store, seen, x) = wire[j].job.body
      BY <2>3, <3>2, <3>3, AfterLast
    <3>5. j - 1 \in 0 + 1..b /\ t[j - 1] = wire[j]
      BY <2>3, <3>3
    <3>6. LastWrite(t, b, x, j - 1)
      <4>1. \A k \in (j - 1) + 1..b : k + 1 \in j + 1..seen /\ t[k] = wire[k + 1]
        BY <2>3, <3>3
      <4> QED BY <3>2, <3>5, <4>1 DEF LastWrite
    <3>7. AfterOf(t, 0, store, b, x) = t[j - 1].job.body
      BY <2>3, <3>5, <3>6, AfterLast
    <3> QED BY <2>1, <2>2, <3>4, <3>5, <3>7
  <2>5. CASE ~\E i \in 2..seen : wire[i].job.call = x /\ Writes(wire[i].job)
    <3>1. \A i \in 0 + 1..seen : ~(wire[i].job.call = x /\ Writes(wire[i].job))
      <4>1. \A i \in 0 + 1..seen : i = 1 \/ i \in 2..seen
        BY <2>3
      <4> QED BY <1>1, <1>5, <2>5, <4>1
    <3>2. \A i \in 0 + 1..b : ~(t[i].job.call = x /\ Writes(t[i].job))
      BY <2>3, <2>5
    <3>3. /\ AfterOf(wire, 0, store, seen, x) = store[x]
          /\ AfterOf(t, 0, store, b, x) = store[x]
      BY <3>1, <3>2, AfterNone
    <3> QED BY <2>1, <2>2, <3>3
  <2> QED BY <2>4, <2>5
(* The head leaves the line if it is in it. *)
<1>6. PICK m \in 0..Len(Line) :
        /\ Line' = SubSeq(Line, m + 1, Len(Line))
        /\ m = 0 \/ (m = 1 /\ seen = 0 /\ Line[1] = Request(job))
  <2>1. CASE seen > 0
    <3>1. LineOf(t, b, queue) = LineOf(wire, seen, queue)
      BY <1>1, <1>3, <2>1, WireFacts, LineReplied DEF t
    <3>2. Line' = Line /\ Line \in Seq(Requests) /\ Len(Line) \in Nat
      BY <1>2, <3>1, WireFacts, LineFacts, PromiseState
    <3>3. SubSeq(Line, 0 + 1, Len(Line)) = Line /\ 0 \in 0..Len(Line)
      BY <3>2
    <3> QED BY <3>2, <3>3
  <2>2. CASE seen = 0
    <3>1. b = 0 /\ 0 \in 0..Len(wire) /\ 0 < Len(wire) /\ 0 + 1 = 1 /\ 1 \in 1..Len(wire)
      BY <1>1, <1>3, <2>2
    <3>2. /\ LineOf(wire, 0, queue) # <<>>
          /\ Head(LineOf(wire, 0, queue)) = Request(wire[0 + 1].job)
          /\ Tail(LineOf(wire, 0, queue)) = LineOf(wire, 0 + 1, queue)
      BY <3>1, WireFacts, LineServed
    <3>3. LineOf(t, 1 - 1, queue) = LineOf(wire, 1, queue)
      BY <1>1, <3>1, WireFacts, LineReplied DEF t
    <3>4. /\ Line # <<>> /\ Line \in Seq(Requests) /\ Head(Line) = Request(job)
          /\ Line' = Tail(Line)
      BY <1>1, <1>2, <2>2, <3>1, <3>2, <3>3, WireFacts, LineFacts, PromiseState
    <3>5. Head(Line) = Line[1] /\ Len(Line) \in Nat \ {0}
          /\ Tail(Line) = SubSeq(Line, 1 + 1, Len(Line))
      BY <3>4
    <3>6. 1 \in 0..Len(Line)
      BY <3>5
    <3> QED BY <2>2, <3>4, <3>5, <3>6
  <2>3. seen = 0 \/ seen > 0
    BY WireFacts
  <2> QED BY <2>1, <2>2, <2>3
<1>7. \A x : Promise!Owes(Line', x) <=>
         \/ \E i \in b + 1..Len(t) : t[i].job.call = x /\ Writes(t[i].job)
         \/ Queued(x)
  <2> SUFFICES ASSUME NEW x
               PROVE  Promise!Owes(Line', x) <=>
                        \/ \E i \in b + 1..Len(t) : t[i].job.call = x /\ Writes(t[i].job)
                        \/ Queued(x)
    OBVIOUS
  <2>0. t \in Seq(Commands) /\ queue \in Seq(Jobs) /\ b \in 0..Len(t)
    BY <1>1, <1>3, WireFacts
  <2>1. Promise!Owes(LineOf(t, b, queue), x) <=>
           \/ \E i \in b + 1..Len(t) : t[i].job.call = x /\ Writes(t[i].job)
           \/ \E i \in DOMAIN queue : queue[i].call = x /\ Writes(queue[i])
    BY <2>0, LineOwes
  <2>2. Queued(x) <=> \E i \in DOMAIN queue : queue[i].call = x /\ Writes(queue[i])
    BY DEF Queued, QueueWrites
  <2>3. Line' = LineOf(t, b, queue)
    BY <1>2, PromiseState
  <2> QED BY <2>1, <2>2, <2>3
(* The register is kept, ... *)
<1>8. CASE ~Writes(job) \/ \E i \in 2..seen : wire[i].job.call = c /\ Writes(wire[i].job)
  <2>1. slip' = slip
    <3>1. ASSUME NEW i \in 2..seen, wire[i].job.call = c /\ Writes(wire[i].job)
          PROVE  OnWire(t, c)
      <4>1. i - 1 \in DOMAIN t /\ t[i - 1] = wire[i]
        BY <1>1, WireFacts
      <4> QED BY <3>1, <4>1 DEF OnWire
    <3> QED BY <1>2, <1>8, <3>1
  <2>2. \A x \in Calls : Registers'[x] = Registers[x]
    BY <1>5, <1>8
  <2>3. \A j \in 1..m : Line[j].value # NoWrite => Line[j].call \in {}
    <3>1. ASSUME NEW j \in 1..m PROVE Line[j].value = NoWrite
      <4>1. j = 1 /\ seen = 0 /\ Line[1] = Request(job)
        BY <1>6
      <4>2. ~Writes(job)
        BY <1>8, <4>1
      <4> QED BY <1>1, <4>1, <4>2, RequestFacts
    <3> QED BY <3>1
  <2>4. Promise!Lose({}, m)
    BY <1>2, <1>4, <1>6, <2>1, <2>2, <2>3 DEF Promise!Lose, Registers
  <2> QED BY <1>6, <2>4 DEF Promise!Next
(* ... or not. *)
<1>9. CASE Writes(job) /\ ~\E i \in 2..seen : wire[i].job.call = c /\ Writes(wire[i].job)
  <2>1. OnWire(t, c) <=> \E i \in b + 1..Len(t) : t[i].job.call = c /\ Writes(t[i].job)
    <3>1. \A i \in DOMAIN t : i \in b + 1..Len(t) \/ (i + 1 \in 2..seen /\ t[i] = wire[i + 1])
      BY <1>1, <1>3, WireFacts
    <3>2. \A i \in b + 1..Len(t) : i \in DOMAIN t
      BY <1>1, <1>3
    <3> QED BY <1>9, <3>1, <3>2 DEF OnWire
  <2>2. slip' = slip \cup {x \in {c} : ~Promise!Owes(Line', x)}
    BY <1>2, <1>7, <1>9, <2>1
  <2>3. \A x \in Calls \ {c} : Registers'[x] = Registers[x]
    BY <1>5
  <2>4. \A j \in 1..m : Line[j].value # NoWrite => Line[j].call \in {c}
    <3>1. ASSUME NEW j \in 1..m PROVE Line[j].call = c
      <4>1. j = 1 /\ Line[1] = Request(job)
        BY <1>6
      <4> QED BY <1>1, <4>1, RequestFacts
    <3> QED BY <3>1
  <2>5. Promise!Lose({c}, m)
    BY <1>2, <1>4, <1>6, <2>2, <2>3, <2>4 DEF Promise!Lose, Registers
  <2>6. {c} \in SUBSET Calls
    BY <1>1
  <2> QED BY <1>6, <2>5, <2>6 DEF Promise!Next
<1> QED BY <1>8, <1>9

(* A handler's write, and the reply of a load or the scan's, which may     *)
(* delete the call.                                                        *)
LEMMA PromiseHandler ==
  ASSUME TypeOK, QueueWrites, NEW c \in Calls,
         Flush(c) \/ FlushAgain(c) \/ Remove(c) \/ Purge(c)
  PROVE  Promise!Next
<1>1. CASE Flush(c)
  <2>1. PICK s \in Follows(mem[c].state) :
          Submit(wire, c, Put(c, [state |-> s, gen |-> mem[c].gen + 1]))
    BY <1>1 DEF Flush
  <2>2. mem[c].state \in States /\ mem[c].gen \in Nat /\ s \in States
    BY <1>1, BodyFacts DEF Flush, TypeOK, Follows, States
  <2>3. [state |-> s, gen |-> mem[c].gen + 1] \in Bodies
    BY <2>2, BodyFacts
  <2> QED BY <1>1, <2>1, <2>3, WireFacts, JobFacts, PromiseHere DEF Flush
<1>2. CASE FlushAgain(c)
  <2>1. mem[c] \in Bodies
    BY DEF TypeOK
  <2>2. Put(c, mem[c]) \in Jobs /\ Writes(Put(c, mem[c]))
    BY <2>1, JobFacts
  <2> QED BY <1>2, <2>2, WireFacts, PromiseHere DEF FlushAgain
<1>3. Delete(c) \in Jobs /\ Writes(Delete(c))
  BY JobFacts, BodyFacts
<1>4. CASE Remove(c)
  BY <1>3, <1>4, WireFacts, PromiseHere DEF Remove, Forget
<1>5. CASE Purge(c)
  BY <1>3, <1>5, WireFacts, PromiseHere DEF Purge, Forget
<1> QED BY <1>1, <1>2, <1>4, <1>5

LEMMA PromiseAnswer ==
  ASSUME TypeOK, QueueWrites, LoadReply
  PROVE  Promise!Next \/ UNCHANGED Promise!vars
<1> DEFINE c == Head(wire).job.call
<1>1. /\ wire # <<>> /\ c \in Calls /\ done > 0 /\ HeadDone /\ store' = store
  <2>1. wire # <<>> /\ done > 0 /\ HeadDone /\ store' = store
    BY WireFacts DEF LoadReply
  <2>2. Head(wire) \in Commands
    BY <2>1, WireFacts, TailFacts
  <2> QED BY <2>1, <2>2, JobFacts
<1>2. CASE Head(wire).job.body.state = "terminating"
  <2>1. Submit(Tail(wire), c, Delete(c))
    BY <1>2 DEF LoadReply
  <2>2. Delete(c) \in Jobs /\ Writes(Delete(c)) /\ c \in Issuers
    BY <1>1, WireFacts, JobFacts, BodyFacts
  <2> QED BY <1>1, <2>1, <2>2, PromiseBehind
<1>3. CASE Head(wire).job.body.state # "terminating"
  <2>1. wire' = Tail(wire) /\ UNCHANGED <<queue, newest, slip>>
    BY <1>3 DEF LoadReply, promise
  <2> QED BY <1>1, <2>1, PromiseReplied
<1> QED BY <1>2, <1>3

LEMMA PromiseScan ==
  ASSUME TypeOK, QueueWrites, NEW c \in Calls, Rehydrate(c)
  PROVE  Promise!Next \/ UNCHANGED Promise!vars
<1>1. CASE scan[c].state = "terminating"
  <2>1. Submit(wire, Boot, Delete(c)) /\ UNCHANGED <<done, seen, store>>
    BY <1>1 DEF Rehydrate
  <2>2. Delete(c) \in Jobs /\ Writes(Delete(c))
    BY JobFacts, BodyFacts
  <2> QED BY <2>1, <2>2, WireFacts, PromiseHere
<1>2. CASE scan[c].state # "terminating"
  <2>1. UNCHANGED <<wire, queue, done, seen, store, newest, slip>>
    BY <1>2 DEF Rehydrate, promise
  <2> QED BY <2>1, PromiseIdle
<1> QED BY <1>1, <1>2

LEMMA PromiseStep ==
  ASSUME TypeOK, LineInv, [Next]_vars
  PROVE  Promise!Next \/ UNCHANGED Promise!vars
<1>0. QueueWrites
  BY DEF LineInv, QueueWrites
<1>1. ASSUME NEW d \in Drainers, Take(d) PROVE UNCHANGED Promise!vars
  BY <1>1, PromiseTake
<1>2. ASSUME NEW by \in Calls \cup {Boot, Sweep}, Timeout(by) PROVE UNCHANGED Promise!vars
  BY <1>2, PromiseTimeout
<1>3. ASSUME NEW c \in Calls, Create(c) \/ ScanRead(c) PROVE UNCHANGED Promise!vars
  BY <1>3, PromiseIdle DEF Create, ScanRead, lineVars, promise
<1>4. ASSUME NEW c \in Calls, Flush(c) \/ FlushAgain(c) \/ Remove(c) \/ Purge(c)
      PROVE  Promise!Next
  BY <1>0, <1>4, PromiseHandler
<1>5. ASSUME NEW c \in Calls, Load(c) PROVE Promise!Next
  BY <1>5, PromiseLoad
<1>6. ASSUME NEW c \in Calls, Rehydrate(c) PROVE Promise!Next \/ UNCHANGED Promise!vars
  BY <1>0, <1>6, PromiseScan
<1>7. CASE Execute
  <2>1. CASE done = seen
    BY <1>7, <2>1, PromiseServe DEF Promise!Next
  <2>2. CASE done < seen
    BY <1>7, <2>2, PromiseRepeat
  <2>3. done = seen \/ done < seen
    BY WireFacts
  <2> QED BY <2>1, <2>2, <2>3
<1>8. CASE Reply
  BY <1>8, PromiseReplied DEF Reply, promise
<1>9. CASE LoadReply
  BY <1>0, <1>9, PromiseAnswer
<1>10. CASE Refuse
  BY <1>0, <1>10, PromiseRefuse
<1>11. CASE Reconnect
  BY <1>11, PromiseReconnect
<1>12. CASE GiveUp
  BY <1>0, <1>12, PromiseGiveUp
<1>13. CASE Crash
  BY <1>13, PromiseCrash DEF Promise!Next
<1>14. CASE UNCHANGED vars
  BY <1>14, PromiseIdle DEF vars, lineVars, promise
<1> QED BY <1>1, <1>2, <1>3, <1>4, <1>5, <1>6, <1>7, <1>8, <1>9, <1>10, <1>11, <1>12,
           <1>13, <1>14 DEF Next

(* The write-behind path implements ordered registers: whatever the        *)
(* drainers, the fall-throughs, the commands issued twice and the losses,  *)
(* the requests of the worker are served in the order they were submitted, *)
(* but for the calls that slipped (BufferedTerminateWriter, CallState).    *)
THEOREM ImplementsOrderedStore == Spec => KeepsThePromise
<1>1. Init => Promise!Init
  BY PromiseInit
<1>2. TypeOK /\ LineInv /\ [Next]_vars => [Promise!Next]_(Promise!vars)
  BY PromiseStep
<1> QED BY <1>1, <1>2, TypeCorrect, LineKept, PTL DEF Spec, KeepsThePromise, Promise!Spec
=============================================================================
