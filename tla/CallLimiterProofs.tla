------------------------- MODULE CallLimiterProofs -------------------------
(***************************************************************************)
(* Proofs about CallLimiter, for any calls, limit, windows and faults: its *)
(* types, that what was counted is given back, that the counters never     *)
(* undercount, and that the limit is honoured.                             *)
(***************************************************************************)
EXTENDS CallLimiter, FiniteSetTheorems, SequenceTheorems, WellFoundedInduction, TLAPS

-----------------------------------------------------------------------------
(* The inductive invariant                                                 *)

(* A call waits for the answer of the command it sent last, and nothing is *)
(* done twice without a fault.                                             *)
AwaitInv ==
  /\ twice =< faults
  /\ \A c \in Calls :
       /\ phase[c] = "checking" => Awaited(c).op = "check"
       /\ phase[c] = "refreshing" => Awaited(c).op = "refresh"
       /\ phase[c] = "releasing" => Awaited(c).op = "decr"

Clean == ~leaked /\ twice = 0

(* A call at phase p with the entry e, the commands s and the answer r has *)
(* no command out but the one it waits for, or the decrement it gave up    *)
(* waiting for.                                                            *)
Tidy(p, e, s, r) ==
  /\ p \in {"new", "live"} => s = <<>>
  /\ p \in {"checking", "refreshing", "releasing"} => Len(s) = 1
  /\ p = "over" => s = <<>> \/ (Len(s) = 1 /\ s[1].op = "decr")
  /\ p \in {"refreshing", "releasing"} => s[1].origin = e.originWindow
  /\ p = "releasing" \/ (p = "refreshing" /\ r # NoReply) => e.incrementSucceeded
  /\ ~e.incrementSucceeded => e.originWindow = NoWindow

(* It is counted in window w. *)
In(p, e, s, r, w) ==
  \/ p = "checking" /\ r = "allowed" /\ w = s[1].now
  \/ p \in {"live", "refreshing", "releasing"} /\ r = NoReply
       /\ e.incrementSucceeded /\ w = e.originWindow
  \/ p = "refreshing" /\ r # NoReply /\ w = s[1].now
  \/ p = "over" /\ s # <<>> /\ w = s[1].origin

Within(w) == {c \in Calls : In(phase[c], entry[c], wire[c], reply[c], w)}

(* Unless a count was lost track of, calls are tidy and the counters are   *)
(* the numbers of calls counted.                                           *)
BooksInv ==
  Clean => /\ \A c \in Calls : Tidy(phase[c], entry[c], wire[c], reply[c])
           /\ \A w \in 0..MaxWindow : count[w] = Cardinality(Within(w))

-----------------------------------------------------------------------------
(* Sequences of commands                                                   *)

LEMMA AppendFacts ==
  ASSUME NEW s \in Seq(Commands), NEW e \in Commands
  PROVE  /\ Append(s, e) \in Seq(Commands) /\ Append(s, e) # <<>>
         /\ Len(Append(s, e)) = Len(s) + 1 /\ Len(s) \in Nat
         /\ Append(s, e)[Len(Append(s, e))] = e
         /\ s = <<>> => Append(s, e)[1] = e /\ Len(Append(s, e)) = 1
  OBVIOUS

LEMMA TailFacts ==
  ASSUME NEW s \in Seq(Commands), s # <<>>
  PROVE  /\ Tail(s) \in Seq(Commands) /\ Head(s) \in Commands /\ Head(s) = s[1]
         /\ Len(s) \in Nat \ {0} /\ Len(Tail(s)) = Len(s) - 1
         /\ Len(s) = 1 => Tail(s) = <<>>
         /\ Len(s) > 1 => Tail(s) # <<>> /\ Tail(s)[Len(Tail(s))] = s[Len(s)]
         /\ s[Len(s)] \in Commands
<1>1. /\ Tail(s) \in Seq(Commands) /\ Head(s) \in Commands /\ Head(s) = s[1]
      /\ Len(s) \in Nat \ {0} /\ Len(Tail(s)) = Len(s) - 1
      /\ \A i \in 1..Len(s) - 1 : Tail(s)[i] = s[i + 1]
  OBVIOUS
<1>2. Len(s) = 1 => Tail(s) = <<>>
  <2>1. Tail(s) = <<>> <=> Len(Tail(s)) = 0
    BY <1>1, EmptySeq
  <2> QED BY <1>1, <2>1
<1>3. Len(s) > 1 => Tail(s) # <<>> /\ Tail(s)[Len(Tail(s))] = s[Len(s)]
  <2> HAVE Len(s) > 1
  <2>1. Len(Tail(s)) \in 1..Len(s) - 1 /\ Len(Tail(s)) + 1 = Len(s)
    BY <1>1
  <2>2. Tail(s) # <<>>
    BY <1>1, <2>1, EmptySeq
  <2> QED BY <1>1, <2>1, <2>2
<1>4. s[Len(s)] \in Commands
  BY <1>1
<1> QED BY <1>1, <1>2, <1>3, <1>4

(* The windows of the commands sent. *)
LEMMA CommandFacts ==
  /\ \A w \in 0..MaxWindow :
       TypeOK => Check \in Commands /\ Refresh(w) \in Commands /\ Decrement(w) \in Commands
  /\ TypeOK => Windows \subseteq 0..MaxWindow
  /\ 0 \in 0..MaxWindow /\ MaxWindow \in Nat /\ MaxFaults \in Nat
  BY CallLimiterAssumption
  DEF TypeOK, Windows, Check, Refresh, Decrement, Commands, CallLimiterAssumption

-----------------------------------------------------------------------------
(* Types                                                                   *)

LEMMA TypeInit == Init => TypeOK /\ AwaitInv /\ BooksInv
<1> SUFFICES ASSUME Init PROVE TypeOK /\ AwaitInv /\ BooksInv
  OBVIOUS
<1>1. TypeOK
  <2>1. <<>> \in Seq(Commands) /\ 1 \in Windows
    BY CallLimiterAssumption DEF Windows, CallLimiterAssumption
  <2>2. [originWindow |-> NoWindow, incrementSucceeded |-> FALSE] \in Entries
    BY CommandFacts DEF Entries, NoWindow
  <2>3. /\ phase \in [Calls -> Phases] /\ entry \in [Calls -> Entries]
        /\ wire \in [Calls -> Seq(Commands)] /\ count \in [0..MaxWindow -> Int]
        /\ reply \in [Calls -> {NoReply, "allowed", "rejected", "done"}]
    BY <2>1, <2>2 DEF Init, Phases
  <2>4. \A c \in Calls : ~Awaiting(c) /\ reply[c] = NoReply
    BY DEF Init, Awaiting
  <2>5. faults \in 0..MaxFaults /\ twice \in 0..MaxFaults
    BY CallLimiterAssumption DEF Init, CallLimiterAssumption
  <2>6. window \in Windows /\ late \subseteq Calls /\ leaked \in BOOLEAN
    BY <2>1 DEF Init
  <2> QED BY <2>3, <2>4, <2>5, <2>6 DEF TypeOK, NoReply
<1>2. AwaitInv
  BY DEF Init, AwaitInv
<1>3. \A c \in Calls : Tidy(phase[c], entry[c], wire[c], reply[c])
  BY DEF Init, Tidy, NoWindow
<1>4. \A w \in 0..MaxWindow : Within(w) = {}
  BY DEF Init, Within, In
<1>5. \A w \in 0..MaxWindow : count[w] = Cardinality(Within(w))
  BY <1>4, FS_EmptySet DEF Init
<1> QED BY <1>1, <1>2, <1>3, <1>5 DEF BooksInv

(* What a step does to call c's part of the types and of the waiting, the  *)
(* other calls being as they were.                                         *)
LEMMA OneCall ==
  ASSUME TypeOK, AwaitInv, NEW c \in Calls,
         NEW p \in Phases, NEW e \in Entries, NEW s \in Seq(Commands),
         NEW r \in {NoReply, "allowed", "rejected", "done"},
         phase' = [phase EXCEPT ![c] = p], entry' = [entry EXCEPT ![c] = e],
         wire' = [wire EXCEPT ![c] = s], reply' = [reply EXCEPT ![c] = r],
         p \in {"checking", "refreshing", "releasing"} => s # <<>>,
         r # NoReply => p \in {"checking", "refreshing", "releasing"} /\ Len(s) = 1,
         r \in {"allowed", "rejected"} <=> r # NoReply /\ p = "checking",
         p = "checking" => s[Len(s)].op = "check",
         p = "refreshing" => s[Len(s)].op = "refresh",
         p = "releasing" => s[Len(s)].op = "decr",
         faults' \in 0..MaxFaults, twice' \in 0..MaxFaults, twice' =< faults',
         window' = window, count' \in [0..MaxWindow -> Int],
         late' \subseteq Calls, leaked' \in BOOLEAN
  PROVE  TypeOK' /\ AwaitInv'
<1>1. /\ phase' \in [Calls -> Phases] /\ entry' \in [Calls -> Entries]
      /\ wire' \in [Calls -> Seq(Commands)]
      /\ reply' \in [Calls -> {NoReply, "allowed", "rejected", "done"}]
  BY DEF TypeOK
<1>2. /\ phase'[c] = p /\ wire'[c] = s /\ reply'[c] = r
      /\ \A x \in Calls \ {c} :
           phase'[x] = phase[x] /\ wire'[x] = wire[x] /\ reply'[x] = reply[x]
  BY DEF TypeOK
<1>3. ASSUME NEW x \in Calls
      PROVE  /\ (Awaiting(x) => wire[x] # <<>>)'
             /\ (reply[x] # NoReply => Awaiting(x) /\ Len(wire[x]) = 1)'
             /\ (reply[x] \in {"allowed", "rejected"} <=>
                   reply[x] # NoReply /\ phase[x] = "checking")'
  <2>1. CASE x = c
    BY <1>2, <2>1 DEF Awaiting
  <2>2. CASE x # c
    <3>1. x \in Calls \ {c}
      BY <2>2
    <3>2. phase'[x] = phase[x] /\ wire'[x] = wire[x] /\ reply'[x] = reply[x]
      BY <1>2, <3>1
    <3> QED BY <3>2 DEF TypeOK, Awaiting
  <2> QED BY <2>1, <2>2
<1>4. ASSUME NEW x \in Calls
      PROVE  /\ (phase[x] = "checking" => Awaited(x).op = "check")'
             /\ (phase[x] = "refreshing" => Awaited(x).op = "refresh")'
             /\ (phase[x] = "releasing" => Awaited(x).op = "decr")'
  <2>1. CASE x = c
    BY <1>2, <2>1 DEF Awaited
  <2>2. CASE x # c
    <3>1. x \in Calls \ {c}
      BY <2>2
    <3>2. phase'[x] = phase[x] /\ wire'[x] = wire[x]
      BY <1>2, <3>1
    <3> QED BY <3>2 DEF AwaitInv, Awaited
  <2> QED BY <2>1, <2>2
<1>5. window' \in Windows
  BY DEF TypeOK
<1> QED BY <1>1, <1>3, <1>4, <1>5 DEF TypeOK, AwaitInv

(* The facts about call c that steps start from. *)
LEMMA CallFacts ==
  ASSUME TypeOK, AwaitInv, NEW c \in Calls
  PROVE  /\ phase[c] \in Phases /\ entry[c] \in Entries /\ wire[c] \in Seq(Commands)
         /\ reply[c] \in {NoReply, "allowed", "rejected", "done"} /\ NoReply \notin {"allowed", "rejected", "done"}
         /\ phase[c] \in {"checking", "refreshing", "releasing"} <=> Awaiting(c)
         /\ Awaiting(c) => wire[c] # <<>>
         /\ reply[c] # NoReply => Awaiting(c) /\ Len(wire[c]) = 1
         /\ reply[c] \in {"allowed", "rejected"} <=> reply[c] # NoReply /\ phase[c] = "checking"
         /\ phase[c] = "checking" => Awaited(c).op = "check"
         /\ phase[c] = "refreshing" => Awaited(c).op = "refresh"
         /\ phase[c] = "releasing" => Awaited(c).op = "decr"
         /\ entry[c].originWindow \in 0..MaxWindow /\ entry[c].incrementSucceeded \in BOOLEAN
         /\ entry[c] = [originWindow |-> entry[c].originWindow,
                        incrementSucceeded |-> entry[c].incrementSucceeded]
         /\ faults \in 0..MaxFaults /\ twice \in 0..MaxFaults /\ twice =< faults
         /\ MaxFaults \in Nat
<1>1. entry[c] \in Entries
  BY DEF TypeOK
<1> QED BY <1>1, CommandFacts DEF TypeOK, AwaitInv, Awaiting, Entries, NoReply

(* Nothing changes that the waiting depends on. *)
LEMMA TypeTick == TypeOK /\ AwaitInv /\ Tick => TypeOK' /\ AwaitInv'
<1> SUFFICES ASSUME TypeOK, AwaitInv, Tick PROVE TypeOK' /\ AwaitInv'
  OBVIOUS
<1>1. window' \in Windows
  BY CommandFacts DEF Tick, TypeOK, Windows
<1> QED BY <1>1 DEF Tick, TypeOK, AwaitInv, Awaiting, Awaited

(* A command is sent. *)
LEMMA TypeSend ==
  ASSUME TypeOK, AwaitInv, NEW c \in Calls, phase[c] \in {"new", "live"},
         NEW k \in Commands, NEW p, Send(c, k, p), UNCHANGED <<twice, late, leaked>>,
         \/ p = "checking" /\ k.op = "check"
         \/ p = "refreshing" /\ k.op = "refresh"
         \/ p = "releasing" /\ k.op = "decr"
  PROVE  TypeOK' /\ AwaitInv'
<1> DEFINE s == Append(wire[c], k)
<1>1. s \in Seq(Commands) /\ s # <<>> /\ s[Len(s)] = k
  BY AppendFacts, CallFacts
<1>2. reply[c] = NoReply
  BY CallFacts DEF Awaiting
<1>3. /\ phase' = [phase EXCEPT ![c] = p] /\ entry' = [entry EXCEPT ![c] = entry[c]]
      /\ wire' = [wire EXCEPT ![c] = s] /\ reply' = [reply EXCEPT ![c] = NoReply]
      /\ window' = window /\ count' = count /\ faults' = faults
  BY <1>2 DEF Send, TypeOK
<1> HIDE DEF s
<1>4. p \in Phases /\ entry[c] \in Entries /\ count \in [0..MaxWindow -> Int]
      /\ late \subseteq Calls /\ leaked \in BOOLEAN
  BY DEF Phases, TypeOK
<1> QED BY <1>1, <1>3, <1>4, CallFacts, OneCall

(* The handler goes on: whether it has its answer, gives up waiting or     *)
(* dies, it waits no longer.                                               *)
LEMMA TypeGoesOn ==
  ASSUME TypeOK, AwaitInv, NEW c \in Calls,
         NEW p \in {"live", "over"}, NEW e \in Entries, NEW s \in Seq(Commands),
         phase' = [phase EXCEPT ![c] = p], entry' = [entry EXCEPT ![c] = e],
         wire' = [wire EXCEPT ![c] = s], reply' = [reply EXCEPT ![c] = NoReply],
         faults' \in 0..MaxFaults, twice' \in 0..MaxFaults, twice' =< faults',
         window' = window, count' = count, late' = late, leaked' \in BOOLEAN
  PROVE  TypeOK' /\ AwaitInv'
<1>1. p \in Phases /\ p \notin {"checking", "refreshing", "releasing"}
  BY DEF Phases
<1>2. count' \in [0..MaxWindow -> Int] /\ late' \subseteq Calls
  BY DEF TypeOK
<1> QED BY <1>1, <1>2, OneCall DEF NoReply

(* Redis executes the oldest command, for a handler that waits or not.     *)
LEMMA TypeExecute ==
  ASSUME TypeOK, AwaitInv, NEW c \in Calls, Execute(c)
  PROVE  TypeOK' /\ AwaitInv'
<1> DEFINE k == Head(wire[c])
           heard == Awaiting(c) /\ Len(wire[c]) = 1
           s == IF heard THEN wire[c] ELSE Tail(wire[c])
<1>1. /\ wire[c] # <<>> /\ reply[c] = NoReply /\ k \in Commands /\ k = wire[c][1]
      /\ wire[c] \in Seq(Commands) /\ Tail(wire[c]) \in Seq(Commands)
  BY CallFacts, TailFacts DEF Execute
<1>2. k.now \in Windows /\ k.now \in 0..MaxWindow /\ k.origin \in 0..MaxWindow
      /\ k.op \in {"check", "refresh", "decr"}
  BY <1>1, CommandFacts DEF Commands
<1>3. heard => /\ Awaited(c) = k
               /\ phase[c] = "checking" <=> k.op = "check"
  <2>1. ASSUME heard PROVE Awaited(c) = k
    BY <1>1, <2>1 DEF Awaited
  <2>2. ASSUME heard PROVE phase[c] = "checking" <=> Awaited(c).op = "check"
    <3>1. phase[c] \in {"checking", "refreshing", "releasing"}
      BY <2>2 DEF Awaiting
    <3>2. /\ phase[c] = "checking" => Awaited(c).op = "check"
          /\ phase[c] = "refreshing" => Awaited(c).op = "refresh"
          /\ phase[c] = "releasing" => Awaited(c).op = "decr"
      BY CallFacts
    <3> QED BY <3>1, <3>2
  <2> QED BY <2>1, <2>2
<1>4. /\ phase' = [phase EXCEPT ![c] = phase[c]] /\ entry' = [entry EXCEPT ![c] = entry[c]]
      /\ wire' = [wire EXCEPT ![c] = s]
      /\ window' = window /\ faults' = faults /\ twice' = twice
  BY DEF Execute, TypeOK
<1>5. \E r \in {NoReply, "allowed", "rejected", "done"} :
        /\ reply' = [reply EXCEPT ![c] = r]
        /\ r # NoReply => heard
        /\ r \in {"allowed", "rejected"} <=> r # NoReply /\ phase[c] = "checking"
  <2> HIDE DEF k, heard
  <2>1. CASE k.op = "check" /\ CheckAndIncrement(c, k.now, heard)
    <3>1. CASE heard
      BY <1>3, <2>1, <3>1 DEF CheckAndIncrement, NoReply
    <3>2. CASE ~heard
      BY <2>1, <3>2 DEF CheckAndIncrement, NoReply
    <3> QED BY <3>1, <3>2
  <2>2. CASE k.op # "check" /\ reply' = [reply EXCEPT ![c] = IF heard THEN "done" ELSE NoReply]
    <3>1. CASE heard
      BY <1>3, <2>2, <3>1 DEF NoReply
    <3>2. CASE ~heard
      BY <2>2, <3>2 DEF NoReply
    <3> QED BY <3>1, <3>2
  <2>3. \/ k.op = "check" /\ CheckAndIncrement(c, k.now, heard)
        \/ k.op # "check" /\ reply' = [reply EXCEPT ![c] = IF heard THEN "done" ELSE NoReply]
    BY DEF Execute, k, heard
  <2> QED BY <2>1, <2>2, <2>3
<1>6. count' \in [0..MaxWindow -> Int] /\ late' \subseteq Calls
  <2>1. CASE CheckAndIncrement(c, k.now, heard)
    <3>1. count' \in {count, [count EXCEPT ![k.now] = @ + 1]}
          /\ late' \in {late, late \cup {c}}
      BY <2>1 DEF CheckAndIncrement
    <3> QED BY <1>2, <3>1 DEF TypeOK
  <2>2. CASE Move(c, k.now, k.origin)
    <3>1. \A w \in 0..MaxWindow : count[w] \in Int
      BY DEF TypeOK
    <3>2. count' = [w \in 0..MaxWindow |->
                      count[w] + (IF w = k.now THEN 1 ELSE 0) - (IF w = k.origin THEN 1 ELSE 0)]
          /\ late' \in {late, late \cup {c}}
      BY <2>2 DEF Move
    <3>3. \A w \in 0..MaxWindow :
            count[w] + (IF w = k.now THEN 1 ELSE 0) - (IF w = k.origin THEN 1 ELSE 0) \in Int
      BY <3>1
    <3> QED BY <3>2, <3>3 DEF TypeOK
  <2>3. CASE Take(k.origin) /\ late' = late
    BY <1>2, <2>3 DEF Take, TypeOK
  <2>4. \/ CheckAndIncrement(c, k.now, heard) \/ Move(c, k.now, k.origin)
        \/ Take(k.origin) /\ late' = late
    BY DEF Execute
  <2> QED BY <2>1, <2>2, <2>3, <2>4
<1>7. /\ s \in Seq(Commands)
      /\ Awaiting(c) => s # <<>> /\ s[Len(s)] = Awaited(c)
  <2>1. CASE heard
    BY <1>1, <2>1 DEF Awaited
  <2>2. CASE ~heard
    <3>1. Awaiting(c) => Len(wire[c]) > 1
      <4>1. Len(wire[c]) \in Nat \ {0}
        BY <1>1, TailFacts
      <4>2. \A n \in Nat \ {0} : n # 1 => n > 1
        OBVIOUS
      <4>3. Awaiting(c) => Len(wire[c]) # 1
        BY <2>2
      <4> QED BY <4>1, <4>2, <4>3
    <3> QED BY <1>1, <2>2, <3>1, TailFacts DEF Awaited
  <2> QED BY <2>1, <2>2
<1>8. leaked' \in BOOLEAN
  BY DEF Execute
<1>9. PICK r \in {NoReply, "allowed", "rejected", "done"} :
        /\ reply' = [reply EXCEPT ![c] = r]
        /\ r # NoReply => heard
        /\ r \in {"allowed", "rejected"} <=> r # NoReply /\ phase[c] = "checking"
  BY <1>5
<1>10. r # NoReply => phase[c] \in {"checking", "refreshing", "releasing"} /\ Len(s) = 1
  BY <1>9 DEF Awaiting
<1> HIDE DEF s, heard, k
<1>11. /\ phase[c] \in Phases /\ entry[c] \in Entries
       /\ phase[c] \in {"checking", "refreshing", "releasing"} <=> Awaiting(c)
       /\ phase[c] = "checking" => Awaited(c).op = "check"
       /\ phase[c] = "refreshing" => Awaited(c).op = "refresh"
       /\ phase[c] = "releasing" => Awaited(c).op = "decr"
       /\ faults \in 0..MaxFaults /\ twice \in 0..MaxFaults /\ twice =< faults
  BY CallFacts
<1> QED BY <1>4, <1>6, <1>7, <1>8, <1>9, <1>10, <1>11, OneCall

(* Every step keeps the types, and what is waited for. *)
LEMMA TypeStep == TypeOK /\ AwaitInv /\ [Next]_vars => TypeOK' /\ AwaitInv'
<1> SUFFICES ASSUME TypeOK, AwaitInv, [Next]_vars PROVE TypeOK' /\ AwaitInv'
  OBVIOUS
<1>1. CASE Tick
  BY <1>1, TypeTick
<1> SUFFICES ASSUME NEW c \in Calls,
                    \/ Admit(c) \/ Migrate(c) \/ Release(c) \/ ReleaseAgain(c) \/ Vanish(c)
                    \/ Hear(c) \/ Timeout(c) \/ Refuse(c)
                    \/ Execute(c) \/ Resend(c) \/ Lose(c)
             PROVE  TypeOK' /\ AwaitInv'
  <2>1. CASE UNCHANGED vars
    BY <2>1 DEF vars, TypeOK, AwaitInv, Awaiting, Awaited
  <2> QED BY <1>1, <2>1 DEF Next
<1>0. /\ entry[c] \in Entries /\ wire[c] \in Seq(Commands) /\ phase[c] \in Phases
      /\ entry[c].originWindow \in 0..MaxWindow
      /\ Check \in Commands /\ Refresh(entry[c].originWindow) \in Commands
      /\ Decrement(entry[c].originWindow) \in Commands
      /\ faults \in Nat /\ twice \in Nat /\ MaxFaults \in Nat /\ twice =< faults
      /\ faults =< MaxFaults /\ faults \in 0..MaxFaults /\ twice \in 0..MaxFaults
      /\ (faults < MaxFaults => faults + 1 \in 0..MaxFaults /\ twice + 1 \in 0..MaxFaults
                                 /\ twice + 1 =< faults + 1 /\ twice =< faults + 1)
  <2>1. /\ faults \in 0..MaxFaults /\ twice \in 0..MaxFaults /\ twice =< faults
        /\ MaxFaults \in Nat
    BY CallFacts
  <2>2. faults < MaxFaults => faults + 1 \in 0..MaxFaults /\ twice + 1 \in 0..MaxFaults
                                 /\ twice + 1 =< faults + 1 /\ twice =< faults + 1
    BY <2>1
  <2>3. faults \in Nat /\ twice \in Nat /\ faults =< MaxFaults
    BY <2>1
  <2>4. entry[c] \in Entries /\ wire[c] \in Seq(Commands) /\ phase[c] \in Phases
        /\ entry[c].originWindow \in 0..MaxWindow
    BY CallFacts
  <2>5. /\ Check \in Commands /\ Refresh(entry[c].originWindow) \in Commands
        /\ Decrement(entry[c].originWindow) \in Commands
    BY <2>4, CommandFacts
  <2> QED BY <2>1, <2>2, <2>3, <2>4, <2>5
<1>2. ASSUME NEW s \in {wire[c], IF reply[c] = NoReply THEN wire[c] ELSE Tail(wire[c])}
      PROVE  s \in Seq(Commands)
  <2>1. reply[c] # NoReply => wire[c] # <<>>
    BY CallFacts
  <2> QED BY <1>0, <2>1, TailFacts
<1>3. CASE Admit(c)
  BY <1>0, <1>3, TypeSend DEF Admit, Check
<1>4. CASE Migrate(c)
  BY <1>0, <1>4, TypeSend DEF Migrate, Refresh
<1>5. CASE Release(c)
  <2>1. CASE entry[c].incrementSucceeded
    BY <1>0, <1>5, <2>1, TypeSend DEF Release, Decrement
  <2>2. CASE ~entry[c].incrementSucceeded
    <3>1. reply[c] = NoReply
      BY <1>5, CallFacts DEF Release, Awaiting
    <3>2. /\ phase' = [phase EXCEPT ![c] = "over"] /\ entry' = [entry EXCEPT ![c] = entry[c]]
          /\ wire' = [wire EXCEPT ![c] = wire[c]] /\ reply' = [reply EXCEPT ![c] = NoReply]
          /\ UNCHANGED <<window, count, faults, twice, late, leaked>>
      BY <1>5, <2>2, <3>1 DEF Release, TypeOK
    <3>3. leaked \in BOOLEAN
      BY DEF TypeOK
    <3> QED BY <1>0, <3>2, <3>3, TypeGoesOn
  <2> QED BY <2>1, <2>2
<1>6. CASE ReleaseAgain(c)
  <2> DEFINE s == Append(wire[c], Decrement(entry[c].originWindow))
  <2>1. s \in Seq(Commands) /\ s # <<>> /\ s[Len(s)] = Decrement(entry[c].originWindow)
    BY <1>0, AppendFacts
  <2>2. /\ phase' = [phase EXCEPT ![c] = "releasing"]
        /\ entry' = [entry EXCEPT ![c] = entry[c]]
        /\ wire' = [wire EXCEPT ![c] = s] /\ reply' = [reply EXCEPT ![c] = NoReply]
        /\ faults' = faults + 1 /\ twice' = twice + 1 /\ faults < MaxFaults
        /\ UNCHANGED <<window, count, late, leaked>>
    BY <1>6 DEF ReleaseAgain, TypeOK
  <2> HIDE DEF s
  <2>3. /\ count \in [0..MaxWindow -> Int] /\ late \subseteq Calls /\ leaked \in BOOLEAN
        /\ "releasing" \in Phases /\ Decrement(entry[c].originWindow).op = "decr"
    BY DEF TypeOK, Phases, Decrement
  <2> QED BY <1>0, <2>1, <2>2, <2>3, OneCall DEF NoReply
<1>7. CASE Vanish(c)
  <2>1. PICK s \in {wire[c], IF reply[c] = NoReply THEN wire[c] ELSE Tail(wire[c])} :
          wire' = [wire EXCEPT ![c] = s]
    BY <1>7 DEF Vanish
  <2>2. /\ phase' = [phase EXCEPT ![c] = "over"] /\ entry' = [entry EXCEPT ![c] = entry[c]]
        /\ reply' = [reply EXCEPT ![c] = NoReply]
        /\ faults' = faults + 1 /\ faults < MaxFaults /\ leaked' = TRUE
        /\ UNCHANGED <<window, count, twice, late>>
    BY <1>7 DEF Vanish, TypeOK
  <2> QED BY <1>0, <1>2, <2>1, <2>2, TypeGoesOn
<1>8. CASE Hear(c)
  <2>1. wire[c] # <<>> /\ reply[c] # NoReply /\ Tail(wire[c]) \in Seq(Commands)
        /\ Awaited(c) \in Commands
    BY <1>8, CallFacts, TailFacts DEF Hear, Awaited
  <2>2. Awaited(c).now \in 0..MaxWindow
    BY <2>1, CommandFacts DEF Commands
  <2>3. \E p \in {"live", "over"}, e \in Entries :
          phase' = [phase EXCEPT ![c] = p] /\ entry' = [entry EXCEPT ![c] = e]
    <3>1. \E p \in {"live", "over"} : phase' = [phase EXCEPT ![c] = p]
      BY <1>8 DEF Hear
    <3>2. \E e \in Entries : entry' = [entry EXCEPT ![c] = e]
      <4>1. CASE reply[c] = "allowed"
        <5>1. [originWindow |-> Awaited(c).now, incrementSucceeded |-> TRUE] \in Entries
          BY <2>2 DEF Entries
        <5> QED BY <1>8, <4>1, <5>1 DEF Hear
      <4>2. CASE reply[c] # "allowed" /\ phase[c] = "refreshing"
        <5>1. entry' = [entry EXCEPT ![c].originWindow = Awaited(c).now]
          BY <1>8, <4>2 DEF Hear
        <5>2. [entry[c] EXCEPT !.originWindow = Awaited(c).now] \in Entries
          BY <1>0, <2>2 DEF Entries
        <5> QED BY <5>1, <5>2
      <4>3. CASE reply[c] # "allowed" /\ phase[c] # "refreshing"
        <5>1. entry' = [entry EXCEPT ![c] = entry[c]]
          BY <1>8, <4>3 DEF Hear, TypeOK
        <5> QED BY <1>0, <5>1
      <4> QED BY <4>1, <4>2, <4>3
    <3> QED BY <3>1, <3>2
  <2>4. /\ wire' = [wire EXCEPT ![c] = Tail(wire[c])] /\ reply' = [reply EXCEPT ![c] = NoReply]
        /\ UNCHANGED <<window, count, faults, twice, late, leaked>> /\ leaked \in BOOLEAN
    BY <1>8 DEF Hear, TypeOK
  <2> QED BY <1>0, <2>1, <2>3, <2>4, TypeGoesOn
<1>9. ASSUME WithoutAnswer(c)
      PROVE  \E p \in {"live", "over"}, e \in Entries :
               phase' = [phase EXCEPT ![c] = p] /\ entry' = [entry EXCEPT ![c] = e]
  <2>1. \E p \in {"live", "over"} : phase' = [phase EXCEPT ![c] = p]
    BY <1>9 DEF WithoutAnswer
  <2>2. \E e \in Entries : entry' = [entry EXCEPT ![c] = e]
    <3>1. CASE phase[c] = "checking"
      <4>1. [originWindow |-> NoWindow, incrementSucceeded |-> FALSE] \in Entries
        BY CommandFacts DEF Entries, NoWindow
      <4> QED BY <1>9, <3>1, <4>1 DEF WithoutAnswer
    <3>2. CASE phase[c] # "checking"
      <4>1. entry' = [entry EXCEPT ![c] = entry[c]]
        BY <1>9, <3>2 DEF WithoutAnswer, TypeOK
      <4> QED BY <1>0, <4>1
    <3> QED BY <3>1, <3>2
  <2> QED BY <2>1, <2>2
<1>10. CASE Timeout(c)
  <2>1. PICK s \in {wire[c], IF reply[c] = NoReply THEN wire[c] ELSE Tail(wire[c])} :
          /\ wire' = [wire EXCEPT ![c] = s]
          /\ twice' = IF reply[c] # NoReply /\ s # <<>> /\ Head(s).op = "decr"
                      THEN twice + 1 ELSE twice
    BY <1>10 DEF Timeout
  <2>2. /\ reply' = [reply EXCEPT ![c] = NoReply]
        /\ faults' = faults + 1 /\ faults < MaxFaults /\ leaked' \in BOOLEAN
        /\ UNCHANGED <<window, count, late>> /\ WithoutAnswer(c)
    BY <1>10 DEF Timeout
  <2>3. twice' \in 0..MaxFaults /\ twice' =< faults'
    BY <1>0, <2>1, <2>2
  <2> QED BY <1>0, <1>2, <1>9, <2>1, <2>2, <2>3, TypeGoesOn
<1>11. CASE Refuse(c)
  <2>1. /\ wire' = [wire EXCEPT ![c] = <<>>] /\ reply' = [reply EXCEPT ![c] = NoReply]
        /\ faults' = faults + 1 /\ faults < MaxFaults /\ leaked' \in BOOLEAN
        /\ UNCHANGED <<window, count, twice, late>> /\ WithoutAnswer(c)
        /\ <<>> \in Seq(Commands)
    BY <1>11 DEF Refuse, TypeOK
  <2> QED BY <1>0, <1>9, <2>1, TypeGoesOn
<1>12. CASE Execute(c)
  BY <1>12, TypeExecute
<1>13. CASE Resend(c)
  <2>1. /\ phase' = [phase EXCEPT ![c] = phase[c]] /\ entry' = [entry EXCEPT ![c] = entry[c]]
        /\ wire' = [wire EXCEPT ![c] = wire[c]] /\ reply' = [reply EXCEPT ![c] = NoReply]
        /\ faults' = faults + 1 /\ faults < MaxFaults /\ leaked' = TRUE
        /\ UNCHANGED <<window, count, late>> /\ twice' \in {twice, twice + 1}
    BY <1>13 DEF Resend, TypeOK
  <2>2. twice' \in 0..MaxFaults /\ twice' =< faults'
    BY <1>0, <2>1
  <2>3. count \in [0..MaxWindow -> Int] /\ late \subseteq Calls
    BY DEF TypeOK
  <2>4. Awaited(c) = wire[c][Len(wire[c])]
    BY DEF Awaited
  <2> QED BY <1>0, <2>1, <2>2, <2>3, <2>4, CallFacts, OneCall
<1>14. CASE Lose(c)
  <2> DEFINE s == Tail(wire[c])
  <2>1. /\ wire[c] # <<>> /\ Awaiting(c) => Len(wire[c]) > 1
    BY <1>14 DEF Lose
  <2>2. /\ s \in Seq(Commands)
        /\ Awaiting(c) => s # <<>> /\ s[Len(s)] = Awaited(c)
    BY <1>0, <1>14, TailFacts DEF Awaited, Lose
  <2>3. reply[c] = NoReply
    <3>1. reply[c] # NoReply => Awaiting(c) /\ Len(wire[c]) = 1
      BY CallFacts
    <3>2. Awaiting(c) => Len(wire[c]) > 1
      BY <1>14 DEF Lose
    <3>3. Len(wire[c]) = 1 => ~(Len(wire[c]) > 1)
      OBVIOUS
    <3> QED BY <3>1, <3>2, <3>3
  <2>4. /\ phase' = [phase EXCEPT ![c] = phase[c]] /\ entry' = [entry EXCEPT ![c] = entry[c]]
        /\ wire' = [wire EXCEPT ![c] = s] /\ reply' = [reply EXCEPT ![c] = NoReply]
        /\ faults' = faults + 1 /\ faults < MaxFaults /\ leaked' = TRUE
        /\ UNCHANGED <<window, count, twice, late>>
    BY <1>14, <2>3 DEF Lose, TypeOK
  <2> HIDE DEF s
  <2>5. count \in [0..MaxWindow -> Int] /\ late \subseteq Calls
    BY DEF TypeOK
  <2> QED BY <1>0, <2>2, <2>4, <2>5, CallFacts, OneCall DEF NoReply
<1> QED BY <1>3, <1>4, <1>5, <1>6, <1>7, <1>8, <1>10, <1>11, <1>12, <1>13, <1>14

(* The types hold, for any calls, limit, windows and faults: in particular *)
(* a handler that waits has its command out, and only the check of a call  *)
(* is answered by allowing it or not (checkAndIncrement and its timeout).  *)
THEOREM TypeCorrect == Spec => []TypeOK
<1>1. TypeOK /\ AwaitInv /\ [Next]_vars => TypeOK' /\ AwaitInv'
  BY TypeStep
<1>2. Init => TypeOK /\ AwaitInv
  BY TypeInit
<1> QED BY <1>1, <1>2, PTL DEF Spec

-----------------------------------------------------------------------------
(* What was counted is given back                                          *)

(* The counters follow call c to phase p with the entry e, the commands s  *)
(* and the answer r.                                                       *)
Follow(c, p, e, s, r) ==
  \A w \in 0..MaxWindow :
    count'[w] = count[w] + (IF In(p, e, s, r, w) THEN 1 ELSE 0)
                         - (IF c \in Within(w) THEN 1 ELSE 0)

(* One call moves, and the counters follow it. *)
LEMMA BooksOne ==
  ASSUME TypeOK, BooksInv, Clean, NEW c \in Calls, NEW p, NEW e, NEW s, NEW r,
         phase' = [phase EXCEPT ![c] = p], entry' = [entry EXCEPT ![c] = e],
         wire' = [wire EXCEPT ![c] = s], reply' = [reply EXCEPT ![c] = r],
         Tidy(p, e, s, r), Follow(c, p, e, s, r)
  PROVE  BooksInv'
<1>1. /\ phase'[c] = p /\ entry'[c] = e /\ wire'[c] = s /\ reply'[c] = r
      /\ \A x \in Calls : x # c => /\ phase'[x] = phase[x] /\ entry'[x] = entry[x]
                                   /\ wire'[x] = wire[x] /\ reply'[x] = reply[x]
  BY DEF TypeOK
<1>2. \A x \in Calls : Tidy(phase'[x], entry'[x], wire'[x], reply'[x])
  <2> SUFFICES ASSUME NEW x \in Calls
               PROVE  Tidy(phase'[x], entry'[x], wire'[x], reply'[x])
    OBVIOUS
  <2>1. CASE x = c
    BY <1>1, <2>1
  <2>2. CASE x # c
    BY <1>1, <2>2 DEF BooksInv
  <2> QED BY <2>1, <2>2
<1>3. ASSUME NEW w \in 0..MaxWindow PROVE count'[w] = Cardinality(Within(w)')
  <2> DEFINE A == Within(w)
             B == Within(w)'
  <2>1. IsFiniteSet(A) /\ Cardinality(A) \in Nat /\ count[w] = Cardinality(A)
    <3>1. A \in SUBSET Calls /\ IsFiniteSet(Calls)
      BY CallLimiterAssumption DEF Within, CallLimiterAssumption
    <3>2. IsFiniteSet(A)
      BY <3>1, FS_Subset
    <3>3. count[w] = Cardinality(A)
      BY DEF BooksInv
    <3> QED BY <3>2, <3>3, FS_CardinalityType
  <2>2. B = {x \in Calls : In(phase'[x], entry'[x], wire'[x], reply'[x], w)}
    BY DEF Within
  <2>3. \A x \in Calls : x # c => (x \in B <=> x \in A)
    BY <1>1, <2>2 DEF Within
  <2>4. c \in B <=> In(p, e, s, r, w)
    BY <1>1, <2>2
  <2>5. A \subseteq Calls /\ B \subseteq Calls
    BY <2>2 DEF Within
  <2> HIDE DEF A, B
  <2>6. CASE In(p, e, s, r, w)
    <3>1. B = A \cup {c}
      BY <2>3, <2>4, <2>5, <2>6
    <3>2. Cardinality(B) = IF c \in A THEN Cardinality(A) ELSE Cardinality(A) + 1
      BY <2>1, <3>1, FS_AddElement
    <3>3. count'[w] = count[w] + 1 - (IF c \in A THEN 1 ELSE 0)
      BY <2>6 DEF A, Follow
    <3>4. count'[w] = Cardinality(B)
      BY <2>1, <3>2, <3>3
    <3> QED BY <3>4 DEF B
  <2>7. CASE ~In(p, e, s, r, w)
    <3>1. B = A \ {c}
      BY <2>3, <2>4, <2>5, <2>7
    <3>2. Cardinality(B) = IF c \in A THEN Cardinality(A) - 1 ELSE Cardinality(A)
      BY <2>1, <3>1, FS_RemoveElement
    <3>3. count'[w] = count[w] + 0 - (IF c \in A THEN 1 ELSE 0)
      BY <2>7 DEF A, Follow
    <3>4. count'[w] = Cardinality(B)
      BY <2>1, <3>2, <3>3
    <3> QED BY <3>4 DEF B
  <2> QED BY <2>6, <2>7
<1> QED BY <1>2, <1>3 DEF BooksInv

(* The counters stay, and the call is counted where it was. *)
LEMMA BooksKept ==
  ASSUME TypeOK, BooksInv, Clean, NEW c \in Calls, NEW p, NEW e, NEW s, NEW r,
         phase' = [phase EXCEPT ![c] = p], entry' = [entry EXCEPT ![c] = e],
         wire' = [wire EXCEPT ![c] = s], reply' = [reply EXCEPT ![c] = r],
         count' = count, Tidy(p, e, s, r),
         \A w \in 0..MaxWindow :
           In(p, e, s, r, w) <=> In(phase[c], entry[c], wire[c], reply[c], w)
  PROVE  BooksInv'
<1>1. ASSUME NEW w \in 0..MaxWindow
      PROVE  count'[w] = count[w] + (IF In(p, e, s, r, w) THEN 1 ELSE 0)
                                  - (IF c \in Within(w) THEN 1 ELSE 0)
  <2>1. count[w] \in Int
    BY DEF TypeOK
  <2>2. c \in Within(w) <=> In(p, e, s, r, w)
    BY DEF Within
  <2>3. CASE In(p, e, s, r, w)
    BY <2>1, <2>2, <2>3
  <2>4. CASE ~In(p, e, s, r, w)
    BY <2>1, <2>2, <2>4
  <2> QED BY <2>3, <2>4
<1>2. Follow(c, p, e, s, r)
  BY <1>1 DEF Follow
<1> QED BY <1>2, BooksOne

(* What tidy call c has, when no count was lost track of. *)
LEMMA TidyFacts ==
  ASSUME TypeOK, AwaitInv, BooksInv, Clean, NEW c \in Calls
  PROVE  /\ Tidy(phase[c], entry[c], wire[c], reply[c])
         /\ phase[c] \in {"new", "live"} => wire[c] = <<>>
         /\ Awaiting(c) => Len(wire[c]) = 1 /\ Awaited(c) = wire[c][1]
         /\ reply[c] = NoReply \/ Awaiting(c)
<1>1. Tidy(phase[c], entry[c], wire[c], reply[c])
  BY DEF BooksInv
<1>2. reply[c] = NoReply \/ Awaiting(c)
  BY CallFacts
<1>3. Awaiting(c) => Len(wire[c]) = 1
  BY <1>1 DEF Tidy, Awaiting
<1>4. Awaiting(c) => Awaited(c) = wire[c][1]
  BY <1>3 DEF Awaited
<1> QED BY <1>1, <1>2, <1>3, <1>4 DEF Tidy

(* A command is sent: nothing is counted or given back before Redis        *)
(* executes it.                                                            *)
LEMMA BooksSend ==
  ASSUME TypeOK, AwaitInv, BooksInv, Clean, NEW c \in Calls, NEW k \in Commands, NEW p,
         Send(c, k, p),
         \/ phase[c] = "new" /\ p = "checking"
         \/ phase[c] = "live" /\ p = "refreshing" /\ k.origin = entry[c].originWindow
         \/ /\ phase[c] = "live" /\ p = "releasing" /\ k.origin = entry[c].originWindow
            /\ entry[c].incrementSucceeded
  PROVE  BooksInv'
<1> DEFINE s == Append(wire[c], k)
<1>1. wire[c] = <<>> /\ reply[c] = NoReply
  BY TidyFacts DEF Awaiting
<1>2. Len(s) = 1 /\ s[1] = k
  BY <1>1, AppendFacts, CallFacts
<1>3. /\ phase' = [phase EXCEPT ![c] = p] /\ entry' = [entry EXCEPT ![c] = entry[c]]
      /\ wire' = [wire EXCEPT ![c] = s] /\ reply' = [reply EXCEPT ![c] = NoReply]
      /\ count' = count
  BY <1>1 DEF Send, TypeOK
<1> HIDE DEF s
<1>4. Tidy(p, entry[c], s, NoReply)
  BY <1>2, TidyFacts DEF Tidy
<1>5. \A w \in 0..MaxWindow :
        In(p, entry[c], s, NoReply, w) <=> In(phase[c], entry[c], wire[c], reply[c], w)
  BY <1>1 DEF In, NoReply
<1> QED BY <1>3, <1>4, <1>5, BooksKept

(* A call that has no count ends without a decrement. *)
LEMMA BooksRelease ==
  ASSUME TypeOK, AwaitInv, BooksInv, Clean, NEW c \in Calls, Release(c)
  PROVE  BooksInv'
<1>1. CASE entry[c].incrementSucceeded
  <2>1. Decrement(entry[c].originWindow) \in Commands
    BY CallFacts, CommandFacts
  <2>2. Send(c, Decrement(entry[c].originWindow), "releasing") /\ phase[c] = "live"
    BY <1>1 DEF Release
  <2>3. Decrement(entry[c].originWindow).origin = entry[c].originWindow
    BY DEF Decrement
  <2> QED BY <1>1, <2>1, <2>2, <2>3, BooksSend
<1>2. CASE ~entry[c].incrementSucceeded
  <2>1. phase[c] = "live" /\ wire[c] = <<>> /\ reply[c] = NoReply
    BY TidyFacts DEF Release, Awaiting
  <2>2. /\ phase' = [phase EXCEPT ![c] = "over"] /\ entry' = [entry EXCEPT ![c] = entry[c]]
        /\ wire' = [wire EXCEPT ![c] = wire[c]] /\ reply' = [reply EXCEPT ![c] = reply[c]]
        /\ count' = count
    BY <1>2 DEF Release, TypeOK
  <2>3. Tidy("over", entry[c], wire[c], reply[c])
    BY <2>1, TidyFacts DEF Tidy
  <2>4. \A w \in 0..MaxWindow :
          In("over", entry[c], wire[c], reply[c], w)
            <=> In(phase[c], entry[c], wire[c], reply[c], w)
    BY <1>2, <2>1 DEF In, NoReply
  <2> QED BY <2>2, <2>3, <2>4, BooksKept
<1> QED BY <1>1, <1>2

(* The handler takes its answer: an admitted call is counted where its     *)
(* check was, a refreshed one where it was moved to.                       *)
LEMMA BooksHear ==
  ASSUME TypeOK, AwaitInv, BooksInv, Clean, NEW c \in Calls, Hear(c)
  PROVE  BooksInv'
<1> DEFINE k == wire[c][1]
           w0 == <<>>
<1>1. /\ reply[c] # NoReply /\ Awaiting(c) /\ Len(wire[c]) = 1 /\ Awaited(c) = k
      /\ Tidy(phase[c], entry[c], wire[c], reply[c])
      /\ phase[c] \in {"checking", "refreshing", "releasing"}
      /\ reply[c] \in {"allowed", "rejected", "done"}
      /\ reply[c] \in {"allowed", "rejected"} <=> phase[c] = "checking"
  BY CallFacts, TidyFacts DEF Hear
<1>2. k \in Commands /\ Tail(wire[c]) = w0
  BY <1>1, CallFacts, TailFacts
<1>3. wire' = [wire EXCEPT ![c] = w0] /\ reply' = [reply EXCEPT ![c] = NoReply] /\ count' = count
  BY <1>2 DEF Hear
<1>4. \A e : Tidy("over", e, w0, NoReply) <=> (~e.incrementSucceeded => e.originWindow = NoWindow)
  BY DEF Tidy
<1>5. \A e : Tidy("live", e, w0, NoReply) <=> (~e.incrementSucceeded => e.originWindow = NoWindow)
  BY DEF Tidy
<1>6. \A e, w : /\ ~In("over", e, w0, NoReply, w)
                /\ In("live", e, w0, NoReply, w) <=> e.incrementSucceeded /\ w = e.originWindow
  BY DEF In, NoReply
<1> HIDE DEF k, w0
<1>7. CASE reply[c] = "allowed"
  <2> DEFINE e == [originWindow |-> k.now, incrementSucceeded |-> TRUE]
  <2>1. phase' = [phase EXCEPT ![c] = "live"] /\ entry' = [entry EXCEPT ![c] = e]
    BY <1>1, <1>7 DEF Hear
  <2>2. Tidy("live", e, w0, NoReply)
    BY <1>5
  <2>3. \A w \in 0..MaxWindow :
          In("live", e, w0, NoReply, w) <=> In(phase[c], entry[c], wire[c], reply[c], w)
    BY <1>1, <1>6, <1>7 DEF In, NoReply, k
  <2> HIDE DEF e
  <2> QED BY <1>3, <2>1, <2>2, <2>3, BooksKept
<1>8. CASE reply[c] = "rejected"
  <2>1. phase' = [phase EXCEPT ![c] = "over"] /\ entry' = [entry EXCEPT ![c] = entry[c]]
    BY <1>1, <1>8 DEF Hear, TypeOK
  <2>2. Tidy("over", entry[c], w0, NoReply)
    BY <1>1, <1>4 DEF Tidy
  <2>3. \A w \in 0..MaxWindow :
          In("over", entry[c], w0, NoReply, w) <=> In(phase[c], entry[c], wire[c], reply[c], w)
    BY <1>1, <1>6, <1>8 DEF In, NoReply
  <2> QED BY <1>3, <2>1, <2>2, <2>3, BooksKept
<1>9. CASE reply[c] = "done" /\ phase[c] = "refreshing"
  <2> DEFINE e == [entry[c] EXCEPT !.originWindow = k.now]
  <2>1. phase' = [phase EXCEPT ![c] = "live"] /\ entry' = [entry EXCEPT ![c] = e]
    <3>1. phase' = [phase EXCEPT ![c] = "live"]
      BY <1>9 DEF Hear
    <3>2. entry' = [entry EXCEPT ![c].originWindow = k.now]
      BY <1>1, <1>9 DEF Hear
    <3> QED BY <3>1, <3>2
  <2>2. e.originWindow = k.now /\ e.incrementSucceeded = entry[c].incrementSucceeded
        /\ entry[c].incrementSucceeded
    <3>1. entry[c].incrementSucceeded
      BY <1>1, <1>9 DEF Tidy
    <3>2. entry[c] = [originWindow |-> entry[c].originWindow,
                      incrementSucceeded |-> entry[c].incrementSucceeded]
      BY CallFacts
    <3> QED BY <3>1, <3>2
  <2> HIDE DEF e
  <2>3. Tidy("live", e, w0, NoReply)
    BY <1>5, <2>2
  <2>4. \A w \in 0..MaxWindow :
          In("live", e, w0, NoReply, w) <=> In(phase[c], entry[c], wire[c], reply[c], w)
    BY <1>1, <1>6, <1>9, <2>2 DEF In, NoReply, k
  <2> QED BY <1>3, <2>1, <2>3, <2>4, BooksKept
<1>10. CASE reply[c] = "done" /\ phase[c] = "releasing"
  <2>1. phase' = [phase EXCEPT ![c] = "over"] /\ entry' = [entry EXCEPT ![c] = entry[c]]
    BY <1>1, <1>10 DEF Hear, TypeOK
  <2>2. Tidy("over", entry[c], w0, NoReply)
    BY <1>1, <1>4 DEF Tidy
  <2>3. \A w \in 0..MaxWindow :
          In("over", entry[c], w0, NoReply, w) <=> In(phase[c], entry[c], wire[c], reply[c], w)
    BY <1>1, <1>6, <1>10 DEF In, NoReply
  <2> QED BY <1>3, <2>1, <2>2, <2>3, BooksKept
<1> QED BY <1>1, <1>7, <1>8, <1>9, <1>10

(* A wait is given up: only that of a decrement loses track of nothing.    *)
LEMMA BooksTimeout ==
  ASSUME TypeOK, AwaitInv, BooksInv, Clean, NEW c \in Calls, Timeout(c), Clean'
  PROVE  BooksInv'
<1>1. PICK s \in {wire[c], IF reply[c] = NoReply THEN wire[c] ELSE Tail(wire[c])} :
        /\ wire' = [wire EXCEPT ![c] = s]
        /\ twice' = IF reply[c] # NoReply /\ s # <<>> /\ Head(s).op = "decr"
                    THEN twice + 1 ELSE twice
  BY DEF Timeout
<1>2. phase[c] = "releasing"
  BY DEF Timeout, Clean
<1>3. /\ Len(wire[c]) = 1 /\ Awaited(c) = wire[c][1] /\ Awaited(c).op = "decr"
      /\ Tidy(phase[c], entry[c], wire[c], reply[c]) /\ wire[c] # <<>>
      /\ wire[c] \in Seq(Commands)
  BY <1>2, CallFacts, TidyFacts DEF Awaiting
<1>4. Tail(wire[c]) = <<>> /\ Head(wire[c]) = wire[c][1]
  BY <1>3, TailFacts
<1>5. /\ phase' = [phase EXCEPT ![c] = "over"] /\ entry' = [entry EXCEPT ![c] = entry[c]]
      /\ reply' = [reply EXCEPT ![c] = NoReply] /\ count' = count
  BY <1>2 DEF Timeout, WithoutAnswer, TypeOK
<1>6. CASE reply[c] = NoReply
  <2>1. s = wire[c]
    BY <1>1, <1>6
  <2>2. Tidy("over", entry[c], s, NoReply)
    BY <1>3, <2>1 DEF Tidy
  <2>3. wire[c][1].origin = entry[c].originWindow /\ entry[c].incrementSucceeded
    BY <1>2, <1>3 DEF Tidy
  <2>4. \A w \in 0..MaxWindow :
          In("over", entry[c], s, NoReply, w) <=> In(phase[c], entry[c], wire[c], reply[c], w)
    BY <1>2, <1>3, <1>6, <2>1, <2>3 DEF In, NoReply
  <2> QED BY <1>1, <1>5, <2>2, <2>4, BooksKept
<1>7. CASE reply[c] # NoReply
  <2>1. s = Tail(wire[c])
    <3>1. ASSUME s = wire[c] PROVE FALSE
      <4>1. twice' = twice + 1
        BY <1>1, <1>3, <1>4, <1>7, <3>1
      <4> QED BY <4>1 DEF Clean
    <3> QED BY <1>1, <1>7, <3>1
  <2> DEFINE w0 == <<>>
  <2>2. s = w0
    BY <1>4, <2>1
  <2>3. Tidy("over", entry[c], w0, NoReply)
    BY <1>2, <1>3 DEF Tidy
  <2>4. \A w \in 0..MaxWindow :
          In("over", entry[c], w0, NoReply, w) <=> In(phase[c], entry[c], wire[c], reply[c], w)
    BY <1>2, <1>7 DEF In, NoReply
  <2> HIDE DEF w0
  <2> QED BY <1>1, <1>5, <2>2, <2>3, <2>4, BooksKept
<1> QED BY <1>6, <1>7

(* A command is refused: a check or a refresh was never sent.              *)
LEMMA BooksRefuse ==
  ASSUME TypeOK, AwaitInv, BooksInv, Clean, NEW c \in Calls, Refuse(c), Clean'
  PROVE  BooksInv'
<1> DEFINE w0 == <<>>
           e0 == [originWindow |-> NoWindow, incrementSucceeded |-> FALSE]
<1>1. /\ phase[c] \in {"checking", "refreshing"} /\ reply[c] = NoReply
      /\ Tidy(phase[c], entry[c], wire[c], reply[c])
  BY TidyFacts DEF Refuse, Clean, Awaiting
<1>2. /\ phase' = [phase EXCEPT ![c] = "live"] /\ wire' = [wire EXCEPT ![c] = w0]
      /\ reply' = [reply EXCEPT ![c] = NoReply] /\ count' = count
  BY <1>1 DEF Refuse, WithoutAnswer, TypeOK
<1>3. \A e : Tidy("live", e, w0, NoReply) <=> (~e.incrementSucceeded => e.originWindow = NoWindow)
  BY DEF Tidy
<1>4. \A e, w : In("live", e, w0, NoReply, w) <=> e.incrementSucceeded /\ w = e.originWindow
  BY DEF In, NoReply
<1> HIDE DEF w0
<1>5. CASE phase[c] = "checking"
  <2>1. entry' = [entry EXCEPT ![c] = e0]
    BY <1>5 DEF Refuse, WithoutAnswer
  <2>2. Tidy("live", e0, w0, NoReply)
    BY <1>3
  <2>3. \A w \in 0..MaxWindow :
          In("live", e0, w0, NoReply, w) <=> In(phase[c], entry[c], wire[c], reply[c], w)
    BY <1>1, <1>4, <1>5 DEF In, NoReply
  <2> HIDE DEF e0
  <2> QED BY <1>2, <2>1, <2>2, <2>3, BooksKept
<1>6. CASE phase[c] = "refreshing"
  <2>1. entry' = [entry EXCEPT ![c] = entry[c]]
    BY <1>6 DEF Refuse, WithoutAnswer, TypeOK
  <2>2. Tidy("live", entry[c], w0, NoReply)
    BY <1>1, <1>3 DEF Tidy
  <2>3. \A w \in 0..MaxWindow :
          In("live", entry[c], w0, NoReply, w) <=> In(phase[c], entry[c], wire[c], reply[c], w)
    BY <1>1, <1>4, <1>6 DEF In, NoReply
  <2> QED BY <1>2, <2>1, <2>2, <2>3, BooksKept
<1> QED BY <1>1, <1>5, <1>6

(* Redis executes a command: a check counts the call, a refresh moves it,  *)
(* a decrement gives it back.                                              *)
LEMMA BooksExecute ==
  ASSUME TypeOK, AwaitInv, BooksInv, Clean, NEW c \in Calls, Execute(c), Clean'
  PROVE  BooksInv'
<1> DEFINE k == wire[c][1]
           heard == Awaiting(c)
           w0 == <<>>
<1>1. /\ wire[c] # <<>> /\ reply[c] = NoReply /\ Head(wire[c]) = k /\ k \in Commands
      /\ Tidy(phase[c], entry[c], wire[c], reply[c]) /\ wire[c] \in Seq(Commands)
      /\ phase[c] \in Phases
  BY CallFacts, TailFacts, TidyFacts DEF Execute
<1>2. /\ Len(wire[c]) = 1 /\ Tail(wire[c]) = w0
      /\ (heard /\ phase[c] \in {"checking", "refreshing", "releasing"}) \/ (~heard /\ phase[c] = "over")
  <2>1. phase[c] \in {"checking", "refreshing", "releasing", "over"}
    BY <1>1 DEF Tidy, Phases
  <2>2. Len(wire[c]) = 1
    BY <1>1, <2>1 DEF Tidy
  <2> QED BY <1>1, <2>1, <2>2, TailFacts DEF Awaiting
<1>3. heard => Awaited(c) = k
  BY TidyFacts
<1>4. /\ k.op = "check" <=> phase[c] = "checking"
      /\ k.op = "refresh" <=> phase[c] = "refreshing"
      /\ k.op = "decr" <=> phase[c] \in {"releasing", "over"}
  <2>1. /\ phase[c] = "checking" => Awaited(c).op = "check"
        /\ phase[c] = "refreshing" => Awaited(c).op = "refresh"
        /\ phase[c] = "releasing" => Awaited(c).op = "decr"
    BY CallFacts
  <2>2. phase[c] = "over" => k.op = "decr"
    BY <1>1 DEF Tidy
  <2> QED BY <1>2, <1>3, <2>1, <2>2
<1>5. /\ \/ k.op = "check" /\ CheckAndIncrement(c, k.now, heard)
         \/ /\ k.op = "refresh" /\ Move(c, k.now, k.origin)
            /\ reply' = [reply EXCEPT ![c] = IF heard THEN "done" ELSE NoReply]
         \/ /\ k.op = "decr" /\ Take(k.origin)
            /\ reply' = [reply EXCEPT ![c] = IF heard THEN "done" ELSE NoReply]
      /\ wire' = IF heard THEN wire ELSE [wire EXCEPT ![c] = Tail(@)]
      /\ leaked' = (leaked \/ k.origin = NoWindow)
      /\ UNCHANGED <<phase, entry>>
  <2> DEFINE h == Awaiting(c) /\ Len(wire[c]) = 1
             o == Head(wire[c])
  <2>1. h = heard /\ o = k
    <3>1. Awaiting(c) \in BOOLEAN /\ (Awaiting(c) <=> Awaiting(c) /\ Len(wire[c]) = 1)
      BY <1>2 DEF Awaiting
    <3>2. o = k
      BY <1>1
    <3> QED BY <3>1, <3>2
  <2>2. /\ \/ o.op = "check" /\ CheckAndIncrement(c, o.now, h)
           \/ /\ o.op = "refresh" /\ Move(c, o.now, o.origin)
              /\ reply' = [reply EXCEPT ![c] = IF h THEN "done" ELSE NoReply]
           \/ /\ o.op = "decr" /\ Take(o.origin)
              /\ reply' = [reply EXCEPT ![c] = IF h THEN "done" ELSE NoReply]
        /\ wire' = IF h THEN wire ELSE [wire EXCEPT ![c] = Tail(@)]
        /\ leaked' = (leaked \/ o.origin = NoWindow)
        /\ UNCHANGED <<phase, entry>>
    BY DEF Execute
  <2> HIDE DEF h, o, k, heard
  <2> QED BY <2>1, <2>2
<1>6. /\ k.now \in 0..MaxWindow /\ k.origin \in 0..MaxWindow /\ k.origin # NoWindow
      /\ \A w \in 0..MaxWindow : count[w] \in Int
      /\ count \in [0..MaxWindow -> Int]
  BY <1>1, <1>5, CommandFacts DEF Commands, TypeOK, Clean
<1>7. /\ phase' = [phase EXCEPT ![c] = phase[c]] /\ entry' = [entry EXCEPT ![c] = entry[c]]
      /\ heard => wire' = [wire EXCEPT ![c] = wire[c]]
      /\ ~heard => wire' = [wire EXCEPT ![c] = w0]
  BY <1>2, <1>5 DEF TypeOK
<1>8. \A w : c \in Within(w) <=> In(phase[c], entry[c], wire[c], NoReply, w)
  BY <1>1 DEF Within
<1>9. CASE k.op = "check"
  <2>1. heard /\ phase[c] = "checking" /\ CheckAndIncrement(c, k.now, heard)
    BY <1>2, <1>4, <1>5, <1>9
  <2>2. \A w : c \notin Within(w)
    BY <1>8, <2>1 DEF In, NoReply
  <2>3. CASE Total(k.now) < Limit
    <3>1. /\ reply' = [reply EXCEPT ![c] = "allowed"]
          /\ count' = [count EXCEPT ![k.now] = @ + 1]
      BY <2>1, <2>3 DEF CheckAndIncrement
    <3>2. Tidy(phase[c], entry[c], wire[c], "allowed")
      BY <1>1, <2>1 DEF Tidy
    <3>3. \A w : In(phase[c], entry[c], wire[c], "allowed", w) <=> w = k.now
      BY <2>1 DEF In, NoReply
    <3>4. Follow(c, phase[c], entry[c], wire[c], "allowed")
      <4> SUFFICES ASSUME NEW w \in 0..MaxWindow
                   PROVE  count'[w] = count[w]
                            + (IF In(phase[c], entry[c], wire[c], "allowed", w) THEN 1 ELSE 0)
                            - (IF c \in Within(w) THEN 1 ELSE 0)
        BY DEF Follow
      <4>1. count'[w] = IF w = k.now THEN count[w] + 1 ELSE count[w]
        BY <1>6, <3>1
      <4> HIDE DEF k
      <4>2. CASE w = k.now
        BY <1>6, <2>2, <3>3, <4>1, <4>2
      <4>3. CASE w # k.now
        BY <1>6, <2>2, <3>3, <4>1, <4>3
      <4> QED BY <4>2, <4>3
    <3> QED BY <1>7, <2>1, <3>1, <3>2, <3>4, BooksOne
  <2>4. CASE ~(Total(k.now) < Limit)
    <3>1. reply' = [reply EXCEPT ![c] = "rejected"] /\ count' = count
      BY <2>1, <2>4 DEF CheckAndIncrement
    <3>2. Tidy(phase[c], entry[c], wire[c], "rejected")
      BY <1>1, <2>1 DEF Tidy
    <3>3. \A w \in 0..MaxWindow :
            In(phase[c], entry[c], wire[c], "rejected", w)
              <=> In(phase[c], entry[c], wire[c], reply[c], w)
      BY <1>1, <2>1 DEF In, NoReply
    <3> QED BY <1>7, <2>1, <3>1, <3>2, <3>3, BooksKept
  <2> QED BY <2>3, <2>4
<1>10. CASE k.op = "refresh"
  <2>1. /\ heard /\ phase[c] = "refreshing" /\ Move(c, k.now, k.origin)
        /\ reply' = [reply EXCEPT ![c] = "done"]
    BY <1>2, <1>4, <1>5, <1>10
  <2>2. k.origin = entry[c].originWindow /\ entry[c].incrementSucceeded
    BY <1>1, <1>6, <2>1 DEF Tidy
  <2>3. Tidy(phase[c], entry[c], wire[c], "done")
    BY <1>1, <2>1, <2>2 DEF Tidy
  <2>4. \A w : In(phase[c], entry[c], wire[c], "done", w) <=> w = k.now
    BY <2>1 DEF In, NoReply
  <2>5. \A w : c \in Within(w) <=> w = k.origin
    BY <1>8, <2>1, <2>2 DEF In, NoReply
  <2>6. Follow(c, phase[c], entry[c], wire[c], "done")
    <3> SUFFICES ASSUME NEW w \in 0..MaxWindow
                 PROVE  count'[w] = count[w]
                          + (IF In(phase[c], entry[c], wire[c], "done", w) THEN 1 ELSE 0)
                          - (IF c \in Within(w) THEN 1 ELSE 0)
      BY DEF Follow
    <3> QED BY <2>1, <2>4, <2>5 DEF Move
  <2> QED BY <1>7, <2>1, <2>3, <2>6, BooksOne
<1>11. CASE k.op = "decr"
  <2>1. /\ phase[c] \in {"releasing", "over"} /\ count' = [count EXCEPT ![k.origin] = @ - 1]
        /\ reply' = [reply EXCEPT ![c] = IF heard THEN "done" ELSE NoReply]
    BY <1>4, <1>5, <1>11 DEF Take
  <2>2. phase[c] = "releasing" => k.origin = entry[c].originWindow /\ entry[c].incrementSucceeded
    BY <1>1 DEF Tidy
  <2>3. \A w : c \in Within(w) <=> w = k.origin
    BY <1>1, <1>8, <2>1, <2>2 DEF In, NoReply
  <2>4. \A w \in 0..MaxWindow : count'[w] = count[w] + 0 - (IF c \in Within(w) THEN 1 ELSE 0)
    <3> SUFFICES ASSUME NEW w \in 0..MaxWindow
                 PROVE  count'[w] = count[w] + 0 - (IF c \in Within(w) THEN 1 ELSE 0)
      OBVIOUS
    <3>1. count'[w] = IF w = k.origin THEN count[w] - 1 ELSE count[w]
      BY <1>6, <2>1
    <3> HIDE DEF k
    <3>2. CASE w = k.origin
      BY <1>6, <2>3, <3>1, <3>2
    <3>3. CASE w # k.origin
      BY <1>6, <2>3, <3>1, <3>3
    <3> QED BY <3>2, <3>3
  <2>5. CASE heard
    <3>1. phase[c] = "releasing"
      BY <1>2, <2>1, <2>5
    <3>2. Tidy(phase[c], entry[c], wire[c], "done")
      BY <1>1, <3>1 DEF Tidy
    <3>3. \A w : ~In(phase[c], entry[c], wire[c], "done", w)
      BY <3>1 DEF In, NoReply
    <3>4. Follow(c, phase[c], entry[c], wire[c], "done")
      BY <2>4, <3>3 DEF Follow
    <3> QED BY <1>7, <2>1, <2>5, <3>2, <3>4, BooksOne
  <2>6. CASE ~heard
    <3>1. phase[c] = "over"
      BY <1>2, <2>6
    <3>2. Tidy(phase[c], entry[c], w0, NoReply)
      BY <1>1, <3>1 DEF Tidy
    <3>3. \A w : ~In(phase[c], entry[c], w0, NoReply, w)
      BY <3>1 DEF In
    <3> HIDE DEF w0
    <3>4. Follow(c, phase[c], entry[c], w0, NoReply)
      BY <2>4, <3>3 DEF Follow
    <3> QED BY <1>7, <2>1, <2>6, <3>2, <3>4, BooksOne
  <2> QED BY <2>5, <2>6
<1> QED BY <1>4, <1>2, <1>9, <1>10, <1>11

(* Every step keeps the books.                                             *)
LEMMA BooksStep == TypeOK /\ AwaitInv /\ BooksInv /\ [Next]_vars => BooksInv'
<1> SUFFICES ASSUME TypeOK, AwaitInv, BooksInv, [Next]_vars, Clean' PROVE BooksInv'
  BY DEF BooksInv
<1>0. twice \in Nat /\ leaked \in BOOLEAN
  BY CommandFacts DEF TypeOK
<1>1. CASE Tick \/ UNCHANGED vars
  <2>1. UNCHANGED <<count, phase, entry, wire, reply, twice, leaked>>
    BY <1>1 DEF Tick, vars
  <2>2. Clean
    BY <2>1 DEF Clean
  <2>3. \A w \in 0..MaxWindow : Within(w)' = Within(w)
    BY <2>1 DEF Within
  <2> QED BY <2>1, <2>2, <2>3 DEF BooksInv
<1> SUFFICES ASSUME NEW c \in Calls,
                    \/ Admit(c) \/ Migrate(c) \/ Release(c) \/ ReleaseAgain(c) \/ Vanish(c)
                    \/ Hear(c) \/ Timeout(c) \/ Refuse(c)
                    \/ Execute(c) \/ Resend(c) \/ Lose(c)
             PROVE  BooksInv'
  BY <1>1 DEF Next
<1>2. ~leaked
  BY DEF Clean, Admit, Migrate, Release, ReleaseAgain, Vanish, Hear, Timeout, Refuse, Execute,
         Resend, Lose
<1>3. twice = 0
  <2>1. twice' \in {twice, twice + 1}
    BY DEF Clean, Admit, Migrate, Release, ReleaseAgain, Vanish, Hear, Timeout, Refuse, Execute,
           Resend, Lose
  <2> QED BY <1>0, <2>1 DEF Clean
<1>4. Clean
  BY <1>2, <1>3 DEF Clean
<1>5. /\ entry[c].originWindow \in 0..MaxWindow /\ Check \in Commands
      /\ Refresh(entry[c].originWindow) \in Commands
      /\ Refresh(entry[c].originWindow).origin = entry[c].originWindow
  <2>1. entry[c].originWindow \in 0..MaxWindow
    BY CallFacts
  <2> QED BY <2>1, CommandFacts DEF Refresh
<1>6. CASE Admit(c)
  BY <1>4, <1>5, <1>6, BooksSend DEF Admit
<1>7. CASE Migrate(c)
  BY <1>4, <1>5, <1>7, BooksSend DEF Migrate
<1>8. CASE Release(c)
  BY <1>4, <1>8, BooksRelease
<1>9. ~ReleaseAgain(c) /\ ~Vanish(c) /\ ~Resend(c) /\ ~Lose(c)
  <2>1. ~ReleaseAgain(c)
    BY <1>3 DEF ReleaseAgain, Clean
  <2> QED BY <2>1 DEF Clean, Vanish, Resend, Lose
<1>10. CASE Hear(c)
  BY <1>4, <1>10, BooksHear
<1>11. CASE Timeout(c)
  BY <1>4, <1>11, BooksTimeout
<1>12. CASE Refuse(c)
  BY <1>4, <1>12, BooksRefuse
<1>13. CASE Execute(c)
  BY <1>4, <1>13, BooksExecute
<1> QED BY <1>6, <1>7, <1>8, <1>9, <1>10, <1>11, <1>12, <1>13

(* What was counted is given back, for any calls, limit, windows and       *)
(* faults: when every call is over and every command done with, every      *)
(* counter is 0, unless a count was lost track of (incrementSucceeded,     *)
(* decrement-limiter, eagerDecrement).                                     *)
THEOREM CountsGivenBack == Spec => []ReleasedExactly
<1>1. TypeOK /\ AwaitInv /\ BooksInv /\ [Next]_vars => TypeOK' /\ AwaitInv' /\ BooksInv'
  BY TypeStep, BooksStep
<1>2. BooksInv => ReleasedExactly
  <2> SUFFICES ASSUME BooksInv, Clean, NEW w \in 0..MaxWindow,
                      \A c \in Calls : phase[c] \in {"new", "over"} /\ wire[c] = <<>>
               PROVE  count[w] = 0
    BY DEF ReleasedExactly, Clean
  <2>1. Within(w) = {}
    BY DEF Within, In
  <2> QED BY <2>1, FS_EmptySet DEF BooksInv
<1>3. Init => TypeOK /\ AwaitInv /\ BooksInv
  BY TypeInit
<1> QED BY <1>1, <1>2, <1>3, PTL DEF Spec

-----------------------------------------------------------------------------
(* Sums over finite sets                                                   *)

(* The sum of f's values on S, as MapThenSumSet takes it: an element, and  *)
(* the sum of the others, by a function on the subsets of S.               *)
Sum(f, S) == MapThenSumSet(LAMBDA v : f[v], S)
Pick(T) == CHOOSE t \in T : TRUE
SumAt(g, f, s) == IF s = {} THEN 0 ELSE f[Pick(s)] + g[s \ {Pick(s)}]
SumsOn(g, f, S) == g = [s \in SUBSET S |-> SumAt(g, f, s)]

LEMMA SumIterates == \A f, S : Sum(f, S) = (CHOOSE g : SumsOn(g, f, S))[S]
  BY DEF Sum, MapThenSumSet, MapThenFoldSet, SumsOn, SumAt, Pick

LEMMA PickFacts ==
  ASSUME NEW S, IsFiniteSet(S), S # {}
  PROVE  /\ Pick(S) \in S /\ IsFiniteSet(S \ {Pick(S)})
         /\ Cardinality(S) \in Nat \ {0}
         /\ Cardinality(S \ {Pick(S)}) = Cardinality(S) - 1
<1>1. Pick(S) \in S
  BY DEF Pick
<1> QED BY <1>1, FS_EmptySet, FS_CardinalityType, FS_RemoveElement

NatLess == OpToRel(<, Nat)

(* Of some finite sets one is smallest. *)
LEMMA Smallest ==
  ASSUME NEW F, F # {}, \A S \in F : IsFiniteSet(S)
  PROVE  \E S \in F : \A T \in F : ~(Cardinality(T) < Cardinality(S))
<1> DEFINE sizes == {Cardinality(S) : S \in F}
<1>1. \A x, y \in Nat : <<x, y>> \in NatLess <=> x < y
  BY DEF NatLess, OpToRel
<1>2. \A S \in F : Cardinality(S) \in Nat
  BY FS_CardinalityType
<1>3. sizes \subseteq Nat /\ sizes # {}
  BY <1>2
<1>4. \E x \in sizes : \A y \in sizes : ~(<<y, x>> \in NatLess)
  <2> HIDE DEF sizes
  <2>1. IsWellFoundedOn(NatLess, Nat)
    BY NatLessThanWellFounded DEF NatLess
  <2> QED BY <1>3, <2>1, WFMin
<1>5. PICK S \in F : \A y \in sizes : ~(<<y, Cardinality(S)>> \in NatLess)
  BY <1>4
<1>6. \A T \in F : Cardinality(T) \in sizes
  OBVIOUS
<1> HIDE DEF sizes
<1> QED BY <1>1, <1>2, <1>5, <1>6

(* There is such a function on the subsets of a finite set: one on those   *)
(* without an element is extended to those with it.                        *)
LEMMA IterateExists ==
  ASSUME NEW f, NEW S, IsFiniteSet(S)
  PROVE  \E g : SumsOn(g, f, S)
<1> DEFINE Sub(n) == {s \in SUBSET S : Cardinality(s) =< n}
           Part(g, n) == g = [s \in Sub(n) |-> SumAt(g, f, s)]
<1>1. \A s \in SUBSET S : IsFiniteSet(s) /\ Cardinality(s) \in Nat /\ Cardinality(s) =< Cardinality(S)
  BY FS_Subset, FS_CardinalityType
<1>2. \E g : Part(g, 0)
  <2> DEFINE g == [s \in Sub(0) |-> 0]
  <2>1. \A s \in Sub(0) : s = {}
    BY <1>1, FS_EmptySet
  <2>2. g = [s \in Sub(0) |-> SumAt(g, f, s)]
    BY <2>1 DEF SumAt
  <2> QED BY <2>2
<1>3. ASSUME NEW n \in Nat, \E g : Part(g, n) PROVE \E g : Part(g, n + 1)
  <2>1. PICK g : Part(g, n)
    BY <1>3
  <2> DEFINE h == [s \in Sub(n + 1) |-> SumAt(g, f, s)]
  <2>2. ASSUME NEW s \in Sub(n + 1), s # {}
        PROVE  h[s \ {Pick(s)}] = g[s \ {Pick(s)}]
    <3>1. s \ {Pick(s)} \in SUBSET S
      OBVIOUS
    <3>2. Cardinality(s \ {Pick(s)}) = Cardinality(s) - 1 /\ Cardinality(s) \in Nat
      BY <1>1, <2>2, PickFacts
    <3>3. s \ {Pick(s)} \in Sub(n) /\ s \ {Pick(s)} \in Sub(n + 1)
      BY <3>1, <3>2
    <3> DEFINE r == s \ {Pick(s)}
    <3>4. g[r] = SumAt(g, f, r)
      <4> HIDE DEF r, Sub
      <4> QED BY <2>1, <3>3 DEF r
    <3>5. h[r] = SumAt(g, f, r)
      BY <3>3
    <3> QED BY <3>4, <3>5
  <2>3. \A s \in Sub(n + 1) : SumAt(h, f, s) = SumAt(g, f, s)
    <3> HIDE DEF h
    <3> QED BY <2>2 DEF SumAt
  <2>4. h = [s \in Sub(n + 1) |-> SumAt(h, f, s)]
    BY <2>3
  <2> QED BY <2>4
<1>4. \A n \in Nat : \E g : Part(g, n)
  <2> DEFINE F == {0..n : n \in {k \in Nat : ~\E g : Part(g, k)}}
  <2> SUFFICES ASSUME NEW n \in Nat, ~\E g : Part(g, n) PROVE FALSE
    OBVIOUS
  <2>1. \A k \in Nat : IsFiniteSet(0..k) /\ Cardinality(0..k) = k + 1
    BY FS_Interval
  <2>2. F # {} /\ \A T \in F : IsFiniteSet(T)
    BY <2>1
  <2>3. PICK T \in F : \A U \in F : ~(Cardinality(U) < Cardinality(T))
    <3> HIDE DEF F
    <3> QED BY <2>2, Smallest
  <2>4. PICK m \in Nat : T = 0..m /\ ~\E g : Part(g, m)
    BY <2>3
  <2>5. m # 0
    <3> HIDE DEF Part
    <3> QED BY <1>2, <2>4
  <2>6. m - 1 \in Nat /\ (m - 1) + 1 = m
    BY <2>5
  <2>7. ~\E g : Part(g, m - 1)
    <3> HIDE DEF Part
    <3> QED BY <1>3, <2>4, <2>6
  <2>8. 0..(m - 1) \in F
    BY <2>6, <2>7
  <2>9. Cardinality(0..(m - 1)) < Cardinality(0..m)
    BY <2>1, <2>6
  <2> HIDE DEF F
  <2> QED BY <2>3, <2>4, <2>8, <2>9
<1>5. Sub(Cardinality(S)) = SUBSET S /\ Cardinality(S) \in Nat
  BY <1>1
<1> QED BY <1>4, <1>5 DEF SumsOn

(* Two such functions agree where both are defined. *)
LEMMA IteratesAgree ==
  ASSUME NEW f, NEW S, NEW R, IsFiniteSet(S), R \subseteq S, NEW g, NEW h,
         SumsOn(g, f, S), SumsOn(h, f, R), NEW T \in SUBSET R
  PROVE  g[T] = h[T]
<1> DEFINE F == {s \in SUBSET R : g[s] # h[s]}
<1> SUFFICES ASSUME F # {} PROVE FALSE
  OBVIOUS
<1>1. \A s \in F : IsFiniteSet(s)
  BY FS_Subset
<1>2. PICK s \in F : \A t \in F : ~(Cardinality(t) < Cardinality(s))
  <2> HIDE DEF F
  <2> QED BY <1>1, Smallest
<1>3. s \in SUBSET S /\ s \in SUBSET R /\ g[s] # h[s]
  BY <1>2
<1>4. g[s] = SumAt(g, f, s) /\ h[s] = SumAt(h, f, s)
  BY <1>3 DEF SumsOn
<1>5. s # {}
  BY <1>3, <1>4 DEF SumAt
<1>6. Cardinality(s \ {Pick(s)}) < Cardinality(s)
  <2>1. IsFiniteSet(s)
    BY <1>1, <1>2
  <2> HIDE DEF F
  <2>2. Cardinality(s \ {Pick(s)}) = Cardinality(s) - 1 /\ Cardinality(s) \in Nat
    BY <1>5, <2>1, PickFacts
  <2> QED BY <2>2
<1>7. g[s \ {Pick(s)}] = h[s \ {Pick(s)}]
  BY <1>2, <1>3, <1>6
<1> QED BY <1>3, <1>4, <1>5, <1>7 DEF SumAt

(* A sum is that of the others and of the element picked. *)
LEMMA SumPick ==
  ASSUME NEW f, NEW S, IsFiniteSet(S)
  PROVE  /\ S = {} => Sum(f, S) = 0
         /\ S # {} => Sum(f, S) = f[Pick(S)] + Sum(f, S \ {Pick(S)})
<1> DEFINE g(R) == CHOOSE x : SumsOn(x, f, R)
           R == S \ {Pick(S)}
<1>1. \A Q : IsFiniteSet(Q) => SumsOn(g(Q), f, Q)
  BY IterateExists
<1>2. Sum(f, S) = g(S)[S] /\ Sum(f, R) = g(R)[R]
  BY SumIterates
<1>3. SumsOn(g(S), f, S)
  BY <1>1
<1>4. g(S)[S] = SumAt(g(S), f, S)
  <2> HIDE DEF g
  <2>1. S \in SUBSET S
    OBVIOUS
  <2> QED BY <1>3, <2>1 DEF SumsOn
<1>5. g(S)[R] = g(R)[R]
  <2>1. IsFiniteSet(R) /\ R \subseteq S /\ R \in SUBSET R
    BY FS_RemoveElement
  <2>2. SumsOn(g(R), f, R)
    BY <1>1, <2>1
  <2> HIDE DEF g, R
  <2> QED BY <1>3, <2>1, <2>2, IteratesAgree
<1> HIDE DEF g
<1> QED BY <1>2, <1>4, <1>5 DEF SumAt

LEMMA SumInt ==
  ASSUME NEW D, NEW f \in [D -> Int], NEW S, S \subseteq D, IsFiniteSet(S)
  PROVE  Sum(f, S) \in Int
<1> DEFINE F == {s \in SUBSET S : Sum(f, s) \notin Int}
<1> SUFFICES ASSUME F # {} PROVE FALSE
  OBVIOUS
<1>1. \A s \in SUBSET S : IsFiniteSet(s)
  BY FS_Subset
<1>2. PICK s \in F : \A t \in F : ~(Cardinality(t) < Cardinality(s))
  <2>1. \A s \in F : IsFiniteSet(s)
    BY <1>1
  <2> HIDE DEF F
  <2> QED BY <2>1, Smallest
<1>3. s \in SUBSET S /\ IsFiniteSet(s) /\ Sum(f, s) \notin Int
  BY <1>1, <1>2
<1>4. s # {}
  <2>1. Sum(f, {}) = 0
    BY FS_EmptySet, SumPick
  <2> QED BY <1>3, <2>1
<1>5. Sum(f, s) = f[Pick(s)] + Sum(f, s \ {Pick(s)})
  BY <1>3, <1>4, SumPick
<1>6. Pick(s) \in s /\ Cardinality(s \ {Pick(s)}) < Cardinality(s)
  BY <1>3, <1>4, PickFacts
<1>7. Sum(f, s \ {Pick(s)}) \in Int /\ f[Pick(s)] \in Int
  BY <1>2, <1>3, <1>6
<1> QED BY <1>3, <1>5, <1>7

(* Two values change. *)
Differ(f, g, D, x, y, a, b) ==
  \A v \in D : g[v] = f[v] + (IF v = x THEN a ELSE 0) + (IF v = y THEN b ELSE 0)

LEMMA SumChange ==
  ASSUME NEW D, NEW f \in [D -> Int], NEW g \in [D -> Int],
         NEW S, S \subseteq D, IsFiniteSet(S),
         NEW x, NEW y, NEW a \in Int, NEW b \in Int,
         Differ(f, g, D, x, y, a, b)
  PROVE  Sum(g, S) = Sum(f, S) + (IF x \in S THEN a ELSE 0) + (IF y \in S THEN b ELSE 0)
<1> DEFINE F == {s \in SUBSET S :
                   Sum(g, s) # Sum(f, s) + (IF x \in s THEN a ELSE 0) + (IF y \in s THEN b ELSE 0)}
<1> SUFFICES ASSUME F # {} PROVE FALSE
  OBVIOUS
<1>1. \A s \in SUBSET S : IsFiniteSet(s)
  BY FS_Subset
<1>2. PICK s \in F : \A t \in F : ~(Cardinality(t) < Cardinality(s))
  <2>1. \A s \in F : IsFiniteSet(s)
    BY <1>1
  <2> HIDE DEF F
  <2> QED BY <2>1, Smallest
<1>3. s \in SUBSET S /\ IsFiniteSet(s)
      /\ Sum(g, s) # Sum(f, s) + (IF x \in s THEN a ELSE 0) + (IF y \in s THEN b ELSE 0)
  BY <1>1, <1>2
<1>4. s # {}
  <2> SUFFICES ASSUME s = {} PROVE FALSE
    OBVIOUS
  <2>1. Sum(f, s) = 0 /\ Sum(g, s) = 0
    BY <1>3, SumPick
  <2>2. (IF x \in s THEN a ELSE 0) = 0 /\ (IF y \in s THEN b ELSE 0) = 0
    OBVIOUS
  <2> QED BY <1>3, <2>1, <2>2
<1> DEFINE p == Pick(s)
           r == s \ {p}
<1>5. Sum(f, s) = f[p] + Sum(f, r) /\ Sum(g, s) = g[p] + Sum(g, r)
  BY <1>3, <1>4, SumPick
<1>6. p \in s /\ Cardinality(r) < Cardinality(s) /\ IsFiniteSet(r) /\ r \in SUBSET S
  <2>1. /\ Pick(s) \in s /\ IsFiniteSet(s \ {Pick(s)}) /\ Cardinality(s) \in Nat \ {0}
        /\ Cardinality(s \ {Pick(s)}) = Cardinality(s) - 1
    BY <1>3, <1>4, PickFacts
  <2>2. Cardinality(r) < Cardinality(s)
    <3> HIDE DEF F
    <3> QED BY <2>1
  <2>3. r \in SUBSET S
    BY <1>3
  <2> QED BY <2>1, <2>2, <2>3
<1>7. Sum(g, r) = Sum(f, r) + (IF x \in r THEN a ELSE 0) + (IF y \in r THEN b ELSE 0)
  <2> HIDE DEF p, r
  <2> QED BY <1>2, <1>6
<1>8. Sum(f, r) \in Int /\ f[p] \in Int
  <2>1. Sum(f, r) \in Int
    <3> HIDE DEF r, p
    <3>1. r \subseteq D
      BY <1>6
    <3> QED BY <1>6, <3>1, SumInt
  <2> QED BY <1>3, <1>6, <2>1
<1>9. g[p] = f[p] + (IF p = x THEN a ELSE 0) + (IF p = y THEN b ELSE 0)
  BY <1>3, <1>6 DEF Differ
<1>10. \A q : q \in s <=> q \in r \/ q = p
  BY <1>6
<1>11. p \notin r
  OBVIOUS
<1> DEFINE A(T) == IF x \in T THEN a ELSE 0
           B(T) == IF y \in T THEN b ELSE 0
           A1 == IF p = x THEN a ELSE 0
           B1 == IF p = y THEN b ELSE 0
<1>12. A(s) = A(r) + A1 /\ A(r) \in Int /\ A1 \in Int
  <2> HIDE DEF p, r
  <2> QED BY <1>10, <1>11
<1>13. B(s) = B(r) + B1 /\ B(r) \in Int /\ B1 \in Int
  <2> HIDE DEF p, r
  <2> QED BY <1>10, <1>11
<1>14. Sum(g, s) = Sum(f, s) + A(s) + B(s)
  <2>1. Sum(g, r) = Sum(f, r) + A(r) + B(r) /\ g[p] = f[p] + A1 + B1
    BY <1>7, <1>9
  <2> HIDE DEF A, B, A1, B1, p, r
  <2> QED BY <1>5, <1>8, <1>12, <1>13, <2>1
<1> QED BY <1>3, <1>14

(* Any element can be taken out of a sum. *)
LEMMA SumRemove ==
  ASSUME NEW D, NEW f \in [D -> Int], NEW S, S \subseteq D, IsFiniteSet(S)
  PROVE  \A x \in S : Sum(f, S) = f[x] + Sum(f, S \ {x})
<1> DEFINE F == {s \in SUBSET S : ~\A x \in s : Sum(f, s) = f[x] + Sum(f, s \ {x})}
<1> SUFFICES ASSUME F # {} PROVE FALSE
  OBVIOUS
<1>1. \A s \in SUBSET S : IsFiniteSet(s)
  BY FS_Subset
<1>2. PICK s \in F : \A t \in F : ~(Cardinality(t) < Cardinality(s))
  <2>1. \A s \in F : IsFiniteSet(s)
    BY <1>1
  <2> HIDE DEF F
  <2> QED BY <2>1, Smallest
<1>3. s \in SUBSET S /\ IsFiniteSet(s) /\ ~\A x \in s : Sum(f, s) = f[x] + Sum(f, s \ {x})
  BY <1>1, <1>2
<1>4. PICK x \in s : Sum(f, s) # f[x] + Sum(f, s \ {x})
  BY <1>3
<1>5. \A t \in SUBSET S : Cardinality(t) < Cardinality(s)
                            => \A y \in t : Sum(f, t) = f[y] + Sum(f, t \ {y})
  BY <1>2
<1> DEFINE p == Pick(s)
           r == s \ {p}
           q == s \ {x}
<1>6. /\ Sum(f, s) = f[p] + Sum(f, r) /\ p \in s
      /\ Cardinality(r) = Cardinality(s) - 1 /\ Cardinality(s) \in Nat
  BY <1>3, SumPick, PickFacts
<1>7. p # x
  BY <1>4, <1>6
<1>8. Cardinality(q) = Cardinality(s) - 1
  BY <1>3, FS_RemoveElement
<1>9. r \in SUBSET S /\ x \in r /\ q \in SUBSET S /\ p \in q
  BY <1>3, <1>6, <1>7
<1>10. r \ {x} = q \ {p} /\ q \ {p} \subseteq D /\ IsFiniteSet(q \ {p})
  BY <1>1, <1>9
<1> HIDE DEF F, p, r, q
<1>11. Sum(f, r) = f[x] + Sum(f, r \ {x})
  BY <1>5, <1>6, <1>9
<1>12. Sum(f, q) = f[p] + Sum(f, q \ {p})
  BY <1>5, <1>6, <1>8, <1>9
<1>13. Sum(f, q \ {p}) \in Int /\ f[p] \in Int /\ f[x] \in Int
  BY <1>3, <1>6, <1>10, SumInt
<1>14. Sum(f, s) = f[x] + Sum(f, q)
  <2> DEFINE z == Sum(f, q \ {p})
  <2>1. Sum(f, s) = f[p] + (f[x] + z) /\ Sum(f, q) = f[p] + z /\ z \in Int
    BY <1>6, <1>10, <1>11, <1>12, <1>13
  <2> HIDE DEF z
  <2>2. f[p] + (f[x] + z) = f[x] + (f[p] + z)
    BY <1>13, <2>1
  <2> QED BY <2>1, <2>2
<1> QED BY <1>4, <1>14 DEF q

(* What is 0 can be left out. *)
LEMMA SumZeros ==
  ASSUME NEW D, NEW f \in [D -> Int], NEW S, S \subseteq D, IsFiniteSet(S),
         NEW T, T \subseteq S, \A v \in S \ T : f[v] = 0
  PROVE  Sum(f, S) = Sum(f, T)
<1> DEFINE F == {s \in SUBSET S : T \subseteq s /\ Sum(f, s) # Sum(f, T)}
<1> SUFFICES ASSUME F # {} PROVE FALSE
  OBVIOUS
<1>1. \A s \in SUBSET S : IsFiniteSet(s)
  BY FS_Subset
<1>2. PICK s \in F : \A t \in F : ~(Cardinality(t) < Cardinality(s))
  <2>1. \A s \in F : IsFiniteSet(s)
    BY <1>1
  <2> HIDE DEF F
  <2> QED BY <2>1, Smallest
<1>3. s \in SUBSET S /\ IsFiniteSet(s) /\ T \subseteq s /\ Sum(f, s) # Sum(f, T)
  BY <1>1, <1>2
<1>4. PICK x \in s : x \notin T
  BY <1>3
<1>5. Sum(f, s) = f[x] + Sum(f, s \ {x}) /\ f[x] = 0
  BY <1>3, <1>4, SumRemove
<1>6. Cardinality(s \ {x}) = Cardinality(s) - 1 /\ Cardinality(s) \in Nat
      /\ IsFiniteSet(s \ {x})
  BY <1>3, FS_RemoveElement, FS_CardinalityType
<1>7. Sum(f, s \ {x}) = Sum(f, T)
  BY <1>2, <1>3, <1>4, <1>6
<1>8. Sum(f, s \ {x}) \in Int
  BY <1>3, <1>6, SumInt
<1> QED BY <1>3, <1>5, <1>7, <1>8

-----------------------------------------------------------------------------
(* No command is ahead of its window                                       *)

(* A call at phase p with the entry e and the commands s: decrements come  *)
(* last, at most two, and name the entry's window.                         *)
InOrder(p, e, s, now) ==
  /\ e.originWindow =< now
  /\ p = "refreshing" => s[Len(s)].origin = e.originWindow
  /\ \A i \in 1..Len(s) :
       /\ s[i].origin =< s[i].now /\ s[i].now =< now
       /\ s[i].op = "decr" => /\ i >= Len(s) - 1 /\ s[i].origin = e.originWindow
                              /\ p \in {"releasing", "over"}

OrderInv ==
  /\ \A w \in Windows : w > window => count[w] = 0
  /\ \A c \in Calls : InOrder(phase[c], entry[c], wire[c], window)

LEMMA OrderTail ==
  ASSUME NEW p, NEW e, NEW s \in Seq(Commands), NEW now, InOrder(p, e, s, now), s # <<>>,
         p = "refreshing" => Len(s) > 1
  PROVE  InOrder(p, e, Tail(s), now)
<1> DEFINE t == Tail(s)
<1>1. /\ Len(s) \in Nat \ {0} /\ Len(t) = Len(s) - 1
      /\ Len(s) > 1 => t[Len(t)] = s[Len(s)]
      /\ \A i \in 1..Len(t) : t[i] = s[i + 1] /\ i + 1 \in 1..Len(s)
  <2>1. /\ Len(s) \in Nat \ {0} /\ Len(t) = Len(s) - 1
        /\ Len(s) > 1 => t[Len(t)] = s[Len(s)]
    BY TailFacts
  <2>2. \A i \in 1..Len(t) : t[i] = s[i + 1] /\ i + 1 \in 1..Len(s)
    BY <2>1
  <2> QED BY <2>1, <2>2
<1> HIDE DEF t
<1>2. ASSUME NEW i \in 1..Len(t)
      PROVE  /\ t[i].origin =< t[i].now /\ t[i].now =< now
             /\ t[i].op = "decr" => /\ i >= Len(t) - 1 /\ t[i].origin = e.originWindow
                                    /\ p \in {"releasing", "over"}
  <2>1. t[i] = s[i + 1] /\ i + 1 \in 1..Len(s)
    BY <1>1
  <2>2. /\ s[i + 1].origin =< s[i + 1].now /\ s[i + 1].now =< now
        /\ s[i + 1].op = "decr" => /\ i + 1 >= Len(s) - 1 /\ s[i + 1].origin = e.originWindow
                                   /\ p \in {"releasing", "over"}
    BY <2>1 DEF InOrder
  <2>3. i + 1 >= Len(s) - 1 => i >= Len(t) - 1
    BY <1>1
  <2> QED BY <2>1, <2>2, <2>3
<1>3. p = "refreshing" => t[Len(t)].origin = e.originWindow
  BY <1>1 DEF InOrder
<1>4. e.originWindow =< now
  BY DEF InOrder
<1> QED BY <1>2, <1>3, <1>4 DEF InOrder, t

LEMMA OrderAppend ==
  ASSUME NEW p, NEW e, NEW s \in Seq(Commands), NEW now, InOrder(p, e, s, now),
         NEW k \in Commands, k.origin =< k.now, k.now =< now, NEW q,
         p \in {"new", "live"} \/ (p = "releasing" /\ q = "releasing" /\ Len(s) = 1),
         k.op = "decr" => k.origin = e.originWindow /\ q = "releasing",
         q = "refreshing" => k.origin = e.originWindow
  PROVE  InOrder(q, e, Append(s, k), now)
<1> DEFINE t == Append(s, k)
<1>1. /\ Len(s) \in Nat /\ Len(t) = Len(s) + 1 /\ t[Len(t)] = k
      /\ \A i \in 1..Len(s) : t[i] = s[i]
  OBVIOUS
<1> HIDE DEF t
<1>2. ASSUME NEW i \in 1..Len(t)
      PROVE  /\ t[i].origin =< t[i].now /\ t[i].now =< now
             /\ t[i].op = "decr" => /\ i >= Len(t) - 1 /\ t[i].origin = e.originWindow
                                    /\ q \in {"releasing", "over"}
  <2>1. CASE i = Len(t)
    <3>1. i >= Len(t) - 1
      BY <1>1, <2>1
    <3> QED BY <1>1, <2>1, <3>1
  <2>2. CASE i # Len(t)
    <3>1. i \in 1..Len(s) /\ t[i] = s[i]
      BY <1>1, <2>2
    <3>2. /\ s[i].origin =< s[i].now /\ s[i].now =< now
          /\ s[i].op = "decr" => /\ s[i].origin = e.originWindow
                                 /\ p \in {"releasing", "over"}
      BY <3>1 DEF InOrder
    <3>3. Len(s) = 1 => i >= Len(t) - 1
      BY <1>1, <3>1
    <3> QED BY <3>1, <3>2, <3>3
  <2> QED BY <2>1, <2>2
<1>3. q = "refreshing" => t[Len(t)].origin = e.originWindow
  BY <1>1
<1>4. e.originWindow =< now
  BY DEF InOrder
<1> QED BY <1>2, <1>3, <1>4 DEF InOrder, t

(* The handler goes on. *)
LEMMA OrderGoesOn ==
  ASSUME NEW p \in Phases, NEW e, NEW s, NEW now, InOrder(p, e, s, now), NEW d,
         d.originWindow =< now,
         p \in {"releasing", "over"} => d.originWindow = e.originWindow
  PROVE  /\ InOrder("over", d, s, now)
         /\ p \notin {"releasing", "over"} => InOrder("live", d, s, now)
  BY DEF InOrder

LEMMA OrderOne ==
  ASSUME TypeOK, OrderInv, NEW c \in Calls, NEW p, NEW e, NEW s,
         phase' = [phase EXCEPT ![c] = p], entry' = [entry EXCEPT ![c] = e],
         wire' = [wire EXCEPT ![c] = s], window' = window,
         InOrder(p, e, s, window), \A w \in Windows : w > window => count'[w] = 0
  PROVE  OrderInv'
<1>1. /\ phase'[c] = p /\ entry'[c] = e /\ wire'[c] = s
      /\ \A x \in Calls : x # c => /\ phase'[x] = phase[x] /\ entry'[x] = entry[x]
                                   /\ wire'[x] = wire[x]
  BY DEF TypeOK
<1>2. \A x \in Calls : InOrder(phase'[x], entry'[x], wire'[x], window)
  <2> SUFFICES ASSUME NEW x \in Calls PROVE InOrder(phase'[x], entry'[x], wire'[x], window)
    OBVIOUS
  <2>1. CASE x = c
    BY <1>1, <2>1
  <2>2. CASE x # c
    BY <1>1, <2>2 DEF OrderInv
  <2> QED BY <2>1, <2>2
<1> QED BY <1>2 DEF OrderInv

LEMMA OrderSend ==
  ASSUME TypeOK, OrderInv, NEW c \in Calls, phase[c] \in {"new", "live"},
         NEW k \in Commands, NEW p, Send(c, k, p), k.origin =< k.now, k.now = window,
         k.op = "decr" => k.origin = entry[c].originWindow /\ p = "releasing",
         p = "refreshing" => k.origin = entry[c].originWindow
  PROVE  OrderInv'
<1>1. window \in Int /\ k.now =< window /\ wire[c] \in Seq(Commands)
  BY DEF TypeOK, Windows
<1>2. InOrder(phase[c], entry[c], wire[c], window)
  BY DEF OrderInv
<1> DEFINE s == Append(wire[c], k)
<1>3. InOrder(p, entry[c], s, window)
  BY <1>1, <1>2, OrderAppend
<1>4. /\ phase' = [phase EXCEPT ![c] = p] /\ entry' = [entry EXCEPT ![c] = entry[c]]
      /\ wire' = [wire EXCEPT ![c] = s] /\ window' = window
      /\ \A w \in Windows : w > window => count'[w] = 0
  BY DEF Send, TypeOK, OrderInv
<1> HIDE DEF s
<1> QED BY <1>3, <1>4, OrderOne

LEMMA OrderNone ==
  ASSUME NEW e, NEW now, e.originWindow =< now, NEW p, p # "refreshing"
  PROVE  InOrder(p, e, <<>>, now)
<1>1. 1..Len(<<>>) = {}
  OBVIOUS
<1> QED BY <1>1 DEF InOrder

(* The windows of the command that Redis executes. *)
LEMMA OrderHead ==
  ASSUME TypeOK, OrderInv, NEW c \in Calls, wire[c] # <<>>
  PROVE  /\ Head(wire[c]).now \in Windows /\ Head(wire[c]).origin \in 0..MaxWindow
         /\ Head(wire[c]).origin =< Head(wire[c]).now /\ Head(wire[c]).now =< window
<1>1. /\ wire[c] \in Seq(Commands) /\ Head(wire[c]) \in Commands /\ Head(wire[c]) = wire[c][1]
      /\ 1 \in 1..Len(wire[c])
  BY TailFacts DEF TypeOK
<1>2. InOrder(phase[c], entry[c], wire[c], window)
  BY DEF OrderInv
<1> QED BY <1>1, <1>2 DEF InOrder, Commands

(* Redis counts nothing in a window that has not come. *)
LEMMA OrderExecute ==
  ASSUME TypeOK, AwaitInv, OrderInv, NEW c \in Calls, Execute(c)
  PROVE  OrderInv'
<1> DEFINE k == Head(wire[c])
           heard == Awaiting(c) /\ Len(wire[c]) = 1
           s == IF heard THEN wire[c] ELSE Tail(wire[c])
<1>1. /\ wire[c] # <<>> /\ k.now \in Windows /\ k.origin \in 0..MaxWindow
      /\ k.origin =< k.now /\ k.now =< window /\ wire[c] \in Seq(Commands)
  BY OrderHead, CallFacts DEF Execute
<1>2. window \in Int /\ MaxWindow \in Nat /\ count \in [0..MaxWindow -> Int]
      /\ Windows \subseteq 0..MaxWindow
  BY CommandFacts DEF TypeOK, Windows
<1>3. InOrder(phase[c], entry[c], wire[c], window)
  BY DEF OrderInv
<1>4. InOrder(phase[c], entry[c], s, window)
  <2>1. CASE heard
    BY <1>3, <2>1
  <2>2. CASE ~heard
    <3>1. phase[c] = "refreshing" => Len(wire[c]) > 1
      <4>1. Len(wire[c]) \in Nat \ {0}
        BY <1>1, TailFacts
      <4>2. phase[c] = "refreshing" => Len(wire[c]) # 1
        BY <2>2 DEF Awaiting
      <4>3. \A n \in Nat \ {0} : n # 1 => n > 1
        OBVIOUS
      <4> QED BY <4>1, <4>2, <4>3
    <3>2. InOrder(phase[c], entry[c], Tail(wire[c]), window)
      BY <1>1, <1>3, <3>1, OrderTail
    <3> QED BY <2>2, <3>2
  <2> QED BY <2>1, <2>2
<1>5. /\ phase' = [phase EXCEPT ![c] = phase[c]] /\ entry' = [entry EXCEPT ![c] = entry[c]]
      /\ wire' = [wire EXCEPT ![c] = s] /\ window' = window
  BY DEF Execute, TypeOK
<1>6. ASSUME NEW w \in Windows, w > window PROVE count'[w] = 0
  <2>1. w # k.now /\ w # k.origin /\ count[w] = 0 /\ w \in 0..MaxWindow
    <3> HIDE DEF k
    <3> QED BY <1>1, <1>2, <1>6 DEF OrderInv, Windows
  <2>2. CASE CheckAndIncrement(c, k.now, heard)
    <3>1. count' \in {count, [count EXCEPT ![k.now] = @ + 1]}
      BY <2>2 DEF CheckAndIncrement
    <3> HIDE DEF k
    <3> QED BY <1>2, <2>1, <3>1
  <2>3. CASE Move(c, k.now, k.origin)
    <3> HIDE DEF k
    <3> QED BY <2>1, <2>3 DEF Move
  <2>4. CASE Take(k.origin)
    <3> HIDE DEF k
    <3> QED BY <1>2, <2>1, <2>4 DEF Take
  <2> QED BY <2>2, <2>3, <2>4 DEF Execute
<1> HIDE DEF s
<1> QED BY <1>4, <1>5, <1>6, OrderOne

LEMMA OrderStep == TypeOK /\ AwaitInv /\ OrderInv /\ [Next]_vars => OrderInv'
<1> SUFFICES ASSUME TypeOK, AwaitInv, OrderInv, [Next]_vars PROVE OrderInv'
  OBVIOUS
<1>1. CASE Tick
  <2>1. /\ window \in Int /\ Windows \subseteq Int /\ window' = window + 1
        /\ UNCHANGED <<count, phase, entry, wire>>
    BY <1>1 DEF Tick, TypeOK, Windows
  <2>2. \A w \in Windows : w > window' => count'[w] = 0
    BY <2>1 DEF OrderInv
  <2>3. ASSUME NEW c \in Calls PROVE InOrder(phase[c], entry[c], wire[c], window + 1)
    <3>1. InOrder(phase[c], entry[c], wire[c], window) /\ entry[c].originWindow \in Int
      <4>1. entry[c].originWindow \in 0..MaxWindow
        BY CallFacts
      <4>2. \A n \in 0..MaxWindow : n \in Int
        OBVIOUS
      <4> QED BY <4>1, <4>2 DEF OrderInv
    <3>2. \A i \in 1..Len(wire[c]) : wire[c][i].now \in Int
      <4>1. wire[c] \in Seq(Commands)
        BY DEF TypeOK
      <4>2. \A i \in 1..Len(wire[c]) : wire[c][i] \in Commands
        BY <4>1
      <4> QED BY <4>2 DEF Commands, Windows
    <3> QED BY <2>1, <3>1, <3>2 DEF InOrder
  <2> QED BY <2>1, <2>2, <2>3 DEF OrderInv
<1> SUFFICES ASSUME NEW c \in Calls,
                    \/ Admit(c) \/ Migrate(c) \/ Release(c) \/ ReleaseAgain(c) \/ Vanish(c)
                    \/ Hear(c) \/ Timeout(c) \/ Refuse(c)
                    \/ Execute(c) \/ Resend(c) \/ Lose(c)
             PROVE  OrderInv'
  <2>1. CASE UNCHANGED vars
    BY <2>1 DEF vars, OrderInv
  <2> QED BY <1>1, <2>1 DEF Next
<1>0. /\ InOrder(phase[c], entry[c], wire[c], window) /\ entry[c].originWindow =< window
      /\ wire[c] \in Seq(Commands) /\ phase[c] \in Phases
      /\ window \in Int /\ window \in Windows /\ NoWindow =< window
      /\ Check \in Commands /\ Refresh(entry[c].originWindow) \in Commands
      /\ Decrement(entry[c].originWindow) \in Commands
      /\ \A w \in Windows : w > window => count[w] = 0
  <2>1. InOrder(phase[c], entry[c], wire[c], window) /\ \A w \in Windows : w > window => count[w] = 0
    BY DEF OrderInv
  <2>2. entry[c].originWindow \in 0..MaxWindow
    BY CallFacts
  <2>3. /\ Check \in Commands /\ Refresh(entry[c].originWindow) \in Commands
        /\ Decrement(entry[c].originWindow) \in Commands
    BY <2>2, CommandFacts
  <2>4. window \in Windows /\ window \in Int /\ NoWindow =< window
    BY DEF TypeOK, Windows, NoWindow
  <2>5. wire[c] \in Seq(Commands) /\ phase[c] \in Phases
    BY CallFacts
  <2>6. entry[c].originWindow =< window
    BY <2>1 DEF InOrder
  <2> QED BY <2>1, <2>3, <2>4, <2>5, <2>6
<1>2. CASE Admit(c)
  <2>1. Check.origin =< Check.now /\ Check.now = window /\ Check.op = "check"
    BY <1>0 DEF Check
  <2> QED BY <1>0, <1>2, <2>1, OrderSend DEF Admit
<1>3. CASE Migrate(c)
  <2> DEFINE k == Refresh(entry[c].originWindow)
  <2>1. k.origin =< k.now /\ k.now = window /\ k.op = "refresh" /\ k.origin = entry[c].originWindow
    BY <1>0 DEF Refresh
  <2>2. phase[c] \in {"new", "live"} /\ Send(c, k, "refreshing")
    BY <1>3 DEF Migrate
  <2>3. k \in Commands
    BY <1>0
  <2> HIDE DEF k
  <2> QED BY <2>1, <2>2, <2>3, OrderSend
<1>4. CASE Release(c)
  <2>1. CASE entry[c].incrementSucceeded
    <3> DEFINE k == Decrement(entry[c].originWindow)
    <3>1. k.origin =< k.now /\ k.now = window /\ k.origin = entry[c].originWindow
      BY <1>0 DEF Decrement
    <3>2. phase[c] \in {"new", "live"} /\ Send(c, k, "releasing")
      BY <1>4, <2>1 DEF Release
    <3>3. k \in Commands
      BY <1>0
    <3> HIDE DEF k
    <3> QED BY <3>1, <3>2, <3>3, OrderSend
  <2>2. CASE ~entry[c].incrementSucceeded
    <3>1. /\ phase' = [phase EXCEPT ![c] = "over"] /\ entry' = [entry EXCEPT ![c] = entry[c]]
          /\ wire' = [wire EXCEPT ![c] = wire[c]] /\ UNCHANGED <<window, count>>
      BY <1>4, <2>2 DEF Release, TypeOK
    <3>2. InOrder("over", entry[c], wire[c], window)
      BY <1>0, OrderGoesOn
    <3> QED BY <1>0, <3>1, <3>2, OrderOne
  <2> QED BY <2>1, <2>2
<1>5. CASE ReleaseAgain(c)
  <2> DEFINE k == Decrement(entry[c].originWindow)
             s == Append(wire[c], k)
  <2>1. k.origin =< k.now /\ k.now =< window /\ k.origin = entry[c].originWindow
    BY <1>0 DEF Decrement
  <2>2. phase[c] = "releasing" /\ Len(wire[c]) = 1
    BY <1>5 DEF ReleaseAgain
  <2>3. k \in Commands
    BY <1>0
  <2>4. InOrder("releasing", entry[c], s, window)
    <3> HIDE DEF k
    <3> QED BY <1>0, <2>1, <2>2, <2>3, OrderAppend
  <2>5. /\ phase' = [phase EXCEPT ![c] = "releasing"] /\ entry' = [entry EXCEPT ![c] = entry[c]]
        /\ wire' = [wire EXCEPT ![c] = s] /\ UNCHANGED <<window, count>>
    BY <1>5, <2>2 DEF ReleaseAgain, TypeOK
  <2> HIDE DEF s
  <2> QED BY <1>0, <2>4, <2>5, OrderOne
<1>6. ASSUME NEW s \in {wire[c], IF reply[c] = NoReply THEN wire[c] ELSE Tail(wire[c])},
             NEW p \in {"live", "over"}, NEW d, d.originWindow =< window,
             phase[c] \in {"releasing", "over"} => p = "over" /\ d.originWindow = entry[c].originWindow
      PROVE  InOrder(p, d, s, window)
  <2>1. InOrder(p, d, wire[c], window)
    BY <1>0, <1>6, OrderGoesOn
  <2>2. ASSUME reply[c] # NoReply PROVE InOrder(p, d, Tail(wire[c]), window)
    <3>1. wire[c] # <<>>
      BY <2>2, CallFacts
    <3> QED BY <1>0, <2>1, <3>1, OrderTail
  <2> QED BY <2>1, <2>2
<1>7. CASE Vanish(c)
  <2>1. PICK s \in {wire[c], IF reply[c] = NoReply THEN wire[c] ELSE Tail(wire[c])} :
          wire' = [wire EXCEPT ![c] = s]
    BY <1>7 DEF Vanish
  <2>2. /\ phase' = [phase EXCEPT ![c] = "over"] /\ entry' = [entry EXCEPT ![c] = entry[c]]
        /\ UNCHANGED <<window, count>>
    BY <1>7 DEF Vanish, TypeOK
  <2>3. InOrder("over", entry[c], s, window)
    BY <1>0, <1>6
  <2> QED BY <1>0, <2>1, <2>2, <2>3, OrderOne
<1>8. CASE Hear(c)
  <2> DEFINE w0 == <<>>
  <2>1. /\ reply[c] # NoReply /\ Awaiting(c) /\ Len(wire[c]) = 1 /\ wire[c] # <<>>
        /\ Tail(wire[c]) = w0
    BY <1>0, <1>8, CallFacts, TailFacts DEF Hear
  <2>2. Awaited(c).now =< window
    <3>1. Awaited(c) = wire[c][1] /\ 1 \in 1..Len(wire[c])
      BY <2>1 DEF Awaited
    <3> QED BY <1>0, <3>1 DEF InOrder
  <2>3. \A d, p : d.originWindow =< window /\ p # "refreshing" => InOrder(p, d, w0, window)
    BY OrderNone
  <2> HIDE DEF w0
  <2>4. PICK p \in {"live", "over"} : phase' = [phase EXCEPT ![c] = p]
    BY <1>8 DEF Hear
  <2>5. \E d : entry' = [entry EXCEPT ![c] = d] /\ d.originWindow =< window
    <3>1. CASE reply[c] = "allowed"
      <4> DEFINE d == [originWindow |-> Awaited(c).now, incrementSucceeded |-> TRUE]
      <4>1. entry' = [entry EXCEPT ![c] = d]
        BY <1>8, <3>1 DEF Hear
      <4>2. d.originWindow =< window
        BY <2>2
      <4> HIDE DEF d
      <4> QED BY <4>1, <4>2
    <3>2. CASE reply[c] # "allowed" /\ phase[c] = "refreshing"
      <4>1. entry' = [entry EXCEPT ![c].originWindow = Awaited(c).now]
        BY <1>8, <3>2 DEF Hear
      <4>2. entry' = [entry EXCEPT ![c] = [entry[c] EXCEPT !.originWindow = Awaited(c).now]]
        BY <4>1
      <4>3. [entry[c] EXCEPT !.originWindow = Awaited(c).now].originWindow = Awaited(c).now
        <5>1. entry[c] = [originWindow |-> entry[c].originWindow,
                          incrementSucceeded |-> entry[c].incrementSucceeded]
          BY CallFacts
        <5> QED BY <5>1
      <4> QED BY <2>2, <4>2, <4>3
    <3>3. CASE reply[c] # "allowed" /\ phase[c] # "refreshing"
      <4>1. entry' = [entry EXCEPT ![c] = entry[c]]
        BY <1>8, <3>3 DEF Hear, TypeOK
      <4> QED BY <1>0, <4>1
    <3> QED BY <3>1, <3>2, <3>3
  <2>6. wire' = [wire EXCEPT ![c] = w0] /\ UNCHANGED <<window, count>>
    BY <1>8, <2>1 DEF Hear
  <2> QED BY <1>0, <2>3, <2>4, <2>5, <2>6, OrderOne
<1>9. ASSUME WithoutAnswer(c), Awaiting(c)
      PROVE  \E p \in {"live", "over"} : \E d :
               /\ phase' = [phase EXCEPT ![c] = p] /\ entry' = [entry EXCEPT ![c] = d]
               /\ d.originWindow =< window
               /\ phase[c] \in {"releasing", "over"} => p = "over" /\ d.originWindow = entry[c].originWindow
  <2>1. CASE phase[c] = "checking"
    <3> DEFINE d == [originWindow |-> NoWindow, incrementSucceeded |-> FALSE]
    <3>1. phase' = [phase EXCEPT ![c] = "live"] /\ entry' = [entry EXCEPT ![c] = d]
      BY <1>9, <2>1 DEF WithoutAnswer
    <3>2. d.originWindow =< window
      BY <1>0
    <3> HIDE DEF d
    <3> QED BY <2>1, <3>1, <3>2
  <2>2. CASE phase[c] = "refreshing"
    <3>1. phase' = [phase EXCEPT ![c] = "live"] /\ entry' = [entry EXCEPT ![c] = entry[c]]
      BY <1>9, <2>2 DEF WithoutAnswer, TypeOK
    <3> QED BY <1>0, <2>2, <3>1
  <2>3. CASE phase[c] = "releasing"
    <3>1. phase' = [phase EXCEPT ![c] = "over"] /\ entry' = [entry EXCEPT ![c] = entry[c]]
      BY <1>9, <2>3 DEF WithoutAnswer, TypeOK
    <3> QED BY <1>0, <2>3, <3>1
  <2> QED BY <1>9, <2>1, <2>2, <2>3 DEF Awaiting
<1>10. CASE Timeout(c)
  <2>1. PICK s \in {wire[c], IF reply[c] = NoReply THEN wire[c] ELSE Tail(wire[c])} :
          wire' = [wire EXCEPT ![c] = s]
    BY <1>10 DEF Timeout
  <2>2. WithoutAnswer(c) /\ Awaiting(c) /\ UNCHANGED <<window, count>>
    BY <1>10 DEF Timeout
  <2> QED BY <1>0, <1>6, <1>9, <2>1, <2>2, OrderOne
<1>11. CASE Refuse(c)
  <2> DEFINE w0 == <<>>
  <2>1. WithoutAnswer(c) /\ Awaiting(c) /\ UNCHANGED <<window, count>>
        /\ wire' = [wire EXCEPT ![c] = w0]
    BY <1>11 DEF Refuse
  <2>2. \A d, p : d.originWindow =< window /\ p # "refreshing" => InOrder(p, d, w0, window)
    BY OrderNone
  <2> HIDE DEF w0
  <2> QED BY <1>0, <1>9, <2>1, <2>2, OrderOne
<1>12. CASE Execute(c)
  BY <1>12, OrderExecute
<1>13. CASE Resend(c)
  BY <1>13 DEF Resend, OrderInv
<1>14. CASE Lose(c)
  <2>1. /\ phase' = [phase EXCEPT ![c] = phase[c]] /\ entry' = [entry EXCEPT ![c] = entry[c]]
        /\ wire' = [wire EXCEPT ![c] = Tail(wire[c])] /\ UNCHANGED <<window, count>>
    BY <1>14 DEF Lose, TypeOK
  <2>2. wire[c] # <<>> /\ (phase[c] = "refreshing" => Len(wire[c]) > 1)
    BY <1>14 DEF Lose, Awaiting
  <2>3. InOrder(phase[c], entry[c], Tail(wire[c]), window)
    BY <1>0, <2>2, OrderTail
  <2> QED BY <1>0, <2>1, <2>3, OrderOne
<1> QED BY <1>2, <1>3, <1>4, <1>5, <1>7, <1>8, <1>10, <1>11, <1>12, <1>13, <1>14

-----------------------------------------------------------------------------
(* What the counters owe                                                   *)

(* A call that is counted goes on; with the decrement of one that does not *)
(* still to come, its count is owed, to the window At.                     *)
At(p, e, s, r) ==
  IF p = "checking" \/ (p = "refreshing" /\ r # NoReply) THEN s[Len(s)].now ELSE e.originWindow
Going(p, e, r) ==
  \/ p = "checking" /\ r = "allowed"
  \/ p \in {"live", "refreshing"} /\ e.incrementSucceeded
Owed(p, e, s, r) ==
  \/ Going(p, e, r)
  \/ p \in {"releasing", "over"} /\ r = NoReply /\ s # <<>> /\ s[Len(s)].op = "decr"
Twofold(s) == Len(s) > 1 /\ s[Len(s) - 1].op = "decr"

Claims(w) == {c \in Calls : /\ Owed(phase[c], entry[c], wire[c], reply[c])
                            /\ At(phase[c], entry[c], wire[c], reply[c]) >= w}
Again(w) == {c \in Calls : Twofold(wire[c]) /\ entry[c].originWindow >= w}
Recent == {c \in Calls : /\ Going(phase[c], entry[c], reply[c])
                         /\ At(phase[c], entry[c], wire[c], reply[c]) \in Lookback(window)}

(* From any window on, the counters cover the claims, and the second       *)
(* decrements that are still to come: each of these was counted in twice.  *)
OweInv == \A w \in Windows :
            Sum(count, w..MaxWindow) + twice >= Cardinality(Claims(w)) + Cardinality(Again(w))
LimitInv == Cardinality(Recent \ late) =< Limit + twice

(* What call c has at phase p with the entry e, the commands s and the     *)
(* answer r it had before.                                                 *)
ClaimLess(c, p, e, s, r) ==
  Owed(p, e, s, r) => /\ Owed(phase[c], entry[c], wire[c], reply[c])
                      /\ At(p, e, s, r) =< At(phase[c], entry[c], wire[c], reply[c])
TwiceLess(c, e, s) ==
  Twofold(s) => Twofold(wire[c]) /\ e.originWindow = entry[c].originWindow
GoesLess(c, p, e, s, r) ==
  Going(p, e, r) => /\ Going(phase[c], entry[c], reply[c])
                    /\ At(p, e, s, r) =< At(phase[c], entry[c], wire[c], reply[c])
Moves(c, p, e, s, r) ==
  /\ phase' = [phase EXCEPT ![c] = p] /\ entry' = [entry EXCEPT ![c] = e]
  /\ wire' = [wire EXCEPT ![c] = s] /\ reply' = [reply EXCEPT ![c] = r]
  /\ window' = window

LEMMA Counts ==
  ASSUME NEW A, IsFiniteSet(A), NEW B, NEW c, B \subseteq A \cup {c}
  PROVE  /\ Cardinality(A) \in Nat /\ Cardinality(B) \in Nat
         /\ Cardinality(B) =< Cardinality(A) + 1
         /\ (c \in B => c \in A) => Cardinality(B) =< Cardinality(A)
         /\ c \in A /\ c \notin B => Cardinality(B) =< Cardinality(A) - 1
<1>1. /\ Cardinality(A) \in Nat /\ IsFiniteSet(A \cup {c}) /\ IsFiniteSet(A \ {c})
      /\ Cardinality(A \cup {c}) =< Cardinality(A) + 1
      /\ c \in A => Cardinality(A \ {c}) = Cardinality(A) - 1
  BY FS_AddElement, FS_RemoveElement, FS_CardinalityType
<1>2. Cardinality(B) =< Cardinality(A \cup {c}) /\ IsFiniteSet(B)
  BY <1>1, FS_Subset
<1>3. Cardinality(B) \in Nat /\ Cardinality(A \cup {c}) \in Nat
  BY <1>1, <1>2, FS_CardinalityType
<1>4. (c \in B => c \in A) => Cardinality(B) =< Cardinality(A)
  <2>1. (c \in B => c \in A) => B \in SUBSET A
    OBVIOUS
  <2> QED BY <2>1, FS_Subset
<1>5. c \in A /\ c \notin B => Cardinality(B) =< Cardinality(A) - 1
  <2>1. c \notin B => B \in SUBSET (A \ {c})
    OBVIOUS
  <2>2. c \notin B => Cardinality(B) =< Cardinality(A \ {c})
    BY <1>1, <2>1, FS_Subset
  <2> QED BY <1>1, <2>2
<1> QED BY <1>1, <1>2, <1>3, <1>4, <1>5

LEMMA SomeCalls ==
  \A w : /\ IsFiniteSet(Claims(w)) /\ Cardinality(Claims(w)) \in Nat
         /\ IsFiniteSet(Again(w)) /\ Cardinality(Again(w)) \in Nat
         /\ IsFiniteSet(Recent \ late) /\ Cardinality(Recent \ late) \in Nat
<1>1. \A S \in SUBSET Calls : IsFiniteSet(S) /\ Cardinality(S) \in Nat
  BY CallLimiterAssumption, FS_Subset, FS_CardinalityType DEF CallLimiterAssumption
<1> QED BY <1>1 DEF Claims, Again, Recent

(* Where call c moves, the others stay. *)
LEMMA Others ==
  ASSUME TypeOK, NEW c \in Calls, NEW p, NEW e, NEW s, NEW r, Moves(c, p, e, s, r)
  PROVE  /\ \A w : /\ Claims(w)' \subseteq Claims(w) \cup {c}
                   /\ Again(w)' \subseteq Again(w) \cup {c}
                   /\ c \in Claims(w)' <=> Owed(p, e, s, r) /\ At(p, e, s, r) >= w
                   /\ c \in Again(w)' <=> Twofold(s) /\ e.originWindow >= w
         /\ Recent' \subseteq Recent \cup {c}
         /\ c \in Recent' <=> Going(p, e, r) /\ At(p, e, s, r) \in Lookback(window)
<1>1. /\ phase'[c] = p /\ entry'[c] = e /\ wire'[c] = s /\ reply'[c] = r
      /\ \A x \in Calls : x # c => /\ phase'[x] = phase[x] /\ entry'[x] = entry[x]
                                   /\ wire'[x] = wire[x] /\ reply'[x] = reply[x]
      /\ window' = window
  BY DEF TypeOK, Moves
<1>2. ASSUME NEW w
      PROVE  /\ Claims(w)' \subseteq Claims(w) \cup {c}
             /\ c \in Claims(w)' <=> Owed(p, e, s, r) /\ At(p, e, s, r) >= w
  BY <1>1 DEF Claims
<1>3. ASSUME NEW w
      PROVE  /\ Again(w)' \subseteq Again(w) \cup {c}
             /\ c \in Again(w)' <=> Twofold(s) /\ e.originWindow >= w
  BY <1>1 DEF Again
<1>4. Lookback(window)' = Lookback(window)
  BY <1>1 DEF Lookback
<1>5. /\ Recent' \subseteq Recent \cup {c}
      /\ c \in Recent' <=> Going(p, e, r) /\ At(p, e, s, r) \in Lookback(window)
  <2>1. Recent' = {x \in Calls : /\ Going(phase'[x], entry'[x], reply'[x])
                                 /\ At(phase'[x], entry'[x], wire'[x], reply'[x]) \in Lookback(window)}
    BY <1>4 DEF Recent
  <2> QED BY <1>1, <2>1 DEF Recent
<1> QED BY <1>2, <1>3, <1>5

(* The windows of a call's counts. *)
LEMMA AtFacts ==
  ASSUME TypeOK, AwaitInv, OrderInv, NEW c \in Calls
  PROVE  /\ At(phase[c], entry[c], wire[c], reply[c]) \in 0..MaxWindow
         /\ At(phase[c], entry[c], wire[c], reply[c]) =< window
<1>1. entry[c].originWindow \in 0..MaxWindow /\ entry[c].originWindow =< window
  BY CallFacts DEF OrderInv, InOrder
<1>2. ASSUME phase[c] = "checking" \/ (phase[c] = "refreshing" /\ reply[c] # NoReply)
      PROVE  wire[c][Len(wire[c])].now \in 0..MaxWindow /\ wire[c][Len(wire[c])].now =< window
  <2>1. wire[c] # <<>> /\ wire[c] \in Seq(Commands)
    BY <1>2, CallFacts DEF Awaiting
  <2>2. wire[c][Len(wire[c])] \in Commands /\ Len(wire[c]) \in 1..Len(wire[c])
    BY <2>1, TailFacts
  <2>3. wire[c][Len(wire[c])].now \in Windows /\ Windows \subseteq 0..MaxWindow
    BY <2>2, CommandFacts DEF Commands
  <2> QED BY <2>2, <2>3 DEF OrderInv, InOrder
<1> QED BY <1>1, <1>2 DEF At

(* The sums of the counters. *)
LEMMA CountSums ==
  ASSUME TypeOK, NEW w \in Windows
  PROVE  /\ Sum(count, w..MaxWindow) \in Int
         /\ w..MaxWindow \subseteq 0..MaxWindow /\ IsFiniteSet(w..MaxWindow)
         /\ count \in [0..MaxWindow -> Int] /\ w \in Int
<1>1. w \in Int /\ MaxWindow \in Int /\ w >= 0
  BY CommandFacts DEF Windows
<1>2. w..MaxWindow \subseteq 0..MaxWindow /\ IsFiniteSet(w..MaxWindow)
  BY <1>1, FS_Interval
<1>3. count \in [0..MaxWindow -> Int]
  BY DEF TypeOK
<1> QED BY <1>1, <1>2, <1>3, SumInt

(* The claims before and after call c moves. *)
LEMMA OweNumbers ==
  ASSUME TypeOK, AwaitInv, OrderInv, OweInv, NEW c \in Calls,
         NEW p, NEW e, NEW s, NEW r, Moves(c, p, e, s, r), At(p, e, s, r) \in Int,
         NEW w \in Windows
  PROVE  /\ Cardinality(Claims(w)) \in Nat /\ Cardinality(Claims(w)') \in Nat
         /\ Cardinality(Claims(w)') =< Cardinality(Claims(w)) + 1
         /\ (c \in Claims(w)' => c \in Claims(w)) => Cardinality(Claims(w)') =< Cardinality(Claims(w))
         /\ c \in Claims(w) /\ c \notin Claims(w)'
              => Cardinality(Claims(w)') =< Cardinality(Claims(w)) - 1
         /\ Cardinality(Again(w)) \in Nat /\ Cardinality(Again(w)') \in Nat
         /\ Cardinality(Again(w)') =< Cardinality(Again(w)) + 1
         /\ (c \in Again(w)' => c \in Again(w)) => Cardinality(Again(w)') =< Cardinality(Again(w))
         /\ c \in Again(w) /\ c \notin Again(w)'
              => Cardinality(Again(w)') =< Cardinality(Again(w)) - 1
         /\ Sum(count, w..MaxWindow) \in Int /\ twice \in Nat /\ w \in Int
         /\ Sum(count, w..MaxWindow) + twice >= Cardinality(Claims(w)) + Cardinality(Again(w))
         /\ ClaimLess(c, p, e, s, r) => (c \in Claims(w)' => c \in Claims(w))
         /\ TwiceLess(c, e, s) => (c \in Again(w)' => c \in Again(w))
<1> DEFINE a == At(p, e, s, r)
           b == At(phase[c], entry[c], wire[c], reply[c])
<1>1. a \in Int /\ b \in Int /\ twice \in Nat /\ w \in Int
  <2>1. twice \in Nat /\ w \in Int
    BY CommandFacts DEF TypeOK, Windows
  <2>2. b \in 0..MaxWindow
    BY AtFacts
  <2> HIDE DEF b
  <2> QED BY <2>1, <2>2
<1>2. ClaimLess(c, p, e, s, r) => (c \in Claims(w)' => c \in Claims(w))
  <2> SUFFICES ASSUME ClaimLess(c, p, e, s, r), c \in Claims(w)' PROVE c \in Claims(w)
    OBVIOUS
  <2>1. Owed(p, e, s, r) /\ a >= w
    BY Others
  <2>2. Owed(phase[c], entry[c], wire[c], reply[c]) /\ a =< b
    BY <2>1 DEF ClaimLess
  <2>3. b >= w
    <3> HIDE DEF a, b
    <3> QED BY <1>1, <2>1, <2>2
  <2> QED BY <2>2, <2>3 DEF Claims
<1>3. TwiceLess(c, e, s) => (c \in Again(w)' => c \in Again(w))
  <2> SUFFICES ASSUME TwiceLess(c, e, s), c \in Again(w)' PROVE c \in Again(w)
    OBVIOUS
  <2>1. Twofold(s) /\ e.originWindow >= w
    BY Others
  <2> QED BY <2>1 DEF TwiceLess, Again
<1>4. Sum(count, w..MaxWindow) \in Int
      /\ Sum(count, w..MaxWindow) + twice >= Cardinality(Claims(w)) + Cardinality(Again(w))
  BY CountSums DEF OweInv
<1>5. Claims(w)' \subseteq Claims(w) \cup {c} /\ Again(w)' \subseteq Again(w) \cup {c}
  BY Others
<1> QED BY <1>1, <1>2, <1>3, <1>4, <1>5, Counts, SomeCalls

(* Nothing is taken from the counters, and there are no new claims but for *)
(* a second decrement.                                                     *)
LEMMA OwesStill ==
  ASSUME TypeOK, AwaitInv, OrderInv, OweInv, NEW c \in Calls,
         NEW p, NEW e, NEW s, NEW r, Moves(c, p, e, s, r), At(p, e, s, r) \in Int,
         \A w \in Windows : /\ Sum(count', w..MaxWindow) \in Int
                            /\ Sum(count', w..MaxWindow) >= Sum(count, w..MaxWindow),
         \/ twice' = twice /\ ClaimLess(c, p, e, s, r) /\ TwiceLess(c, e, s)
         \/ twice' = twice + 1 /\ (ClaimLess(c, p, e, s, r) \/ TwiceLess(c, e, s))
  PROVE  OweInv'
<1> SUFFICES ASSUME NEW w \in Windows
             PROVE  Sum(count', w..MaxWindow) + twice'
                      >= Cardinality(Claims(w)') + Cardinality(Again(w)')
  BY DEF OweInv
<1> DEFINE n == Sum(count, w..MaxWindow)
           n1 == Sum(count', w..MaxWindow)
           k == Cardinality(Claims(w))
           m == Cardinality(Again(w))
           k1 == Cardinality(Claims(w)')
           m1 == Cardinality(Again(w)')
<1>1. /\ k1 \in Nat /\ k \in Nat /\ k1 =< k + 1 /\ m1 \in Nat /\ m \in Nat /\ m1 =< m + 1
      /\ ClaimLess(c, p, e, s, r) => k1 =< k
      /\ TwiceLess(c, e, s) => m1 =< m
      /\ n \in Int /\ n + twice >= k + m /\ twice \in Nat
  BY OweNumbers
<1>2. n1 \in Int /\ n1 >= n
  OBVIOUS
<1> HIDE DEF n, n1, k, m, k1, m1
<1>3. CASE twice' = twice /\ ClaimLess(c, p, e, s, r) /\ TwiceLess(c, e, s)
  BY <1>1, <1>2, <1>3 DEF n1, k1, m1
<1>4. CASE twice' = twice + 1 /\ ClaimLess(c, p, e, s, r)
  BY <1>1, <1>2, <1>4 DEF n1, k1, m1
<1>5. CASE twice' = twice + 1 /\ TwiceLess(c, e, s)
  BY <1>1, <1>2, <1>5 DEF n1, k1, m1
<1> QED BY <1>3, <1>4, <1>5

(* No call is new among those that go on, or it is known to be late.       *)
LEMMA GoesStill ==
  ASSUME TypeOK, AwaitInv, OrderInv, LimitInv, NEW c \in Calls,
         NEW p, NEW e, NEW s, NEW r, Moves(c, p, e, s, r), At(p, e, s, r) \in Int,
         late \subseteq late', twice' \in {twice, twice + 1},
         GoesLess(c, p, e, s, r) \/ c \in late' \/ c \in Recent
  PROVE  LimitInv'
<1> DEFINE a == At(p, e, s, r)
           b == At(phase[c], entry[c], wire[c], reply[c])
<1>1. a \in Int /\ b \in Int /\ b =< window /\ window \in Int /\ twice \in Nat
  <2>1. window \in Int /\ twice \in Nat
    BY CommandFacts DEF TypeOK, Windows
  <2>2. b \in 0..MaxWindow /\ b =< window
    BY AtFacts
  <2> HIDE DEF b
  <2> QED BY <2>1, <2>2
<1>2. c \in Recent' => c \in Recent \/ c \in late'
  <2> SUFFICES ASSUME c \in Recent', GoesLess(c, p, e, s, r) PROVE c \in Recent
    OBVIOUS
  <2>1. Going(p, e, r) /\ a \in Lookback(window)
    BY Others
  <2>2. Going(phase[c], entry[c], reply[c]) /\ a =< b
    BY <2>1 DEF GoesLess
  <2>3. b \in Lookback(window)
    <3>1. ActiveWindows \in Int
      BY CallLimiterAssumption DEF CallLimiterAssumption
    <3> HIDE DEF a, b
    <3> QED BY <1>1, <2>1, <2>2, <3>1 DEF Lookback
  <2> QED BY <2>2, <2>3 DEF Recent
<1>3. (Recent' \ late') \in SUBSET (Recent \ late)
  BY <1>2, Others
<1>4. /\ Cardinality(Recent' \ late') =< Cardinality(Recent \ late)
      /\ Cardinality(Recent' \ late') \in Nat /\ Cardinality(Recent \ late) \in Nat
  BY <1>3, SomeCalls, FS_Subset, FS_CardinalityType
<1>5. Cardinality(Recent \ late) =< Limit + twice /\ Limit \in Nat
  BY CallLimiterAssumption DEF LimitInv, CallLimiterAssumption
<1>6. Cardinality(Recent' \ late') =< Limit + twice'
  BY <1>1, <1>4, <1>5
<1> QED BY <1>6 DEF LimitInv

(* Nothing is owed more when the oldest command goes. *)
LEMMA TailLess ==
  ASSUME TypeOK, AwaitInv, NEW c \in Calls, wire[c] # <<>>, reply[c] = NoReply
  PROVE  /\ ClaimLess(c, phase[c], entry[c], Tail(wire[c]), NoReply)
         /\ GoesLess(c, phase[c], entry[c], Tail(wire[c]), NoReply)
         /\ TwiceLess(c, entry[c], Tail(wire[c]))
<1> DEFINE s == wire[c]
           t == Tail(wire[c])
           u == entry[c].originWindow
<1>1. /\ Len(s) \in Nat \ {0} /\ Len(t) = Len(s) - 1 /\ s \in Seq(Commands)
      /\ t = <<>> \/ t[Len(t)] = s[Len(s)]
      /\ Len(t) > 1 => t[Len(t) - 1] = s[Len(s) - 1]
  <2>1. s \in Seq(Commands) /\ s # <<>>
    BY CallFacts
  <2>2. /\ Len(s) \in Nat \ {0} /\ Len(t) = Len(s) - 1
        /\ Len(s) = 1 => t = <<>>
        /\ Len(s) > 1 => t[Len(t)] = s[Len(s)]
    BY <2>1, TailFacts
  <2>3. Len(t) > 1 => t[Len(t) - 1] = s[Len(s) - 1]
    <3>1. ASSUME Len(t) > 1 PROVE t[Len(t) - 1] = s[(Len(t) - 1) + 1] /\ (Len(t) - 1) + 1 = Len(s) - 1
      BY <2>1, <2>2, <3>1
    <3> QED BY <3>1
  <2> QED BY <2>1, <2>2, <2>3
<1>2. u \in Int /\ u =< u
  <2>1. u \in 0..MaxWindow
    BY CallFacts
  <2> HIDE DEF u
  <2> QED BY <2>1
<1>3. TwiceLess(c, entry[c], t)
  <2>1. Len(t) > 1 => Len(s) > 1
    BY <1>1
  <2> HIDE DEF s, t
  <2> QED BY <1>1, <2>1 DEF TwiceLess, Twofold, s
<1>4. \A q : Going(phase[c], entry[c], NoReply)
               => /\ phase[c] \in {"live", "refreshing"}
                  /\ At(phase[c], entry[c], q, NoReply) = u
  BY DEF Going, At, NoReply
<1>5. GoesLess(c, phase[c], entry[c], t, NoReply)
  <2> HIDE DEF t
  <2> QED BY <1>2, <1>4 DEF GoesLess
<1>6. ClaimLess(c, phase[c], entry[c], t, NoReply)
  <2> HIDE DEF t
  <2>1. ASSUME Owed(phase[c], entry[c], t, NoReply), ~Going(phase[c], entry[c], NoReply)
        PROVE  Owed(phase[c], entry[c], s, NoReply) /\ phase[c] \in {"releasing", "over"}
    BY <1>1, <2>1 DEF Owed
  <2>2. \A q : phase[c] \in {"releasing", "over"} => At(phase[c], entry[c], q, NoReply) = u
    BY DEF At
  <2>3. Going(phase[c], entry[c], NoReply) => Owed(phase[c], entry[c], s, NoReply)
    BY DEF Owed
  <2> HIDE DEF u
  <2> QED BY <1>2, <1>4, <2>1, <2>2, <2>3 DEF ClaimLess
<1> QED BY <1>3, <1>5, <1>6

(* The sums when the counters of two windows change. *)
LEMMA SumsMoved ==
  ASSUME TypeOK, count' \in [0..MaxWindow -> Int],
         NEW x \in 0..MaxWindow, NEW y \in 0..MaxWindow, NEW a \in Int, NEW b \in Int,
         Differ(count, count', 0..MaxWindow, x, y, a, b),
         NEW w \in Windows
  PROVE  /\ Sum(count', w..MaxWindow) = Sum(count, w..MaxWindow)
              + (IF x >= w THEN a ELSE 0) + (IF y >= w THEN b ELSE 0)
         /\ Sum(count', w..MaxWindow) \in Int
<1>1. /\ w..MaxWindow \subseteq 0..MaxWindow /\ IsFiniteSet(w..MaxWindow)
      /\ count \in [0..MaxWindow -> Int] /\ w \in Int
  BY CountSums
<1>2. (x \in w..MaxWindow <=> x >= w) /\ (y \in w..MaxWindow <=> y >= w)
  BY <1>1
<1>3. Sum(count', w..MaxWindow) = Sum(count, w..MaxWindow)
        + (IF x \in w..MaxWindow THEN a ELSE 0) + (IF y \in w..MaxWindow THEN b ELSE 0)
  <2> DEFINE D == 0..MaxWindow
             S == w..MaxWindow
             g == count'
  <2>1. /\ g \in [D -> Int] /\ count \in [D -> Int] /\ S \subseteq D /\ IsFiniteSet(S)
        /\ Differ(count, g, D, x, y, a, b)
    BY <1>1
  <2> HIDE DEF D, S, g
  <2>2. Sum(g, S) = Sum(count, S) + (IF x \in S THEN a ELSE 0) + (IF y \in S THEN b ELSE 0)
    BY <2>1, SumChange, SMTT(60)
  <2> QED BY <2>2 DEF S, g
<1>4. Sum(count', w..MaxWindow) \in Int
  BY <1>1, SumInt
<1> QED BY <1>2, <1>3, <1>4

(* What Redis is asked to do, and what it changes. *)
LEMMA ExecuteFacts ==
  ASSUME TypeOK, AwaitInv, OrderInv, NEW c \in Calls, Execute(c)
  PROVE  LET k == Head(wire[c])
             heard == Awaiting(c) /\ Len(wire[c]) = 1
         IN /\ wire[c] # <<>> /\ reply[c] = NoReply /\ k = wire[c][1]
            /\ wire[c] \in Seq(Commands) /\ Len(wire[c]) \in Nat \ {0}
            /\ k.now \in Windows /\ k.now \in 0..MaxWindow /\ k.origin \in 0..MaxWindow
            /\ k.origin =< k.now /\ k.now =< window
            /\ ~heard => Moves(c, phase[c], entry[c], Tail(wire[c]), NoReply)
            /\ heard => wire' = [wire EXCEPT ![c] = wire[c]] /\ wire[c][Len(wire[c])] = k
            /\ phase' = [phase EXCEPT ![c] = phase[c]] /\ entry' = [entry EXCEPT ![c] = entry[c]]
            /\ window' = window /\ twice' = twice
            /\ \/ k.op = "check" /\ CheckAndIncrement(c, k.now, heard)
               \/ /\ k.op = "refresh" /\ Move(c, k.now, k.origin)
                  /\ reply' = [reply EXCEPT ![c] = IF heard THEN "done" ELSE NoReply]
               \/ /\ k.op = "decr" /\ Take(k.origin) /\ late' = late
                  /\ reply' = [reply EXCEPT ![c] = IF heard THEN "done" ELSE NoReply]
            /\ late \subseteq late'
            /\ count' \in [0..MaxWindow -> Int] /\ \A v \in 0..MaxWindow : count[v] \in Int
<1> DEFINE k == Head(wire[c])
           heard == Awaiting(c) /\ Len(wire[c]) = 1
<1>1. /\ wire[c] # <<>> /\ reply[c] = NoReply /\ k = wire[c][1]
      /\ wire[c] \in Seq(Commands) /\ Len(wire[c]) \in Nat \ {0}
  BY CallFacts, TailFacts DEF Execute
<1>2. /\ k.now \in Windows /\ k.now \in 0..MaxWindow /\ k.origin \in 0..MaxWindow
      /\ k.origin =< k.now /\ k.now =< window
  BY <1>1, OrderHead, CommandFacts
<1>3. /\ \/ k.op = "check" /\ CheckAndIncrement(c, k.now, heard)
         \/ /\ k.op = "refresh" /\ Move(c, k.now, k.origin)
            /\ reply' = [reply EXCEPT ![c] = IF heard THEN "done" ELSE NoReply]
         \/ /\ k.op = "decr" /\ Take(k.origin) /\ late' = late
            /\ reply' = [reply EXCEPT ![c] = IF heard THEN "done" ELSE NoReply]
      /\ wire' = IF heard THEN wire ELSE [wire EXCEPT ![c] = Tail(@)]
      /\ UNCHANGED <<window, phase, entry, twice>>
  BY DEF Execute
<1>4. /\ phase' = [phase EXCEPT ![c] = phase[c]] /\ entry' = [entry EXCEPT ![c] = entry[c]]
      /\ heard => wire' = [wire EXCEPT ![c] = wire[c]] /\ wire[c][Len(wire[c])] = k
      /\ window' = window /\ twice' = twice
  BY <1>1, <1>3 DEF TypeOK
<1>5. late \subseteq late'
  <2>1. CheckAndIncrement(c, k.now, heard) => late \subseteq late'
    BY DEF CheckAndIncrement
  <2>2. Move(c, k.now, k.origin) => late \subseteq late'
    BY DEF Move
  <2> QED BY <1>3, <2>1, <2>2
<1>6. ~heard => reply' = [reply EXCEPT ![c] = NoReply]
  <2>1. ~heard /\ CheckAndIncrement(c, k.now, heard) => reply' = [reply EXCEPT ![c] = NoReply]
    BY DEF CheckAndIncrement
  <2> QED BY <1>3, <2>1
<1>7. ~heard => Moves(c, phase[c], entry[c], Tail(wire[c]), NoReply)
  BY <1>3, <1>4, <1>6 DEF Moves
<1>8. count' \in [0..MaxWindow -> Int] /\ \A v \in 0..MaxWindow : count[v] \in Int
  BY TypeExecute DEF TypeOK
<1> QED BY <1>1, <1>2, <1>3, <1>4, <1>5, <1>7, <1>8

(* The windows a check sums are those from some window on: nothing is      *)
(* counted in a later one.                                                 *)
LEMMA TotalIsSum ==
  ASSUME TypeOK, OrderInv
  PROVE  \E w \in Windows : /\ Total(window) = Sum(count, w..MaxWindow)
                            /\ \A v \in Lookback(window) \cap Windows : v >= w
                            /\ \A v \in Windows : v \in Lookback(window) => v >= w
<1> DEFINE first == window - ActiveWindows + 1
           w == IF first < 1 THEN 1 ELSE first
<1>1. /\ window \in Windows /\ window \in Int /\ ActiveWindows \in Nat \ {0}
      /\ MaxWindow \in Nat \ {0} /\ window >= 1 /\ window =< MaxWindow
  BY CallLimiterAssumption DEF TypeOK, Windows, CallLimiterAssumption
<1>2. w \in Windows /\ w =< window /\ w \in Int
  BY <1>1 DEF Windows
<1>3. Lookback(window) \cap Windows = w..window
  BY <1>1 DEF Lookback, Windows
<1> HIDE DEF w
<1>4. Sum(count, w..MaxWindow) = Sum(count, w..window)
  <2>1. /\ w..MaxWindow \subseteq 0..MaxWindow /\ IsFiniteSet(w..MaxWindow)
        /\ count \in [0..MaxWindow -> Int]
    BY <1>2, CountSums
  <2>2. w..window \subseteq w..MaxWindow
    BY <1>1, <1>2
  <2>3. \A v \in (w..MaxWindow) \ (w..window) : count[v] = 0
    <3>1. \A v \in (w..MaxWindow) \ (w..window) : v \in Windows /\ v > window
      BY <1>1, <1>2 DEF Windows
    <3> QED BY <3>1 DEF OrderInv
  <2> DEFINE D == 0..MaxWindow
             S == w..MaxWindow
             T == w..window
  <2>4. /\ count \in [D -> Int] /\ S \subseteq D /\ IsFiniteSet(S) /\ T \subseteq S
        /\ \A v \in S \ T : count[v] = 0
    BY <2>1, <2>2, <2>3
  <2> HIDE DEF D, S, T
  <2>5. Sum(count, S) = Sum(count, T)
    BY <2>4, SumZeros
  <2> QED BY <2>5 DEF S, T
<1>5. Total(window) = Sum(count, w..window)
  BY <1>3 DEF Total, Sum
<1>6. \A v \in Lookback(window) \cap Windows : v >= w
  BY <1>2, <1>3
<1> QED BY <1>2, <1>4, <1>5, <1>6

(* A command executed for no one who waits: nothing is owed more, and the  *)
(* counters follow what is no longer to come.                              *)
LEMMA OwesUnheard ==
  ASSUME TypeOK, AwaitInv, OrderInv, OweInv, LimitInv, NEW c \in Calls, Execute(c),
         ~(Awaiting(c) /\ Len(wire[c]) = 1)
  PROVE  OweInv' /\ LimitInv'
<1> DEFINE k == Head(wire[c])
           t == Tail(wire[c])
           heard == Awaiting(c) /\ Len(wire[c]) = 1
<1>1. /\ wire[c] # <<>> /\ reply[c] = NoReply /\ k = wire[c][1] /\ wire[c] \in Seq(Commands)
      /\ k.now \in Windows /\ k.now \in 0..MaxWindow /\ k.origin \in 0..MaxWindow
      /\ k.origin =< k.now /\ k.now =< window /\ Len(wire[c]) \in Nat \ {0}
      /\ Moves(c, phase[c], entry[c], t, NoReply) /\ twice' = twice /\ late \subseteq late'
      /\ \/ k.op = "check" /\ CheckAndIncrement(c, k.now, heard)
         \/ k.op = "refresh" /\ Move(c, k.now, k.origin)
         \/ k.op = "decr" /\ Take(k.origin)
      /\ count' \in [0..MaxWindow -> Int] /\ \A v \in 0..MaxWindow : count[v] \in Int
  BY ExecuteFacts
<1>2. /\ ClaimLess(c, phase[c], entry[c], t, NoReply)
      /\ GoesLess(c, phase[c], entry[c], t, NoReply) /\ TwiceLess(c, entry[c], t)
  BY <1>1, TailLess
<1>3. At(phase[c], entry[c], t, NoReply) \in Int
  <2>1. entry[c].originWindow \in Int
    <3>1. \A n \in 0..MaxWindow : n \in Int
      OBVIOUS
    <3> QED BY <3>1, CallFacts
  <2>2. phase[c] = "checking" => t[Len(t)].now \in Int
    <3> SUFFICES ASSUME phase[c] = "checking" PROVE t[Len(t)].now \in Int
      OBVIOUS
    <3>1. Len(wire[c]) > 1
      <4>1. Len(wire[c]) # 1
        BY DEF Awaiting
      <4>2. \A n \in Nat \ {0} : n # 1 => n > 1
        OBVIOUS
      <4> QED BY <1>1, <4>1, <4>2
    <3>2. t \in Seq(Commands) /\ t # <<>>
      BY <1>1, <3>1, TailFacts
    <3>3. t[Len(t)] \in Commands
      BY <3>2, TailFacts
    <3>4. \A n \in Windows : n \in Int
      BY DEF Windows
    <3>5. t[Len(t)].now \in Windows
      BY <3>3 DEF Commands
    <3> QED BY <3>4, <3>5
  <2> HIDE DEF t
  <2> QED BY <2>1, <2>2 DEF At
<1>4. LimitInv'
  <2> HIDE DEF t, k
  <2> QED BY <1>1, <1>2, <1>3, GoesStill
<1>5. CASE k.op = "decr"
  <2>1. /\ count' = [count EXCEPT ![k.origin] = @ - 1]
        /\ k.origin = entry[c].originWindow /\ phase[c] \in {"releasing", "over"}
        /\ 1 >= Len(wire[c]) - 1
    <3>1. InOrder(phase[c], entry[c], wire[c], window) /\ 1 \in 1..Len(wire[c])
      BY <1>1 DEF OrderInv
    <3>2. k.origin = entry[c].originWindow /\ phase[c] \in {"releasing", "over"}
          /\ 1 >= Len(wire[c]) - 1
      BY <1>1, <1>5, <3>1 DEF InOrder
    <3> QED BY <1>1, <1>5, <3>2 DEF Take
  <2> SUFFICES ASSUME NEW w \in Windows
               PROVE  Sum(count', w..MaxWindow) + twice'
                        >= Cardinality(Claims(w)') + Cardinality(Again(w)')
    BY <1>4 DEF OweInv
  <2> DEFINE o == k.origin
             n == Sum(count, w..MaxWindow)
             n1 == Sum(count', w..MaxWindow)
             a == Cardinality(Claims(w))
             b == Cardinality(Again(w))
             a1 == Cardinality(Claims(w)')
             b1 == Cardinality(Again(w)')
  <2>2. n1 = n - (IF o >= w THEN 1 ELSE 0)
    <3> HIDE DEF k
    <3>1. Differ(count, count', 0..MaxWindow, o, o, 0, 0 - 1)
      <4> SUFFICES ASSUME NEW v \in 0..MaxWindow
                   PROVE  count'[v] = count[v] + 0 + (IF v = o THEN 0 - 1 ELSE 0)
        BY DEF Differ
      <4>1. count'[v] = IF v = o THEN count[v] - 1 ELSE count[v]
        BY <2>1 DEF TypeOK
      <4>2. count[v] \in Int
        BY <1>1
      <4> HIDE DEF o
      <4> QED BY <4>1, <4>2
    <3>2. 0 \in Int /\ 0 - 1 \in Int /\ o \in 0..MaxWindow
      BY <1>1
    <3>3. n1 = n + (IF o >= w THEN 0 ELSE 0) + (IF o >= w THEN 0 - 1 ELSE 0)
      <4> HIDE DEF o, t, heard
      <4>1. count' \in [0..MaxWindow -> Int]
        BY <1>1
      <4>2. /\ Sum(count', w..MaxWindow) = Sum(count, w..MaxWindow)
                 + (IF o >= w THEN 0 ELSE 0) + (IF o >= w THEN 0 - 1 ELSE 0)
            /\ Sum(count', w..MaxWindow) \in Int
        BY <3>1, <3>2, <4>1, SumsMoved
      <4> QED BY <4>2
    <3>4. n \in Int
      BY CountSums
    <3> HIDE DEF n, n1, o
    <3> QED BY <3>3, <3>4
  <2>3. /\ a \in Nat /\ a1 \in Nat /\ a1 =< a /\ b \in Nat /\ b1 \in Nat /\ b1 =< b
        /\ c \in Claims(w) /\ c \notin Claims(w)' => a1 =< a - 1
        /\ c \in Again(w) /\ c \notin Again(w)' => b1 =< b - 1
        /\ n \in Int /\ twice \in Nat /\ n + twice >= a + b
    <3> HIDE DEF t, k
    <3> QED BY <1>1, <1>2, <1>3, OweNumbers
  <2>4. \/ ~(o >= w)
        \/ c \in Claims(w) /\ c \notin Claims(w)'
        \/ c \in Again(w) /\ c \notin Again(w)'
    <3> SUFFICES ASSUME o >= w
                 PROVE  \/ c \in Claims(w) /\ c \notin Claims(w)'
                        \/ c \in Again(w) /\ c \notin Again(w)'
      OBVIOUS
    <3>1. CASE Len(wire[c]) = 1
      <4>1. t = <<>>
        BY <1>1, <3>1, TailFacts
      <4>2. wire[c][Len(wire[c])].op = "decr"
        BY <1>1, <1>5, <3>1
      <4>3. c \in Claims(w)
        BY <1>1, <2>1, <4>2 DEF Claims, Owed, At
      <4>4. ~Owed(phase[c], entry[c], t, NoReply)
        BY <2>1, <4>1 DEF Owed, Going
      <4>5. c \notin Claims(w)'
        <5> HIDE DEF t, k
        <5> QED BY <1>1, <4>4, Others
      <4> QED BY <4>3, <4>5
    <3>2. CASE Len(wire[c]) # 1
      <4>1. Len(wire[c]) = 2 /\ Len(wire[c]) - 1 = 1 /\ Len(wire[c]) > 1
        <5>1. \A l \in Nat \ {0} : l # 1 /\ 1 >= l - 1 => l = 2 /\ l - 1 = 1 /\ l > 1
          OBVIOUS
        <5>2. Len(wire[c]) \in Nat \ {0}
          BY <1>1
        <5> QED BY <2>1, <3>2, <5>1, <5>2
      <4>2. c \in Again(w)
        BY <1>1, <1>5, <2>1, <4>1 DEF Again, Twofold
      <4>3. ~(Len(t) > 1)
        BY <1>1, <4>1, TailFacts
      <4>4. c \notin Again(w)'
        <5> HIDE DEF t, k
        <5> QED BY <1>1, <4>3, Others DEF Twofold
      <4> QED BY <4>2, <4>4
    <3> QED BY <3>1, <3>2
  <2>5. twice' = twice
    BY <1>1
  <2> HIDE DEF o, n, n1, a, b, a1, b1
  <2>6. n1 + twice >= a1 + b1
    BY <2>2, <2>3, <2>4
  <2> QED BY <2>5, <2>6 DEF n1, a1, b1
<1>6. CASE k.op # "decr"
  <2>1. ASSUME NEW w \in Windows
        PROVE  /\ Sum(count', w..MaxWindow) \in Int
               /\ Sum(count', w..MaxWindow) >= Sum(count, w..MaxWindow)
    <3>1. Sum(count, w..MaxWindow) \in Int /\ w \in Int
      BY CountSums
    <3> DEFINE m == k.now
               o == k.origin
    <3>2. m \in 0..MaxWindow /\ o \in 0..MaxWindow /\ o =< m /\ count \in [0..MaxWindow -> Int]
      BY <1>1 DEF TypeOK
    <3>3. \/ count' = count
          \/ count' = [count EXCEPT ![m] = @ + 1]
          \/ Move(c, m, o)
      <4> HIDE DEF k, heard
      <4> QED BY <1>1, <1>6 DEF CheckAndIncrement
    <3> HIDE DEF m, o
    <3>4. CASE count' = count
      BY <3>1, <3>4
    <3>5. CASE count' = [count EXCEPT ![m] = @ + 1]
      <4>1. Differ(count, count', 0..MaxWindow, m, m, 1, 0) /\ 1 \in Int /\ 0 \in Int
        BY <3>2, <3>5 DEF Differ
      <4>2. /\ Sum(count', w..MaxWindow) = Sum(count, w..MaxWindow)
                 + (IF m >= w THEN 1 ELSE 0) + (IF m >= w THEN 0 ELSE 0)
            /\ Sum(count', w..MaxWindow) \in Int
        BY <1>1, <3>2, <4>1, SumsMoved
      <4> QED BY <3>1, <4>2
    <3>6. CASE Move(c, m, o)
      <4>1. Differ(count, count', 0..MaxWindow, m, o, 1, 0 - 1)
        BY <3>2, <3>6 DEF Move, Differ
      <4>2. 1 \in Int /\ 0 - 1 \in Int
        OBVIOUS
      <4>3. /\ Sum(count', w..MaxWindow) = Sum(count, w..MaxWindow)
                 + (IF m >= w THEN 1 ELSE 0) + (IF o >= w THEN 0 - 1 ELSE 0)
            /\ Sum(count', w..MaxWindow) \in Int
        BY <1>1, <3>2, <4>1, <4>2, SumsMoved
      <4>4. o >= w => m >= w
        BY <3>1, <3>2
      <4> QED BY <3>1, <4>3, <4>4
    <3> QED BY <3>3, <3>4, <3>5, <3>6
  <2> HIDE DEF t, k
  <2> QED BY <1>1, <1>2, <1>3, <1>4, <2>1, OwesStill
<1> QED BY <1>4, <1>5, <1>6

(* A count that was made names its window. *)
FromOne == \A c \in Calls : entry[c].incrementSucceeded => entry[c].originWindow \in Windows

(* A call's claim and the counters change together. *)
LEMMA OwesCounted ==
  ASSUME TypeOK, AwaitInv, OrderInv, OweInv, NEW c \in Calls,
         NEW p, NEW e, NEW s, NEW r, Moves(c, p, e, s, r), At(p, e, s, r) \in Int,
         twice' = twice, TwiceLess(c, e, s),
         \A w \in Windows :
           LET n == Sum(count, w..MaxWindow)
               n1 == Sum(count', w..MaxWindow)
           IN /\ n1 \in Int
              /\ \/ n1 >= n /\ (c \in Claims(w)' => c \in Claims(w))
                 \/ n1 >= n + 1
                 \/ n1 >= n - 1 /\ c \in Claims(w) /\ c \notin Claims(w)'
  PROVE  OweInv'
<1> SUFFICES ASSUME NEW w \in Windows
             PROVE  Sum(count', w..MaxWindow) + twice'
                      >= Cardinality(Claims(w)') + Cardinality(Again(w)')
  BY DEF OweInv
<1> DEFINE n == Sum(count, w..MaxWindow)
           n1 == Sum(count', w..MaxWindow)
           k == Cardinality(Claims(w))
           m == Cardinality(Again(w))
           k1 == Cardinality(Claims(w)')
           m1 == Cardinality(Again(w)')
<1>1. /\ k1 \in Nat /\ k \in Nat /\ k1 =< k + 1 /\ m1 \in Nat /\ m \in Nat /\ m1 =< m
      /\ (c \in Claims(w)' => c \in Claims(w)) => k1 =< k
      /\ c \in Claims(w) /\ c \notin Claims(w)' => k1 =< k - 1
      /\ n \in Int /\ n + twice >= k + m /\ twice \in Nat
  BY OweNumbers
<1>2. /\ n1 \in Int
      /\ \/ n1 >= n /\ (c \in Claims(w)' => c \in Claims(w))
         \/ n1 >= n + 1
         \/ n1 >= n - 1 /\ c \in Claims(w) /\ c \notin Claims(w)'
  OBVIOUS
<1> HIDE DEF n, n1, k, m, k1, m1
<1>3. n1 + twice >= k1 + m1
  <2>1. \/ n1 >= n /\ k1 =< k
        \/ n1 >= n + 1 /\ k1 =< k + 1
        \/ n1 >= n - 1 /\ k1 =< k - 1
    BY <1>1, <1>2
  <2> QED BY <1>1, <1>2, <2>1
<1> QED BY <1>3 DEF n1, k1, m1

(* The calls that go on and count in the windows a check sums are among    *)
(* those the counters of these windows cover.                              *)
LEMMA RecentCovered ==
  ASSUME TypeOK, AwaitInv, OweInv, FromOne, NEW w \in Windows,
         \A v \in Windows : v \in Lookback(window) => v >= w
  PROVE  Cardinality(Recent \ late) =< Sum(count, w..MaxWindow) + twice
<1>1. Recent \ late \subseteq Claims(w)
  <2> SUFFICES ASSUME NEW c \in Recent PROVE c \in Claims(w)
    OBVIOUS
  <2> DEFINE a == At(phase[c], entry[c], wire[c], reply[c])
  <2>1. c \in Calls /\ Going(phase[c], entry[c], reply[c]) /\ a \in Lookback(window)
    BY DEF Recent
  <2>2. a \in Windows
    <3>1. CASE phase[c] = "checking" \/ (phase[c] = "refreshing" /\ reply[c] # NoReply)
      <4>1. wire[c] # <<>> /\ wire[c] \in Seq(Commands)
        BY <2>1, <3>1, CallFacts DEF Awaiting
      <4>2. wire[c][Len(wire[c])] \in Commands
        BY <4>1, TailFacts
      <4>3. wire[c][Len(wire[c])].now \in Windows
        BY <4>2 DEF Commands
      <4> QED BY <3>1, <4>3 DEF At
    <3>2. CASE ~(phase[c] = "checking" \/ (phase[c] = "refreshing" /\ reply[c] # NoReply))
      <4>1. entry[c].originWindow \in Windows
        BY <2>1, <3>2 DEF Going, FromOne
      <4> QED BY <3>2, <4>1 DEF At
    <3> QED BY <3>1, <3>2
  <2>3. a >= w
    BY <2>1, <2>2
  <2>4. Owed(phase[c], entry[c], wire[c], reply[c])
    BY <2>1 DEF Owed
  <2> QED BY <2>1, <2>3, <2>4 DEF Claims
<1>2. /\ Cardinality(Recent \ late) =< Cardinality(Claims(w))
      /\ Cardinality(Recent \ late) \in Nat /\ Cardinality(Claims(w)) \in Nat
      /\ Cardinality(Again(w)) \in Nat
  BY <1>1, SomeCalls, FS_Subset
<1>3. /\ Sum(count, w..MaxWindow) + twice >= Cardinality(Claims(w)) + Cardinality(Again(w))
      /\ Sum(count, w..MaxWindow) \in Int /\ twice \in Nat
  <2>1. twice \in Nat
    BY DEF TypeOK
  <2> QED BY <2>1, CountSums DEF OweInv
<1> DEFINE q == Cardinality(Recent \ late)
           k == Cardinality(Claims(w))
           m == Cardinality(Again(w))
           n == Sum(count, w..MaxWindow)
<1> HIDE DEF q, k, m, n
<1>4. q =< n + twice
  BY <1>2, <1>3 DEF q, k, m, n
<1> QED BY <1>4 DEF q, n

(* The check of a call whose handler waits. *)
LEMMA OwesCheck ==
  ASSUME TypeOK, AwaitInv, OrderInv, OweInv, LimitInv, FromOne, NEW c \in Calls, Execute(c),
         Awaiting(c), Len(wire[c]) = 1, Head(wire[c]).op = "check"
  PROVE  OweInv' /\ LimitInv'
<1> DEFINE k == Head(wire[c])
           s == wire[c]
           heard == Awaiting(c) /\ Len(wire[c]) = 1
           m == k.now
<1>1. /\ s # <<>> /\ reply[c] = NoReply /\ wire' = [wire EXCEPT ![c] = s]
      /\ s[Len(s)] = k /\ m \in Windows /\ m \in 0..MaxWindow /\ m =< window
      /\ phase' = [phase EXCEPT ![c] = phase[c]] /\ entry' = [entry EXCEPT ![c] = entry[c]]
      /\ window' = window /\ twice' = twice /\ late \subseteq late'
      /\ CheckAndIncrement(c, m, heard)
      /\ count' \in [0..MaxWindow -> Int] /\ \A v \in 0..MaxWindow : count[v] \in Int
  BY ExecuteFacts
<1>2. phase[c] = "checking"
  <2>1. Awaited(c).op = "check"
    BY <1>1 DEF Awaited
  <2> QED BY <2>1, CallFacts
<1>3. \A r : At(phase[c], entry[c], s, r) = m
  BY <1>1, <1>2 DEF At
<1>4. m \in Int /\ window \in Int
  BY <1>1 DEF Windows, TypeOK
<1>5. TwiceLess(c, entry[c], s) /\ ~(Len(s) > 1)
  BY DEF TwiceLess, Twofold
<1>6. CASE Total(m) < Limit
  <2>1. /\ count' = [count EXCEPT ![m] = @ + 1]
        /\ reply' = [reply EXCEPT ![c] = "allowed"]
        /\ late' = IF m # window THEN late \cup {c} ELSE late
    <3> HIDE DEF k, m
    <3> QED BY <1>1, <1>6 DEF CheckAndIncrement
  <2>2. Moves(c, phase[c], entry[c], s, "allowed")
    BY <1>1, <2>1 DEF Moves
  <2>3. At(phase[c], entry[c], s, "allowed") \in Int
    BY <1>3, <1>4
  <2>4. ASSUME NEW w \in Windows
        PROVE  /\ Sum(count', w..MaxWindow) \in Int
               /\ Sum(count', w..MaxWindow) = Sum(count, w..MaxWindow) + (IF m >= w THEN 1 ELSE 0)
               /\ Sum(count, w..MaxWindow) \in Int
               /\ c \in Claims(w)' => m >= w
    <3> HIDE DEF m, k, heard, s
    <3>1. Differ(count, count', 0..MaxWindow, m, m, 1, 0) /\ 1 \in Int /\ 0 \in Int
      <4> SUFFICES ASSUME NEW v \in 0..MaxWindow
                   PROVE  count'[v] = count[v] + (IF v = m THEN 1 ELSE 0) + (IF v = m THEN 0 ELSE 0)
        BY DEF Differ
      <4>1. count'[v] = IF v = m THEN count[v] + 1 ELSE count[v]
        BY <1>1, <2>1 DEF TypeOK
      <4>2. count[v] \in Int
        BY <1>1
      <4> QED BY <4>1, <4>2
    <3>2. /\ Sum(count', w..MaxWindow) = Sum(count, w..MaxWindow)
               + (IF m >= w THEN 1 ELSE 0) + (IF m >= w THEN 0 ELSE 0)
          /\ Sum(count', w..MaxWindow) \in Int
      BY <1>1, <3>1, SumsMoved
    <3>3. Sum(count, w..MaxWindow) \in Int
      BY CountSums
    <3>4. c \in Claims(w)' => m >= w
      BY <1>3, <2>2, Others
    <3> QED BY <3>2, <3>3, <3>4
  <2>5. OweInv'
    <3> HIDE DEF m, k, heard, s
    <3>1. ASSUME NEW w \in Windows
          PROVE  LET n == Sum(count, w..MaxWindow)
                     n1 == Sum(count', w..MaxWindow)
                 IN /\ n1 \in Int
                    /\ \/ n1 >= n /\ (c \in Claims(w)' => c \in Claims(w))
                       \/ n1 >= n + 1
                       \/ n1 >= n - 1 /\ c \in Claims(w) /\ c \notin Claims(w)'
      <4>1. CASE m >= w
        BY <2>4, <4>1
      <4>2. CASE ~(m >= w)
        BY <2>4, <4>2
      <4> QED BY <4>1, <4>2
    <3> QED BY <1>1, <1>5, <2>2, <2>3, <3>1, OwesCounted
  <2>6. CASE m # window
    <3>1. c \in late'
      BY <2>1, <2>6
    <3>2. late \subseteq late' /\ twice' \in {twice, twice + 1}
      BY <1>1
    <3> HIDE DEF m, k, heard, s
    <3>3. LimitInv'
      BY <2>2, <2>3, <3>1, <3>2, GoesStill
    <3> QED BY <2>5, <3>3
  <2>7. CASE m = window
    <3>1. PICK w \in Windows : /\ Total(window) = Sum(count, w..MaxWindow)
                               /\ \A v \in Windows : v \in Lookback(window) => v >= w
      BY TotalIsSum
    <3>2. Cardinality(Recent \ late) =< Sum(count, w..MaxWindow) + twice
      BY <3>1, RecentCovered
    <3>3. Sum(count, w..MaxWindow) < Limit /\ Sum(count, w..MaxWindow) \in Int
      <4> HIDE DEF m
      <4> QED BY <1>6, <2>7, <3>1, CountSums
    <3>4. Recent' \ late' \subseteq (Recent \ late) \cup {c}
      <4>1. Recent' \subseteq Recent \cup {c}
        BY <2>2, Others
      <4> QED BY <1>1, <4>1
    <3>5. /\ Cardinality(Recent' \ late') =< Cardinality(Recent \ late) + 1
          /\ Cardinality(Recent' \ late') \in Nat /\ Cardinality(Recent \ late) \in Nat
      BY <3>4, SomeCalls, Counts
    <3>6. Limit \in Nat /\ twice \in Nat /\ twice' = twice
      BY <1>1, CallLimiterAssumption DEF CallLimiterAssumption, TypeOK
    <3> DEFINE q == Cardinality(Recent \ late)
               q1 == Cardinality(Recent' \ late')
               n == Sum(count, w..MaxWindow)
    <3> HIDE DEF q, q1, n
    <3>7. q1 =< Limit + twice
      BY <3>2, <3>3, <3>5, <3>6 DEF q, q1, n
    <3>8. LimitInv'
      BY <3>6, <3>7 DEF LimitInv, q1
    <3> QED BY <2>5, <3>8
  <2> QED BY <2>6, <2>7
<1>7. CASE ~(Total(m) < Limit)
  <2>1. count' = count /\ reply' = [reply EXCEPT ![c] = "rejected"]
    <3> HIDE DEF k, m
    <3> QED BY <1>1, <1>7 DEF CheckAndIncrement
  <2>2. Moves(c, phase[c], entry[c], s, "rejected")
    BY <1>1, <2>1 DEF Moves
  <2>3. At(phase[c], entry[c], s, "rejected") \in Int
    BY <1>3, <1>4
  <2>4. ~Going(phase[c], entry[c], "rejected") /\ ~Owed(phase[c], entry[c], s, "rejected")
    BY <1>2 DEF Going, Owed
  <2>5. ClaimLess(c, phase[c], entry[c], s, "rejected") /\ GoesLess(c, phase[c], entry[c], s, "rejected")
    BY <2>4 DEF ClaimLess, GoesLess
  <2>6. \A w \in Windows : /\ Sum(count', w..MaxWindow) \in Int
                           /\ Sum(count', w..MaxWindow) >= Sum(count, w..MaxWindow)
    BY <2>1, CountSums
  <2>7. late \subseteq late' /\ twice' \in {twice, twice + 1} /\ twice' = twice
    BY <1>1
  <2> HIDE DEF m, k, heard, s
  <2>8. OweInv'
    BY <1>5, <2>2, <2>3, <2>5, <2>6, <2>7, OwesStill
  <2>9. LimitInv'
    BY <2>2, <2>3, <2>5, <2>7, GoesStill
  <2> QED BY <2>8, <2>9
<1> QED BY <1>6, <1>7

(* A refresh or a decrement whose handler waits: the call's own count      *)
(* moves, or goes.                                                         *)
LEMMA OwesDone ==
  ASSUME TypeOK, AwaitInv, OrderInv, OweInv, LimitInv, NEW c \in Calls, Execute(c),
         Awaiting(c), Len(wire[c]) = 1, Head(wire[c]).op # "check"
  PROVE  OweInv' /\ LimitInv'
<1> DEFINE k == Head(wire[c])
           s == wire[c]
           e == entry[c]
           heard == Awaiting(c) /\ Len(wire[c]) = 1
           m == k.now
           o == k.origin
<1>1. /\ s # <<>> /\ reply[c] = NoReply /\ wire' = [wire EXCEPT ![c] = s]
      /\ s[Len(s)] = k /\ s[1] = k /\ m \in Windows /\ m \in 0..MaxWindow /\ o \in 0..MaxWindow
      /\ o =< m /\ m =< window
      /\ phase' = [phase EXCEPT ![c] = phase[c]] /\ entry' = [entry EXCEPT ![c] = e]
      /\ window' = window /\ twice' = twice /\ late \subseteq late'
      /\ count' \in [0..MaxWindow -> Int] /\ \A v \in 0..MaxWindow : count[v] \in Int
  BY ExecuteFacts
<1>2. \/ k.op = "refresh" /\ Move(c, m, o) /\ reply' = [reply EXCEPT ![c] = "done"]
      \/ k.op = "decr" /\ Take(o) /\ late' = late /\ reply' = [reply EXCEPT ![c] = "done"]
  BY ExecuteFacts
<1>3. /\ k.op = "refresh" => phase[c] = "refreshing" /\ o = e.originWindow
      /\ k.op = "decr" => phase[c] = "releasing" /\ o = e.originWindow
  <2>1. Awaited(c) = k
    BY <1>1 DEF Awaited
  <2>2. /\ phase[c] \in {"checking", "refreshing", "releasing"}
        /\ phase[c] = "checking" => k.op = "check"
        /\ phase[c] = "refreshing" => k.op = "refresh"
        /\ phase[c] = "releasing" => k.op = "decr"
    BY <2>1, CallFacts
  <2>3. InOrder(phase[c], e, s, window) /\ 1 \in 1..Len(s)
    BY DEF OrderInv
  <2>4. phase[c] = "refreshing" => o = e.originWindow
    BY <1>1, <2>3 DEF InOrder
  <2>5. k.op = "decr" => o = e.originWindow
    BY <1>1, <2>3 DEF InOrder
  <2> QED BY <2>2, <2>4, <2>5
<1>4. m \in Int /\ o \in Int
  <2>1. \A n \in 0..MaxWindow : n \in Int
    OBVIOUS
  <2> HIDE DEF m, o
  <2> QED BY <1>1, <2>1
<1>5. TwiceLess(c, e, s)
  BY DEF TwiceLess, Twofold
<1>6. reply' = [reply EXCEPT ![c] = "done"] /\ Moves(c, phase[c], e, s, "done")
  BY <1>1, <1>2 DEF Moves
<1>7. "done" # NoReply /\ "done" # "allowed"
  BY DEF NoReply
<1>8. CASE k.op = "refresh"
  <2>1. Move(c, m, o) /\ phase[c] = "refreshing" /\ o = e.originWindow
    BY <1>2, <1>3, <1>8
  <2>2. /\ At(phase[c], e, s, "done") = m /\ At(phase[c], e, s, NoReply) = o
        /\ At(phase[c], e, s, "done") \in Int
    BY <1>1, <1>4, <1>7, <2>1 DEF At
  <2>3. /\ Going(phase[c], e, "done") <=> Going(phase[c], e, NoReply)
        /\ Owed(phase[c], e, s, "done") <=> Owed(phase[c], e, s, NoReply)
    BY <1>7, <2>1 DEF Going, Owed
  <2>4. OweInv'
    <3> HIDE DEF m, o, k, e, heard, s
    <3>1. Differ(count, count', 0..MaxWindow, m, o, 1, 0 - 1) /\ 1 \in Int /\ 0 - 1 \in Int
      BY <1>1, <2>1 DEF Move, Differ
    <3>2. ASSUME NEW w \in Windows
          PROVE  LET n == Sum(count, w..MaxWindow)
                     n1 == Sum(count', w..MaxWindow)
                 IN /\ n1 \in Int
                    /\ \/ n1 >= n /\ (c \in Claims(w)' => c \in Claims(w))
                       \/ n1 >= n + 1
                       \/ n1 >= n - 1 /\ c \in Claims(w) /\ c \notin Claims(w)'
      <4>1. /\ Sum(count', w..MaxWindow) = Sum(count, w..MaxWindow)
                 + (IF m >= w THEN 1 ELSE 0) + (IF o >= w THEN 0 - 1 ELSE 0)
            /\ Sum(count', w..MaxWindow) \in Int
        BY <1>1, <3>1, SumsMoved
      <4>2. Sum(count, w..MaxWindow) \in Int /\ w \in Int
        BY CountSums
      <4>3. /\ c \in Claims(w)' <=> Owed(phase[c], e, s, "done") /\ m >= w
            /\ c \in Claims(w) <=> Owed(phase[c], e, s, NoReply) /\ o >= w
        <5>1. c \in Claims(w)' <=> Owed(phase[c], e, s, "done") /\ At(phase[c], e, s, "done") >= w
          BY <1>6, Others
        <5>2. c \in Claims(w) <=> Owed(phase[c], e, s, NoReply) /\ At(phase[c], e, s, NoReply) >= w
          BY <1>1 DEF Claims, e, s
        <5> QED BY <2>2, <5>1, <5>2
      <4>4. CASE o >= w
        BY <1>1, <1>4, <2>3, <4>1, <4>2, <4>3, <4>4
      <4>5. CASE ~(o >= w) /\ m >= w
        BY <4>1, <4>2, <4>5
      <4>6. CASE ~(o >= w) /\ ~(m >= w)
        BY <4>1, <4>2, <4>3, <4>6
      <4> QED BY <4>4, <4>5, <4>6
    <3> QED BY <1>1, <1>5, <1>6, <2>2, <3>2, OwesCounted
  <2>5. LimitInv'
    <3>1. \/ ~Going(phase[c], e, "done") \/ c \in Recent \/ c \in late'
      <4>1. CASE o \in Lookback(window)
        <5>1. c \in Recent <=> Going(phase[c], e, NoReply) /\ At(phase[c], e, s, NoReply) \in Lookback(window)
          BY <1>1 DEF Recent
        <5> HIDE DEF m, o, k, e, heard, s
        <5> QED BY <2>2, <2>3, <4>1, <5>1
      <4>2. CASE o \notin Lookback(window)
        BY <2>1, <4>2 DEF Move
      <4> QED BY <4>1, <4>2
    <3>2. GoesLess(c, phase[c], e, s, "done") \/ c \in late' \/ c \in Recent
      BY <3>1 DEF GoesLess
    <3>3. late \subseteq late' /\ twice' \in {twice, twice + 1}
      BY <1>1
    <3> HIDE DEF m, o, k, e, heard, s
    <3> QED BY <1>6, <2>2, <3>2, <3>3, GoesStill
  <2> QED BY <2>4, <2>5
<1>9. CASE k.op = "decr"
  <2>1. count' = [count EXCEPT ![o] = @ - 1] /\ phase[c] = "releasing" /\ o = e.originWindow
    BY <1>2, <1>3, <1>9 DEF Take
  <2>2. /\ At(phase[c], e, s, "done") = o /\ At(phase[c], e, s, NoReply) = o
        /\ At(phase[c], e, s, "done") \in Int
    BY <1>4, <2>1 DEF At
  <2>3. /\ ~Going(phase[c], e, "done") /\ ~Owed(phase[c], e, s, "done")
        /\ Owed(phase[c], e, s, NoReply)
    BY <1>1, <1>7, <1>9, <2>1 DEF Going, Owed
  <2>4. OweInv'
    <3> HIDE DEF m, o, k, e, heard, s
    <3>1. Differ(count, count', 0..MaxWindow, o, o, 0, 0 - 1) /\ 0 \in Int /\ 0 - 1 \in Int
      <4> SUFFICES ASSUME NEW v \in 0..MaxWindow
                   PROVE  count'[v] = count[v] + (IF v = o THEN 0 ELSE 0) + (IF v = o THEN 0 - 1 ELSE 0)
        BY DEF Differ
      <4>1. count'[v] = IF v = o THEN count[v] - 1 ELSE count[v]
        BY <1>1, <2>1 DEF TypeOK
      <4>2. count[v] \in Int
        BY <1>1
      <4> QED BY <4>1, <4>2
    <3>2. ASSUME NEW w \in Windows
          PROVE  LET n == Sum(count, w..MaxWindow)
                     n1 == Sum(count', w..MaxWindow)
                 IN /\ n1 \in Int
                    /\ \/ n1 >= n /\ (c \in Claims(w)' => c \in Claims(w))
                       \/ n1 >= n + 1
                       \/ n1 >= n - 1 /\ c \in Claims(w) /\ c \notin Claims(w)'
      <4>1. /\ Sum(count', w..MaxWindow) = Sum(count, w..MaxWindow)
                 + (IF o >= w THEN 0 ELSE 0) + (IF o >= w THEN 0 - 1 ELSE 0)
            /\ Sum(count', w..MaxWindow) \in Int
        BY <1>1, <3>1, SumsMoved
      <4>2. Sum(count, w..MaxWindow) \in Int
        BY CountSums
      <4>3. c \notin Claims(w)' /\ (c \in Claims(w) <=> o >= w)
        <5>1. c \notin Claims(w)'
          BY <1>6, <2>3, Others
        <5>2. c \in Claims(w) <=> Owed(phase[c], e, s, NoReply) /\ At(phase[c], e, s, NoReply) >= w
          BY <1>1 DEF Claims, e, s
        <5> QED BY <2>2, <2>3, <5>1, <5>2
      <4>4. CASE o >= w
        BY <4>1, <4>2, <4>3, <4>4
      <4>5. CASE ~(o >= w)
        BY <4>1, <4>2, <4>3, <4>5
      <4> QED BY <4>4, <4>5
    <3> QED BY <1>1, <1>5, <1>6, <2>2, <3>2, OwesCounted
  <2>5. LimitInv'
    <3>1. GoesLess(c, phase[c], e, s, "done")
      BY <2>3 DEF GoesLess
    <3>2. late \subseteq late' /\ twice' \in {twice, twice + 1}
      BY <1>1
    <3> HIDE DEF m, o, k, e, heard, s
    <3> QED BY <1>6, <2>2, <3>1, <3>2, GoesStill
  <2> QED BY <2>4, <2>5
<1> QED BY <1>2, <1>8, <1>9

LEMMA FromOneStep == TypeOK /\ AwaitInv /\ FromOne /\ [Next]_vars => FromOne'
<1> SUFFICES ASSUME TypeOK, AwaitInv, FromOne, [Next]_vars PROVE FromOne'
  OBVIOUS
<1>1. CASE UNCHANGED entry
  BY <1>1 DEF FromOne
<1>2. ASSUME NEW c \in Calls, NEW e, entry' = [entry EXCEPT ![c] = e],
             e.incrementSucceeded => e.originWindow \in Windows
      PROVE  FromOne'
  BY <1>2 DEF FromOne, TypeOK
<1>3. ASSUME NEW c \in Calls, Awaiting(c), WithoutAnswer(c) PROVE FromOne'
  <2>1. CASE phase[c] = "checking"
    <3> DEFINE e == [originWindow |-> NoWindow, incrementSucceeded |-> FALSE]
    <3>1. entry' = [entry EXCEPT ![c] = e] /\ ~e.incrementSucceeded
      BY <1>3, <2>1 DEF WithoutAnswer
    <3> HIDE DEF e
    <3> QED BY <1>2, <3>1
  <2>2. CASE phase[c] # "checking"
    BY <1>1, <1>3, <2>2 DEF WithoutAnswer
  <2> QED BY <2>1, <2>2
<1>4. ASSUME NEW c \in Calls, Hear(c) PROVE FromOne'
  <2>1. Awaited(c).now \in Windows
    <3>1. wire[c] \in Seq(Commands) /\ wire[c] # <<>>
      BY <1>4, CallFacts DEF Hear
    <3>2. wire[c][Len(wire[c])] \in Commands
      BY <3>1, TailFacts
    <3> QED BY <3>2 DEF Awaited, Commands
  <2>2. CASE reply[c] = "allowed"
    <3> DEFINE e == [originWindow |-> Awaited(c).now, incrementSucceeded |-> TRUE]
    <3>1. entry' = [entry EXCEPT ![c] = e] /\ e.originWindow \in Windows
      BY <1>4, <2>1, <2>2 DEF Hear
    <3> HIDE DEF e
    <3> QED BY <1>2, <3>1
  <2>3. CASE reply[c] # "allowed" /\ phase[c] = "refreshing"
    <3> DEFINE e == [entry[c] EXCEPT !.originWindow = Awaited(c).now]
    <3>1. entry' = [entry EXCEPT ![c] = e]
      BY <1>4, <2>3 DEF Hear
    <3>2. e.originWindow \in Windows
      <4>1. entry[c] = [originWindow |-> entry[c].originWindow,
                        incrementSucceeded |-> entry[c].incrementSucceeded]
        BY CallFacts
      <4> QED BY <2>1, <4>1
    <3> HIDE DEF e
    <3> QED BY <1>2, <3>1, <3>2
  <2>4. CASE reply[c] # "allowed" /\ phase[c] # "refreshing"
    BY <1>1, <1>4, <2>4 DEF Hear
  <2> QED BY <2>2, <2>3, <2>4
<1>5. CASE Next
  <2>1. CASE Tick
    BY <1>1, <2>1 DEF Tick
  <2>2. ASSUME NEW c \in Calls,
               \/ Admit(c) \/ Migrate(c) \/ Release(c) \/ ReleaseAgain(c) \/ Vanish(c)
               \/ Execute(c) \/ Resend(c) \/ Lose(c)
        PROVE  FromOne'
    BY <1>1, <2>2 DEF Admit, Migrate, Release, ReleaseAgain, Vanish, Execute, Resend, Lose, Send
  <2>3. ASSUME NEW c \in Calls, Timeout(c) \/ Refuse(c) PROVE FromOne'
    BY <1>3, <2>3 DEF Timeout, Refuse
  <2> QED BY <1>4, <1>5, <2>1, <2>2, <2>3 DEF Next
<1>6. CASE UNCHANGED vars
  BY <1>1, <1>6 DEF vars
<1> QED BY <1>5, <1>6

(* The counters stay, and a call moves. *)
LEMMA OwesMoves ==
  ASSUME TypeOK, AwaitInv, OrderInv, OweInv, LimitInv, NEW c \in Calls,
         NEW p, NEW e, NEW s, NEW r, Moves(c, p, e, s, r), At(p, e, s, r) \in Int,
         count' = count, late' = late, GoesLess(c, p, e, s, r),
         \/ twice' = twice /\ ClaimLess(c, p, e, s, r) /\ TwiceLess(c, e, s)
         \/ twice' = twice + 1 /\ (ClaimLess(c, p, e, s, r) \/ TwiceLess(c, e, s))
  PROVE  OweInv' /\ LimitInv'
<1>1. \A w \in Windows : /\ Sum(count', w..MaxWindow) \in Int
                         /\ Sum(count', w..MaxWindow) >= Sum(count, w..MaxWindow)
  BY CountSums
<1>2. late \subseteq late' /\ twice' \in {twice, twice + 1}
  OBVIOUS
<1>3. OweInv'
  BY <1>1, OwesStill
<1>4. LimitInv'
  BY <1>2, GoesStill
<1> QED BY <1>3, <1>4

LEMMA AtInt ==
  ASSUME NEW p, NEW e, e.originWindow \in 0..MaxWindow, NEW s \in Seq(Commands),
         p = "checking" => s # <<>>
  PROVE  At(p, e, s, NoReply) \in Int
<1>1. \A n \in 0..MaxWindow : n \in Int
  OBVIOUS
<1>2. \A n \in Windows : n \in Int
  BY DEF Windows
<1>3. p = "checking" => s[Len(s)].now \in Int
  <2> HAVE p = "checking"
  <2>1. s[Len(s)] \in Commands
    BY TailFacts
  <2> QED BY <1>2, <2>1 DEF Commands
<1> QED BY <1>1, <1>3 DEF At

(* A call that is not over has sent no decrement. *)
LEMMA NoDecrement ==
  ASSUME TypeOK, OrderInv, NEW c \in Calls, phase[c] \notin {"releasing", "over"}
  PROVE  \A s \in {wire[c], Tail(wire[c])} :
           wire[c] # <<>> \/ s = wire[c] =>
           /\ s \in Seq(Commands) /\ ~Twofold(s) /\ (s # <<>> => s[Len(s)].op # "decr")
           /\ \A k \in Commands : ~Twofold(Append(s, k))
<1> DEFINE Plain(s) == s \in Seq(Commands) /\ \A i \in 1..Len(s) : s[i].op # "decr"
<1>1. Plain(wire[c])
  BY DEF TypeOK, OrderInv, InOrder
<1>2. wire[c] # <<>> => Plain(Tail(wire[c]))
  <2> SUFFICES ASSUME wire[c] # <<>> PROVE Plain(Tail(wire[c]))
    OBVIOUS
  <2> DEFINE w == wire[c]
             t == Tail(w)
  <2>1. /\ t \in Seq(Commands) /\ Len(w) \in Nat \ {0} /\ Len(t) = Len(w) - 1
    BY <1>1, TailFacts
  <2>2. \A i \in 1..Len(t) : t[i] = w[i + 1] /\ i + 1 \in 1..Len(w)
    BY <1>1, <2>1
  <2> HIDE DEF w, t
  <2> QED BY <1>1, <2>1, <2>2 DEF w, t
<1>3. ASSUME NEW s, Plain(s)
      PROVE  /\ s \in Seq(Commands) /\ ~Twofold(s) /\ (s # <<>> => s[Len(s)].op # "decr")
             /\ \A k \in Commands : ~Twofold(Append(s, k))
  <2>1. s \in Seq(Commands) /\ Len(s) \in Nat /\ (s # <<>> => Len(s) \in 1..Len(s))
    BY <1>3
  <2>2. ~Twofold(s)
    <3>1. Len(s) > 1 => Len(s) - 1 \in 1..Len(s)
      BY <2>1
    <3> QED BY <1>3, <3>1 DEF Twofold
  <2>3. ASSUME NEW k \in Commands PROVE ~Twofold(Append(s, k))
    <3> DEFINE t == Append(s, k)
    <3>1. Len(t) = Len(s) + 1 /\ \A i \in 1..Len(s) : t[i] = s[i]
      BY <2>1
    <3> HIDE DEF t
    <3>2. Len(t) > 1 => Len(t) - 1 = Len(s) /\ Len(s) \in 1..Len(s)
      BY <2>1, <3>1
    <3>3. ~Twofold(t)
      BY <1>3, <3>1, <3>2 DEF Twofold
    <3> QED BY <3>3 DEF t
  <2> QED BY <1>3, <2>1, <2>2, <2>3
<1> HIDE DEF Plain
<1> QED BY <1>1, <1>2, <1>3

(* Every step leaves the counters above what is owed, and the calls that   *)
(* go on within the limit.                                                 *)
LEMMA OwesStep ==
  TypeOK /\ AwaitInv /\ OrderInv /\ FromOne /\ OweInv /\ LimitInv /\ [Next]_vars
    => OweInv' /\ LimitInv'
<1> SUFFICES ASSUME TypeOK, AwaitInv, OrderInv, FromOne, OweInv, LimitInv, [Next]_vars
             PROVE  OweInv' /\ LimitInv'
  OBVIOUS
<1>1. CASE UNCHANGED vars
  <2>1. Recent' = Recent /\ \A w : Claims(w)' = Claims(w) /\ Again(w)' = Again(w)
    BY <1>1 DEF vars, Recent, Claims, Again, Lookback
  <2> QED BY <1>1, <2>1 DEF vars, OweInv, LimitInv
<1>2. CASE Tick
  <2>1. window' = window + 1 /\ UNCHANGED <<count, phase, entry, wire, reply, twice, late>>
    BY <1>2 DEF Tick
  <2>2. \A w : Claims(w)' = Claims(w) /\ Again(w)' = Again(w)
    BY <2>1 DEF Claims, Again
  <2>3. OweInv'
    BY <2>1, <2>2 DEF OweInv
  <2>4. Recent' \subseteq Recent
    <3> SUFFICES ASSUME NEW c \in Recent' PROVE c \in Recent
      OBVIOUS
    <3> DEFINE a == At(phase[c], entry[c], wire[c], reply[c])
    <3>1. c \in Calls /\ Going(phase[c], entry[c], reply[c]) /\ a \in Lookback(window + 1)
      BY <2>1 DEF Recent, Lookback
    <3>2. a \in 0..MaxWindow /\ a =< window
      BY <3>1, AtFacts
    <3>3. window \in Int /\ ActiveWindows \in Int
      BY CallLimiterAssumption DEF TypeOK, Windows, CallLimiterAssumption
    <3>4. a \in Lookback(window)
      <4> HIDE DEF a
      <4> QED BY <3>1, <3>2, <3>3 DEF Lookback
    <3> QED BY <3>1, <3>4 DEF Recent
  <2>5. /\ Cardinality(Recent' \ late') =< Cardinality(Recent \ late)
        /\ Cardinality(Recent' \ late') \in Nat /\ Cardinality(Recent \ late) \in Nat
    <3>1. Recent' \ late' \in SUBSET (Recent \ late)
      BY <2>1, <2>4
    <3> QED BY <3>1, SomeCalls, FS_Subset, FS_CardinalityType
  <2>6. Limit \in Nat /\ twice \in Nat /\ twice' = twice
    BY <2>1, CallLimiterAssumption DEF CallLimiterAssumption, TypeOK
  <2>7. Cardinality(Recent' \ late') =< Limit + twice'
    BY <2>5, <2>6 DEF LimitInv
  <2> QED BY <2>3, <2>7 DEF LimitInv
<1> SUFFICES ASSUME NEW c \in Calls,
                    \/ Admit(c) \/ Migrate(c) \/ Release(c) \/ ReleaseAgain(c) \/ Vanish(c)
                    \/ Hear(c) \/ Timeout(c) \/ Refuse(c)
                    \/ Execute(c) \/ Resend(c) \/ Lose(c)
             PROVE  OweInv' /\ LimitInv'
  BY <1>1, <1>2 DEF Next
<1> DEFINE E == entry[c]
           S == wire[c]
           R == reply[c]
           T == Tail(S)
<1>3. /\ E \in Entries /\ S \in Seq(Commands) /\ E.originWindow \in 0..MaxWindow
      /\ E.originWindow \in Int /\ phase[c] \in Phases
      /\ phase[c] \in {"checking", "refreshing", "releasing"} <=> Awaiting(c)
      /\ R # NoReply => Awaiting(c) /\ Len(S) = 1
      /\ Awaiting(c) => S # <<>>
      /\ R \in {"allowed", "rejected"} <=> R # NoReply /\ phase[c] = "checking"
      /\ phase[c] = "releasing" => S[Len(S)].op = "decr"
      /\ NoReply \notin {"allowed", "rejected", "done"}
  <2>1. \A n \in 0..MaxWindow : n \in Int
    OBVIOUS
  <2> QED BY <2>1, CallFacts DEF Awaited
<1>4. /\ S # <<>> => T \in Seq(Commands) /\ S[Len(S)] \in Commands
      /\ S # <<>> /\ Len(S) = 1 => T = <<>> /\ ~Twofold(S) /\ Head(S) = S[Len(S)]
      /\ ~Twofold(<<>>) /\ <<>> \in Seq(Commands)
  BY <1>3, TailFacts DEF Twofold
<1>5. InOrder(phase[c], E, S, window)
  BY DEF OrderInv
<1>6. /\ Check \in Commands /\ Refresh(E.originWindow) \in Commands
      /\ Decrement(E.originWindow) \in Commands
      /\ Check.now \in Int /\ Decrement(E.originWindow).op = "decr"
  <2>1. Check.now \in Int /\ Decrement(E.originWindow).op = "decr"
    BY DEF Check, Decrement, TypeOK, Windows
  <2> QED BY <1>3, <2>1, CommandFacts
<1>7. ASSUME phase[c] \notin {"releasing", "over"}
      PROVE  /\ \A k \in Commands : ~Twofold(Append(S, k))
             /\ ~Twofold(S) /\ (S # <<>> => S[Len(S)].op # "decr")
             /\ S # <<>> => ~Twofold(T) /\ (T # <<>> => T[Len(T)].op # "decr")
  BY <1>7, NoDecrement
<1>8. \A k \in Commands : /\ Append(S, k) # <<>> /\ Append(S, k)[Len(Append(S, k))] = k
                          /\ Append(S, k) \in Seq(Commands)
  BY <1>3, AppendFacts
<1>9. \A p, s : At(p, E, s, NoReply) = IF p = "checking" THEN s[Len(s)].now ELSE E.originWindow
  BY DEF At
<1>10. CASE Admit(c)
  <2> DEFINE s == Append(S, Check)
  <2>1. phase[c] = "new" /\ R = NoReply
    BY <1>3, <1>10 DEF Admit
  <2>2. /\ Moves(c, "checking", E, s, NoReply)
        /\ count' = count /\ late' = late /\ twice' = twice
    BY <1>10, <2>1 DEF Admit, Send, Moves, TypeOK
  <2>3. ~Twofold(s) /\ At("checking", E, s, NoReply) \in Int
    BY <1>6, <1>7, <1>8, <2>1 DEF At
  <2>4. ~Going("checking", E, NoReply) /\ ~Owed("checking", E, s, NoReply)
    BY <1>3 DEF Going, Owed
  <2>5. /\ ClaimLess(c, "checking", E, s, NoReply) /\ GoesLess(c, "checking", E, s, NoReply)
        /\ TwiceLess(c, E, s)
    BY <2>3, <2>4 DEF ClaimLess, GoesLess, TwiceLess
  <2> HIDE DEF s, E, S, R, T
  <2> QED BY <2>2, <2>3, <2>5, OwesMoves
<1>11. CASE Migrate(c)
  <2> DEFINE k == Refresh(E.originWindow)
             s == Append(S, k)
  <2>1. phase[c] = "live" /\ R = NoReply
    BY <1>3, <1>11 DEF Migrate
  <2>2. /\ Moves(c, "refreshing", E, s, NoReply)
        /\ count' = count /\ late' = late /\ twice' = twice
    BY <1>11, <2>1 DEF Migrate, Send, Moves, TypeOK
  <2>3. ~Twofold(s) /\ At("refreshing", E, s, NoReply) \in Int
    BY <1>3, <1>6, <1>7, <1>9, <2>1
  <2>4. /\ Going("refreshing", E, NoReply) => Going(phase[c], E, R)
        /\ Owed("refreshing", E, s, NoReply) => Owed(phase[c], E, S, R)
        /\ At("refreshing", E, s, NoReply) =< At(phase[c], E, S, R)
    BY <1>3, <1>9, <2>1 DEF Going, Owed
  <2>5. /\ ClaimLess(c, "refreshing", E, s, NoReply) /\ GoesLess(c, "refreshing", E, s, NoReply)
        /\ TwiceLess(c, E, s)
    BY <2>3, <2>4 DEF ClaimLess, GoesLess, TwiceLess
  <2> HIDE DEF s, k, E, S, R, T
  <2> QED BY <2>2, <2>3, <2>5, OwesMoves
<1>12. CASE Release(c)
  <2>1. phase[c] = "live" /\ R = NoReply
    BY <1>3, <1>12 DEF Release
  <2>2. CASE E.incrementSucceeded
    <3> DEFINE k == Decrement(E.originWindow)
               s == Append(S, k)
    <3>1. /\ Moves(c, "releasing", E, s, NoReply)
          /\ count' = count /\ late' = late /\ twice' = twice
      BY <1>12, <2>1, <2>2 DEF Release, Send, Moves, TypeOK
    <3>2. ~Twofold(s) /\ At("releasing", E, s, NoReply) \in Int
      BY <1>3, <1>6, <1>7, <1>9, <2>1
    <3>3. /\ ~Going("releasing", E, NoReply)
          /\ Owed(phase[c], E, S, R)
          /\ At("releasing", E, s, NoReply) =< At(phase[c], E, S, R)
      BY <1>3, <1>9, <2>1, <2>2 DEF Going, Owed
    <3>4. /\ ClaimLess(c, "releasing", E, s, NoReply) /\ GoesLess(c, "releasing", E, s, NoReply)
          /\ TwiceLess(c, E, s)
      BY <3>2, <3>3 DEF ClaimLess, GoesLess, TwiceLess
    <3> HIDE DEF s, k, E, S, R, T
    <3> QED BY <3>1, <3>2, <3>4, OwesMoves
  <2>3. CASE ~E.incrementSucceeded
    <3>1. /\ Moves(c, "over", E, S, NoReply)
          /\ count' = count /\ late' = late /\ twice' = twice
      BY <1>12, <2>1, <2>3 DEF Release, Moves, TypeOK
    <3>2. ~Twofold(S) /\ At("over", E, S, NoReply) \in Int
      BY <1>3, <1>7, <1>9, <2>1
    <3>3. ~Going("over", E, NoReply) /\ ~Owed("over", E, S, NoReply)
      BY <1>7, <2>1 DEF Going, Owed
    <3>4. /\ ClaimLess(c, "over", E, S, NoReply) /\ GoesLess(c, "over", E, S, NoReply)
          /\ TwiceLess(c, E, S)
      BY <3>2, <3>3 DEF ClaimLess, GoesLess, TwiceLess
    <3> HIDE DEF E, S, R, T
    <3> QED BY <3>1, <3>2, <3>4, OwesMoves
  <2> QED BY <2>2, <2>3
<1>13. CASE ReleaseAgain(c)
  <2> DEFINE k == Decrement(E.originWindow)
             s == Append(S, k)
  <2>1. phase[c] = "releasing" /\ R = NoReply
    BY <1>13 DEF ReleaseAgain
  <2>2. /\ Moves(c, "releasing", E, s, NoReply)
        /\ count' = count /\ late' = late /\ twice' = twice + 1
    BY <1>13, <2>1 DEF ReleaseAgain, Moves, TypeOK
  <2>3. At("releasing", E, s, NoReply) \in Int
    BY <1>3, <1>9
  <2>4. /\ ~Going("releasing", E, NoReply) /\ Owed(phase[c], E, S, R)
        /\ At("releasing", E, s, NoReply) =< At(phase[c], E, S, R)
    BY <1>3, <1>9, <2>1 DEF Going, Owed
  <2>5. ClaimLess(c, "releasing", E, s, NoReply) /\ GoesLess(c, "releasing", E, s, NoReply)
    BY <2>4 DEF ClaimLess, GoesLess
  <2> HIDE DEF s, k, E, S, R, T
  <2> QED BY <2>2, <2>3, <2>5, OwesMoves
<1>14. CASE Vanish(c)
  <2>1. PICK s \in {S, IF R = NoReply THEN S ELSE T} : wire' = [wire EXCEPT ![c] = s]
    BY <1>14 DEF Vanish
  <2>2. phase[c] \notin {"releasing", "over"} /\ (R # NoReply => S # <<>>)
    BY <1>3, <1>14 DEF Vanish
  <2>3. ~Twofold(s) /\ (s # <<>> => s[Len(s)].op # "decr")
    BY <1>7, <2>1, <2>2
  <2>4. /\ Moves(c, "over", E, s, NoReply)
        /\ count' = count /\ late' = late /\ twice' = twice
    BY <1>14, <2>1 DEF Vanish, Moves, TypeOK
  <2>5. At("over", E, s, NoReply) \in Int
    BY <1>3, <1>9
  <2>6. ~Going("over", E, NoReply) /\ ~Owed("over", E, s, NoReply)
    BY <2>3 DEF Going, Owed
  <2>7. /\ ClaimLess(c, "over", E, s, NoReply) /\ GoesLess(c, "over", E, s, NoReply)
        /\ TwiceLess(c, E, s)
    BY <2>3, <2>6 DEF ClaimLess, GoesLess, TwiceLess
  <2> HIDE DEF E, S, R, T
  <2> QED BY <2>4, <2>5, <2>7, OwesMoves
<1>15. CASE Execute(c)
  <2>1. CASE ~(Awaiting(c) /\ Len(wire[c]) = 1)
    BY <1>15, <2>1, OwesUnheard
  <2>2. CASE Awaiting(c) /\ Len(wire[c]) = 1 /\ Head(wire[c]).op = "check"
    BY <1>15, <2>2, OwesCheck
  <2>3. CASE Awaiting(c) /\ Len(wire[c]) = 1 /\ Head(wire[c]).op # "check"
    BY <1>15, <2>3, OwesDone
  <2> QED BY <2>1, <2>2, <2>3
<1>16. CASE Lose(c)
  <2>1. S # <<>> /\ R = NoReply
    <3>1. Awaiting(c) => Len(S) # 1
      <4>1. Awaiting(c) => Len(S) > 1
        BY <1>16 DEF Lose
      <4>2. Len(S) \in Nat
        BY <1>3
      <4> HIDE DEF S
      <4>3. \A n \in Nat : n > 1 => n # 1
        OBVIOUS
      <4> QED BY <4>1, <4>2, <4>3
    <3> QED BY <1>3, <1>16, <3>1 DEF Lose
  <2>2. /\ Moves(c, phase[c], E, T, NoReply)
        /\ count' = count /\ late' = late /\ twice' = twice
    BY <1>16, <2>1 DEF Lose, Moves, TypeOK
  <2>3. phase[c] = "checking" => T # <<>>
    <3>1. phase[c] = "checking" => Len(S) > 1
      BY <1>16 DEF Lose, Awaiting
    <3> QED BY <1>3, <2>1, <3>1, TailFacts
  <2>4. T \in Seq(Commands) /\ E.originWindow \in 0..MaxWindow
    BY <1>3, <1>4, <2>1
  <2>5. /\ ClaimLess(c, phase[c], E, T, NoReply) /\ GoesLess(c, phase[c], E, T, NoReply)
        /\ TwiceLess(c, E, T)
    BY <2>1, TailLess
  <2> HIDE DEF E, S, R, T
  <2>6. At(phase[c], E, T, NoReply) \in Int
    BY <2>3, <2>4, AtInt
  <2> QED BY <2>2, <2>5, <2>6, OwesMoves
<1>17. CASE Resend(c)
  <2>1. R # NoReply /\ Awaiting(c) /\ Len(S) = 1 /\ S # <<>>
    BY <1>3, <1>17 DEF Resend
  <2>2. /\ Moves(c, phase[c], E, S, NoReply) /\ count' = count /\ late' = late
        /\ twice' = IF Head(S).op = "decr" THEN twice + 1 ELSE twice
    BY <1>17 DEF Resend, Moves, TypeOK
  <2>3. TwiceLess(c, E, S)
    BY DEF TwiceLess
  <2>4. At(phase[c], E, S, NoReply) \in Int
    <3> HIDE DEF E, S, R, T
    <3> QED BY <1>3, <2>1, AtInt
  <2>5. /\ Going(phase[c], E, NoReply) => Going(phase[c], E, R) /\ phase[c] \in {"live", "refreshing"}
        /\ phase[c] = "refreshing" => At(phase[c], E, S, NoReply) =< At(phase[c], E, S, R)
    <3>1. Going(phase[c], E, NoReply) => Going(phase[c], E, R) /\ phase[c] \in {"live", "refreshing"}
      BY <1>3 DEF Going
    <3>2. ASSUME phase[c] = "refreshing"
          PROVE  At(phase[c], E, S, NoReply) =< At(phase[c], E, S, R)
      <4>1. S[Len(S)].origin = E.originWindow /\ S[Len(S)].origin =< S[Len(S)].now
        <5>1. Len(S) \in 1..Len(S)
          BY <2>1
        <5> QED BY <1>5, <3>2, <5>1 DEF InOrder
      <4> QED BY <1>9, <2>1, <3>2, <4>1 DEF At
    <3> QED BY <3>1, <3>2
  <2>6. GoesLess(c, phase[c], E, S, NoReply)
    BY <1>3, <2>1, <2>5 DEF GoesLess
  <2>7. CASE phase[c] = "releasing"
    <3>1. twice' = twice + 1
      BY <1>3, <1>4, <2>1, <2>2, <2>7
    <3> HIDE DEF E, S, R, T
    <3> QED BY <2>2, <2>3, <2>4, <2>6, <3>1, OwesMoves
  <2>8. CASE phase[c] # "releasing"
    <3>1. twice' = twice
      BY <1>3, <1>4, <1>7, <2>1, <2>2, <2>8
    <3>2. ClaimLess(c, phase[c], E, S, NoReply)
      BY <1>3, <2>1, <2>5, <2>8 DEF ClaimLess, Owed
    <3> HIDE DEF E, S, R, T
    <3> QED BY <2>2, <2>3, <2>4, <2>6, <3>1, <3>2, OwesMoves
  <2> QED BY <2>7, <2>8
<1>18. ASSUME phase[c] \in {"checking", "refreshing"}, NEW d, d.originWindow \in 0..MaxWindow,
              NEW s \in {S, T, <<>>}, Moves(c, "live", d, s, NoReply),
              d.incrementSucceeded => /\ Going(phase[c], E, R)
                                      /\ d.originWindow =< At(phase[c], E, S, R),
              count' = count, late' = late, twice' \in {twice, twice + 1}
       PROVE  OweInv' /\ LimitInv'
  <2>1. S # <<>> /\ ~Twofold(s)
    BY <1>3, <1>4, <1>7, <1>18
  <2>2. At("live", d, s, NoReply) = d.originWindow
    BY DEF At
  <2>3. At("live", d, s, NoReply) \in Int
    <3>1. \A n \in 0..MaxWindow : n \in Int
      OBVIOUS
    <3> QED BY <1>18, <2>2, <3>1
  <2>4. /\ Going("live", d, NoReply) => d.incrementSucceeded
        /\ Owed("live", d, s, NoReply) => d.incrementSucceeded
        /\ Going(phase[c], E, R) => Owed(phase[c], E, S, R)
    BY DEF Going, Owed
  <2>5. /\ ClaimLess(c, "live", d, s, NoReply) /\ GoesLess(c, "live", d, s, NoReply)
        /\ TwiceLess(c, d, s)
    BY <1>18, <2>1, <2>2, <2>4 DEF ClaimLess, GoesLess, TwiceLess
  <2> HIDE DEF E, S, R, T
  <2> QED BY <1>18, <2>3, <2>5, OwesMoves
<1>19. ASSUME Moves(c, "over", E, <<>>, NoReply),
              count' = count, late' = late, twice' = twice
       PROVE  OweInv' /\ LimitInv'
  <2> DEFINE w0 == <<>>
  <2>1. At("over", E, w0, NoReply) \in Int /\ ~Twofold(w0) /\ Moves(c, "over", E, w0, NoReply)
    BY <1>3, <1>4, <1>9, <1>19
  <2>2. ~Going("over", E, NoReply) /\ ~Owed("over", E, w0, NoReply)
    BY DEF Going, Owed
  <2>3. /\ ClaimLess(c, "over", E, w0, NoReply) /\ GoesLess(c, "over", E, w0, NoReply)
        /\ TwiceLess(c, E, w0)
    BY <2>1, <2>2 DEF ClaimLess, GoesLess, TwiceLess
  <2> HIDE DEF w0, E, S, R, T
  <2> QED BY <1>19, <2>1, <2>3, OwesMoves
<1>20. /\ Going(phase[c], E, R) <=> \/ phase[c] = "checking" /\ R = "allowed"
                                    \/ phase[c] \in {"live", "refreshing"} /\ E.incrementSucceeded
       /\ phase[c] = "checking" \/ (phase[c] = "refreshing" /\ R # NoReply)
            => At(phase[c], E, S, R) = Awaited(c).now
       /\ phase[c] = "refreshing" => E.originWindow =< At(phase[c], E, S, R)
       /\ Awaiting(c) => Awaited(c).now \in 0..MaxWindow /\ Awaited(c).now \in Int
  <2>1. Going(phase[c], E, R) <=> \/ phase[c] = "checking" /\ R = "allowed"
                                  \/ phase[c] \in {"live", "refreshing"} /\ E.incrementSucceeded
    BY DEF Going
  <2>2. phase[c] = "checking" \/ (phase[c] = "refreshing" /\ R # NoReply)
          => At(phase[c], E, S, R) = Awaited(c).now
    BY DEF At, Awaited
  <2>3. Awaiting(c) => Awaited(c).now \in 0..MaxWindow /\ Awaited(c).now \in Int
    <3>1. \A n \in Windows : n \in 0..MaxWindow /\ n \in Int
      BY CommandFacts DEF Windows
    <3> QED BY <1>3, <1>4, <3>1 DEF Awaited, Commands
  <2>4. phase[c] = "refreshing" => E.originWindow =< At(phase[c], E, S, R)
    <3> SUFFICES ASSUME phase[c] = "refreshing" PROVE E.originWindow =< At(phase[c], E, S, R)
      OBVIOUS
    <3>1. CASE R = NoReply
      BY <1>3, <1>9, <3>1
    <3>2. CASE R # NoReply
      <4>1. Len(S) \in 1..Len(S)
        BY <1>3, <3>2
      <4>2. S[Len(S)].origin = E.originWindow /\ S[Len(S)].origin =< S[Len(S)].now
        BY <1>5, <4>1 DEF InOrder
      <4> QED BY <2>2, <3>2, <4>2 DEF Awaited
    <3> QED BY <3>1, <3>2
  <2> QED BY <2>1, <2>2, <2>3, <2>4
<1>21. CASE Hear(c)
  <2>1. R # NoReply /\ Awaiting(c) /\ Len(S) = 1 /\ S # <<>> /\ T = <<>>
    BY <1>3, <1>4, <1>21 DEF Hear
  <2>2. wire' = [wire EXCEPT ![c] = T] /\ reply' = [reply EXCEPT ![c] = NoReply]
        /\ window' = window /\ count' = count /\ late' = late /\ twice' = twice
        /\ phase' = [phase EXCEPT ![c] =
                       IF @ = "releasing" \/ reply[c] = "rejected" THEN "over" ELSE "live"]
    BY <1>21 DEF Hear
  <2>3. CASE R = "allowed"
    <3> DEFINE d == [originWindow |-> Awaited(c).now, incrementSucceeded |-> TRUE]
    <3>1. phase[c] = "checking"
      BY <1>3, <2>3
    <3>2. entry' = [entry EXCEPT ![c] = d]
      BY <1>21, <2>3 DEF Hear
    <3>3. phase' = [phase EXCEPT ![c] = "live"]
      BY <2>2, <2>3, <3>1
    <3>4. d.originWindow = Awaited(c).now
      OBVIOUS
    <3> HIDE DEF d
    <3>5. Moves(c, "live", d, T, NoReply)
      BY <2>2, <3>2, <3>3 DEF Moves
    <3>6. d.originWindow =< At(phase[c], E, S, R) /\ d.originWindow \in 0..MaxWindow
          /\ Going(phase[c], E, R)
      BY <1>20, <2>1, <2>3, <3>1, <3>4
    <3> HIDE DEF E, S, R, T
    <3> QED BY <1>18, <2>2, <3>1, <3>5, <3>6
  <2>4. CASE R # "allowed" /\ phase[c] = "refreshing"
    <3> DEFINE d == [E EXCEPT !.originWindow = Awaited(c).now]
    <3>1. entry' = [entry EXCEPT ![c] = d]
      BY <1>21, <2>4 DEF Hear
    <3>2. phase' = [phase EXCEPT ![c] = "live"]
      BY <1>3, <2>1, <2>2, <2>4
    <3>3. d.originWindow = Awaited(c).now /\ d.incrementSucceeded = E.incrementSucceeded
      <4>1. E = [originWindow |-> E.originWindow, incrementSucceeded |-> E.incrementSucceeded]
        BY CallFacts
      <4> QED BY <4>1
    <3> HIDE DEF d
    <3>4. Moves(c, "live", d, T, NoReply)
      BY <2>2, <3>1, <3>2 DEF Moves
    <3>5. /\ d.originWindow =< At(phase[c], E, S, R) /\ d.originWindow \in 0..MaxWindow
          /\ d.incrementSucceeded => Going(phase[c], E, R)
      BY <1>20, <2>1, <2>4, <3>3
    <3> HIDE DEF E, S, R, T
    <3> QED BY <1>18, <2>2, <2>4, <3>4, <3>5
  <2>5. CASE R # "allowed" /\ phase[c] # "refreshing"
    <3>1. entry' = [entry EXCEPT ![c] = E]
      BY <1>21, <2>5 DEF Hear, TypeOK
    <3>2. phase[c] = "releasing" \/ R = "rejected"
      <4>1. phase[c] = "checking" => R \in {"allowed", "rejected"}
        BY <1>3, <2>1
      <4> QED BY <1>3, <2>1, <2>5, <4>1
    <3>3. phase' = [phase EXCEPT ![c] = "over"]
      BY <2>2, <3>2
    <3>4. Moves(c, "over", E, <<>>, NoReply)
      BY <2>1, <2>2, <3>1, <3>3 DEF Moves
    <3> HIDE DEF E, S, R, T
    <3> QED BY <1>19, <2>2, <3>4
  <2> QED BY <2>3, <2>4, <2>5
<1>22. ASSUME Awaiting(c), WithoutAnswer(c), phase[c] # "releasing"
       PROVE  \E d : /\ phase' = [phase EXCEPT ![c] = "live"] /\ entry' = [entry EXCEPT ![c] = d]
                     /\ d.originWindow \in 0..MaxWindow
                     /\ d.incrementSucceeded => /\ Going(phase[c], E, R)
                                                /\ d.originWindow =< At(phase[c], E, S, R)
  <2>1. CASE phase[c] = "checking"
    <3> DEFINE d == [originWindow |-> NoWindow, incrementSucceeded |-> FALSE]
    <3>1. phase' = [phase EXCEPT ![c] = "live"] /\ entry' = [entry EXCEPT ![c] = d]
      BY <1>22, <2>1 DEF WithoutAnswer
    <3>2. d.originWindow \in 0..MaxWindow /\ ~d.incrementSucceeded
      BY CommandFacts DEF NoWindow
    <3> HIDE DEF d
    <3> QED BY <3>1, <3>2
  <2>2. CASE phase[c] # "checking"
    <3>1. phase[c] = "refreshing"
      BY <1>3, <1>22, <2>2
    <3>2. phase' = [phase EXCEPT ![c] = "live"] /\ entry' = [entry EXCEPT ![c] = E]
      BY <1>22, <2>2 DEF WithoutAnswer, TypeOK
    <3> QED BY <1>3, <1>20, <3>1, <3>2
  <2> QED BY <2>1, <2>2
<1>23. ASSUME WithoutAnswer(c), phase[c] = "releasing"
       PROVE  phase' = [phase EXCEPT ![c] = "over"] /\ entry' = [entry EXCEPT ![c] = E]
  BY <1>23 DEF WithoutAnswer, TypeOK
<1>24. CASE Timeout(c)
  <2>1. PICK s \in {S, IF R = NoReply THEN S ELSE T} :
          /\ wire' = [wire EXCEPT ![c] = s]
          /\ twice' = IF R # NoReply /\ s # <<>> /\ Head(s).op = "decr"
                      THEN twice + 1 ELSE twice
    BY <1>24 DEF Timeout
  <2>2. /\ Awaiting(c) /\ WithoutAnswer(c) /\ reply' = [reply EXCEPT ![c] = NoReply]
        /\ window' = window /\ count' = count /\ late' = late
    BY <1>24 DEF Timeout
  <2>3. CASE phase[c] # "releasing"
    <3>1. PICK d : /\ phase' = [phase EXCEPT ![c] = "live"] /\ entry' = [entry EXCEPT ![c] = d]
                   /\ d.originWindow \in 0..MaxWindow
                   /\ d.incrementSucceeded => /\ Going(phase[c], E, R)
                                              /\ d.originWindow =< At(phase[c], E, S, R)
      BY <1>22, <2>2, <2>3
    <3>2. Moves(c, "live", d, s, NoReply) /\ s \in {S, T, <<>>} /\ twice' \in {twice, twice + 1}
      BY <2>1, <2>2, <3>1 DEF Moves
    <3>3. phase[c] \in {"checking", "refreshing"}
      BY <1>3, <2>2, <2>3
    <3> HIDE DEF E, S, R, T
    <3> QED BY <1>18, <2>2, <3>1, <3>2, <3>3
  <2>4. CASE phase[c] = "releasing" /\ s = S
    <3>1. Moves(c, "over", E, S, NoReply)
      BY <1>23, <2>1, <2>2, <2>4 DEF Moves
    <3>2. At("over", E, S, NoReply) \in Int
      BY <1>3, <1>9
    <3>3. /\ ~Going("over", E, NoReply) /\ TwiceLess(c, E, S)
          /\ At("over", E, S, NoReply) =< At(phase[c], E, S, NoReply)
      BY <1>3, <1>9, <2>4 DEF Going, TwiceLess
    <3>4. GoesLess(c, "over", E, S, NoReply)
      BY <3>3 DEF GoesLess
    <3>5. CASE R = NoReply
      <4>1. ClaimLess(c, "over", E, S, NoReply)
        BY <1>3, <2>2, <2>4, <3>3, <3>5 DEF ClaimLess, Owed
      <4>2. twice' = twice
        BY <2>1, <3>5
      <4> HIDE DEF E, S, R, T
      <4> QED BY <2>2, <3>1, <3>2, <3>3, <3>4, <4>1, <4>2, OwesMoves
    <3>6. CASE R # NoReply
      <4>1. twice' = twice + 1
        BY <1>3, <1>4, <2>1, <2>2, <2>4, <3>6
      <4> HIDE DEF E, S, R, T
      <4> QED BY <2>2, <3>1, <3>2, <3>3, <3>4, <4>1, OwesMoves
    <3> QED BY <3>5, <3>6
  <2>5. CASE phase[c] = "releasing" /\ s # S
    <3>1. s = <<>> /\ twice' = twice
      BY <1>3, <1>4, <2>1, <2>2, <2>5
    <3>2. Moves(c, "over", E, <<>>, NoReply)
      BY <1>23, <2>1, <2>2, <2>5, <3>1 DEF Moves
    <3> HIDE DEF E, S, R, T
    <3> QED BY <1>19, <2>2, <3>1, <3>2
  <2> QED BY <2>3, <2>4, <2>5
<1>25. CASE Refuse(c)
  <2>1. /\ Awaiting(c) /\ WithoutAnswer(c) /\ wire' = [wire EXCEPT ![c] = <<>>]
        /\ window' = window /\ count' = count /\ late' = late /\ twice' = twice
        /\ reply' = [reply EXCEPT ![c] = NoReply]
    BY <1>25 DEF Refuse, TypeOK
  <2>2. CASE phase[c] # "releasing"
    <3>1. PICK d : /\ phase' = [phase EXCEPT ![c] = "live"] /\ entry' = [entry EXCEPT ![c] = d]
                   /\ d.originWindow \in 0..MaxWindow
                   /\ d.incrementSucceeded => /\ Going(phase[c], E, R)
                                              /\ d.originWindow =< At(phase[c], E, S, R)
      BY <1>22, <2>1, <2>2
    <3>2. Moves(c, "live", d, <<>>, NoReply)
      BY <2>1, <3>1 DEF Moves
    <3>3. phase[c] \in {"checking", "refreshing"}
      BY <1>3, <2>1, <2>2
    <3> HIDE DEF E, S, R, T
    <3> QED BY <1>18, <2>1, <3>1, <3>2, <3>3
  <2>3. CASE phase[c] = "releasing"
    <3>1. Moves(c, "over", E, <<>>, NoReply)
      BY <1>23, <2>1, <2>3 DEF Moves
    <3> HIDE DEF E, S, R, T
    <3> QED BY <1>19, <2>1, <3>1
  <2> QED BY <2>2, <2>3
<1> HIDE DEF E, S, R, T
<1> QED BY <1>10, <1>11, <1>12, <1>13, <1>14, <1>15, <1>16, <1>17, <1>21, <1>24, <1>25

-----------------------------------------------------------------------------
(* The counters never undercount, and the limit is honoured                *)

LEMMA OweInit == Init => OrderInv /\ FromOne /\ OweInv /\ LimitInv
<1> SUFFICES ASSUME Init PROVE OrderInv /\ FromOne /\ OweInv /\ LimitInv
  OBVIOUS
<1> DEFINE e0 == [originWindow |-> NoWindow, incrementSucceeded |-> FALSE]
           w0 == <<>>
<1>1. /\ window = 1 /\ \A w \in 0..MaxWindow : count[w] = 0
      /\ \A c \in Calls : phase[c] = "new" /\ entry[c] = e0 /\ wire[c] = w0 /\ reply[c] = NoReply
      /\ twice = 0 /\ late = {}
  BY DEF Init
<1>2. e0.originWindow =< 1 /\ ~e0.incrementSucceeded
  BY DEF NoWindow
<1>3. InOrder("new", e0, w0, 1) /\ ~Twofold(w0)
  <2>1. InOrder("new", e0, w0, 1)
    <3> HIDE DEF e0
    <3> QED BY <1>2, OrderNone
  <2> QED BY <2>1 DEF Twofold
<1>4. TypeOK
  BY TypeInit
<1> HIDE DEF e0, w0
<1>5. OrderInv
  BY <1>1, <1>3, CommandFacts DEF OrderInv, Windows
<1>6. FromOne
  BY <1>1, <1>2 DEF FromOne
<1>7. ~Going("new", e0, NoReply) /\ ~Owed("new", e0, w0, NoReply)
  BY DEF Going, Owed
<1>8. Recent = {} /\ \A w : Claims(w) = {} /\ Again(w) = {}
  BY <1>1, <1>3, <1>7 DEF Recent, Claims, Again
<1>9. ASSUME NEW w \in Windows PROVE Sum(count, w..MaxWindow) = 0
  <2>1. /\ w..MaxWindow \subseteq 0..MaxWindow /\ IsFiniteSet(w..MaxWindow)
        /\ count \in [0..MaxWindow -> Int]
    BY <1>4, CountSums
  <2> DEFINE D == 0..MaxWindow
             S == w..MaxWindow
             N == {}
  <2>2. /\ count \in [D -> Int] /\ S \subseteq D /\ IsFiniteSet(S) /\ N \subseteq S
        /\ \A v \in S \ N : count[v] = 0
    BY <1>1, <2>1
  <2>3. IsFiniteSet(N) /\ N = {}
    BY FS_EmptySet
  <2> HIDE DEF D, S, N
  <2>4. Sum(count, S) = Sum(count, N)
    BY <2>2, SumZeros
  <2>5. Sum(count, N) = 0
    BY <2>3, SumPick
  <2> QED BY <2>4, <2>5 DEF S
<1>10. Cardinality({}) = 0
  BY FS_EmptySet
<1>11. OweInv
  <2> SUFFICES ASSUME NEW w \in Windows
               PROVE  Sum(count, w..MaxWindow) + twice
                        >= Cardinality(Claims(w)) + Cardinality(Again(w))
    BY DEF OweInv
  <2>1. Cardinality(Claims(w)) = 0 /\ Cardinality(Again(w)) = 0
    BY <1>8, <1>10
  <2> QED BY <1>1, <1>9, <2>1
<1>12. LimitInv
  <2>1. Recent \ late = {} /\ Limit \in Nat
    BY <1>8, CallLimiterAssumption DEF CallLimiterAssumption
  <2> QED BY <1>1, <1>10, <2>1 DEF LimitInv
<1> QED BY <1>5, <1>6, <1>11, <1>12

(* The inductive invariant of the two results below. *)
LimiterInv == TypeOK /\ AwaitInv /\ OrderInv /\ FromOne /\ OweInv /\ LimitInv

(* Nothing is ahead of its window, what was counted is owed by Redis or    *)
(* still to be released, and the calls that go on stay within the limit.   *)
LEMMA LimiterInvariant == Spec => []LimiterInv
<1>1. Init => LimiterInv
  BY TypeInit, OweInit DEF LimiterInv
<1>2. LimiterInv /\ [Next]_vars => LimiterInv'
  BY TypeStep, OrderStep, FromOneStep, OwesStep DEF LimiterInv
<1> QED BY <1>1, <1>2, PTL DEF Spec

(* A call that Redis counts where Held says so claims its count there. *)
LEMMA HeldIsAt ==
  ASSUME TypeOK, AwaitInv, NEW c \in Counted
  PROVE  /\ c \in Calls /\ Going(phase[c], entry[c], reply[c])
         /\ Owed(phase[c], entry[c], wire[c], reply[c])
         /\ At(phase[c], entry[c], wire[c], reply[c]) = Held(c)
  BY DEF Counted, Going, Owed, At, Held, Awaited

(* From any window on, the counters are at least the calls that go on and  *)
(* were counted there, but for decrements made twice: the refresh counts   *)
(* in the new window before it gives back the old one (REFRESH_LUA), and   *)
(* no lost, late or repeated command uncovers a call.                      *)
THEOREM NeverUnder == Spec => []NeverUndercounts
<1>1. LimiterInv => NeverUndercounts
  <2> SUFFICES ASSUME LimiterInv, NEW w \in Windows
               PROVE  Sum(count, w..MaxWindow) + twice
                        >= Cardinality({c \in Counted : Held(c) >= w})
    BY DEF NeverUndercounts, Sum
  <2> DEFINE H == {c \in Counted : Held(c) >= w}
  <2>1. TypeOK /\ AwaitInv /\ OweInv
    BY DEF LimiterInv
  <2>2. H \in SUBSET Claims(w)
    BY <2>1, HeldIsAt DEF Claims
  <2>3. /\ Cardinality(H) =< Cardinality(Claims(w)) /\ Cardinality(H) \in Nat
        /\ Cardinality(Claims(w)) \in Nat /\ Cardinality(Again(w)) \in Nat
    <3> HIDE DEF H
    <3> QED BY <2>2, SomeCalls, FS_Subset, FS_CardinalityType
  <2>4. /\ Sum(count, w..MaxWindow) \in Int /\ twice \in Nat
        /\ Sum(count, w..MaxWindow) + twice >= Cardinality(Claims(w)) + Cardinality(Again(w))
    <3>1. twice \in Nat
      BY <2>1 DEF TypeOK
    <3> QED BY <2>1, <3>1, CountSums DEF OweInv
  <2> DEFINE h == Cardinality(H)
             k == Cardinality(Claims(w))
             m == Cardinality(Again(w))
             n == Sum(count, w..MaxWindow)
  <2> HIDE DEF H, h, k, m, n
  <2>5. n + twice >= h
    BY <2>3, <2>4 DEF h, k, m, n
  <2> QED BY <2>5 DEF H, h, n
<1> QED BY <1>1, LimiterInvariant, PTL

(* Of the calls admitted with a count no more go on than the limit allows, *)
(* but for decrements made twice, late checks and late moves: a check      *)
(* admits only below the sum of the windows it looks back to               *)
(* (CHECK_AND_INCREMENT_LUA), and that sum covers the calls that go on.    *)
THEOREM LimitKept == Spec => []LimitHonoured
<1>1. LimiterInv => LimitHonoured
  <2> SUFFICES ASSUME LimiterInv PROVE LimitHonoured
    OBVIOUS
  <2> DEFINE H == {c \in Counted : Held(c) \in Lookback(window)} \ late
  <2>1. TypeOK /\ AwaitInv /\ LimitInv
    BY DEF LimiterInv
  <2>2. H \in SUBSET (Recent \ late)
    BY <2>1, HeldIsAt DEF Recent
  <2>3. /\ Cardinality(H) =< Cardinality(Recent \ late) /\ Cardinality(H) \in Nat
        /\ Cardinality(Recent \ late) \in Nat
    <3> HIDE DEF H
    <3> QED BY <2>2, SomeCalls, FS_Subset, FS_CardinalityType
  <2>4. Limit \in Nat /\ twice \in Nat
    BY <2>1, CallLimiterAssumption DEF CallLimiterAssumption, TypeOK
  <2>5. Cardinality(H) =< Limit + twice
    <3> HIDE DEF H
    <3> QED BY <2>1, <2>3, <2>4 DEF LimitInv
  <2> QED BY <2>5 DEF LimitHonoured
<1> QED BY <1>1, LimiterInvariant, PTL
=============================================================================
