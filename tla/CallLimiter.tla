----------------------------- MODULE CallLimiter -----------------------------
(***************************************************************************)
(* One limiter id of the call limiter: counters per time window in Redis,  *)
(* a check that sums the last windows and counts the call in the current   *)
(* one, a refresh that moves a call's count to the current window, and a   *)
(* decrement when the call ends.  Every command has a short timeout: a     *)
(* call whose check has no answer is admitted without a count, and a       *)
(* command that is given up may still be executed, or, after a reconnect,  *)
(* be executed twice.                                                      *)
(*                                                                         *)
(* A window is named by its position, 1 the first; 0 is the currentWindow  *)
(* of an entry that was admitted without a count.  Each call speaks for    *)
(* the worker that handles it; its commands are executed in order.         *)
(***************************************************************************)
EXTENDS Integers, Sequences, FiniteSets, FiniteSetsExt

CONSTANTS
  Calls,
  Limit,
  ActiveWindows,       \* LIMITER_ACTIVE_WINDOWS
  MaxWindow,           \* bound: windows that pass
  MaxFaults            \* bound: what goes wrong

ASSUME CallLimiterAssumption ==
  /\ IsFiniteSet(Calls) /\ Limit \in Nat
  /\ ActiveWindows \in Nat \ {0} /\ MaxWindow \in Nat \ {0} /\ MaxFaults \in Nat

VARIABLES
  window,   \* the current window
  count,    \* per window, the value of its key
  phase,    \* what a call is at
  entry,    \* per call, its limiterEntries element
  wire,     \* per call, its commands that are not done with, oldest first
  reply,    \* per call, what its oldest command was answered
  faults,   \* how often something went wrong
  twice,    \* decrements that were issued or executed a second time
  late,     \* calls admitted for a window that was over, or moved from before
            \* the windows that are summed
  leaked    \* a count was lost track of

vars == <<window, count, phase, entry, wire, reply, faults, twice, late, leaked>>

NoWindow == 0
Windows == 1..MaxWindow
NoReply == "none"

Lookback(w) == (w - ActiveWindows + 1)..w
Total(w) == MapThenSumSet(LAMBDA v : count[v], Lookback(w) \cap Windows)

(* checkAndIncrement, refresh and decrement: the keys are those of the      *)
(* client's current window, whenever Redis comes to it.                     *)
Check       == [op |-> "check", now |-> window, origin |-> window]
Refresh(w)  == [op |-> "refresh", now |-> window, origin |-> w]
Decrement(w) == [op |-> "decr", now |-> window, origin |-> w]

Awaiting(c) == phase[c] \in {"checking", "refreshing", "releasing"}
(* The command whose answer the call's handler waits for. *)
Awaited(c) == wire[c][Len(wire[c])]

-----------------------------------------------------------------------------
Init ==
  /\ window = 1
  /\ count = [w \in 0..MaxWindow |-> 0]
  /\ phase = [c \in Calls |-> "new"]
  /\ entry = [c \in Calls |-> [originWindow |-> NoWindow, incrementSucceeded |-> FALSE]]
  /\ wire = [c \in Calls |-> <<>>]
  /\ reply = [c \in Calls |-> NoReply]
  /\ faults = 0 /\ twice = 0 /\ late = {} /\ leaked = FALSE

Tick ==
  /\ window < MaxWindow
  /\ window' = window + 1
  /\ UNCHANGED <<count, phase, entry, wire, reply, faults, twice, late, leaked>>

-----------------------------------------------------------------------------
(* The worker                                                              *)

Send(c, command, next) ==
  /\ wire' = [wire EXCEPT ![c] = Append(@, command)]
  /\ phase' = [phase EXCEPT ![c] = next]
  /\ UNCHANGED <<window, count, entry, reply, faults>>

Admit(c) ==
  /\ phase[c] = "new"
  /\ Send(c, Check, "checking")
  /\ UNCHANGED <<twice, late, leaked>>

(* handleLimiterRefresh: of every entry, counted or not. *)
Migrate(c) ==
  /\ phase[c] = "live" /\ entry[c].originWindow # window
  /\ Send(c, Refresh(entry[c].originWindow), "refreshing")
  /\ UNCHANGED <<twice, late, leaked>>

(* decrement-limiter of a call that ends, eagerDecrement of one that is    *)
(* rolled back, the decrement of a purge: unless the entry has no count.   *)
Release(c) ==
  /\ phase[c] = "live"
  /\ IF entry[c].incrementSucceeded
     THEN Send(c, Decrement(entry[c].originWindow), "releasing")
     ELSE /\ phase' = [phase EXCEPT ![c] = "over"]
          /\ UNCHANGED <<window, count, entry, wire, reply, faults>>
  /\ UNCHANGED <<twice, late, leaked>>

(* Force purge beside the handler that ends the call. *)
ReleaseAgain(c) ==
  /\ phase[c] = "releasing" /\ Len(wire[c]) = 1 /\ reply[c] = NoReply
  /\ faults < MaxFaults
  /\ wire' = [wire EXCEPT ![c] = Append(@, Decrement(entry[c].originWindow))]
  /\ faults' = faults + 1 /\ twice' = twice + 1
  /\ UNCHANGED <<window, count, phase, entry, reply, late, leaked>>

(* The worker dies, or the handler is interrupted before its soft effects. *)
Vanish(c) ==
  /\ phase[c] \in {"checking", "live", "refreshing"} /\ faults < MaxFaults
  /\ faults' = faults + 1
  /\ phase' = [phase EXCEPT ![c] = "over"]
  /\ \E commands \in {wire[c], IF reply[c] = NoReply THEN wire[c] ELSE Tail(wire[c])} :
       wire' = [wire EXCEPT ![c] = commands]
  /\ reply' = [reply EXCEPT ![c] = NoReply]
  /\ leaked' = TRUE
  /\ UNCHANGED <<window, count, entry, twice, late>>

HearKeepsOrigin(c) ==                  \* the refreshed entries are not written back
  /\ reply[c] # NoReply
  /\ phase' = [phase EXCEPT ![c] =
                 IF @ = "releasing" \/ reply[c] = "rejected" THEN "over" ELSE "live"]
  /\ entry' = IF reply[c] = "allowed"
              THEN [entry EXCEPT ![c] = [originWindow |-> Awaited(c).now,
                                         incrementSucceeded |-> TRUE]]
              ELSE entry
  /\ wire' = [wire EXCEPT ![c] = Tail(@)] /\ reply' = [reply EXCEPT ![c] = NoReply]
  /\ UNCHANGED <<window, count, faults, twice, late, leaked>>
(* The handler has its answer: a call is admitted or rejected, its entry is *)
(* moved, or it is over.                                                    *)
Hear(c) ==
  /\ reply[c] # NoReply
  /\ phase' = [phase EXCEPT ![c] =
                 IF @ = "releasing" \/ reply[c] = "rejected" THEN "over" ELSE "live"]
  /\ entry' = CASE reply[c] = "allowed" ->
                     [entry EXCEPT ![c] = [originWindow |-> Awaited(c).now,
                                           incrementSucceeded |-> TRUE]]
                [] reply[c] # "allowed" /\ phase[c] = "refreshing" ->
                     [entry EXCEPT ![c].originWindow = Awaited(c).now]
                [] OTHER -> entry
  /\ wire' = [wire EXCEPT ![c] = Tail(@)] /\ reply' = [reply EXCEPT ![c] = NoReply]
  /\ UNCHANGED <<window, count, faults, twice, late, leaked>>

(* What the handler does without an answer: the call is admitted without a *)
(* count, the entry stays where it was, the call is over.                  *)
WithoutAnswerMoves(c) ==               \* the entry moves although nothing answered
  /\ phase' = [phase EXCEPT ![c] = IF @ = "releasing" THEN "over" ELSE "live"]
  /\ entry' = CASE phase[c] = "checking" ->
                     [entry EXCEPT ![c] = [originWindow |-> NoWindow,
                                           incrementSucceeded |-> FALSE]]
                [] phase[c] = "refreshing" ->
                     [entry EXCEPT ![c].originWindow = Awaited(c).now]
                [] OTHER -> entry
WithoutAnswer(c) ==
  /\ phase' = [phase EXCEPT ![c] = IF @ = "releasing" THEN "over" ELSE "live"]
  /\ entry' = IF phase[c] = "checking"
              THEN [entry EXCEPT ![c] = [originWindow |-> NoWindow,
                                         incrementSucceeded |-> FALSE]]
              ELSE entry

(* commandTimeout and LIMITER_BUDGET_MS: the command stays where it is,     *)
(* and of one that was executed the connection may make another.            *)
Timeout(c) ==
  /\ Awaiting(c) /\ faults < MaxFaults
  /\ faults' = faults + 1
  /\ WithoutAnswer(c)
  /\ \E commands \in {wire[c], IF reply[c] = NoReply THEN wire[c] ELSE Tail(wire[c])} :
       /\ wire' = [wire EXCEPT ![c] = commands]
       /\ twice' = IF reply[c] # NoReply /\ commands # <<>> /\ Head(commands).op = "decr"
                   THEN twice + 1 ELSE twice
  /\ reply' = [reply EXCEPT ![c] = NoReply]
  /\ leaked' = (leaked \/ phase[c] # "releasing")
  /\ UNCHANGED <<window, count, late>>

RefuseUncaught(c) ==                   \* no arm of the handler takes the error
  /\ Awaiting(c) /\ Len(wire[c]) = 1 /\ reply[c] = NoReply /\ faults < MaxFaults
  /\ faults' = faults + 1
  /\ wire' = [wire EXCEPT ![c] = <<>>]
  /\ leaked' = (leaked \/ phase[c] = "releasing")
  /\ UNCHANGED <<window, count, phase, entry, reply, twice, late>>
(* Not connected, or the retries of the request are used up. *)
Refuse(c) ==
  /\ Awaiting(c) /\ Len(wire[c]) = 1 /\ reply[c] = NoReply /\ faults < MaxFaults
  /\ faults' = faults + 1
  /\ WithoutAnswer(c)
  /\ wire' = [wire EXCEPT ![c] = <<>>]
  /\ leaked' = (leaked \/ phase[c] = "releasing")
  /\ UNCHANGED <<window, count, reply, twice, late>>

-----------------------------------------------------------------------------
(* Redis                                                                   *)

CheckAndIncrementPast(c, now, heard) ==       \* one call more than the limit
  LET allowed == Total(now) <= Limit
  IN /\ count' = IF allowed THEN [count EXCEPT ![now] = @ + 1] ELSE count
     /\ reply' = [reply EXCEPT ![c] =
                    IF ~heard THEN NoReply ELSE IF allowed THEN "allowed" ELSE "rejected"]
     /\ late' = IF allowed /\ now # window THEN late \cup {c} ELSE late
(* CHECK_AND_INCREMENT_LUA *)
CheckAndIncrement(c, now, heard) ==
  LET allowed == Total(now) < Limit
  IN /\ count' = IF allowed THEN [count EXCEPT ![now] = @ + 1] ELSE count
     /\ reply' = [reply EXCEPT ![c] =
                    IF ~heard THEN NoReply ELSE IF allowed THEN "allowed" ELSE "rejected"]
     /\ late' = IF allowed /\ now # window THEN late \cup {c} ELSE late

(* REFRESH_LUA, DECREMENT_LUA *)
Move(c, now, origin) ==
  /\ count' = [w \in 0..MaxWindow |->
                 count[w] + (IF w = now THEN 1 ELSE 0) - (IF w = origin THEN 1 ELSE 0)]
  /\ late' = IF origin \in Lookback(window) THEN late ELSE late \cup {c}
Take(origin) == count' = [count EXCEPT ![origin] = @ - 1]

(* Redis executes the oldest command of a call; if its handler still waits *)
(* for that one, the answer is on its way.                                 *)
Execute(c) ==
  /\ wire[c] # <<>> /\ reply[c] = NoReply
  /\ LET command == Head(wire[c])
         heard == Awaiting(c) /\ Len(wire[c]) = 1
     IN /\ \/ command.op = "check" /\ CheckAndIncrement(c, command.now, heard)
           \/ /\ command.op = "refresh" /\ Move(c, command.now, command.origin)
              /\ reply' = [reply EXCEPT ![c] = IF heard THEN "done" ELSE NoReply]
           \/ /\ command.op = "decr" /\ Take(command.origin)
              /\ reply' = [reply EXCEPT ![c] = IF heard THEN "done" ELSE NoReply]
              /\ UNCHANGED late
        /\ wire' = IF heard THEN wire ELSE [wire EXCEPT ![c] = Tail(@)]
        /\ leaked' = (leaked \/ command.origin = NoWindow)
  /\ UNCHANGED <<window, phase, entry, faults, twice>>

(* The connection breaks after a command was executed, and issues it again. *)
Resend(c) ==
  /\ reply[c] # NoReply /\ faults < MaxFaults
  /\ faults' = faults + 1
  /\ reply' = [reply EXCEPT ![c] = NoReply]
  /\ twice' = IF Head(wire[c]).op = "decr" THEN twice + 1 ELSE twice
  /\ leaked' = TRUE
  /\ UNCHANGED <<window, count, phase, entry, wire, late>>

(* A command nobody waits for is lost with its connection. *)
Lose(c) ==
  /\ wire[c] # <<>> /\ (Awaiting(c) => Len(wire[c]) > 1) /\ faults < MaxFaults
  /\ faults' = faults + 1
  /\ wire' = [wire EXCEPT ![c] = Tail(@)]
  /\ leaked' = TRUE
  /\ UNCHANGED <<window, count, phase, entry, reply, twice, late>>

-----------------------------------------------------------------------------
Next ==
  \/ Tick
  \/ \E c \in Calls :
       \/ Admit(c) \/ Migrate(c) \/ Release(c) \/ ReleaseAgain(c) \/ Vanish(c)
       \/ Hear(c) \/ Timeout(c) \/ Refuse(c)
       \/ Execute(c) \/ Resend(c) \/ Lose(c)

Spec == Init /\ [][Next]_vars

-----------------------------------------------------------------------------
(* Properties                                                              *)

Phases == {"new", "checking", "live", "refreshing", "releasing", "over"}
Entries == [originWindow : 0..MaxWindow, incrementSucceeded : BOOLEAN]
Commands == [op : {"check", "refresh", "decr"}, now : Windows, origin : 0..MaxWindow]

(* The types, and that who waits has a command out; an answer is that of    *)
(* the only command left, and the check's are its own.                      *)
TypeOK ==
  /\ window \in Windows
  /\ count \in [0..MaxWindow -> Int]
  /\ phase \in [Calls -> Phases] /\ entry \in [Calls -> Entries]
  /\ wire \in [Calls -> Seq(Commands)]
  /\ reply \in [Calls -> {NoReply, "allowed", "rejected", "done"}]
  /\ \A c \in Calls :
       /\ Awaiting(c) => wire[c] # <<>>
       /\ reply[c] # NoReply => Awaiting(c) /\ Len(wire[c]) = 1
       /\ reply[c] \in {"allowed", "rejected"} <=> reply[c] # NoReply /\ phase[c] = "checking"
  /\ faults \in 0..MaxFaults /\ twice \in 0..MaxFaults
  /\ late \subseteq Calls /\ leaked \in BOOLEAN

(* The window in which Redis counts a call that goes on. *)
Held(c) == IF phase[c] = "refreshing" /\ reply[c] # NoReply
           THEN Awaited(c).now ELSE entry[c].originWindow
Counted == {c \in Calls : phase[c] \in {"live", "refreshing"} /\ entry[c].incrementSucceeded}

(* From any window on, the counters are at least the calls that go on and   *)
(* were counted there, but for decrements made twice: a refresh never       *)
(* uncovers a call, whatever is lost, late or repeated (REFRESH_LUA: never  *)
(* undercounts).                                                            *)
NeverUndercounts ==
  \A w \in Windows :
    MapThenSumSet(LAMBDA v : count[v], w..MaxWindow) + twice
      >= Cardinality({c \in Counted : Held(c) >= w})

(* Of the calls admitted with a count no more go on than the limit allows,  *)
(* but for decrements made twice, calls admitted by a check of a window     *)
(* that was over when Redis came to it, and calls that come back from       *)
(* before the windows that are summed (checkAndIncrement).                  *)
LimitHonoured ==
  Cardinality({c \in Counted : Held(c) \in Lookback(window)} \ late) <= Limit + twice

(* When every call is over and every command done with, every counter is 0, *)
(* unless a count was lost track of: an increment that was given up, a      *)
(* repeated command, a refused decrement, a worker that died, a refreshed   *)
(* entry without a count (incrementSucceeded, decrement-limiter).           *)
ReleasedExactly ==
  /\ \A c \in Calls : phase[c] \in {"new", "over"} /\ wire[c] = <<>>
  /\ ~leaked /\ twice = 0
  => \A w \in 0..MaxWindow : count[w] = 0
=============================================================================
