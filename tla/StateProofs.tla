---------------------------- MODULE StateProofs -----------------------------
(***************************************************************************)
(* For any number of goroutines that wait, any exit codes and any number   *)
(* of runs: a Wait that found the container running reports a stop only    *)
(* when there was one.                                                     *)
(***************************************************************************)
EXTENDS ContainerState, TLAPS

USE StateAssumption DEF Goroutine, NoResult

\* A Wait that began in a run: the run is still on, or it has ended since.
InRun(g) ==
  /\ entered[g] # -1 => entered[g] < stops \/ (entered[g] = stops /\ Running)
  /\ entered[g] # -1 /\ pc[g] = "return" => entered[g] < stops
  /\ pc[g] = "idle" => result[g] = NoResult

IInv == TypeOK /\ NoEarlyReturn /\ \A g \in Goroutine : InRun(g)

\* A fresh State, on which nobody waits, satisfies the invariant.
LEMMA InitInv == Init => IInv
<1> SUFFICES ASSUME Init PROVE IInv
  OBVIOUS
<1>1. TypeOK
  <2>1. runs \in 0 .. MaxRuns /\ stops \in Nat
    BY DEF Init
  <2>2. result \in [Goroutine -> ExitCodes \union {0, NoResult}]
    BY DEF Init
  <2>3. entered \in [Goroutine -> Nat \union {-1}]
    BY DEF Init
  <2> QED BY <2>1, <2>2, <2>3 DEF Init, TypeOK
<1>2. NoEarlyReturn /\ \A g \in Goroutine : InRun(g)
  BY DEF Init, NoEarlyReturn, InRun
<1> QED BY <1>1, <1>2 DEF IInv

-----------------------------------------------------------------------------
\* A step that counts no stop, clears no mark and lets nobody return keeps
\* what is known of every Wait.
LEMMA Keeps ==
  ASSUME IInv, TypeOK', UNCHANGED <<stops, entered, result>>, Running => Running',
         \A g \in Goroutine : pc'[g] = pc[g] \/ pc'[g] \notin {"idle", "return"}
  PROVE  IInv'
BY DEF IInv, NoEarlyReturn, InRun

\* What setRunning and setStopped do: only a stop is counted, and it is
\* counted when Running is cleared.
LEMMA SetterInv ==
  ASSUME IInv, MarkRunning \/ SetterStep
  PROVE  IInv'
<1> USE DEF Set, waiters
<1>0. TypeOK
  BY DEF IInv
<1>1. CASE MarkRunning
  <2>1. runs' \in 0 .. MaxRuns
    <3>1. runs \in 0 .. MaxRuns
      BY <1>0 DEF TypeOK
    <3>2. runs < MaxRuns /\ runs' = runs + 1
      BY <1>1 DEF MarkRunning
    <3> QED BY <3>1, <3>2
  <2>2. TypeOK'
    BY <1>0, <1>1, <2>1 DEF MarkRunning, TypeOK
  <2> QED BY <1>1, <2>2, Keeps DEF MarkRunning
<1>2. CASE MarkStopped
  <2>1. stops \in Nat /\ stops' = stops + 1 /\ UNCHANGED <<entered, pc, result>>
    BY <1>0, <1>2 DEF MarkStopped, TypeOK
  <2>2. TypeOK'
    <3>1. stops' \in Nat
      BY <2>1
    <3>2. code' \in ExitCodes \union {0} /\ setter' = "set code" /\ Running' = FALSE
      BY <1>2 DEF MarkStopped
    <3>3. UNCHANGED <<ExitCode, lock, sleeping, runs, pc, result, caller, entered>>
      BY <1>2 DEF MarkStopped
    <3> QED BY <1>0, <3>1, <3>2, <3>3 DEF TypeOK
  <2>3. ASSUME NEW g \in Goroutine, entered[g] # -1
        PROVE  entered[g] < stops'
    <3>1. entered[g] \in Nat
      BY <1>0, <2>3 DEF TypeOK
    <3>2. entered[g] <= stops
      BY <2>1, <2>3, <3>1 DEF IInv, InRun
    <3> QED BY <2>1, <3>1, <3>2
  <2> QED BY <2>1, <2>2, <2>3 DEF IInv, NoEarlyReturn, InRun
<1>3. CASE ZeroExitCode \/ SetExitCode
  <2>1. TypeOK'
    BY <1>0, <1>3 DEF ZeroExitCode, SetExitCode, TypeOK
  <2>2. UNCHANGED <<Running, stops, entered, result, pc>>
    BY <1>3 DEF ZeroExitCode, SetExitCode
  <2> QED BY <2>1, <2>2, Keeps
<1>4. CASE BroadcastLock \/ Broadcast \/ BroadcastUnlock
  <2>1. TypeOK'
    BY <1>0, <1>4 DEF BroadcastLock, Broadcast, BroadcastUnlock, cond!Lock,
                      cond!Broadcast, cond!Unlock, plain, TypeOK
  <2>2. UNCHANGED <<Running, stops, entered, result, pc>>
    BY <1>4 DEF BroadcastLock, Broadcast, BroadcastUnlock, plain
  <2> QED BY <2>1, <2>2, Keeps
<1> QED BY <1>1, <1>2, <1>3, <1>4 DEF SetterStep

\* A goroutine that begins to wait notes the run it is in.
LEMMA EnterInv ==
  ASSUME IInv, NEW g \in Goroutine, Enter(g),
         caller' \in [Helper -> {"idle", "select", "nil", "Timed Out"}]
  PROVE  IInv'
<1>0. TypeOK
  BY DEF IInv
<1>1. TypeOK'
  BY <1>0 DEF Enter, Go, state, TypeOK
<1>2. /\ entered'[g] = (IF Running THEN stops ELSE -1) /\ stops \in Nat
      /\ pc[g] = "idle" /\ pc'[g] = "check"
      /\ \A k \in Goroutine \ {g} : entered'[k] = entered[k] /\ pc'[k] = pc[k]
      /\ UNCHANGED <<Running, stops, result>>
  BY <1>0 DEF Enter, Go, state, TypeOK
<1> QED BY <1>1, <1>2 DEF IInv, NoEarlyReturn, InRun

\* The loop of Wait reaches its end only from a look that found Running false.
LEMMA WaitInv ==
  ASSUME IInv, NEW g \in Goroutine, WaitStep(g)
  PROVE  IInv'
<1> USE DEF state
<1>0. TypeOK
  BY DEF IInv
<1>1. CASE Check(g)
  <2>1. TypeOK'
    BY <1>0, <1>1 DEF Check, Go, TypeOK
  <2>2. /\ pc[g] = "check" /\ pc'[g] = (IF Running THEN "lock" ELSE "return")
        /\ \A k \in Goroutine \ {g} : pc'[k] = pc[k]
        /\ UNCHANGED <<Running, stops, entered, result>>
    BY <1>0, <1>1 DEF Check, Go, TypeOK
  <2> QED BY <2>1, <2>2 DEF IInv, NoEarlyReturn, InRun
<1>2. CASE WaitLock(g) \/ WaitSleep(g) \/ WaitWake(g) \/ WaitUnlock(g)
  <2>1. TypeOK'
    BY <1>0, <1>2 DEF WaitLock, WaitSleep, WaitWake, WaitUnlock, Go, TypeOK,
                      cond!Lock, cond!Sleep, cond!Wake, cond!Unlock
  <2>2. /\ pc'[g] \notin {"idle", "return"}
        /\ \A k \in Goroutine \ {g} : pc'[k] = pc[k]
        /\ UNCHANGED <<Running, stops, entered, result>>
    BY <1>0, <1>2 DEF WaitLock, WaitSleep, WaitWake, WaitUnlock, Go, TypeOK
  <2> QED BY <2>1, <2>2, Keeps
<1>3. CASE Return(g)
  <2>1. TypeOK'
    BY <1>0, <1>3 DEF Return, Go, TypeOK
  <2>2. /\ pc[g] = "return" /\ pc'[g] \notin {"idle", "return"}
        /\ \A k \in Goroutine \ {g} : pc'[k] = pc[k] /\ result'[k] = result[k]
        /\ UNCHANGED <<Running, stops, entered>>
    BY <1>0, <1>3 DEF Return, Go, TypeOK
  <2> QED BY <2>1, <2>2 DEF IInv, NoEarlyReturn, InRun
<1> QED BY <1>1, <1>2, <1>3 DEF WaitStep

\* Every step, and a stutter, keeps the invariant.
LEMMA NextInv ==
  ASSUME IInv, [Next]_vars
  PROVE  IInv'
<1>0. TypeOK
  BY DEF IInv
<1>1. ASSUME NEW g \in Goroutine, CallWait(g) PROVE IInv'
  BY <1>0, <1>1, EnterInv DEF CallWait, TypeOK
<1>2. ASSUME NEW h \in Helper, CallWaitTimeout(h) PROVE IInv'
  <2>1. caller' \in [Helper -> {"idle", "select", "nil", "Timed Out"}]
    BY <1>0, <1>2 DEF CallWaitTimeout, TypeOK
  <2> QED BY <1>2, <2>1, EnterInv DEF CallWaitTimeout
<1>3. ASSUME NEW h \in Helper, Done(h) \/ TimedOut(h) PROVE IInv'
  <2>1. TypeOK'
    BY <1>0, <1>3 DEF Done, TimedOut, Go, quiet, state, TypeOK
  <2>2. \A k \in Goroutine : pc'[k] = pc[k] \/ pc'[k] = "done"
    BY <1>0, <1>3 DEF Done, TimedOut, Go, quiet, TypeOK
  <2>3. UNCHANGED <<Running, stops, entered, result>>
    BY <1>3 DEF Done, TimedOut, quiet, state
  <2> QED BY <2>1, <2>2, <2>3, Keeps
<1>4. CASE UNCHANGED vars
  <2>1. TypeOK'
    BY <1>0, <1>4 DEF vars, TypeOK
  <2> QED BY <1>4, <2>1, Keeps DEF vars
<1> QED BY <1>1, <1>2, <1>3, <1>4, SetterInv, WaitInv DEF Next

\* Every variable of the State and of who waits for it keeps its type; what
\* ExitCode holds is a code of a process or the 0 of setRunning.
THEOREM StateTypeOK == Spec => []TypeOK
<1>1. IInv => TypeOK
  BY DEF IInv
<1> QED BY <1>1, InitInv, NextInv, PTL DEF Spec

\* Neither a start's broadcast nor the timing of the two critical sections
\* makes Wait return before the container has stopped (container.go:520-529).
THEOREM WaitIsNotEarly == Spec => []NoEarlyReturn
<1>1. IInv => NoEarlyReturn
  BY DEF IInv
<1> QED BY <1>1, InitInv, NextInv, PTL DEF Spec

-----------------------------------------------------------------------------
(* Wait implements AwaitStop.  What the mapping needs: setRunning and        *)
(* setStopped take turns, ExitCode holds the last code or 0, and who has no  *)
(* answer yet has not got past the end of the loop.                          *)

SettersTurn ==
  /\ Running <=> setter \notin {"set code", "lock down", "broadcast down",
                              "unlock down", "stopped"}
  /\ ExitCode \in {0, code}
  /\ setter \in {"lock up", "broadcast up", "unlock up", "running"} => ExitCode = 0

Pending(g) ==
  /\ pc[g] \in {"idle", "check", "lock", "sleep", "asleep", "unlock", "return"}
       <=> result[g] = NoResult
  /\ g \in Helper => (caller[g] = "idle" <=> pc[g] = "idle")

AwaitInv == TypeOK /\ SettersTurn /\ \A g \in Goroutine : Pending(g)

\* An exit code, or 0, is an answer.
LEMMA CodesAreAnswers ==
  ASSUME NEW e \in ExitCodes \union {0}
  PROVE  e # NoResult
<1>1. CASE e \in ExitCodes
  <2>1. e \in Nat
    BY <1>1
  <2> QED BY <2>1
<1>2. CASE e = 0
  BY <1>2
<1> QED BY <1>1, <1>2

\* Nobody waits at first.
LEMMA InitAwaitInv == Init => AwaitInv
BY InitInv DEF Init, IInv, AwaitInv, SettersTurn, Pending

\* The steps of setRunning and setStopped: the flag is set and cleared in one
\* of them each, and the others are not seen.
LEMMA SetterAwaits ==
  ASSUME AwaitInv, TypeOK', MarkRunning \/ SetterStep
  PROVE  AwaitInv' /\ [Await!Next]_(Await!vars)
<1> USE DEF Set, waiters
<1>0. TypeOK /\ SettersTurn /\ \A g \in Goroutine : Pending(g)
  BY DEF AwaitInv
<1>1. UNCHANGED <<pc, result, caller>>
  BY DEF MarkRunning, SetterStep, ZeroExitCode, MarkStopped, SetExitCode,
         BroadcastLock, Broadcast, BroadcastUnlock, plain
<1>2. \A g \in Goroutine : Pending(g)'
  BY <1>0, <1>1 DEF Pending
<1>3. CASE MarkRunning
  <2>1. SettersTurn'
    BY <1>0, <1>3 DEF MarkRunning, SettersTurn
  <2>2. Await!Start
    BY <1>0, <1>1, <1>3 DEF MarkRunning, SettersTurn, TypeOK, Await!Start
  <2> QED BY <1>2, <2>1, <2>2 DEF AwaitInv, Await!Next
<1>4. CASE MarkStopped
  <2>1. SettersTurn'
    BY <1>0, <1>4 DEF MarkStopped, SettersTurn
  <2>2. Await!Stop
    BY <1>0, <1>1, <1>4 DEF MarkStopped, SettersTurn, Await!Stop
  <2> QED BY <1>2, <2>1, <2>2 DEF AwaitInv, Await!Next
<1>5. CASE ZeroExitCode \/ SetExitCode \/ BroadcastLock \/ Broadcast
           \/ BroadcastUnlock
  <2>1. UNCHANGED <<Running, code>>
    BY <1>5 DEF ZeroExitCode, SetExitCode, BroadcastLock, Broadcast,
                BroadcastUnlock, plain
  <2>2. SettersTurn'
    <3>1. CASE ZeroExitCode
      BY <1>0, <3>1 DEF ZeroExitCode, SettersTurn
    <3>2. CASE SetExitCode
      BY <1>0, <3>2 DEF SetExitCode, SettersTurn
    <3>3. CASE BroadcastLock
      BY <1>0, <3>3 DEF BroadcastLock, plain, SettersTurn
    <3>4. CASE Broadcast
      BY <1>0, <3>4 DEF Broadcast, plain, SettersTurn
    <3>5. CASE BroadcastUnlock
      BY <1>0, <3>5 DEF BroadcastUnlock, plain, SettersTurn
    <3> QED BY <1>5, <3>1, <3>2, <3>3, <3>4, <3>5
  <2>3. UNCHANGED Await!vars
    BY <1>1, <2>1 DEF Await!vars
  <2> QED BY <1>2, <2>2, <2>3 DEF AwaitInv
<1> QED BY <1>3, <1>4, <1>5 DEF SetterStep

\* A goroutine enters Wait: that is the call.
LEMMA EnterAwaits ==
  ASSUME AwaitInv, TypeOK', NEW g \in Goroutine,
         CallWait(g) \/ (g \in Helper /\ CallWaitTimeout(g))
  PROVE  AwaitInv' /\ [Await!Next]_(Await!vars)
<1>0. /\ SettersTurn /\ \A k \in Goroutine : Pending(k)
      /\ DOMAIN pc = Goroutine /\ DOMAIN result = Goroutine
      /\ DOMAIN caller = Helper /\ code # NoResult /\ Running \in BOOLEAN
  <2>1. TypeOK /\ SettersTurn /\ \A k \in Goroutine : Pending(k)
    BY DEF AwaitInv
  <2>2. /\ code \in ExitCodes \union {0}
        /\ DOMAIN pc = Goroutine /\ DOMAIN result = Goroutine
        /\ DOMAIN caller = Helper /\ Running \in BOOLEAN
    BY <2>1 DEF TypeOK
  <2> QED BY <2>1, <2>2, CodesAreAnswers
<1>1. /\ pc[g] = "idle" /\ pc' = [pc EXCEPT ![g] = "check"]
      /\ UNCHANGED <<Running, ExitCode, setter, code, result>>
      /\ IF g \in Helper
         THEN caller[g] = "idle" /\ caller' = [caller EXCEPT ![g] = "select"]
         ELSE UNCHANGED caller
  BY DEF CallWait, CallWaitTimeout, Enter, Go, state
<1>2. SettersTurn' /\ \A k \in Goroutine : Pending(k)'
  BY <1>0, <1>1 DEF SettersTurn, Pending
<1>3. Await!Call(g)
  <2>1. {k \in Goroutine : pc'[k] # "idle"}
          = {k \in Goroutine : pc[k] # "idle"} \union {g}
    BY <1>0, <1>1
  <2>2. {k \in Goroutine : pc'[k] \in {"return", "send", "done"}}
          = {k \in Goroutine : pc[k] \in {"return", "send", "done"}}
    BY <1>0, <1>1
  <2> QED BY <1>1, <2>1, <2>2 DEF Await!Call
<1> QED BY <1>2, <1>3 DEF AwaitInv, Await!Next

\* The loop of Wait: the look at Running that ends it is what See is, the read
\* of ExitCode is the answer, and the lock and the condition are not seen.
LEMMA LoopAwaits ==
  ASSUME AwaitInv, TypeOK', NEW g \in Goroutine, WaitStep(g)
  PROVE  AwaitInv' /\ [Await!Next]_(Await!vars)
<1> USE DEF state
<1>0. /\ SettersTurn /\ \A k \in Goroutine : Pending(k)
      /\ DOMAIN pc = Goroutine /\ DOMAIN result = Goroutine
      /\ DOMAIN caller = Helper /\ code # NoResult /\ Running \in BOOLEAN
  <2>1. TypeOK /\ SettersTurn /\ \A k \in Goroutine : Pending(k)
    BY DEF AwaitInv
  <2>2. /\ code \in ExitCodes \union {0}
        /\ DOMAIN pc = Goroutine /\ DOMAIN result = Goroutine
        /\ DOMAIN caller = Helper /\ Running \in BOOLEAN
    BY <2>1 DEF TypeOK
  <2> QED BY <2>1, <2>2, CodesAreAnswers
<1>1. UNCHANGED <<Running, ExitCode, setter, code, caller>>
  BY DEF WaitStep, Check, WaitLock, WaitSleep, WaitWake, WaitUnlock, Return
<1>2. SettersTurn'
  BY <1>0, <1>1 DEF SettersTurn
<1>3. CASE Check(g) /\ ~Running
  <2>1. pc[g] = "check" /\ pc' = [pc EXCEPT ![g] = "return"] /\ result' = result
    BY <1>3 DEF Check, Go
  <2>2. \A k \in Goroutine : Pending(k)'
    BY <1>0, <1>1, <2>1 DEF Pending
  <2>3. /\ {k \in Goroutine : pc'[k] # "idle"} = {k \in Goroutine : pc[k] # "idle"}
        /\ {k \in Goroutine : pc'[k] \in {"return", "send", "done"}}
             = {k \in Goroutine : pc[k] \in {"return", "send", "done"}} \union {g}
    BY <1>0, <2>1
  <2>4. Await!See(g)
    BY <1>1, <1>3, <2>1, <2>3 DEF Await!See
  <2> QED BY <1>2, <2>2, <2>4 DEF AwaitInv, Await!Next
<1>4. CASE \/ Check(g) /\ Running
           \/ WaitLock(g) \/ WaitSleep(g) \/ WaitWake(g) \/ WaitUnlock(g)
  <2>1. PICK to \in {"check", "lock", "sleep", "asleep", "unlock"} :
          /\ pc[g] \in {"check", "lock", "sleep", "asleep", "unlock"}
          /\ pc' = [pc EXCEPT ![g] = to] /\ result' = result
    BY <1>4 DEF Check, WaitLock, WaitSleep, WaitWake, WaitUnlock, Go
  <2>2. \A k \in Goroutine : Pending(k)'
    BY <1>0, <1>1, <2>1 DEF Pending
  <2>3. /\ {k \in Goroutine : pc'[k] # "idle"} = {k \in Goroutine : pc[k] # "idle"}
        /\ {k \in Goroutine : pc'[k] \in {"return", "send", "done"}}
             = {k \in Goroutine : pc[k] \in {"return", "send", "done"}}
    BY <1>0, <2>1
  <2>4. UNCHANGED Await!vars
    BY <1>1, <2>1, <2>3 DEF Await!vars
  <2> QED BY <1>2, <2>2, <2>4 DEF AwaitInv
<1>5. CASE Return(g)
  <2>1. PICK to \in {"send", "done"} :
          /\ pc[g] = "return" /\ pc' = [pc EXCEPT ![g] = to]
          /\ result' = [result EXCEPT ![g] = ExitCode]
    BY <1>5 DEF Return, Go
  <2>2. ExitCode # NoResult /\ ExitCode \in {0, code} /\ result[g] = NoResult
    <3>1. ExitCode \in {0, code}
      BY <1>0 DEF SettersTurn
    <3>2. result[g] = NoResult
      BY <1>0, <2>1 DEF Pending
    <3> QED BY <1>0, <3>1, <3>2
  <2>3. \A k \in Goroutine : Pending(k)'
    BY <1>0, <1>1, <2>1, <2>2 DEF Pending
  <2>4. /\ {k \in Goroutine : pc'[k] # "idle"} = {k \in Goroutine : pc[k] # "idle"}
        /\ {k \in Goroutine : pc'[k] \in {"return", "send", "done"}}
             = {k \in Goroutine : pc[k] \in {"return", "send", "done"}}
    BY <1>0, <2>1
  <2>5. Await!Answer(g)
    BY <1>1, <2>1, <2>2, <2>4 DEF Await!Answer
  <2> QED BY <1>2, <2>3, <2>5 DEF AwaitInv, Await!Next
<1> QED BY <1>3, <1>4, <1>5 DEF WaitStep

\* The select of WaitTimeout.
LEMMA SelectAwaits ==
  ASSUME AwaitInv, TypeOK', NEW h \in Helper, Done(h) \/ TimedOut(h)
  PROVE  AwaitInv' /\ [Await!Next]_(Await!vars)
<1>0. /\ SettersTurn /\ \A k \in Goroutine : Pending(k)
      /\ DOMAIN pc = Goroutine /\ DOMAIN result = Goroutine
      /\ DOMAIN caller = Helper /\ code # NoResult /\ Running \in BOOLEAN
  <2>1. TypeOK /\ SettersTurn /\ \A k \in Goroutine : Pending(k)
    BY DEF AwaitInv
  <2>2. /\ code \in ExitCodes \union {0}
        /\ DOMAIN pc = Goroutine /\ DOMAIN result = Goroutine
        /\ DOMAIN caller = Helper /\ Running \in BOOLEAN
    BY <2>1 DEF TypeOK
  <2> QED BY <2>1, <2>2, CodesAreAnswers
<1>1. /\ UNCHANGED <<Running, ExitCode, setter, code, result>>
      /\ caller[h] = "select"
      /\ \/ /\ pc[h] = "send" /\ pc' = [pc EXCEPT ![h] = "done"]
            /\ caller' = [caller EXCEPT ![h] = "nil"]
         \/ pc' = pc /\ caller' = [caller EXCEPT ![h] = "Timed Out"]
  BY DEF Done, TimedOut, Go, quiet, state
<1>2. SettersTurn' /\ \A k \in Goroutine : Pending(k)'
  <2>1. SettersTurn'
    BY <1>0, <1>1 DEF SettersTurn
  <2>2. \A k \in Goroutine : Pending(k)'
    BY <1>0, <1>1 DEF Pending
  <2> QED BY <2>1, <2>2
<1>3. /\ {k \in Goroutine : pc'[k] # "idle"} = {k \in Goroutine : pc[k] # "idle"}
      /\ {k \in Goroutine : pc'[k] \in {"return", "send", "done"}}
           = {k \in Goroutine : pc[k] \in {"return", "send", "done"}}
  BY <1>0, <1>1
<1>4. pc[h] = "send" => result[h] # NoResult
  BY <1>0 DEF Pending
<1>5. Await!Return(h)
  BY <1>1, <1>3, <1>4 DEF Await!Return
<1> QED BY <1>2, <1>5 DEF AwaitInv, Await!Next

\* Every step keeps the mapping, and is one of AwaitStop or none.
LEMMA NextAwaits ==
  ASSUME AwaitInv, TypeOK', [Next]_vars
  PROVE  AwaitInv' /\ [Await!Next]_(Await!vars)
<1>1. ASSUME NEW h \in Helper, CallWaitTimeout(h)
      PROVE  AwaitInv' /\ [Await!Next]_(Await!vars)
  BY <1>1, EnterAwaits
<1>2. CASE UNCHANGED vars
  BY <1>2 DEF vars, AwaitInv, SettersTurn, Pending, Await!vars
<1> QED BY <1>1, <1>2, SetterAwaits, EnterAwaits, LoopAwaits, SelectAwaits DEF Next

\* Wait and WaitTimeout, with their lock, their condition and the two
\* assignments of each setter, do what AwaitStop promises: an answer follows a
\* look that found the container stopped, and is the last exit code or 0, so
\* never that of a run before the one that was waited for.
THEOREM WaitIsAwaitStop == Spec => WaitKeepsPromise
<1>1. Init => Await!Init
  BY DEF Init, Await!Init
<1>2. IInv => TypeOK
  BY DEF IInv
<1>3. AwaitInv /\ TypeOK' /\ [Next]_vars => AwaitInv' /\ [Await!Next]_(Await!vars)
  BY NextAwaits
<1> QED BY <1>1, <1>2, <1>3, InitInv, NextInv, InitAwaitInv, PTL
        DEF Spec, WaitKeepsPromise, Await!Spec
=============================================================================
