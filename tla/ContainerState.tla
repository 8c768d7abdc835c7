--------------------------- MODULE ContainerState ---------------------------
(***************************************************************************)
(* The State of a container (state.go) and the goroutines that wait for it *)
(* to stop: Container.Wait and Container.WaitTimeout (container.go:520-544)*)
(* against setRunning, called by Start, and setStopped, called by the      *)
(* container's monitor.  Running and ExitCode are plain fields that are    *)
(* read and written outside the lock; the lock only guards the condition.  *)
(***************************************************************************)
EXTENDS Integers, FiniteSets

CONSTANTS
  Waiter,     \* goroutines that call Wait
  Helper,     \* goroutines that WaitTimeout starts to call Wait
  ExitCodes,  \* what a process can exit with
  MaxRuns,    \* bound on the runs of the container
  NoOne

ASSUME StateAssumption ==
  /\ Waiter \intersect Helper = {} /\ NoOne \notin Waiter \union Helper
  /\ ExitCodes \subseteq Nat /\ MaxRuns \in Nat

Goroutine == Waiter \union Helper
Setter == "setter"     \* Start, then monitor: one after the other

VARIABLES
  Running, ExitCode,  \* State.Running, State.ExitCode
  lock, sleeping,     \* stateChangeLock, stateChangeCond
  setter,             \* where setRunning and setStopped are
  code,               \* the argument of setStopped
  runs,               \* the runs begun so far
  pc,                 \* where Wait is, per goroutine
  result,             \* what Wait returned
  caller,             \* where the caller of WaitTimeout is, per helper
  stops, entered      \* history: setStopped()s begun, and how many of them
                      \* when a Wait that found the container running began

vars == <<Running, ExitCode, lock, sleeping, setter, code, runs, pc, result,
          caller, stops, entered>>

cond == INSTANCE Cond

NoResult == -1

Init ==
  /\ Running = FALSE /\ ExitCode = 0
  /\ lock = NoOne /\ sleeping = {}
  /\ setter = "stopped" /\ code = 0 /\ runs = 0
  /\ pc = [g \in Goroutine |-> "idle"]
  /\ result = [g \in Goroutine |-> NoResult]
  /\ caller = [h \in Helper |-> "idle"]
  /\ stops = 0 /\ entered = [g \in Goroutine |-> -1]

-----------------------------------------------------------------------------
(* setRunning and setStopped: two assignments, then broadcast().            *)

waiters == <<pc, result, caller, entered>>
Set(from, to) == setter = from /\ setter' = to

MarkRunning ==
  /\ Set("stopped", "zero code") /\ runs < MaxRuns
  /\ Running' = TRUE /\ runs' = runs + 1
  /\ UNCHANGED <<ExitCode, lock, sleeping, code, stops, waiters>>

ZeroExitCode ==
  /\ Set("zero code", "lock up")
  /\ ExitCode' = 0
  /\ UNCHANGED <<Running, lock, sleeping, code, runs, stops, waiters>>

\* The process has exited and the monitor has cleaned up after it.
MarkStopped ==
  /\ Set("running", "set code")
  /\ Running' = FALSE /\ code' \in ExitCodes /\ stops' = stops + 1
  /\ UNCHANGED <<ExitCode, lock, sleeping, runs, waiters>>

SetExitCode ==
  /\ Set("set code", "lock down")
  /\ ExitCode' = code
  /\ UNCHANGED <<Running, lock, sleeping, code, runs, stops, waiters>>

plain == <<Running, ExitCode, code, runs, stops, waiters>>

BroadcastLock ==
  /\ \/ Set("lock up", "broadcast up") \/ Set("lock down", "broadcast down")
  /\ cond!Lock(Setter)
  /\ UNCHANGED plain

\* Mutant: Signal in the place of Broadcast.
SignalOnly ==
  /\ \/ Set("broadcast up", "unlock up") \/ Set("broadcast down", "unlock down")
  /\ cond!Signal
  /\ UNCHANGED plain

Broadcast ==
  /\ \/ Set("broadcast up", "unlock up") \/ Set("broadcast down", "unlock down")
  /\ cond!Broadcast
  /\ UNCHANGED plain

BroadcastUnlock ==
  /\ \/ Set("unlock up", "running") \/ Set("unlock down", "stopped")
  /\ cond!Unlock(Setter)
  /\ UNCHANGED plain

SetterStep ==
  \/ ZeroExitCode \/ MarkStopped \/ SetExitCode
  \/ BroadcastLock \/ Broadcast \/ BroadcastUnlock

-----------------------------------------------------------------------------
(* Wait: for Running { wait() }; return ExitCode.                           *)

state == <<Running, ExitCode, setter, code, runs, stops>>
Go(g, from, to) == pc[g] = from /\ pc' = [pc EXCEPT ![g] = to]

Enter(g) ==
  /\ Go(g, "idle", "check")
  /\ entered' = [entered EXCEPT ![g] = IF Running THEN stops ELSE -1]
  /\ UNCHANGED <<state, lock, sleeping, result>>

CallWait(g) == g \in Waiter /\ Enter(g) /\ UNCHANGED caller

Check(g) ==
  /\ Go(g, "check", IF Running THEN "lock" ELSE "return")
  /\ UNCHANGED <<state, lock, sleeping, result, caller, entered>>

WaitLock(g) ==
  /\ Go(g, "lock", "sleep")
  /\ cond!Lock(g)
  /\ UNCHANGED <<state, result, caller, entered>>

WaitSleep(g) ==
  /\ Go(g, "sleep", "asleep")
  /\ cond!Sleep(g)
  /\ UNCHANGED <<state, result, caller, entered>>

WaitWake(g) ==
  /\ Go(g, "asleep", "unlock")
  /\ cond!Wake(g)
  /\ UNCHANGED <<state, result, caller, entered>>

\* Mutant: if in the place of for.
WaitUnlockOnce(g) ==
  /\ Go(g, "unlock", "return")
  /\ cond!Unlock(g)
  /\ UNCHANGED <<state, result, caller, entered>>

WaitUnlock(g) ==
  /\ Go(g, "unlock", "check")
  /\ cond!Unlock(g)
  /\ UNCHANGED <<state, result, caller, entered>>

Return(g) ==
  /\ Go(g, "return", IF g \in Helper THEN "send" ELSE "done")
  /\ result' = [result EXCEPT ![g] = ExitCode]
  /\ UNCHANGED <<state, lock, sleeping, caller, entered>>

-----------------------------------------------------------------------------
(* WaitTimeout: a helper calls Wait and sends on a channel without a buffer *)
(* while the caller selects between that channel and a timer.               *)

quiet == <<state, lock, sleeping, result, entered>>

CallWaitTimeout(h) ==
  /\ caller[h] = "idle"
  /\ caller' = [caller EXCEPT ![h] = "select"]
  /\ Enter(h)

Done(h) ==
  /\ caller[h] = "select"
  /\ caller' = [caller EXCEPT ![h] = "nil"]
  /\ Go(h, "send", "done")
  /\ UNCHANGED quiet

TimedOut(h) ==
  /\ caller[h] = "select"
  /\ caller' = [caller EXCEPT ![h] = "Timed Out"]
  /\ UNCHANGED <<quiet, pc>>

WaitStep(g) ==
  \/ Check(g) \/ WaitLock(g) \/ WaitSleep(g) \/ WaitWake(g) \/ WaitUnlock(g)
  \/ Return(g)

Next ==
  \/ MarkRunning \/ SetterStep
  \/ \E g \in Goroutine : CallWait(g) \/ WaitStep(g)
  \/ \E h \in Helper : CallWaitTimeout(h) \/ Done(h) \/ TimedOut(h)

\* The Go scheduler runs every goroutine that can run, timers fire, and a
\* process that was started ends or is killed.
Fairness ==
  /\ WF_vars(SetterStep)
  /\ \A g \in Goroutine : WF_vars(WaitStep(g))
  /\ \A h \in Helper : WF_vars(Done(h)) /\ WF_vars(TimedOut(h))

Spec == Init /\ [][Next]_vars /\ Fairness

-----------------------------------------------------------------------------
TypeOK ==
  /\ Running \in BOOLEAN
  /\ ExitCode \in ExitCodes \union {0} /\ code \in ExitCodes \union {0}
  /\ lock \in Goroutine \union {Setter, NoOne} /\ sleeping \subseteq Goroutine
  /\ setter \in {"stopped", "zero code", "lock up", "broadcast up", "unlock up",
                "running", "set code", "lock down", "broadcast down", "unlock down"}
  /\ runs \in 0 .. MaxRuns /\ stops \in Nat
  /\ entered \in [Goroutine -> Nat \union {-1}]
  /\ pc \in [Goroutine -> {"idle", "check", "lock", "sleep", "asleep",
                           "unlock", "return", "send", "done"}]
  /\ result \in [Goroutine -> ExitCodes \union {0, NoResult}]
  /\ caller \in [Helper -> {"idle", "select", "nil", "Timed Out"}]

\* A Wait that found the container running returns only when the container
\* has stopped since: the broadcast of setRunning, which wakes the waiters
\* too, does not end it (the loop of container.go:524).
NoEarlyReturn ==
  \A g \in Goroutine :
    result[g] # NoResult /\ entered[g] # -1 => stops > entered[g]

\* A waiter that is already asleep when its container's last run ends is woken,
\* however many wait with it, and returns the exit code of that run, although
\* Running is cleared before ExitCode is set and neither is read under the
\* lock (state.go:44-55).
SleepersGetCode ==
  \A g \in Goroutine :
    (/\ g \in sleeping /\ runs = MaxRuns
     /\ setter \in {"running", "set code", "lock down"})
      ~> pc[g] \in {"send", "done"} /\ result[g] = code

\* Wait and WaitTimeout keep their promise: the two assignments of setRunning
\* and of setStopped, the lock and the broadcasts behind it are not seen
\* (container.go:520-544, state.go:36-61).
Await == INSTANCE AwaitStop WITH
           running <- Running, last <- code,
           called <- {g \in Goroutine : pc[g] # "idle"},
           saw <- {g \in Goroutine : pc[g] \in {"return", "send", "done"}}

WaitKeepsPromise == Await!Spec

\* "Wait blocks until the container stops running, then returns ..."
\* (container.go:520): once a Wait has begun, it ends.  The check of Running
\* and the cond.Wait it leads to are not one critical section, so a stop in
\* between is missed.
WaitReturns ==
  \A g \in Waiter : pc[g] = "check" ~> pc[g] = "done"
=============================================================================
