------------------------------ MODULE AwaitStop -------------------------------
(***************************************************************************)
(* What Wait and WaitTimeout of a container promise, whatever lock and     *)
(* condition variable they use (container.go:520-544): an answer comes     *)
(* only from who has found the container stopped since it was called, and  *)
(* it is the exit code of the last stop or the 0 that a start puts in its  *)
(* place, never the code of a run before.                                  *)
(***************************************************************************)
EXTENDS Integers

CONSTANTS Waiter, Helper, ExitCodes, NoResult

VARIABLES running,
          last,            \* the exit code of the last stop
          called, saw,     \* who has called, and has found it stopped since
          result, caller   \* what it was told, and WaitTimeout's answer

vars == <<running, last, called, saw, result, caller>>

Init ==
  /\ running = FALSE /\ last = 0 /\ called = {} /\ saw = {}
  /\ result = [g \in Waiter \union Helper |-> NoResult]
  /\ caller = [h \in Helper |-> "idle"]

Start ==
  /\ ~running /\ running' = TRUE
  /\ UNCHANGED <<last, called, saw, result, caller>>

Stop ==
  /\ running /\ running' = FALSE
  /\ last' \in ExitCodes
  /\ UNCHANGED <<called, saw, result, caller>>

Call(g) ==
  /\ g \notin called /\ called' = called \union {g}
  /\ IF g \in Helper
     THEN caller[g] = "idle" /\ caller' = [caller EXCEPT ![g] = "select"]
     ELSE UNCHANGED caller
  /\ UNCHANGED <<running, last, saw, result>>

See(g) ==
  /\ g \in called \ saw /\ ~running
  /\ saw' = saw \union {g}
  /\ UNCHANGED <<running, last, called, result, caller>>

Answer(g) ==
  /\ g \in saw /\ result[g] = NoResult
  /\ \E code \in {0, last} : result' = [result EXCEPT ![g] = code]
  /\ UNCHANGED <<running, last, called, saw, caller>>

\* The select of WaitTimeout: the answer, or the timer.
Return(h) ==
  /\ caller[h] = "select"
  /\ \/ result[h] # NoResult /\ caller' = [caller EXCEPT ![h] = "nil"]
     \/ caller' = [caller EXCEPT ![h] = "Timed Out"]
  /\ UNCHANGED <<running, last, called, saw, result>>

Next ==
  \/ Start \/ Stop
  \/ \E g \in Waiter \union Helper : Call(g) \/ See(g) \/ Answer(g)
  \/ \E h \in Helper : Return(h)

Spec == Init /\ [][Next]_vars
=============================================================================
