-------------------------------- MODULE Cond --------------------------------
(* A sync.Mutex and the sync.Cond on it, as the Go library provides them:   *)
(* a goroutine that waits joins the sleepers before it lets go of the lock, *)
(* Broadcast wakes all sleepers, Signal one, and neither is remembered.     *)
CONSTANT NoOne

VARIABLES lock,      \* the goroutine that holds the mutex, or NoOne
          sleeping   \* the goroutines inside cond.Wait

Lock(g) == lock = NoOne /\ lock' = g /\ UNCHANGED sleeping
Unlock(g) == lock = g /\ lock' = NoOne /\ UNCHANGED sleeping

Sleep(g) ==
  /\ lock = g
  /\ lock' = NoOne
  /\ sleeping' = sleeping \union {g}

\* A woken goroutine takes the lock again before cond.Wait returns.
Wake(g) == g \notin sleeping /\ Lock(g)

Broadcast == sleeping' = {} /\ UNCHANGED lock

Signal ==
  /\ IF sleeping = {} THEN UNCHANGED sleeping
     ELSE \E g \in sleeping : sleeping' = sleeping \ {g}
  /\ UNCHANGED lock
=============================================================================
