------------------------------ MODULE Lifecycle ------------------------------
(***************************************************************************)
(* What is seen of a container from outside while it is started, stopped,  *)
(* killed, restarted, mounted and unmounted: its root, the process on it,  *)
(* and its run, from the exec of a start to the report of the monitor      *)
(* (container.go:346-357, 445-466, store.go:252-360).  One run at a time,  *)
(* begun on a mounted root or without a process; the monitor unmounts once *)
(* the process has gone, and reports after that.  Umount and mount come    *)
(* when they like: umount may succeed under a process, which keeps its own *)
(* copy of the mount.  Container and Registry both implement it.           *)
(***************************************************************************)
CONSTANT MayDie   \* the daemon may die, and leave a process to itself

VARIABLES root, process,   \* mounted, alive
          run              \* "stopped", "up" or "unmounted"

vars == <<root, process, run>>

Init == ~root /\ ~process /\ run = "stopped"

Mount == root' = TRUE /\ UNCHANGED <<process, run>>

Unmount == root' = FALSE /\ UNCHANGED <<process, run>>

\* On a root that was unmounted again there is nothing to execute.
Begin ==
  /\ run = "stopped" /\ run' = "up"
  /\ process' \in {process, process \/ root}
  /\ UNCHANGED root

Exit == process /\ process' = FALSE /\ UNCHANGED <<root, run>>

\* The monitor's umount may fail.
MonitorUmount ==
  /\ run = "up" /\ ~process
  /\ run' = "unmounted"
  /\ root' \in {FALSE, root}
  /\ UNCHANGED process

Report ==
  /\ run = "unmounted" /\ run' = "stopped"
  /\ UNCHANGED <<root, process>>

\* The next daemon takes every container for stopped, and a process that is
\* left for nobody's.
Die == MayDie /\ run' = "stopped" /\ process' = FALSE /\ UNCHANGED root

Next == Mount \/ Unmount \/ Begin \/ Exit \/ MonitorUmount \/ Report \/ Die

Spec == Init /\ [][Next]_vars
=============================================================================
