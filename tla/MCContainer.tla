----------------------------- MODULE MCContainer -----------------------------
(* Small instances of Container for TLC: the worlds of its runs. *)
EXTENDS Container

Early == {"mount", "ports", "lxc-kill"}
LateSteps == {"config", "exec", "umount"}
OneCommand == {"one command", "start stopped"}
OneStart == {"one start", "start stopped"}

InWorld(fs, ps) == [faults |-> fs, promise |-> ps]

\* One command at a time, and commands at will but one start, where the early
\* steps may fail and where the late ones may; starts of running containers.
Worlds ==
  {InWorld(fs, ps) : fs \in {Early \ {"ports"}, LateSteps}, ps \in {OneCommand}}
  \union {InWorld(fs, OneStart) : fs \in {Early, LateSteps}}
  \union {InWorld({"exec", "umount"}, {"only starts"})}
=============================================================================
