----------------------------- MODULE Container ------------------------------
(***************************************************************************)
(* The life of one container (container.go:294-544): the commands start,   *)
(* stop, kill and restart, each in the goroutine of the connection that    *)
(* sent it, the lxc-start processes they leave behind, and the monitor     *)
(* goroutine of each start.  They share the fields Running, network and    *)
(* cmd of the container with no lock, and the address pool of Leases       *)
(* (Network implements it; the ports of an interface go with its address). *)
(* Waiting for Running to become false is one step here: ContainerState    *)
(* has the condition variable behind it.                                   *)
(*                                                                         *)
(* The n-th Start is known by n: so are its interface, its exec.Cmd, the   *)
(* process it starts and its monitor.                                      *)
(***************************************************************************)
EXTENDS Integers, FiniteSets

CONSTANTS
  Client,      \* the connections that send commands
  Address,     \* what the pool can lease
  MaxStarts,   \* bound on the calls of Start
  World        \* the worlds the daemon may find itself in: which steps may
               \* fail there, and what the clients promise (MayIssue)

Steps == {"mount", "ports", "config", "exec", "lxc-kill", "umount"}

ASSUME ContainerAssumption ==
  /\ MaxStarts \in Nat
  /\ World \subseteq
       [faults : SUBSET Steps,
        promise : SUBSET {"one command", "one start", "start stopped",
                          "only starts"}]

Start == 1 .. MaxStarts
None == 0

VARIABLES
  Running, network, cmd,  \* the fields of Container; a Start or None
  mounted,                \* Mountpoint.Mounted()
  free, leased,           \* the address pool, leased to the Starts' interfaces
  refreed,                \* an interface was released twice
  proc,                   \* the process of a Start
  waited,                 \* cmd.Wait() was called on the exec.Cmd of a Start
  mon, target,            \* the monitor of a Start, and the cmd it waits for
  op, pc, mine, back,     \* a client's command, where it is, its Start, and
                          \* where Kill returns to
  starts,                 \* the Starts begun
  daemon,                 \* "up", or "panicked"
  world

vars == <<Running, network, cmd, mounted, free, leased, refreed, proc, waited,
          mon, target, op, pc, mine, back, starts, daemon, world>>

fields == <<Running, network, cmd, mounted>>
pool == <<free, leased, refreed>>
procs == <<proc, waited>>
monitors == <<mon, target>>
command == <<op, mine, back, starts>>

Pool == INSTANCE Leases WITH Client <- Start, Resource <- Address

Init ==
  /\ Running = FALSE /\ network = None /\ cmd = None /\ mounted = FALSE
  /\ Pool!Init /\ refreed = FALSE
  /\ proc = [n \in Start |-> "none"] /\ waited = [n \in Start |-> FALSE]
  /\ mon = [n \in Start |-> "none"] /\ target = [n \in Start |-> None]
  /\ op = [c \in Client |-> "none"] /\ pc = [c \in Client |-> "idle"]
  /\ mine = [c \in Client |-> None] /\ back = [c \in Client |-> "none"]
  /\ starts = 0 /\ daemon = "up"
  /\ world \in World

Fails(step) == step \in world.faults
Promised(p) == p \in world.promise

\* A nil dereference in any goroutine ends the daemon.
Panic ==
  /\ daemon' = "panicked"
  /\ UNCHANGED <<fields, pool, procs, monitors, command, pc, world>>

At(c, from) == daemon = "up" /\ pc[c] = from
Go(c, from, to) ==
  At(c, from) /\ pc' = [pc EXCEPT ![c] = to] /\ UNCHANGED <<daemon, world>>

-----------------------------------------------------------------------------
(* The commands.                                                            *)

Begins(o) == o \in {"start", "restart"}
Idle(c) == pc[c] \in {"idle", "nil", "error"}
Starting(c) == ~Idle(c) /\ Begins(op[c])

MayIssue(o) ==
  /\ Promised("one command") => \A d \in Client : Idle(d)
  /\ Promised("one start") /\ Begins(o) =>
       \A d \in Client : ~Starting(d)
  /\ Promised("start stopped") /\ o = "start" => ~Running
  /\ Promised("only starts") => o = "start"

Issue(c, o, at) ==
  /\ daemon = "up" /\ Idle(c) /\ MayIssue(o)
  /\ Begins(o) => starts < MaxStarts
  /\ op' = [op EXCEPT ![c] = o] /\ pc' = [pc EXCEPT ![c] = at]
  /\ back' = [back EXCEPT ![c] = IF o = "kill" THEN "end" ELSE "none"]
  /\ starts' = IF Begins(o) THEN starts + 1 ELSE starts
  /\ mine' = [mine EXCEPT ![c] = IF Begins(o) THEN starts + 1 ELSE None]
  /\ UNCHANGED <<fields, pool, procs, monitors, daemon, world>>

CmdStart(c) == Issue(c, "start", "mount")
CmdRestart(c) == Issue(c, "restart", "stop")
CmdStop(c) == Issue(c, "stop", "stop")
CmdKill(c) == Issue(c, "kill", "kill")

-----------------------------------------------------------------------------
(* Start.  It does not look at Running.                                     *)

\* Mutant: Start leaves the mount to whoever mounted it last.
NoEnsureMounted(c) ==
  Go(c, "mount", "network") /\ UNCHANGED <<fields, pool, procs, monitors, command>>

EnsureMounted(c) ==
  /\ \/ Go(c, "mount", "network") /\ mounted' = TRUE
     \/ Fails("mount") /\ ~mounted /\ Go(c, "mount", "error") /\ UNCHANGED mounted
  /\ UNCHANGED <<Running, network, cmd, pool, procs, monitors, command>>

\* allocateNetwork: an interface, or an error that leaves none behind.
AllocateNetwork(c) ==
  /\ Go(c, "network", "config")
  /\ Pool!Acquire(mine[c])
  /\ network' = mine[c]
  /\ UNCHANGED <<Running, cmd, mounted, refreed, procs, monitors, command>>

\* Mutant: AllocatePort fails and the interface is not released.
NoNetworkLeaks(c) ==
  /\ Fails("ports")
  /\ Go(c, "network", "error")
  /\ Pool!Acquire(mine[c])
  /\ UNCHANGED <<fields, refreed, procs, monitors, command>>

NoNetwork(c) ==
  /\ Fails("ports") \/ free = {}
  /\ Go(c, "network", "error")
  /\ UNCHANGED <<fields, pool, procs, monitors, command>>

\* generateLXCConfig, and the parameters: network.Gateway is dereferenced.
GenerateConfig(c) ==
  \/ Go(c, "config", "cmd") /\ network # None
     /\ UNCHANGED <<fields, pool, procs, monitors, command>>
  \/ Go(c, "config", "error") /\ Fails("config")
     /\ UNCHANGED <<fields, pool, procs, monitors, command>>
  \/ At(c, "config") /\ network = None /\ Panic

SetCmd(c) ==
  /\ Go(c, "cmd", "exec")
  /\ cmd' = mine[c]
  /\ UNCHANGED <<Running, network, mounted, pool, procs, monitors, command>>

\* cmd.Start() of whatever container.cmd is by now.
Exec(c) ==
  \/ /\ Go(c, "exec", "run") /\ proc[cmd] = "none"
     /\ proc' = [proc EXCEPT ![cmd] = "alive"]
     /\ UNCHANGED <<fields, pool, waited, monitors, command>>
  \/ /\ Go(c, "exec", "error") /\ (proc[cmd] # "none" \/ Fails("exec"))
     /\ UNCHANGED <<fields, pool, procs, monitors, command>>

\* setRunning(cmd.Process.Pid).
SetRunning(c) ==
  \/ /\ Go(c, "run", "monitor") /\ proc[cmd] # "none"
     /\ Running' = TRUE
     /\ UNCHANGED <<network, cmd, mounted, pool, procs, monitors, command>>
  \/ At(c, "run") /\ proc[cmd] = "none" /\ Panic

\* go monitor(), after the save, which writes a file.
GoMonitor(c) ==
  /\ Go(c, "monitor", "nil")
  /\ mon' = [mon EXCEPT ![mine[c]] = "begin"]
  /\ UNCHANGED <<fields, pool, procs, target, command>>

-----------------------------------------------------------------------------
(* Stop and Kill.                                                           *)

quiet == <<fields, pool, procs, monitors, command>>

\* Restart goes on with Start once Stop has returned nil.
Stopped(c) == IF op[c] = "restart" THEN "mount" ELSE "nil"

StopCheck(c) ==
  /\ Go(c, "stop", IF Running THEN "term" ELSE Stopped(c))
  /\ UNCHANGED quiet

\* lxc-kill: the process may exit on it, or not (see Exit).  When the command
\* fails, Kill comes first and the wait for the exit after it.
Term(c) ==
  \/ Go(c, "term", "wait") /\ UNCHANGED quiet
  \/ /\ Fails("lxc-kill") /\ Go(c, "term", "kill")
     /\ back' = [back EXCEPT ![c] = "wait"]
     /\ UNCHANGED <<fields, pool, procs, monitors, op, mine, starts>>

\* WaitTimeout(10s): nil, or the timer first and then Kill.
StopWaited(c) == ~Running /\ Go(c, "wait", Stopped(c)) /\ UNCHANGED quiet

\* Mutant: Stop does not force a container that outlives the timeout.
TimedOutNoKill(c) == Go(c, "wait", Stopped(c)) /\ UNCHANGED quiet

StopTimedOut(c) ==
  /\ Go(c, "wait", "kill")
  /\ back' = [back EXCEPT ![c] = "end"]
  /\ UNCHANGED <<fields, pool, procs, monitors, op, mine, starts>>

KillEnd(c) == IF back[c] = "wait" THEN "wait" ELSE Stopped(c)

KillCheck(c) ==
  /\ Go(c, "kill", IF Running THEN "sigkill" ELSE KillEnd(c))
  /\ UNCHANGED quiet

\* cmd.Process.Kill(): an error once the process has been waited for, a nil
\* dereference while container.cmd has not been started.
SigKill(c) ==
  \/ /\ Go(c, "sigkill", "killed") /\ proc[cmd] \in {"alive", "exited"}
     /\ proc' = [proc EXCEPT ![cmd] = "exited"]
     /\ UNCHANGED <<fields, pool, waited, monitors, command>>
  \/ Go(c, "sigkill", "error") /\ proc[cmd] = "reaped" /\ UNCHANGED quiet
  \/ At(c, "sigkill") /\ proc[cmd] = "none" /\ Panic

\* Mutant: Kill does not wait for the monitor.
KillNoWait(c) == Go(c, "killed", KillEnd(c)) /\ UNCHANGED quiet

KillWaited(c) == ~Running /\ Go(c, "killed", KillEnd(c)) /\ UNCHANGED quiet

-----------------------------------------------------------------------------
(* The process, and the monitor.                                            *)

\* A process ends of its own accord, or on the SIGTERM of Stop.
Exit(n) ==
  /\ daemon = "up" /\ proc[n] = "alive"
  /\ proc' = [proc EXCEPT ![n] = "exited"]
  /\ UNCHANGED <<fields, pool, waited, monitors, command, pc, daemon, world>>

MonitorAt(n, from) == daemon = "up" /\ mon[n] = from
Monitor(n, from, to) ==
  /\ MonitorAt(n, from)
  /\ mon' = [mon EXCEPT ![n] = to]
  /\ UNCHANGED <<command, pc, daemon, world>>

\* container.cmd.Wait(), which fails at once on a cmd that has not been started
\* or is waited for already.
MonitorWait(n) ==
  /\ MonitorAt(n, "begin")
  /\ IF proc[cmd] = "none" \/ waited[cmd]
     THEN Monitor(n, "begin", "status") /\ UNCHANGED <<waited, target>>
     ELSE /\ Monitor(n, "begin", "reap")
          /\ target' = [target EXCEPT ![n] = cmd]
          /\ waited' = [waited EXCEPT ![cmd] = TRUE]
  /\ UNCHANGED <<fields, pool, proc>>

\* Mutant: the status is reported before the network is released.
MonitorReportsFirst(n) ==
  /\ Monitor(n, "reap", "status") /\ proc[target[n]] = "exited"
  /\ proc' = [proc EXCEPT ![target[n]] = "reaped"] /\ Running' = FALSE
  /\ UNCHANGED <<network, cmd, mounted, pool, waited, target>>

MonitorReap(n) ==
  /\ Monitor(n, "reap", "status") /\ proc[target[n]] = "exited"
  /\ proc' = [proc EXCEPT ![target[n]] = "reaped"]
  /\ UNCHANGED <<fields, pool, waited, target>>

\* container.cmd.ProcessState, nil until that cmd has been waited for.
MonitorStatus(n) ==
  \/ /\ Monitor(n, "status", "release") /\ proc[cmd] = "reaped"
     /\ UNCHANGED <<fields, pool, procs, target>>
  \/ MonitorAt(n, "status") /\ proc[cmd] # "reaped" /\ Panic

\* releaseNetwork: network.Release() first, network = nil after it.
MonitorRelease(n) ==
  \/ /\ Monitor(n, "release", "clear")
     /\ network # None /\ leased[network] # {}
     /\ Pool!Release(network)
     /\ UNCHANGED <<fields, refreed, procs, target>>
  \/ /\ Monitor(n, "release", "clear")
     /\ network # None /\ leased[network] = {}
     /\ refreed' = TRUE
     /\ UNCHANGED <<fields, free, leased, procs, target>>
  \/ MonitorAt(n, "release") /\ network = None /\ Panic

MonitorClear(n) ==
  /\ Monitor(n, "clear", "umount")
  /\ network' = None
  /\ UNCHANGED <<Running, cmd, mounted, pool, procs, target>>

\* Umount, whose error is only logged.
MonitorUmount(n) ==
  /\ Monitor(n, "umount", "stopped")
  /\ mounted' = FALSE \/ (Fails("umount") /\ mounted' = mounted)
  /\ UNCHANGED <<Running, network, cmd, pool, procs, target>>

\* Mutant: the monitor cleans up and reports nothing.
MonitorSilent(n) ==
  /\ Monitor(n, "stopped", "done")
  /\ UNCHANGED <<fields, pool, procs, target>>

\* setStopped and save.
MonitorStopped(n) ==
  /\ Monitor(n, "stopped", "done")
  /\ Running' = FALSE
  /\ UNCHANGED <<network, cmd, mounted, pool, procs, target>>

-----------------------------------------------------------------------------
Issued(c) == CmdStart(c) \/ CmdRestart(c) \/ CmdStop(c) \/ CmdKill(c)

StartStep(c) ==
  \/ EnsureMounted(c) \/ AllocateNetwork(c) \/ NoNetwork(c)
  \/ GenerateConfig(c) \/ SetCmd(c) \/ Exec(c) \/ SetRunning(c) \/ GoMonitor(c)

StopStep(c) ==
  \/ StopCheck(c) \/ Term(c) \/ StopWaited(c) \/ StopTimedOut(c)
  \/ KillCheck(c) \/ SigKill(c) \/ KillWaited(c)

MonitorStep(n) ==
  \/ MonitorWait(n) \/ MonitorReap(n) \/ MonitorStatus(n) \/ MonitorRelease(n)
  \/ MonitorClear(n) \/ MonitorUmount(n) \/ MonitorStopped(n)

Next ==
  \/ \E c \in Client : Issued(c) \/ StartStep(c) \/ StopStep(c)
  \/ \E n \in Start : MonitorStep(n) \/ Exit(n)

\* A goroutine that can go on does: the scheduler is fair to them, the timer of
\* Stop comes, and the kernel carries a SIGKILL out.  A process need not end.
Fairness ==
  /\ \A c \in Client : WF_vars(StartStep(c)) /\ WF_vars(StopStep(c))
  /\ \A n \in Start : WF_vars(MonitorStep(n))

Spec == Init /\ [][Next]_vars /\ Fairness

-----------------------------------------------------------------------------
TypeOK ==
  /\ Running \in BOOLEAN /\ network \in Start \union {None}
  /\ cmd \in Start \union {None} /\ mounted \in BOOLEAN
  /\ free \subseteq Address /\ leased \in [Start -> SUBSET Address]
  /\ refreed \in BOOLEAN
  /\ proc \in [Start -> {"none", "alive", "exited", "reaped"}]
  /\ waited \in [Start -> BOOLEAN]
  /\ mon \in [Start -> {"none", "begin", "reap", "status", "release", "clear",
                        "umount", "stopped", "done"}]
  /\ target \in [Start -> Start \union {None}]
  /\ op \in [Client -> {"none", "start", "restart", "stop", "kill"}]
  /\ pc \in [Client -> {"idle", "mount", "network", "config", "cmd", "exec",
                         "run", "monitor", "stop", "term", "wait", "kill",
                         "sigkill", "killed", "nil", "error"}]
  /\ mine \in [Client -> Start \union {None}]
  /\ back \in [Client -> {"none", "end", "wait"}]
  /\ starts \in 0 .. MaxStarts /\ daemon \in {"up", "panicked"}
  /\ world \in World

Watching(n) == mon[n] \notin {"none", "done"}

Serial == Promised("one command") /\ Promised("start stopped")
OneStartAtATime == Promised("one start") /\ Promised("start stopped")
OrderlyStarts == Serial \/ OneStartAtATime

\* A container is one process.  A start of a running one makes it two, and one
\* monitor's clean-up hits the other: nothing on the way looks at Running
\* (server/server.go:184, container.go:313).
OneProcess ==
  \A n, m \in Start : proc[n] = "alive" /\ proc[m] = "alive" => n = m

\* It is one as long as only a stopped container is started, and one start is
\* under way at a time: restarts that race stops, kills, the timer of Stop and
\* the monitor do not make it two (container.go:486-518).
RestartKeepsOneProcess == OrderlyStarts => OneProcess

\* Under the same promise a process of the container runs on a mounted root
\* and on an address that is its own, from exec to exit, although the monitor
\* of an earlier run unmounts and releases what the container's fields name by
\* then.
ProcessHasResources ==
  OrderlyStarts =>
    \A n \in Start : proc[n] = "alive" => mounted /\ leased[n] # {}

\* ... and no interface goes back to the pool twice: the second time the
\* address would be in the queue twice (network.go:292-304).
NoDoubleRelease == OrderlyStarts => ~refreed

\* To one client at a time the daemon never follows a nil network, cmd.Process
\* or ProcessState of the container, fields that commands and the monitor set
\* and clear in turn.
NoPanic == Serial => daemon = "up"

\* At rest, with the container stopped, nothing of it is left: its addresses
\* are in the pool again (network.go:203, "Atomatically allocate and release
\* networking ports").
AtRest ==
  /\ ~Running /\ \A c \in Client : Idle(c)
  /\ \A n \in Start : ~Watching(n)

AddressReturned == AtRest => free = Address

\* They are when no Start fails between allocateNetwork and exec.
RestingHoldsNothing ==
  OrderlyStarts /\ ~Fails("config") /\ ~Fails("exec") => AddressReturned

\* When stop or kill says that it is done, to one client at a time, the process
\* is gone, its address is back, and the root is unmounted: the next start
\* finds nothing of the last.  (A Start that fails behind the mount leaves the
\* root mounted.)
Ends(c) == op[c] \in {"stop", "kill"} /\ pc[c] # "nil" /\ pc'[c] = "nil"
StartsOnceMounted == Address # {} /\ world.faults \subseteq {"mount", "lxc-kill"}

StopLeavesNothing ==
  [][\A c \in Client : Serial /\ StartsOnceMounted /\ Ends(c) =>
       /\ ~Running' /\ ~mounted' /\ network' = None /\ free' = Address
       /\ \A n \in Start : proc'[n] # "alive"]_vars

Lives == \E n \in Start : proc[n] = "alive"

\* No command waits for ever for a Running that nobody clears, whether it comes
\* while the monitor is not there yet, while it cleans up, or when it has
\* reported (container.go:354-356, 465-508).  Sent alone each returns, whatever
\* step fails and whether or not the process heeds lxc-kill.  Beside others each
\* returns once the process is gone; only a later run keeps Wait asleep
\* (container.go:524), and SigKill may meet the nil Process of one.
CommandsReturn ==
  \A c \in Client :
    /\ (Serial /\ ~Idle(c)) ~> Idle(c)
    /\ (OneStartAtATime /\ ~Idle(c)) ~> (Idle(c) \/ Lives \/ daemon # "up")

\* Where starts are orderly, the container does what Registry takes it to do,
\* though its monitor, its commands and its fields come and go step by step:
\* one run at a time, a root under its process, and a report that comes after
\* the umount, which comes after the exit (container.go:313-357, 445-468).
Phase ==
  IF \E n \in Start : mon[n] = "stopped" THEN "unmounted"
  ELSE IF \/ \E n \in Start : Watching(n)
          \/ \E c \in Client : pc[c] \in {"run", "monitor"}
  THEN "up" ELSE "stopped"

Life == INSTANCE Lifecycle WITH
          MayDie <- FALSE, root <- mounted, process <- Lives, run <- Phase

IsLifecycle == Life!Init /\ [][OrderlyStarts => Life!Next]_(Life!vars)
=============================================================================
