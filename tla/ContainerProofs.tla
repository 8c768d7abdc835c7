--------------------------- MODULE ContainerProofs --------------------------
(***************************************************************************)
(* What holds of Container for any number of clients, starts and           *)
(* addresses.  In every world: its types.  In the orderly worlds, where    *)
(* only a stopped container is started and once at a time: that it is one  *)
(* process, with its resources, whoever stops and kills it, and that in    *)
(* the end nothing of it is left.                                          *)
(***************************************************************************)
EXTENDS Container, TLAPS

InStart == {"mount", "network", "config", "cmd", "exec", "run", "monitor"}

\* A client inside Start has a Start of its own, also when it got there from
\* the Stop of a Restart.
HasStart ==
  \A c \in Client :
    /\ Begins(op[c]) => mine[c] \in Start
    /\ pc[c] \in InStart => Begins(op[c])

IInv == TypeOK /\ HasStart

\* The number of starts is a natural number.
LEMMA BoundIsNat == MaxStarts \in Nat
BY ContainerAssumption, Zenon DEF ContainerAssumption

\* A container that was never started satisfies the invariant.
LEMMA InitInv == Init => IInv
<1> SUFFICES ASSUME Init PROVE IInv
  OBVIOUS
<1>1. HasStart
  BY DEF Init, HasStart, Begins, InStart
<1>2. 0 \in 0 .. MaxStarts
  BY BoundIsNat
<1>3. free \subseteq Address /\ leased \in [Start -> SUBSET Address]
  BY DEF Init, Pool!Init
<1> QED BY <1>1, <1>2, <1>3 DEF Init, IInv, TypeOK

\* A Start that is begun is one of the bound.
LEMMA NextStart ==
  ASSUME starts \in 0 .. MaxStarts, starts < MaxStarts
  PROVE  starts + 1 \in 0 .. MaxStarts /\ starts + 1 \in Start
BY BoundIsNat DEF Start

\* A call of a client and its first check keep the invariant.
LEMMA IssueInv ==
  ASSUME IInv, NEW c \in Client, NEW o \in {"start", "restart", "stop", "kill"},
         NEW at \in {"mount", "stop", "kill"}, at = "mount" => o = "start",
         Issue(c, o, at)
  PROVE  IInv'
<1>1. TypeOK'
  <2>1. starts' \in 0 .. MaxStarts /\ (Begins(o) => starts + 1 \in Start)
    BY NextStart DEF Issue, IInv, TypeOK
  <2>2. mine' \in [Client -> Start \union {None}]
    BY <2>1 DEF Issue, IInv, TypeOK
  <2> QED BY <2>1, <2>2
        DEF Issue, IInv, TypeOK, fields, pool, procs, monitors
<1>2. HasStart'
  <2>1. Begins(o) => starts + 1 \in Start
    BY NextStart DEF Issue, IInv, TypeOK
  <2> QED BY <2>1 DEF Issue, IInv, TypeOK, HasStart, Begins, InStart
<1> QED BY <1>1, <1>2 DEF IInv

\* Panic ends the daemon and nothing else.
LEMMA PanicInv == ASSUME IInv, Panic PROVE IInv'
BY DEF Panic, IInv, TypeOK, HasStart, fields, pool, procs, monitors, command

\* What a client's goroutine keeps by moving on.
LEMMA GoInv ==
  ASSUME IInv, NEW c \in Client, NEW from, NEW to \in InStart \union
           {"stop", "term", "wait", "kill", "sigkill", "killed", "nil", "error"},
         Go(c, from, to), UNCHANGED <<op, mine>>,
         to \in InStart => from \in InStart \/ Begins(op[c])
  PROVE  HasStart' /\ pc' \in [Client -> {"idle", "mount", "network", "config",
           "cmd", "exec", "run", "monitor", "stop", "term", "wait", "kill",
           "sigkill", "killed", "nil", "error"}] /\ UNCHANGED <<daemon, world>>
<1>1. \A d \in Client : pc'[d] \in InStart => Begins(op'[d])
  BY DEF Go, At, IInv, TypeOK, HasStart
<1> QED BY <1>1 DEF Go, At, IInv, TypeOK, HasStart, InStart

\* Every step of Container.Start, successful or not, keeps it.
LEMMA StartStepInv ==
  ASSUME IInv, NEW c \in Client, StartStep(c)
  PROVE  IInv'
<1> USE DEF IInv
<1>1. CASE EnsureMounted(c)
  BY <1>1, GoInv
     DEF EnsureMounted, TypeOK, InStart, pool, procs, monitors, command
<1>2. CASE AllocateNetwork(c)
  <2>1. mine[c] \in Start
    BY <1>2 DEF AllocateNetwork, Go, At, HasStart, InStart
  <2>2. free' \subseteq Address /\ leased' \in [Start -> SUBSET Address]
    <3>1. PICK r \in free : /\ free' = free \ {r}
                            /\ leased' = [leased EXCEPT ![mine[c]] = @ \union {r}]
      BY <1>2 DEF AllocateNetwork, Pool!Acquire
    <3>2. free \subseteq Address /\ leased \in [Start -> SUBSET Address]
      BY DEF TypeOK
    <3> QED BY <2>1, <3>1, <3>2
  <2> QED BY <1>2, <2>1, <2>2, GoInv
        DEF AllocateNetwork, TypeOK, InStart, procs, monitors, command
<1>3. CASE NoNetwork(c)
  BY <1>3, GoInv
     DEF NoNetwork, TypeOK, InStart, fields, pool, procs, monitors, command
<1>4. CASE GenerateConfig(c)
  <2>1. CASE Panic
    BY <2>1, PanicInv
  <2>2. ASSUME NEW to \in {"cmd", "error"}, Go(c, "config", to),
               UNCHANGED <<fields, pool, procs, monitors, command>>
        PROVE  IInv'
    BY <2>2, GoInv
       DEF TypeOK, InStart, fields, pool, procs, monitors, command
  <2> QED BY <1>4, <2>1, <2>2 DEF GenerateConfig
<1>5. CASE SetCmd(c)
  <2>1. mine[c] \in Start
    BY <1>5 DEF SetCmd, Go, At, HasStart, InStart
  <2> QED BY <1>5, <2>1, GoInv
        DEF SetCmd, TypeOK, InStart, pool, procs, monitors, command
<1>6. CASE Exec(c)
  <2>1. CASE /\ Go(c, "exec", "run")
             /\ proc' = [proc EXCEPT ![cmd] = "alive"]
             /\ UNCHANGED <<fields, pool, waited, monitors, command>>
    BY <2>1, GoInv
       DEF TypeOK, InStart, fields, pool, monitors, command
  <2>2. CASE /\ Go(c, "exec", "error")
             /\ UNCHANGED <<fields, pool, procs, monitors, command>>
    BY <2>2, GoInv
       DEF TypeOK, InStart, fields, pool, procs, monitors, command
  <2> QED BY <1>6, <2>1, <2>2 DEF Exec
<1>7. CASE SetRunning(c)
  <2>1. CASE Panic
    BY <2>1, PanicInv
  <2>2. CASE /\ Go(c, "run", "monitor")
             /\ Running' = TRUE
             /\ UNCHANGED <<network, cmd, mounted, pool, procs, monitors, command>>
    BY <2>2, GoInv DEF TypeOK, InStart, pool, procs, monitors, command
  <2> QED BY <1>7, <2>1, <2>2 DEF SetRunning
<1>8. CASE GoMonitor(c)
  <2>1. mine[c] \in Start
    BY <1>8 DEF GoMonitor, Go, At, HasStart, InStart
  <2> QED BY <1>8, <2>1, GoInv
        DEF GoMonitor, TypeOK, InStart, fields, pool, procs, command
<1> QED BY <1>1, <1>2, <1>3, <1>4, <1>5, <1>6, <1>7, <1>8 DEF StartStep

\* Where Stop and Kill return to.
LEMMA StoppedTo ==
  ASSUME NEW c \in Client
  PROVE  /\ Stopped(c) \in {"mount", "nil"}
         /\ KillEnd(c) \in {"mount", "nil", "wait"}
         /\ Stopped(c) = "mount" \/ KillEnd(c) = "mount" => Begins(op[c])
BY DEF Stopped, KillEnd, Begins

\* Every step of Stop, Kill and Restart keeps it.
LEMMA StopStepInv ==
  ASSUME IInv, NEW c \in Client, StopStep(c)
  PROVE  IInv'
<1> USE DEF IInv
<1>1. ASSUME NEW from, NEW to \in {"term", "wait", "kill", "sigkill", "killed",
                                   "error", Stopped(c), KillEnd(c)},
             Go(c, from, to), UNCHANGED quiet
      PROVE  IInv'
  BY <1>1, GoInv, StoppedTo
     DEF TypeOK, InStart, quiet, fields, pool, procs, monitors, command
<1>2. CASE StopCheck(c)
  BY <1>1, <1>2 DEF StopCheck
<1>3. ASSUME NEW from, NEW b \in {"wait", "end"},
             Go(c, from, "kill"), back' = [back EXCEPT ![c] = b],
             UNCHANGED <<fields, pool, procs, monitors, op, mine, starts>>
      PROVE  IInv'
  BY <1>3, GoInv
     DEF TypeOK, InStart, fields, pool, procs, monitors
<1>4. CASE Term(c)
  BY <1>1, <1>3, <1>4 DEF Term
<1>5. CASE StopWaited(c)
  BY <1>1, <1>5 DEF StopWaited
<1>6. CASE StopTimedOut(c)
  BY <1>3, <1>6 DEF StopTimedOut
<1>7. CASE KillCheck(c)
  BY <1>1, <1>7 DEF KillCheck
<1>8. CASE SigKill(c)
  <2>1. CASE /\ Go(c, "sigkill", "killed")
             /\ proc' = [proc EXCEPT ![cmd] = "exited"]
             /\ UNCHANGED <<fields, pool, waited, monitors, command>>
    BY <2>1, GoInv
       DEF TypeOK, InStart, fields, pool, monitors, command
  <2> QED BY <1>1, <1>8, <2>1, PanicInv DEF SigKill
<1>9. CASE KillWaited(c)
  BY <1>1, <1>9 DEF KillWaited
<1> QED BY <1>2, <1>4, <1>5, <1>6, <1>7, <1>8, <1>9 DEF StopStep

\* A monitor that goes on leaves the clients alone.
LEMMA MonitorKeeps ==
  ASSUME IInv, NEW n \in Start, NEW from,
         NEW to \in {"reap", "status", "release", "clear", "umount", "stopped"},
         Monitor(n, from, to)
  PROVE  /\ HasStart'
         /\ mon' \in [Start -> {"none", "begin", "reap", "status", "release",
                                "clear", "umount", "stopped", "done"}]
         /\ UNCHANGED <<command, pc, daemon, world>>
BY DEF Monitor, MonitorAt, IInv, TypeOK, HasStart, command

\* Every step of the monitor of a start keeps it.
LEMMA MonitorStepInv ==
  ASSUME IInv, NEW n \in Start, MonitorStep(n)
  PROVE  IInv'
<1> USE DEF IInv
<1>1. CASE MonitorWait(n)
  <2>1. CASE Monitor(n, "begin", "status") /\ UNCHANGED <<waited, target>>
    BY <1>1, <2>1, MonitorKeeps DEF MonitorWait, TypeOK, fields, pool, command
  <2>2. CASE /\ Monitor(n, "begin", "reap")
             /\ target' = [target EXCEPT ![n] = cmd]
             /\ waited' = [waited EXCEPT ![cmd] = TRUE]
    BY <1>1, <2>2, MonitorKeeps DEF MonitorWait, TypeOK, fields, pool, command
  <2> QED BY <1>1, <2>1, <2>2 DEF MonitorWait
<1>2. CASE MonitorReap(n)
  <2>1. /\ HasStart'
        /\ mon' \in [Start -> {"none", "begin", "reap", "status", "release",
                               "clear", "umount", "stopped", "done"}]
        /\ UNCHANGED <<command, pc, daemon, world>>
    BY <1>2, MonitorKeeps DEF MonitorReap, fields
  <2>2. proc' \in [Start -> {"none", "alive", "exited", "reaped"}]
    BY <1>2 DEF MonitorReap, TypeOK
  <2> QED BY <1>2, <2>1, <2>2 DEF MonitorReap, TypeOK, fields, pool, command
<1>3. CASE MonitorStatus(n)
  <2>1. CASE /\ Monitor(n, "status", "release")
             /\ UNCHANGED <<fields, pool, procs, target>>
    BY <2>1, MonitorKeeps DEF TypeOK, fields, pool, procs, command
  <2> QED BY <1>3, <2>1, PanicInv DEF MonitorStatus
<1>4. CASE MonitorRelease(n)
  <2>1. CASE /\ Monitor(n, "release", "clear") /\ network # None
             /\ Pool!Release(network)
             /\ UNCHANGED <<fields, refreed, procs, target>>
    <3>1. free' \subseteq Address /\ leased' \in [Start -> SUBSET Address]
      <4>1. PICK r \in leased[network] :
              /\ free' = free \union {r}
              /\ leased' = [leased EXCEPT ![network] = @ \ {r}]
        BY <2>1 DEF Pool!Release
      <4>2. /\ free \subseteq Address /\ leased \in [Start -> SUBSET Address]
            /\ network \in Start
        BY <2>1 DEF TypeOK
      <4> QED BY <4>1, <4>2
    <3> QED BY <2>1, <3>1, MonitorKeeps DEF TypeOK, fields, procs, command
  <2>2. CASE /\ Monitor(n, "release", "clear") /\ refreed' = TRUE
             /\ UNCHANGED <<fields, free, leased, procs, target>>
    BY <2>2, MonitorKeeps DEF TypeOK, fields, procs, command
  <2> QED BY <1>4, <2>1, <2>2, PanicInv DEF MonitorRelease
<1>5. CASE MonitorClear(n)
  BY <1>5, MonitorKeeps DEF MonitorClear, TypeOK, pool, procs, command
<1>6. CASE MonitorUmount(n)
  BY <1>6, MonitorKeeps DEF MonitorUmount, TypeOK, pool, procs, command
<1>7. CASE MonitorStopped(n)
  BY <1>7 DEF MonitorStopped, Monitor, MonitorAt, TypeOK, HasStart,
              pool, procs, command
<1> QED BY <1>1, <1>2, <1>3, <1>4, <1>5, <1>6, <1>7 DEF MonitorStep

\* The end of a process keeps it.
LEMMA ExitInv == ASSUME IInv, NEW n \in Start, Exit(n) PROVE IInv'
BY DEF Exit, IInv, TypeOK, HasStart, fields, pool, monitors, command

\* So does any step of the system, and a stutter.
LEMMA NextInv == IInv /\ [Next]_vars => IInv'
<1> SUFFICES ASSUME IInv, [Next]_vars PROVE IInv'
  OBVIOUS
<1>1. CASE UNCHANGED vars
  BY <1>1 DEF vars, IInv, TypeOK, HasStart
<1>2. ASSUME NEW c \in Client, Issued(c) PROVE IInv'
  BY <1>2, IssueInv DEF Issued, CmdStart, CmdRestart, CmdStop, CmdKill
<1> QED BY <1>1, <1>2, StartStepInv, StopStepInv, MonitorStepInv, ExitInv DEF Next

\* The fields of the container and of its goroutines have their types, in
\* particular every client inside Start works on a Start of the bound, whatever
\* the clients do and whichever steps fail (container.go:313-518).
THEOREM ContainerTypeOK == Spec => []TypeOK
<1>1. IInv => TypeOK
  BY DEF IInv
<1> QED BY <1>1, InitInv, NextInv, PTL DEF Spec

-----------------------------------------------------------------------------
(* What holds of the orderly worlds, where a container is started only when *)
(* it is stopped and once at a time.                                        *)

\* From allocateNetwork on a Start has an interface, and so has the monitor
\* until it releases it.
Late == {"config", "cmd", "exec", "run", "monitor"}
Holds == {"begin", "reap", "status", "release"}

OneStarting == \A c, d \in Client : Starting(c) /\ Starting(d) => c = d

Unused ==
  \A n \in Start :
    n > starts =>
      mon[n] = "none" /\ proc[n] = "none" /\ ~waited[n] /\ leased[n] = {}

\* The Start under way is the last, and has what its steps gave it.
StartInv(c) ==
  Starting(c) =>
    /\ mine[c] = starts /\ mon[starts] = "none" /\ ~waited[starts]
    /\ IF pc[c] \in {"run", "monitor"} THEN proc[starts] \in {"alive", "exited"}
       ELSE proc[starts] = "none"
    /\ IF pc[c] \in Late THEN network = starts /\ leased[starts] # {}
       ELSE leased[starts] = {}
    /\ pc[c] \in Late \union {"network"} => mounted
    /\ pc[c] \in {"exec", "run", "monitor"} => cmd = starts
    /\ pc[c] \in InStart => (Running <=> pc[c] = "monitor")

\* A monitor watches the process of its own Start, the fields of the container
\* are those of that Start until it clears them, and it is the only one: cmd
\* names it.
MonInv(n) ==
  Watching(n) =>
    /\ Running /\ cmd = n
    /\ IF mon[n] \in {"begin", "reap"} THEN proc[n] \in {"alive", "exited"}
       ELSE proc[n] = "reaped"
    /\ mon[n] = "begin" => ~waited[n]
    /\ mon[n] = "reap" => target[n] = n
    /\ network = IF mon[n] \in Holds \union {"clear"} THEN n ELSE None
    /\ mon[n] \in Holds <=> leased[n] # {}
    /\ mon[n] # "stopped" => mounted

InRun(n) == \E c \in Client : pc[c] \in {"run", "monitor"} /\ mine[c] = n
InLate(n) == \E c \in Client : pc[c] \in Late /\ mine[c] = n

\* A process that lives is one that a monitor watches, or is about to.
AliveInv ==
  \A n \in Start : proc[n] = "alive" => mon[n] \in {"begin", "reap"} \/ InRun(n)

OneAddress == \A n \in Start : \A r, s \in leased[n] : r = s

Orderly ==
  /\ OneStarting /\ Unused /\ AliveInv /\ OneAddress /\ ~refreed
  /\ \A c \in Client : StartInv(c)
  /\ \A n \in Start : MonInv(n)


\* While a Start is under way nothing watches.
LEMMA NoneWatches ==
  ASSUME IInv, Orderly, NEW c \in Client, pc[c] \in InStart, NEW n \in Start
  PROVE  ~Watching(n)
BY DEF IInv, HasStart, Orderly, StartInv, MonInv, Starting, Idle, InStart, Watching

\* A panic leaves everything where it was.
LEMMA PanicOrderly == ASSUME Orderly, Panic PROVE Orderly'
BY DEF Panic, Orderly, OneStarting, Starting, Idle, Unused, StartInv, MonInv,
       Watching, AliveInv, InRun, OneAddress, fields, pool, procs, monitors, command

\* A step that only moves a goroutine on, out of Start or to its beginning.
LEMMA MoveOrderly ==
  ASSUME IInv, Orderly, NEW c \in Client,
         NEW from, from \notin {"run", "monitor", "idle", "nil", "error"},
         NEW to \in {"mount", "term", "wait", "kill", "sigkill", "killed",
                     "nil", "error"},
         Go(c, from, to),
         UNCHANGED <<fields, pool, procs, monitors, op, mine, starts>>,
         to = "mount" => ~Running, from \in Late \union {"network"} => to = "error"
  PROVE  Orderly'
<1> USE DEF IInv
<1>1. OneStarting'
  BY
    DEF TypeOK, Orderly, OneStarting, Starting, Idle, Begins, Go, At, fields,
        pool, procs, monitors
<1>2. Unused' /\ AliveInv' /\ OneAddress' /\ ~refreed'
  BY
    DEF TypeOK, Orderly, Unused, AliveInv, OneAddress, InRun, StartInv, Late,
        Starting, Idle, Begins, Go, At, fields, pool, procs, monitors
<1>3. \A d \in Client : StartInv(d)'
  BY
    DEF TypeOK, Orderly, StartInv, Late, InStart, Starting, Idle, Begins,
        OneStarting, Go, At, fields, pool, procs, monitors
<1>4. \A n \in Start : MonInv(n)'
  BY
    DEF TypeOK, Orderly, MonInv, Watching, Holds, StartInv, Late, InStart,
        Starting, Idle, Begins, Go, At, fields, pool, procs, monitors
<1> QED BY <1>1, <1>2, <1>3, <1>4 DEF Orderly

\* Start.
LEMMA StartOrderly ==
  ASSUME IInv, Orderly, NEW c \in Client, StartStep(c)
  PROVE  Orderly'
<1> USE DEF IInv
<1>0. pc[c] \in InStart => Starting(c) /\ Begins(op[c])
  BY DEF HasStart, Starting, InStart, Idle
<1>1. CASE EnsureMounted(c)
  <2>1. OneStarting'
    BY <1>0, <1>1
      DEF TypeOK, Orderly, EnsureMounted, OneStarting, Starting, Idle, Begins,
          Go, At, fields, pool, procs, monitors, command
  <2>2. Unused' /\ AliveInv' /\ OneAddress' /\ ~refreed'
    BY <1>0, <1>1
      DEF TypeOK, Orderly, EnsureMounted, Unused, AliveInv, OneAddress, InRun,
          StartInv, Late, Starting, Idle, Begins, Go, At, fields, pool, procs,
          monitors, command
  <2>3. \A d \in Client : StartInv(d)'
    BY <1>0, <1>1
      DEF TypeOK, Orderly, EnsureMounted, StartInv, Late, InStart, Starting,
          Idle, Begins, OneStarting, Go, At, fields, pool, procs, monitors,
          command
  <2>4. \A n \in Start : MonInv(n)'
    BY <1>0, <1>1
      DEF TypeOK, Orderly, EnsureMounted, MonInv, Watching, Holds, StartInv,
          Late, InStart, Starting, Idle, Begins, Go, At, fields, pool, procs,
          monitors, command
  <2> QED BY <2>1, <2>2, <2>3, <2>4 DEF Orderly
<1>2. CASE AllocateNetwork(c)
  <2>5. mine[c] = starts /\ starts \in Start /\ leased[starts] = {}
    BY <1>0, <1>2
      DEF AllocateNetwork, Go, At, InStart, Late, Orderly, StartInv, TypeOK,
          HasStart
  <2>6. PICK r \in free : leased' = [leased EXCEPT ![starts] = {r}]
    <3>1. PICK r \in free : leased' = [leased EXCEPT ![mine[c]] = @ \union {r}]
      BY <1>2 DEF AllocateNetwork, Pool!Acquire
    <3>2. leased' = [leased EXCEPT ![starts] = {r}]
      BY <2>5, <3>1 DEF TypeOK
    <3> QED BY <3>2
  <2>1. OneStarting'
    BY <1>0, <1>2, <2>5, <2>6
      DEF TypeOK, Orderly, AllocateNetwork, OneStarting, Starting,
          Idle, Begins, Go, At, fields, pool, procs, monitors, command
  <2>2. Unused' /\ AliveInv' /\ OneAddress' /\ ~refreed'
    BY <1>0, <1>2, <2>5, <2>6
      DEF TypeOK, Orderly, AllocateNetwork, Pool!Acquire, Unused, AliveInv,
          OneAddress, InRun, StartInv, Late, Starting, Idle, Begins, Go, At,
          fields, pool, procs, monitors, command
  <2>3. \A d \in Client : StartInv(d)'
    BY <1>0, <1>2, <2>5, <2>6
      DEF TypeOK, Orderly, AllocateNetwork, Pool!Acquire, StartInv, Late,
          InStart, Starting, Idle, Begins, OneStarting, Go, At, fields, pool,
          procs, monitors, command
  <2>4. \A n \in Start : MonInv(n)'
    BY <1>0, <1>2, <2>5, <2>6
      DEF TypeOK, Orderly, AllocateNetwork, Pool!Acquire, MonInv, Watching,
          Holds, StartInv, Late, InStart, Starting, Idle, Begins, Go, At, fields,
          pool, procs, monitors, command
  <2> QED BY <2>1, <2>2, <2>3, <2>4 DEF Orderly
<1>3. CASE NoNetwork(c)
  <2>1. OneStarting'
    BY <1>0, <1>3
      DEF TypeOK, Orderly, NoNetwork, OneStarting, Starting, Idle, Begins, Go,
          At, fields, pool, procs, monitors, command
  <2>2. Unused' /\ AliveInv' /\ OneAddress' /\ ~refreed'
    BY <1>0, <1>3
      DEF TypeOK, Orderly, NoNetwork, Unused, AliveInv, OneAddress, InRun,
          StartInv, Late, Starting, Idle, Begins, Go, At, fields, pool, procs,
          monitors, command
  <2>3. \A d \in Client : StartInv(d)'
    BY <1>0, <1>3
      DEF TypeOK, Orderly, NoNetwork, StartInv, Late, InStart, Starting, Idle,
          Begins, OneStarting, Go, At, fields, pool, procs, monitors, command
  <2>4. \A n \in Start : MonInv(n)'
    BY <1>0, <1>3
      DEF TypeOK, Orderly, NoNetwork, MonInv, Watching, Holds, StartInv, Late,
          InStart, Starting, Idle, Begins, Go, At, fields, pool, procs, monitors,
          command
  <2> QED BY <2>1, <2>2, <2>3, <2>4 DEF Orderly
<1>4. CASE GenerateConfig(c)
  <2>0. CASE Panic
    BY <2>0, PanicOrderly
  <2>9. CASE ~Panic
    <3>1. OneStarting'
      BY <1>0, <1>4, <2>9
        DEF TypeOK, Orderly, GenerateConfig, OneStarting, Starting, Idle, Begins,
            Go, At, fields, pool, procs, monitors, command
    <3>2. Unused' /\ AliveInv' /\ OneAddress' /\ ~refreed'
      BY <1>0, <1>4, <2>9
        DEF TypeOK, Orderly, GenerateConfig, Unused, AliveInv, OneAddress, InRun,
            StartInv, Late, Starting, Idle, Begins, Go, At, fields, pool, procs,
            monitors, command
    <3>3. \A d \in Client : StartInv(d)'
      BY <1>0, <1>4, <2>9
        DEF TypeOK, Orderly, GenerateConfig, StartInv, Late, InStart, Starting,
            Idle, Begins, OneStarting, Go, At, fields, pool, procs, monitors,
            command
    <3>4. \A n \in Start : MonInv(n)'
      BY <1>0, <1>4, <2>9
        DEF TypeOK, Orderly, GenerateConfig, MonInv, Watching, Holds, StartInv,
            Late, InStart, Starting, Idle, Begins, Go, At, fields, pool, procs,
            monitors, command
    <3> QED BY <3>1, <3>2, <3>3, <3>4 DEF Orderly
  <2> QED BY <2>0, <2>9
<1>5. CASE SetCmd(c)
  <2>1. OneStarting'
    BY <1>0, <1>5
      DEF TypeOK, Orderly, SetCmd, OneStarting, Starting, Idle, Begins, Go, At,
          fields, pool, procs, monitors, command
  <2>2. Unused' /\ AliveInv' /\ OneAddress' /\ ~refreed'
    BY <1>0, <1>5
      DEF TypeOK, Orderly, SetCmd, Unused, AliveInv, OneAddress, InRun, StartInv,
          Late, Starting, Idle, Begins, Go, At, fields, pool, procs, monitors,
          command
  <2>3. \A d \in Client : StartInv(d)'
    BY <1>0, <1>5
      DEF TypeOK, Orderly, SetCmd, StartInv, Late, InStart, Starting, Idle,
          Begins, OneStarting, Go, At, fields, pool, procs, monitors, command
  <2>4. \A n \in Start : MonInv(n)'
    BY <1>0, <1>5
      DEF TypeOK, Orderly, SetCmd, MonInv, Watching, Holds, StartInv, Late,
          InStart, Starting, Idle, Begins, Go, At, fields, pool, procs, monitors,
          command
  <2> QED BY <2>1, <2>2, <2>3, <2>4 DEF Orderly
<1>6. CASE Exec(c)
  <2>1. pc[c] = "exec" /\ pc'[c] \in {"run", "error"}
        /\ \A d \in Client \ {c} : pc'[d] = pc[d]
    BY <1>6 DEF Exec, Go, At, TypeOK
  <2>2. /\ cmd = starts /\ starts \in Start /\ mine[c] = starts
        /\ proc[starts] = "none"
    BY <1>0, <2>1 DEF InStart, Late, Orderly, StartInv, TypeOK, HasStart
  <2>3. CASE pc'[c] = "run"
    <3>1. /\ proc'[starts] = "alive"
          /\ \A n \in Start \ {starts} : proc'[n] = proc[n]
          /\ UNCHANGED <<fields, pool, waited, monitors, command>>
      BY <1>6, <2>1, <2>2, <2>3 DEF Exec, Go, At, TypeOK
    <3>2. OneStarting'
      BY <1>0, <2>1, <2>3, <3>1
        DEF InStart, Orderly, OneStarting, Starting, Idle, command
    <3>3. Unused' /\ OneAddress' /\ ~refreed'
      BY <2>2, <3>1, BoundIsNat
        DEF Orderly, Unused, OneAddress, pool, monitors, command, Start, TypeOK
    <3>4. AliveInv'
      BY <2>1, <2>2, <2>3, <3>1 DEF Orderly, AliveInv, InRun, monitors, command
    <3>5. \A d \in Client : StartInv(d)'
      BY <1>0, <2>1, <2>2, <2>3, <3>1
        DEF Orderly, OneStarting, StartInv, Starting, Idle, Late, InStart, fields,
            pool, monitors, command
    <3>6. \A n \in Start : MonInv(n)'
      BY <1>0, <2>1, <2>2, <3>1
        DEF InStart, Orderly, StartInv, MonInv, Watching, fields, pool, monitors,
            command
    <3> QED BY <3>2, <3>3, <3>4, <3>5, <3>6 DEF Orderly
  <2>4. CASE pc'[c] = "error"
    BY <1>6, <2>1, <2>4, MoveOrderly DEF Exec, Go, At, TypeOK, command
  <2> QED BY <2>1, <2>3, <2>4
<1>7. CASE SetRunning(c)
  <2>1. CASE Panic
    BY <2>1, PanicOrderly
  <2>2. CASE ~Panic
    <3>1. /\ pc[c] = "run" /\ pc' = [pc EXCEPT ![c] = "monitor"] /\ Running'
          /\ UNCHANGED <<network, cmd, mounted, pool, procs, monitors, command>>
      BY <1>7, <2>2 DEF SetRunning, Go, At
    <3>2. /\ starts \in Start /\ mine[c] = starts /\ Starting(c)
          /\ \A n \in Start : ~Watching(n)
      BY <1>0, <3>1, NoneWatches
        DEF InStart, Late, Orderly, StartInv, TypeOK, HasStart
    <3>3. pc'[c] = "monitor" /\ \A d \in Client \ {c} : pc'[d] = pc[d]
      BY <3>1 DEF TypeOK
    <3>4. OneStarting'
      BY <3>1, <3>2, <3>3 DEF Orderly, OneStarting, Starting, Idle, command
    <3>5. Unused' /\ OneAddress' /\ ~refreed'
      BY <3>1 DEF Orderly, Unused, OneAddress, pool, procs, monitors, command
    <3>6. AliveInv'
      BY <3>1, <3>3 DEF Orderly, AliveInv, InRun, procs, monitors, command
    <3>7. \A d \in Client : StartInv(d)'
      BY <3>1, <3>2, <3>3
        DEF Orderly, OneStarting, StartInv, Starting, Idle, Late, InStart,
            Watching, pool, procs, monitors, command
    <3>8. \A n \in Start : MonInv(n)'
      BY <3>1, <3>2 DEF MonInv, Watching, monitors
    <3> QED BY <3>4, <3>5, <3>6, <3>7, <3>8 DEF Orderly
  <2> QED BY <2>1, <2>2
<1>8. CASE GoMonitor(c)
  <2>1. /\ pc[c] = "monitor" /\ pc' = [pc EXCEPT ![c] = "nil"]
        /\ mon' = [mon EXCEPT ![mine[c]] = "begin"]
        /\ UNCHANGED <<fields, pool, procs, target, command>>
    BY <1>8 DEF GoMonitor, Go, At
  <2>2. /\ starts \in Start /\ mine[c] = starts /\ cmd = starts /\ mounted
        /\ network = starts /\ leased[starts] # {} /\ ~waited[starts]
        /\ proc[starts] \in {"alive", "exited"} /\ Running /\ Starting(c)
        /\ \A n \in Start : ~Watching(n)
    BY <1>0, <2>1, NoneWatches DEF InStart, Late, Orderly, StartInv, TypeOK, HasStart
  <2>3. /\ pc'[c] = "nil" /\ \A d \in Client \ {c} : pc'[d] = pc[d]
        /\ mon'[starts] = "begin"
        /\ \A n \in Start \ {starts} : mon'[n] = mon[n]
    BY <2>1, <2>2 DEF TypeOK
  <2>4. OneStarting'
    BY <2>1, <2>3 DEF Orderly, OneStarting, Starting, Idle, command
  <2>5. Unused' /\ OneAddress' /\ ~refreed'
    BY <2>1, <2>2, <2>3, BoundIsNat
      DEF Orderly, Unused, OneAddress, pool, procs, command, Start, TypeOK
  <2>6. AliveInv'
    BY <2>1, <2>2, <2>3 DEF Orderly, AliveInv, InRun, procs, command
  <2>7. \A d \in Client : StartInv(d)'
    BY <2>1, <2>2, <2>3
      DEF Orderly, OneStarting, StartInv, Starting, Idle, command
  <2>8. \A n \in Start : MonInv(n)'
    BY <2>1, <2>2, <2>3 DEF Orderly, MonInv, Watching, Holds, fields, pool, procs
  <2> QED BY <2>4, <2>5, <2>6, <2>7, <2>8 DEF Orderly
<1> QED BY <1>1, <1>2, <1>3, <1>4, <1>5, <1>6, <1>7, <1>8 DEF StartStep

\* Stop and Kill.
LEMMA StopOrderly ==
  ASSUME IInv, Orderly, NEW c \in Client, StopStep(c)
  PROVE  Orderly'
<1> USE DEF IInv
<1>1. ASSUME NEW from \in {"stop", "term", "wait", "kill", "sigkill", "killed"},
             NEW to \in {"mount", "term", "wait", "kill", "sigkill", "killed",
                     "nil", "error"},
             Go(c, from, to),
             UNCHANGED <<fields, pool, procs, monitors, op, mine, starts>>,
             to = "mount" => ~Running
      PROVE  Orderly'
  BY <1>1, MoveOrderly DEF Late
<1>2. CASE StopCheck(c) \/ Term(c) \/ StopWaited(c) \/ StopTimedOut(c)
           \/ KillCheck(c) \/ KillWaited(c)
  BY <1>1, <1>2, StoppedTo
    DEF StopCheck, Term, StopWaited, StopTimedOut, KillCheck, KillWaited, quiet,
        command
<1>3. CASE SigKill(c)
  <2>1. CASE Panic
    BY <2>1, PanicOrderly
  <2>2. CASE Go(c, "sigkill", "error") /\ UNCHANGED quiet
    BY <1>1, <2>2 DEF quiet, command
  <2>3. CASE /\ Go(c, "sigkill", "killed") /\ proc[cmd] \in {"alive", "exited"}
             /\ proc' = [proc EXCEPT ![cmd] = "exited"]
             /\ UNCHANGED <<fields, pool, waited, monitors, command>>
    <3>1. /\ pc[c] = "sigkill" /\ pc'[c] = "killed"
          /\ \A d \in Client \ {c} : pc'[d] = pc[d]
      BY <2>3 DEF Go, At, TypeOK
    <3>2. \A n \in Start : proc'[n] = proc[n]
            \/ (n = cmd /\ proc[n] \in {"alive", "exited"} /\ proc'[n] = "exited")
      BY <2>3 DEF TypeOK
    <3>3. OneStarting'
      BY <2>3, <3>1 DEF Orderly, OneStarting, Starting, Idle, command
    <3>4. Unused' /\ OneAddress' /\ ~refreed'
      BY <2>3, <3>2 DEF Orderly, Unused, OneAddress, pool, monitors, command
    <3>5. AliveInv'
      BY <2>3, <3>1, <3>2 DEF Orderly, AliveInv, InRun, monitors, command
    <3>6. \A d \in Client : StartInv(d)'
      <4>1. ASSUME NEW d \in Client, Starting(d) PROVE starts \in Start
        BY <4>1 DEF Orderly, StartInv, Starting, HasStart
      <4> QED BY <2>3, <3>1, <3>2, <4>1
            DEF Orderly, StartInv, Starting, Idle, Late, InStart, fields, pool,
                monitors, command
    <3>7. \A n \in Start : MonInv(n)'
      BY <2>3, <3>2 DEF Orderly, MonInv, Watching, fields, pool, monitors
    <3> QED BY <3>3, <3>4, <3>5, <3>6, <3>7 DEF Orderly
  <2> QED BY <1>3, <2>1, <2>2, <2>3 DEF SigKill
<1> QED BY <1>2, <1>3 DEF StopStep

\* The monitor.
LEMMA MonitorOrderly ==
  ASSUME IInv, Orderly, NEW n \in Start, MonitorStep(n)
  PROVE  Orderly'
<1> USE DEF IInv
<1>1. CASE MonitorWait(n)
  <2>0. /\ mon[n] = "begin" /\ cmd = n /\ proc[n] # "none" /\ ~waited[n]
    BY <1>1 DEF MonitorWait, MonitorAt, Orderly, MonInv, Watching
  <2>5. /\ mon' = [mon EXCEPT ![n] = "reap"] /\ target' = [target EXCEPT ![n] = n]
        /\ waited' = [waited EXCEPT ![n] = TRUE]
        /\ UNCHANGED <<fields, pool, proc, command, pc>>
    BY <1>1, <2>0 DEF MonitorWait, Monitor
  <2>1. OneStarting'
    BY <2>5 DEF Orderly, OneStarting, Starting, Idle, command
  <2>2. Unused' /\ AliveInv' /\ OneAddress' /\ ~refreed'
    BY <2>0, <2>5
      DEF TypeOK, Orderly, Unused, AliveInv, OneAddress, InRun, pool, command
  <2>3. \A d \in Client : StartInv(d)'
    BY <2>0, <2>5
      DEF TypeOK, Orderly, StartInv, Starting, Idle, fields, pool, command
  <2>4. \A m \in Start : MonInv(m)'
    BY <2>0, <2>5
      DEF TypeOK, Orderly, MonInv, Watching, Holds, fields, pool, command
  <2> QED BY <2>1, <2>2, <2>3, <2>4 DEF Orderly
<1>2. CASE MonitorReap(n)
  <2>1. OneStarting'
    BY <1>2
      DEF TypeOK, Orderly, MonitorReap, OneStarting, Starting, Idle, Begins,
          Monitor, MonitorAt, fields, pool, procs, monitors, command
  <2>2. Unused' /\ AliveInv' /\ OneAddress' /\ ~refreed'
    BY <1>2
      DEF TypeOK, Orderly, MonitorReap, Unused, AliveInv, OneAddress, InRun,
          MonInv, Watching, Holds, Monitor, MonitorAt, fields, pool, procs,
          monitors, command
  <2>3. \A d \in Client : StartInv(d)'
    BY <1>2
      DEF TypeOK, Orderly, MonitorReap, StartInv, Late, InStart, Starting, Idle,
          Begins, MonInv, Watching, Holds, Monitor, MonitorAt, fields, pool,
          procs, monitors, command
  <2>4. \A m \in Start : MonInv(m)'
    BY <1>2
      DEF TypeOK, Orderly, MonitorReap, MonInv, Watching, Holds, Monitor,
          MonitorAt, fields, pool, procs, monitors, command
  <2> QED BY <2>1, <2>2, <2>3, <2>4 DEF Orderly
<1>3. CASE MonitorStatus(n)
  <2>1. CASE Panic
    BY <2>1, PanicOrderly
  <2>2. CASE ~Panic
    <3>1. OneStarting'
      BY <1>3, <2>2
        DEF TypeOK, Orderly, MonitorStatus, OneStarting, Starting, Idle,
            Begins, Monitor, MonitorAt, fields, pool, procs, monitors, command
    <3>2. Unused' /\ AliveInv' /\ OneAddress' /\ ~refreed'
      BY <1>3, <2>2
        DEF TypeOK, Orderly, MonitorStatus, Unused, AliveInv, OneAddress,
            InRun, MonInv, Watching, Holds, Monitor, MonitorAt, fields, pool,
            procs, monitors, command
    <3>3. \A d \in Client : StartInv(d)'
      <4>1. /\ mon[n] = "status" /\ mon' = [mon EXCEPT ![n] = "release"]
            /\ UNCHANGED <<fields, pool, procs, target, command, pc>>
        BY <1>3, <2>2 DEF MonitorStatus, Monitor, MonitorAt
      <4>2. ASSUME NEW d \in Client, Starting(d)
            PROVE  starts \in Start /\ starts # n
        BY <4>1, <4>2 DEF Orderly, StartInv, Starting, HasStart
      <4> QED BY <4>1, <4>2
            DEF Orderly, StartInv, Starting, Idle, fields, pool, procs, command,
                TypeOK
    <3>4. \A m \in Start : MonInv(m)'
      BY <1>3, <2>2
        DEF TypeOK, Orderly, MonitorStatus, MonInv, Watching, Holds,
            Monitor, MonitorAt, fields, pool, procs, monitors, command
    <3> QED BY <3>1, <3>2, <3>3, <3>4 DEF Orderly
  <2> QED BY <2>1, <2>2
<1>4. CASE MonitorRelease(n)
  <2>1. CASE Panic
    BY <2>1, PanicOrderly
  <2>2. CASE ~Panic
    <3>1. mon[n] = "release" /\ Watching(n)
      BY <1>4, <2>2 DEF MonitorRelease, Monitor, MonitorAt, Watching
    <3>2. network = n /\ leased[n] # {} /\ Running
      BY <3>1 DEF Orderly, MonInv, Holds
    <3>3. PICK r \in leased[n] : leased' = [leased EXCEPT ![n] = @ \ {r}]
      BY <1>4, <2>2, <3>2 DEF MonitorRelease, Pool!Release
    <3>4. leased[n] = {r}
      BY <3>3 DEF Orderly, OneAddress
    <3>5. /\ leased'[n] = {} /\ \A m \in Start \ {n} : leased'[m] = leased[m]
          /\ mon'[n] = "clear" /\ \A m \in Start \ {n} : mon'[m] = mon[m]
      BY <1>4, <2>2, <3>3, <3>4 DEF MonitorRelease, Monitor, TypeOK
    <3>6. UNCHANGED <<fields, refreed, procs, target, command, pc>>
      BY <1>4, <2>2, <3>2 DEF MonitorRelease, Monitor
    <3>7. OneStarting'
      BY <3>6 DEF Orderly, OneStarting, Starting, Idle, command
    <3>8. Unused' /\ AliveInv' /\ OneAddress' /\ ~refreed'
      BY <3>1, <3>5, <3>6
        DEF Orderly, Unused, AliveInv, InRun, OneAddress, procs, command
    <3>9. \A d \in Client : StartInv(d)'
      <4>1. ASSUME NEW d \in Client, Starting(d)
            PROVE  starts \in Start /\ starts # n
        BY <3>1, <4>1 DEF Orderly, StartInv, Starting, HasStart
      <4> QED BY <3>5, <3>6, <4>1
            DEF Orderly, StartInv, Starting, Idle, fields, procs, command
    <3>10. \A m \in Start : MonInv(m)'
      BY <3>1, <3>2, <3>5, <3>6 DEF Orderly, MonInv, Watching, Holds, fields, procs
    <3> QED BY <3>7, <3>8, <3>9, <3>10 DEF Orderly
  <2> QED BY <2>1, <2>2
<1>5. CASE MonitorClear(n)
  <2>1. OneStarting'
    BY <1>5
      DEF TypeOK, Orderly, MonitorClear, OneStarting, Starting, Idle, Begins,
          Monitor, MonitorAt, fields, pool, procs, monitors, command
  <2>2. Unused' /\ AliveInv' /\ OneAddress' /\ ~refreed'
    BY <1>5
      DEF TypeOK, Orderly, MonitorClear, Unused, AliveInv, OneAddress, InRun,
          MonInv, Watching, Holds, Monitor, MonitorAt, fields, pool, procs,
          monitors, command
  <2>3. \A d \in Client : StartInv(d)'
    BY <1>5
      DEF TypeOK, Orderly, MonitorClear, StartInv, Late, InStart, Starting, Idle,
          Begins, MonInv, Watching, Holds, Monitor, MonitorAt, fields, pool,
          procs, monitors, command
  <2>4. \A m \in Start : MonInv(m)'
    BY <1>5
      DEF TypeOK, Orderly, MonitorClear, MonInv, Watching, Holds, Monitor,
          MonitorAt, fields, pool, procs, monitors, command
  <2> QED BY <2>1, <2>2, <2>3, <2>4 DEF Orderly
<1>6. CASE MonitorUmount(n)
  <2>1. OneStarting'
    BY <1>6
      DEF TypeOK, Orderly, MonitorUmount, OneStarting, Starting, Idle, Begins,
          Monitor, MonitorAt, fields, pool, procs, monitors, command
  <2>2. Unused' /\ AliveInv' /\ OneAddress' /\ ~refreed'
    BY <1>6
      DEF TypeOK, Orderly, MonitorUmount, Unused, AliveInv, OneAddress, InRun,
          MonInv, Watching, Holds, Monitor, MonitorAt, fields, pool, procs,
          monitors, command
  <2>3. \A d \in Client : StartInv(d)'
    BY <1>6
      DEF TypeOK, Orderly, MonitorUmount, StartInv, Late, InStart, Starting,
          Idle, Begins, MonInv, Watching, Holds, Monitor, MonitorAt, fields,
          pool, procs, monitors, command
  <2>4. \A m \in Start : MonInv(m)'
    BY <1>6
      DEF TypeOK, Orderly, MonitorUmount, MonInv, Watching, Holds, Monitor,
          MonitorAt, fields, pool, procs, monitors, command
  <2> QED BY <2>1, <2>2, <2>3, <2>4 DEF Orderly
<1>7. CASE MonitorStopped(n)
  <2>1. OneStarting'
    BY <1>7
      DEF TypeOK, Orderly, MonitorStopped, OneStarting, Starting, Idle, Begins,
          Monitor, MonitorAt, fields, pool, procs, monitors, command
  <2>2. Unused' /\ AliveInv' /\ OneAddress' /\ ~refreed'
    BY <1>7
      DEF TypeOK, Orderly, MonitorStopped, Unused, AliveInv, OneAddress, InRun,
          MonInv, Watching, Holds, Monitor, MonitorAt, fields, pool, procs,
          monitors, command
  <2>3. \A d \in Client : StartInv(d)'
    BY <1>7
      DEF TypeOK, Orderly, MonitorStopped, StartInv, Late, InStart, Starting,
          Idle, Begins, MonInv, Watching, Holds, Monitor, MonitorAt, fields,
          pool, procs, monitors, command
  <2>4. \A m \in Start : MonInv(m)'
    BY <1>7
      DEF TypeOK, Orderly, MonitorStopped, MonInv, Watching, Holds, Monitor,
          MonitorAt, fields, pool, procs, monitors, command
  <2> QED BY <2>1, <2>2, <2>3, <2>4 DEF Orderly
<1> QED BY <1>1, <1>2, <1>3, <1>4, <1>5, <1>6, <1>7 DEF MonitorStep

\* The end of a process.
LEMMA ExitOrderly ==
  ASSUME IInv, Orderly, NEW n \in Start, Exit(n)
  PROVE  Orderly'
<1> USE DEF IInv
<1>1. OneStarting'
  BY
    DEF TypeOK, Orderly, Exit, OneStarting, Starting, Idle, Begins, fields, pool,
        procs, monitors, command
<1>2. Unused' /\ AliveInv' /\ OneAddress' /\ ~refreed'
  BY
    DEF TypeOK, Orderly, Exit, Unused, AliveInv, OneAddress, InRun, StartInv,
        Late, Starting, Idle, Begins, fields, pool, procs, monitors, command
<1>3. \A d \in Client : StartInv(d)'
  BY
    DEF TypeOK, Orderly, Exit, StartInv, Late, InStart, Starting, Idle, Begins,
        OneStarting, fields, pool, procs, monitors, command
<1>4. \A m \in Start : MonInv(m)'
  BY
    DEF TypeOK, Orderly, Exit, MonInv, Watching, Holds, StartInv, Late, InStart,
        Starting, Idle, Begins, fields, pool, procs, monitors, command
<1> QED BY <1>1, <1>2, <1>3, <1>4 DEF Orderly

\* Who may begin a start in an orderly world.
LEMMA MayBegin ==
  ASSUME OrderlyStarts, NEW o, MayIssue(o), Begins(o)
  PROVE  /\ \A d \in Client : ~Starting(d)
         /\ o = "start" => ~Running
BY Zenon DEF MayIssue, OrderlyStarts, Serial, OneStartAtATime, Starting

\* A command begins.
LEMMA IssueOrderly ==
  ASSUME IInv, Orderly, OrderlyStarts, NEW c \in Client,
         NEW o \in {"start", "restart", "stop", "kill"},
         NEW at \in {"mount", "stop", "kill"}, at = "mount" => o = "start",
         Issue(c, o, at)
  PROVE  Orderly'
<1>1. /\ Idle(c) /\ MayIssue(o) /\ op'[c] = o /\ pc'[c] = at
      /\ \A d \in Client \ {c} :
           pc'[d] = pc[d] /\ op'[d] = op[d] /\ mine'[d] = mine[d]
      /\ UNCHANGED <<fields, pool, procs, monitors>>
  BY DEF Issue, IInv, TypeOK
<1>2. ~Idle(c)' /\ \A d \in Client \ {c} : Idle(d)' <=> Idle(d)
  BY <1>1 DEF Idle
<1>3. ASSUME NEW n \in Start PROVE ~InRun(n)' => ~InRun(n)
  BY <1>1 DEF InRun, Idle
<1>4. CASE Begins(o)
  <2>1. (\A d \in Client : ~Starting(d)) /\ (o = "start" => ~Running)
    BY <1>1, <1>4, MayBegin
  <2>2. starts' = starts + 1 /\ starts' \in Start /\ mine'[c] = starts'
    BY <1>4, NextStart DEF Issue, IInv, TypeOK
  <2>3. OneStarting'
    BY <1>1, <1>2, <2>1 DEF OneStarting, Starting
  <2>4. AliveInv' /\ OneAddress' /\ ~refreed' /\ \A n \in Start : MonInv(n)'
    BY <1>1, <1>3
      DEF Orderly, AliveInv, OneAddress, MonInv, Watching, fields, pool, procs,
          monitors
  <2>5. Unused' /\ mon[starts'] = "none" /\ ~waited[starts']
          /\ proc[starts'] = "none" /\ leased[starts'] = {}
    BY <1>1, <2>2, BoundIsNat
      DEF Orderly, Unused, pool, procs, monitors, IInv, TypeOK, Start
  <2>6. \A d \in Client : StartInv(d)'
    BY <1>1, <1>2, <2>1, <2>2, <2>5
      DEF StartInv, Starting, Begins, Late, InStart, fields, pool, procs, monitors
  <2> QED BY <2>3, <2>4, <2>5, <2>6 DEF Orderly
<1>5. CASE ~Begins(o)
  <2>1. UNCHANGED starts /\ ~Starting(c)'
    BY <1>1, <1>5 DEF Issue, Starting
  <2>2. \A d \in Client \ {c} : Starting(d)' <=> Starting(d)
    BY <1>1, <1>2 DEF Starting
  <2>3. OneStarting'
    BY <2>1, <2>2 DEF Orderly, OneStarting
  <2>4. /\ Unused' /\ AliveInv' /\ OneAddress' /\ ~refreed'
        /\ \A n \in Start : MonInv(n)'
    BY <1>1, <1>3, <2>1
      DEF Orderly, Unused, AliveInv, OneAddress, MonInv, Watching, fields, pool,
          procs, monitors
  <2>5. \A d \in Client : StartInv(d)'
    BY <1>1, <2>1, <2>2 DEF Orderly, StartInv, fields, pool, procs, monitors
  <2> QED BY <2>3, <2>4, <2>5 DEF Orderly
<1> QED BY <1>4, <1>5

\* The world stays.
LEMMA WorldStays == [Next]_vars => world' = world
<1>1. ASSUME NEW c \in Client, Issued(c) PROVE world' = world
  BY <1>1 DEF Issued, CmdStart, CmdRestart, CmdStop, CmdKill, Issue
<1>2. ASSUME NEW c \in Client, StartStep(c) \/ StopStep(c) PROVE world' = world
  BY <1>2
    DEF StartStep, EnsureMounted, AllocateNetwork, NoNetwork, GenerateConfig,
        SetCmd, Exec, SetRunning, GoMonitor, StopStep, StopCheck, Term,
        StopWaited, StopTimedOut, KillCheck, SigKill, KillWaited, Go, Panic
<1>3. ASSUME NEW n \in Start, MonitorStep(n) \/ Exit(n) PROVE world' = world
  BY <1>3
    DEF MonitorStep, MonitorWait, MonitorReap, MonitorStatus, MonitorRelease,
        MonitorClear, MonitorUmount, MonitorStopped, Monitor, Exit, Panic
<1> QED BY <1>1, <1>2, <1>3 DEF Next, vars

\* Orderly worlds stay orderly.
LEMMA NextOrderly ==
  ASSUME IInv, Orderly, OrderlyStarts, Next
  PROVE  Orderly'
<1>1. ASSUME NEW c \in Client, Issued(c) PROVE Orderly'
  BY <1>1, IssueOrderly DEF Issued, CmdStart, CmdRestart, CmdStop, CmdKill
<1> QED BY <1>1, StartOrderly, StopOrderly, MonitorOrderly, ExitOrderly DEF Next

-----------------------------------------------------------------------------
(* One client at a time.                                                     *)

Alone ==
  /\ Running => cmd \in Start /\ proc[cmd] # "none"
  /\ \A c, d \in Client : ~Idle(c) /\ ~Idle(d) => c = d
  /\ \A c \in Client : pc[c] = "sigkill" => cmd \in Start /\ proc[cmd] # "none"
  /\ daemon = "up"

\* Nothing that a Start or a monitor needs is missing in an orderly world.
LEMMA StartHasFields ==
  ASSUME IInv, Orderly, NEW c \in Client, pc[c] \in InStart
  PROVE  /\ Starting(c) /\ mine[c] = starts /\ starts \in Start
         /\ pc[c] \in Late => network = starts /\ network # None
         /\ pc[c] = "exec" => cmd = starts /\ proc[cmd] = "none"
         /\ pc[c] \in {"run", "monitor"} =>
              cmd = starts /\ proc[cmd] \in {"alive", "exited"}
         /\ Running <=> pc[c] = "monitor"
<1>1. Starting(c) /\ Begins(op[c]) /\ mine[c] = starts
  BY DEF IInv, HasStart, Starting, Idle, InStart, Orderly, StartInv
<1>2. mine[c] \in Start /\ None \notin Start
  BY <1>1 DEF IInv, HasStart, Start, None
<1> QED BY <1>1, <1>2 DEF Orderly, StartInv, Late

\* ... and a monitor has the fields of its own Start.
LEMMA MonitorHasFields ==
  ASSUME IInv, Orderly, NEW n \in Start, Watching(n)
  PROVE  /\ cmd = n /\ None \notin Start /\ Running
         /\ mon[n] = "status" => proc[cmd] = "reaped"
         /\ mon[n] = "release" => network = n /\ leased[network] # {}
BY DEF Orderly, MonInv, Holds, Start, None

\* A client that was alone stays so.
LEMMA BusyAlone ==
  ASSUME IInv, NEW c \in Client, Alone, \/ ~Idle(c) /\ op' = op
                                        \/ \A d \in Client : Idle(d),
         \A d \in Client \ {c} : pc'[d] = pc[d]
  PROVE  \A d, e \in Client : ~Idle(d)' /\ ~Idle(e)' => d = e
BY DEF Alone, Idle

\* Nobody panics, and nobody comes in between.
LEMMA NextAlone ==
  ASSUME IInv, Orderly, Serial, Alone, Next
  PROVE  Alone'
<1>1. ASSUME NEW c \in Client, NEW o, NEW at \in {"mount", "stop", "kill"},
             Issue(c, o, at)
      PROVE  Alone'
  <2>1. MayIssue(o) => \A d \in Client : Idle(d)
    BY Zenon DEF MayIssue, Serial
  <2>2. /\ \A d \in Client : Idle(d)
        /\ \A d \in Client \ {c} : pc'[d] = pc[d]
        /\ pc'[c] = at /\ UNCHANGED <<daemon, Running, cmd, proc>>
    BY <1>1, <2>1 DEF Issue, IInv, TypeOK, fields, procs
  <2>3. \A d, e \in Client : ~Idle(d)' /\ ~Idle(e)' => d = e
    BY <2>2, BusyAlone
  <2> QED BY <2>2, <2>3 DEF Alone, Idle
<1>2. ASSUME NEW c \in Client, StartStep(c)
      PROVE  Alone'
  <2>1. pc[c] \in InStart
    BY <1>2
      DEF StartStep, EnsureMounted, AllocateNetwork, NoNetwork, GenerateConfig,
          SetCmd, Exec, SetRunning, GoMonitor, Go, At, InStart
  <2>2. ~Panic
    BY <2>1, <1>2, StartHasFields
      DEF StartStep, EnsureMounted, AllocateNetwork, NoNetwork, GenerateConfig,
          SetCmd, Exec, SetRunning, GoMonitor, Go, At, Panic, Late, Alone
  <2>3. PICK to \in InStart \union {"nil", "error"} : Go(c, pc[c], to)
    BY <1>2, <2>1, <2>2
      DEF StartStep, EnsureMounted, AllocateNetwork, NoNetwork, GenerateConfig,
          SetCmd, Exec, SetRunning, GoMonitor, Go, At, InStart
  <2>4. /\ \A d \in Client \ {c} : pc'[d] = pc[d]
        /\ pc'[c] \in InStart \union {"nil", "error"} /\ daemon' = daemon
    BY <2>3 DEF Go, IInv, TypeOK
  <2>5. \A d, e \in Client : ~Idle(d)' /\ ~Idle(e)' => d = e
    BY <2>1, <2>4 DEF Alone, Idle, InStart
  <2>6. \A d \in Client : pc'[d] # "sigkill"
    BY <2>1, <2>4 DEF Alone, Idle, InStart
  <2>7. Running' => cmd' \in Start /\ proc'[cmd'] # "none"
    <3>1. CASE SetRunning(c)
      BY <2>1, <2>2, <3>1, StartHasFields DEF SetRunning, Go, At, procs
    <3>2. CASE GoMonitor(c)
      BY <3>2 DEF GoMonitor, Alone, fields, procs
    <3>3. CASE ~SetRunning(c) /\ ~GoMonitor(c)
      <4>1. Running' = Running /\ pc[c] # "monitor"
        BY <1>2, <2>2, <3>3
          DEF StartStep, EnsureMounted, AllocateNetwork, NoNetwork, GenerateConfig,
              SetCmd, Exec, Go, At, fields
      <4> QED BY <2>1, <4>1, StartHasFields
    <3> QED BY <3>1, <3>2, <3>3
  <2> QED BY <2>4, <2>5, <2>6, <2>7 DEF Alone
<1>3. ASSUME NEW c \in Client, StopStep(c)
      PROVE  Alone'
  <2>1. ~Idle(c)
    BY <1>3
      DEF StopStep, StopCheck, Term, StopWaited, StopTimedOut, KillCheck, SigKill,
          KillWaited, Go, At, Idle
  <2>2. ~Panic
    BY <1>3
      DEF StopStep, StopCheck, Term, StopWaited, StopTimedOut, KillCheck, SigKill,
          KillWaited, Go, At, Panic, Alone
  <2>3. PICK from, to : Go(c, from, to) /\ (to = "sigkill" => Running)
    BY <1>3, <2>2, StoppedTo
      DEF StopStep, StopCheck, Term, StopWaited, StopTimedOut, KillCheck, SigKill,
          KillWaited
  <2>4. /\ \A d \in Client \ {c} : pc'[d] = pc[d]
        /\ pc'[c] = "sigkill" => Running
        /\ daemon' = daemon
    BY <2>3 DEF Go, IInv, TypeOK
  <2>5. cmd' = cmd /\ \A n \in Start : proc'[n] \in {proc[n], "exited"}
    <3>1. CASE SigKill(c)
      BY <2>2, <3>1 DEF SigKill, quiet, fields, procs, IInv, TypeOK
    <3>2. CASE ~SigKill(c)
      BY <1>3, <3>2
        DEF StopStep, StopCheck, Term, StopWaited, StopTimedOut, KillCheck,
            KillWaited, quiet, fields, procs
    <3> QED BY <3>1, <3>2
  <2>6. \A d, e \in Client : ~Idle(d)' /\ ~Idle(e)' => d = e
    BY <2>1, <2>4 DEF Alone, Idle
  <2>7. Running' = Running
    BY <1>3
      DEF StopStep, StopCheck, Term, StopWaited, StopTimedOut, KillCheck, SigKill,
          KillWaited, Panic, quiet, fields
  <2> QED BY <2>1, <2>4, <2>5, <2>6, <2>7 DEF Alone, Idle
<1>4. ASSUME NEW n \in Start, MonitorStep(n)
      PROVE  Alone'
  <2>1. ~Panic
    BY <1>4, MonitorHasFields
      DEF MonitorStep, MonitorWait, MonitorReap, MonitorStatus, MonitorRelease,
          MonitorClear, MonitorUmount, MonitorStopped, Monitor, MonitorAt, Panic,
          Watching, Alone
  <2>2. UNCHANGED <<pc, daemon, cmd>>
        /\ \A m \in Start : proc'[m] \in {proc[m], "reaped"}
    BY <1>4, <2>1
      DEF MonitorStep, MonitorWait, MonitorReap, MonitorStatus, MonitorRelease,
          MonitorClear, MonitorUmount, MonitorStopped, Monitor, fields, procs, IInv,
          TypeOK
  <2>3. Running' => Running
    BY <1>4, <2>1
      DEF MonitorStep, MonitorWait, MonitorReap, MonitorStatus, MonitorRelease,
          MonitorClear, MonitorUmount, MonitorStopped, fields
  <2> QED BY <2>2, <2>3 DEF Alone, Idle
<1>5. ASSUME NEW n \in Start, Exit(n)
      PROVE  Alone'
  <2>1. UNCHANGED <<pc, daemon, cmd, Running>>
        /\ \A m \in Start : proc'[m] \in {proc[m], "exited"}
    BY <1>5 DEF Exit, fields, IInv, TypeOK
  <2> QED BY <2>1 DEF Alone, Idle
<1> QED BY <1>1, <1>2, <1>3, <1>4, <1>5
      DEF Next, Issued, CmdStart, CmdRestart, CmdStop, CmdKill

-----------------------------------------------------------------------------
(* What a container holds.                                                   *)

LeasedInv == \A n \in Start : leased[n] # {} => mon[n] \in Holds \/ InLate(n)

Cleans == {"begin", "reap", "status", "release", "clear", "umount"}

MountedInv ==
  mounted => \/ \E n \in Start : mon[n] \in Cleans
             \/ \E c \in Client : pc[c] \in Late \union {"network"}

NetworkInv ==
  network # None => \/ \E n \in Start : mon[n] \in Holds \union {"clear"}
                    \/ \E c \in Client : pc[c] \in Late

\* The pool goes on as Leases has it.
LEMMA NextPool ==
  ASSUME IInv, Pool!Inv, Next
  PROVE  Pool!Inv'
<1>1. CASE UNCHANGED <<free, leased>>
  BY <1>1 DEF Pool!Inv, Pool!Exclusive, Pool!Conserved
<1>2. ASSUME NEW n \in Start, Pool!Acquire(n) \/ Pool!Release(n) PROVE Pool!Inv'
  <2>1. CASE Pool!Acquire(n)
    BY <2>1 DEF Pool!Acquire, Pool!Inv, Pool!Exclusive, Pool!Conserved
  <2>2. CASE Pool!Release(n)
    BY <2>2 DEF Pool!Release, Pool!Inv, Pool!Exclusive, Pool!Conserved
  <2> QED BY <1>2, <2>1, <2>2
<1>3. ASSUME NEW c \in Client, StartStep(c) PROVE Pool!Inv'
  <2>1. CASE AllocateNetwork(c)
    <3>1. mine[c] \in Start
      BY <2>1 DEF AllocateNetwork, Go, At, IInv, HasStart, InStart
    <3> QED BY <1>2, <2>1, <3>1 DEF AllocateNetwork
  <2>2. CASE ~AllocateNetwork(c)
    BY <1>1, <1>3, <2>2
      DEF StartStep, EnsureMounted, NoNetwork, GenerateConfig, SetCmd, Exec,
          SetRunning, GoMonitor, Panic, pool
  <2> QED BY <2>1, <2>2
<1>4. ASSUME NEW n \in Start, MonitorStep(n) PROVE Pool!Inv'
  <2>1. CASE MonitorRelease(n)
    BY <1>1, <1>2, <2>1 DEF MonitorRelease, Panic, pool, IInv, TypeOK
  <2>2. CASE ~MonitorRelease(n)
    BY <1>1, <1>4, <2>2
      DEF MonitorStep, MonitorWait, MonitorReap, MonitorStatus, MonitorClear,
          MonitorUmount, MonitorStopped, Panic, pool
  <2> QED BY <2>1, <2>2
<1>5. ASSUME NEW c \in Client, Issued(c) \/ StopStep(c) PROVE Pool!Inv'
  BY <1>1, <1>5
    DEF Issued, CmdStart, CmdRestart, CmdStop, CmdKill, Issue, StopStep, StopCheck,
        Term, StopWaited, StopTimedOut, KillCheck, SigKill, KillWaited, quiet,
        Panic, pool
<1>6. ASSUME NEW n \in Start, Exit(n) PROVE Pool!Inv'
  BY <1>1, <1>6 DEF Exit, pool
<1> QED BY <1>3, <1>4, <1>5, <1>6 DEF Next

\* What is held is held by a goroutine of Start or by a monitor, if no Start
\* fails in between.
LEMMA NextLeased ==
  ASSUME IInv, Orderly, ~Fails("config"), ~Fails("exec"), LeasedInv, Next
  PROVE  LeasedInv'
<1>1. ASSUME UNCHANGED <<leased, mon>>, \A n \in Start : InLate(n) => InLate(n)'
      PROVE  LeasedInv'
  BY <1>1 DEF LeasedInv
<1>2. CASE \E c \in Client : Issued(c)
  <2>1. PICK c \in Client : /\ Idle(c) /\ UNCHANGED <<leased, mon>>
                            /\ \A d \in Client \ {c} :
                                 pc'[d] = pc[d] /\ mine'[d] = mine[d]
    BY <1>2
      DEF Issued, CmdStart, CmdRestart, CmdStop, CmdKill, Issue, pool, monitors,
          IInv, TypeOK
  <2> QED BY <1>1, <2>1 DEF InLate, Late, Idle
<1>3. ASSUME NEW c \in Client, StopStep(c) PROVE LeasedInv'
  <2>1. UNCHANGED <<leased, mon, mine>> /\ pc[c] \notin Late
        /\ \A d \in Client \ {c} : pc'[d] = pc[d]
    BY <1>3
      DEF StopStep, StopCheck, Term, StopWaited, StopTimedOut, KillCheck, SigKill,
          KillWaited, quiet, pool, monitors, command, Go, At, Panic, Late, IInv,
          TypeOK
  <2> QED BY <1>1, <2>1 DEF InLate
<1>4. ASSUME NEW n \in Start, MonitorStep(n) PROVE LeasedInv'
  <2>1. UNCHANGED <<pc, mine>>
    BY <1>4
      DEF MonitorStep, MonitorWait, MonitorReap, MonitorStatus, MonitorRelease,
          MonitorClear, MonitorUmount, MonitorStopped, Monitor, command, Panic
  <2>2. \A m \in Start : InLate(m)' <=> InLate(m)
    BY <2>1 DEF InLate
  <2>3. CASE MonitorRelease(n) /\ ~Panic
    <3>1. mon[n] = "release" /\ mon'[n] = "clear" /\ Watching(n)
      BY <2>3 DEF MonitorRelease, Monitor, MonitorAt, Watching, IInv, TypeOK
    <3>2. network = n /\ leased[n] # {}
      BY <3>1 DEF Orderly, MonInv, Holds
    <3>3. PICK r \in leased[n] : leased' = [leased EXCEPT ![n] = @ \ {r}]
      BY <2>3, <3>2 DEF MonitorRelease, Pool!Release
    <3>4. leased'[n] = {}
      BY <3>3 DEF Orderly, OneAddress, IInv, TypeOK
    <3> QED BY <2>2, <2>3, <3>3, <3>4
          DEF MonitorRelease, Monitor, LeasedInv, IInv, TypeOK
  <2>4. CASE Panic
    BY <1>1, <2>2, <2>4 DEF Panic, pool, monitors
  <2>5. CASE ~Panic /\ ~MonitorRelease(n)
    <3>1. leased' = leased
            /\ \A m \in Start : mon[m] \in Holds => mon'[m] \in Holds
      BY <1>4, <2>5
        DEF MonitorStep, MonitorWait, MonitorReap, MonitorStatus, MonitorClear,
            MonitorUmount, MonitorStopped, Monitor, MonitorAt, Holds, pool, IInv,
            TypeOK
    <3> QED BY <2>2, <3>1 DEF LeasedInv
  <2> QED BY <2>3, <2>4, <2>5
<1>5. ASSUME NEW c \in Client, StartStep(c) PROVE LeasedInv'
  <2>1. /\ pc[c] \in InStart /\ UNCHANGED mine
        /\ \A d \in Client \ {c} : pc'[d] = pc[d]
    BY <1>5
      DEF StartStep, EnsureMounted, AllocateNetwork, NoNetwork, GenerateConfig,
          SetCmd, Exec, SetRunning, GoMonitor, Go, At, InStart, Panic, command,
          IInv, TypeOK
  <2>2. /\ mine[c] = starts /\ starts \in Start
        /\ pc[c] = "exec" => proc[cmd] = "none"
    BY <2>1, StartHasFields
  <2>3. CASE GoMonitor(c)
    <3>1. leased' = leased /\ mon' = [mon EXCEPT ![starts] = "begin"]
      BY <2>2, <2>3 DEF GoMonitor, pool
    <3>2. \A n \in Start \ {starts} : InLate(n) => InLate(n)'
      BY <2>1, <2>2 DEF InLate
    <3> QED BY <3>1, <3>2 DEF LeasedInv, Holds, IInv, TypeOK
  <2>4. CASE AllocateNetwork(c)
    <3>1. /\ pc'[c] \in Late /\ mon' = mon
          /\ \A n \in Start \ {starts} : leased'[n] = leased[n]
      BY <2>2, <2>4
        DEF AllocateNetwork, Go, Pool!Acquire, monitors, Late, IInv, TypeOK
    <3>2. \A n \in Start : n = starts \/ InLate(n) => InLate(n)'
      BY <2>1, <2>2, <3>1 DEF InLate
    <3> QED BY <2>2, <3>1, <3>2 DEF LeasedInv
  <2>5. CASE ~GoMonitor(c) /\ ~AllocateNetwork(c)
    <3>1. UNCHANGED <<leased, mon>> /\ (pc[c] \in Late => pc'[c] \in Late)
      BY <1>5, <2>2, <2>5
        DEF StartStep, EnsureMounted, NoNetwork, GenerateConfig, SetCmd, Exec,
            SetRunning, Go, At, Panic, pool, monitors, Late, IInv, TypeOK
    <3> QED BY <1>1, <2>1, <3>1 DEF InLate
  <2> QED BY <2>3, <2>4, <2>5
<1>6. CASE \E n \in Start : Exit(n)
  BY <1>1, <1>6 DEF Exit, pool, monitors, command, InLate
<1> QED BY <1>2, <1>3, <1>4, <1>5, <1>6 DEF Next

\* With every Start that mounts the root on its way to run: what is mounted and
\* what network names belong to a goroutine of Start or to a monitor.
LEMMA NextMounted ==
  ASSUME IInv, Orderly, Pool!Inv, StartsOnceMounted, LeasedInv, MountedInv,
         NetworkInv, Next
  PROVE  MountedInv' /\ NetworkInv'
<1>0. ~Fails("config") /\ ~Fails("exec") /\ ~Fails("ports") /\ ~Fails("umount")
  BY DEF StartsOnceMounted, Fails
<1>1. ASSUME UNCHANGED <<mounted, network, mon>>,
             \A c \in Client :
               /\ pc[c] \in Late => pc'[c] \in Late
               /\ pc[c] = "network" => pc'[c] = "network"
      PROVE  MountedInv' /\ NetworkInv'
  BY <1>1 DEF MountedInv, NetworkInv
<1>2. CASE \E c \in Client : Issued(c)
  <2>1. PICK c \in Client : /\ Idle(c) /\ UNCHANGED <<mounted, network, mon>>
                            /\ \A d \in Client \ {c} : pc'[d] = pc[d]
    BY <1>2
      DEF Issued, CmdStart, CmdRestart, CmdStop, CmdKill, Issue, fields, monitors,
          IInv, TypeOK
  <2> QED BY <1>1, <2>1 DEF Late, Idle
<1>3. ASSUME NEW c \in Client, StopStep(c) PROVE MountedInv' /\ NetworkInv'
  <2>1. UNCHANGED <<mounted, network, mon>> /\ pc[c] \notin Late \union {"network"}
        /\ \A d \in Client \ {c} : pc'[d] = pc[d]
    BY <1>3
      DEF StopStep, StopCheck, Term, StopWaited, StopTimedOut, KillCheck, SigKill,
          KillWaited, quiet, fields, monitors, command, Go, At, Panic, Late, IInv,
          TypeOK
  <2> QED BY <1>1, <2>1
<1>4. ASSUME NEW n \in Start, MonitorStep(n) PROVE MountedInv' /\ NetworkInv'
  <2>1. CASE Panic
    BY <1>1, <2>1 DEF Panic, fields, monitors
  <2>2. CASE ~Panic
    <3>1. UNCHANGED pc /\ Watching(n) /\ \A m \in Start \ {n} : ~Watching(m)
      <4>1. UNCHANGED pc /\ Watching(n)
        BY <1>4, <2>2
          DEF MonitorStep, MonitorWait, MonitorReap, MonitorStatus, MonitorRelease,
              MonitorClear, MonitorUmount, MonitorStopped, Monitor, MonitorAt,
              Watching
      <4> QED BY <4>1, MonitorHasFields
    <3>2. CASE MonitorUmount(n)
      <4>1. ~mounted' /\ network' = network /\ mon[n] = "umount"
        BY <1>0, <3>2 DEF MonitorUmount, Monitor, MonitorAt
      <4>2. network = None
        BY <3>1, <4>1 DEF Orderly, MonInv, Holds
      <4> QED BY <4>1, <4>2 DEF MountedInv, NetworkInv
    <3>3. CASE MonitorStopped(n)
      <4>1. /\ mon[n] = "stopped" /\ UNCHANGED <<mounted, network>>
            /\ \A m \in Start \ {n} : mon'[m] = mon[m]
        BY <3>3 DEF MonitorStopped, Monitor, MonitorAt, IInv, TypeOK
      <4> QED BY <3>1, <4>1 DEF MountedInv, NetworkInv, Cleans, Holds
    <3>4. CASE MonitorClear(n)
      <4>1. /\ mon'[n] = "umount" /\ network' = None /\ mounted' = mounted
        BY <3>4 DEF MonitorClear, Monitor, IInv, TypeOK
      <4> QED BY <4>1 DEF MountedInv, NetworkInv, Cleans
    <3>5. CASE MonitorWait(n) \/ MonitorReap(n) \/ MonitorStatus(n)
               \/ MonitorRelease(n)
      <4>1. mon'[n] \in Holds \union {"clear"} /\ UNCHANGED <<mounted, network>>
        BY <2>2, <3>5
          DEF MonitorWait, MonitorReap, MonitorStatus, MonitorRelease, Monitor,
              Holds, fields, IInv, TypeOK
      <4>2. mon'[n] \in Cleans
        BY <4>1 DEF Holds, Cleans
      <4> QED BY <4>1, <4>2 DEF MountedInv, NetworkInv
    <3> QED BY <1>4, <3>2, <3>3, <3>4, <3>5 DEF MonitorStep
  <2> QED BY <2>1, <2>2
<1>5. ASSUME NEW c \in Client, StartStep(c) PROVE MountedInv' /\ NetworkInv'
  <2>1. /\ pc[c] \in InStart
        /\ \A d \in Client \ {c} : pc'[d] = pc[d]
    BY <1>5
      DEF StartStep, EnsureMounted, AllocateNetwork, NoNetwork, GenerateConfig,
          SetCmd, Exec, SetRunning, GoMonitor, Go, At, InStart, Panic, IInv, TypeOK
  <2>2. /\ mine[c] \in Start /\ Starting(c) /\ mine[c] = starts
        /\ pc[c] \in Late => network = starts
        /\ pc[c] = "exec" => proc[cmd] = "none"
    BY <2>1, StartHasFields
  <2>3. CASE Panic
    BY <1>1, <2>3 DEF Panic, fields, monitors
  <2>4. CASE GoMonitor(c)
    <3>1. mon'[mine[c]] = "begin"
      BY <2>2, <2>4 DEF GoMonitor, IInv, TypeOK
    <3> QED BY <2>2, <3>1 DEF MountedInv, NetworkInv, Cleans, Holds
  <2>5. CASE EnsureMounted(c)
    <3>1. CASE pc'[c] = "network"
      <4>1. /\ pc[c] = "mount" /\ UNCHANGED <<network, mon>>
        BY <2>5 DEF EnsureMounted, Go, At, fields, monitors
      <4>2. \A d \in Client : pc[d] \in Late => pc'[d] \in Late
        BY <2>1, <4>1 DEF Late
      <4> QED BY <3>1, <4>1, <4>2 DEF MountedInv, NetworkInv
    <3>2. CASE pc'[c] # "network"
      <4>1. /\ pc[c] = "mount" /\ UNCHANGED <<network, mon, mounted>>
        BY <2>5, <3>2 DEF EnsureMounted, Go, At, monitors, IInv, TypeOK
      <4> QED BY <1>1, <2>1, <4>1 DEF Late
    <3> QED BY <3>1, <3>2
  <2>6. CASE NoNetwork(c)
    <3>1. pc[c] = "network" /\ free = {}
      BY <1>0, <2>6 DEF NoNetwork, Go, At
    <3>2. ~Running
      BY <2>2, <3>1 DEF Orderly, StartInv, InStart
    <3>3. ASSUME NEW n \in Start, leased[n] # {} PROVE FALSE
      <4>1. ~InLate(n)
        <5>1. ASSUME NEW d \in Client, pc[d] \in Late PROVE FALSE
          <6>1. Starting(d)
            BY <5>1, StartHasFields DEF Late, InStart
          <6> QED BY <2>2, <3>1, <5>1, <6>1 DEF Orderly, OneStarting, Late
        <5> QED BY <5>1 DEF InLate
      <4>2. Watching(n)
        BY <3>3, <4>1 DEF LeasedInv, Holds, Watching
      <4> QED BY <3>2, <4>2 DEF Orderly, MonInv
    <3>4. \E a \in Address : a \notin free /\ \A n \in Start : a \notin leased[n]
      BY <3>1, <3>3 DEF StartsOnceMounted
    <3> QED BY <3>4 DEF Pool!Inv, Pool!Conserved
  <2>7. CASE ~Panic /\ (AllocateNetwork(c) \/ GenerateConfig(c) \/ SetCmd(c)
             \/ Exec(c) \/ SetRunning(c))
    <3>1. pc'[c] \in Late
      BY <1>0, <2>2, <2>7
        DEF AllocateNetwork, GenerateConfig, SetCmd, Exec, SetRunning, Go, At,
            Late, IInv, TypeOK
    <3> QED BY <3>1 DEF MountedInv, NetworkInv
  <2> QED BY <1>5, <2>3, <2>4, <2>5, <2>6, <2>7 DEF StartStep
<1>6. CASE \E n \in Start : Exit(n)
  BY <1>1, <1>6 DEF Exit, fields, monitors
<1> QED BY <1>2, <1>3, <1>4, <1>5, <1>6 DEF Next

-----------------------------------------------------------------------------
(* Together.                                                                 *)

SInv ==
  /\ IInv /\ Pool!Inv
  /\ OrderlyStarts =>
       /\ Orderly
       /\ ~Fails("config") /\ ~Fails("exec") => LeasedInv
       /\ StartsOnceMounted => MountedInv /\ NetworkInv
  /\ Serial => Alone

\* It all holds of a container that was never started,
LEMMA InitSInv == Init => SInv
<1> SUFFICES ASSUME Init PROVE SInv
  OBVIOUS
<1>1. /\ OneStarting /\ Unused /\ AliveInv /\ OneAddress /\ ~refreed
      /\ Pool!Inv
  BY DEF Init, Pool!Init, OneStarting, Starting, Idle, Unused, AliveInv, OneAddress,
         Pool!Inv, Pool!Exclusive, Pool!Conserved
<1>2. (\A c \in Client : StartInv(c)) /\ (\A n \in Start : MonInv(n)) /\ Alone
  BY DEF Init, StartInv, Starting, MonInv, Watching, Alone, Idle
<1>3. LeasedInv /\ MountedInv /\ NetworkInv
  BY DEF Init, Pool!Init, LeasedInv, MountedInv, NetworkInv
<1> QED BY <1>1, <1>2, <1>3, InitInv DEF SInv, Orderly

\* Nothing of the world changes.
LEMMA SameWorld ==
  ASSUME world' = world
  PROVE  /\ OrderlyStarts' <=> OrderlyStarts
         /\ Serial' <=> Serial
         /\ StartsOnceMounted' <=> StartsOnceMounted
         /\ Fails("config")' <=> Fails("config")
         /\ Fails("exec")' <=> Fails("exec")
BY Zenon DEF OrderlyStarts, Serial, OneStartAtATime, Promised, StartsOnceMounted,
             Fails

\* ... every step keeps it,
LEMMA NextSInv == SInv /\ [Next]_vars => SInv'
<1> SUFFICES ASSUME SInv, [Next]_vars PROVE SInv'
  OBVIOUS
<1>1. /\ OrderlyStarts' <=> OrderlyStarts
      /\ Serial' <=> Serial
      /\ StartsOnceMounted' <=> StartsOnceMounted
      /\ Fails("config")' <=> Fails("config")
      /\ Fails("exec")' <=> Fails("exec")
  BY SameWorld, WorldStays
<1>2. IInv'
  BY NextInv DEF SInv
<1>3. CASE UNCHANGED vars
  <2>1. Pool!Inv' /\ (Orderly => Orderly') /\ (LeasedInv => LeasedInv')
    BY <1>3
      DEF vars, SInv, Pool!Inv, Pool!Exclusive, Pool!Conserved, Orderly,
          OneStarting,
          Starting, Idle, Unused, AliveInv, InRun, OneAddress, StartInv, MonInv,
          Watching, LeasedInv, InLate
  <2>2. /\ Alone => Alone'
        /\ (MountedInv => MountedInv') /\ (NetworkInv => NetworkInv')
    BY <1>3 DEF vars, Alone, Idle, MountedInv, NetworkInv
  <2> QED BY <1>1, <1>2, <2>1, <2>2 DEF SInv
<1>4. CASE Next
  <2>1. Pool!Inv'
    BY <1>4, NextPool DEF SInv
  <2>2. OrderlyStarts => Orderly'
    BY <1>4, NextOrderly DEF SInv
  <2>3. OrderlyStarts /\ ~Fails("config") /\ ~Fails("exec") => LeasedInv'
    BY <1>4, NextLeased DEF SInv
  <2>4. OrderlyStarts /\ StartsOnceMounted => MountedInv' /\ NetworkInv'
    <3>1. StartsOnceMounted => ~Fails("config") /\ ~Fails("exec")
      BY DEF StartsOnceMounted, Fails
    <3> QED BY <1>4, <3>1, NextMounted DEF SInv
  <2>5. Serial => Alone'
    BY <1>4, NextAlone DEF SInv, OrderlyStarts
  <2> QED BY <1>1, <1>2, <2>1, <2>2, <2>3, <2>4, <2>5 DEF SInv
<1> QED BY <1>3, <1>4

\* ... so it holds always.
LEMMA SInvAlways == Spec => []SInv
BY InitSInv, NextSInv, PTL DEF Spec

\* Under the promise that only a stopped container is started and once at a
\* time, a container is one process, for any number of clients that stop and
\* kill it, whatever fails (container.go:486-518).
THEOREM RestartIsOneProcess == Spec => []RestartKeepsOneProcess
<1>1. SInv => RestartKeepsOneProcess
  <2> SUFFICES ASSUME SInv, OrderlyStarts, NEW n \in Start, NEW m \in Start,
                      proc[n] = "alive", proc[m] = "alive"
               PROVE  n = m
    BY DEF RestartKeepsOneProcess, OneProcess
  <2>1. ASSUME NEW k \in Start, proc[k] = "alive"
        PROVE  IF Running THEN cmd = k ELSE k = starts
    <3>1. CASE mon[k] \in {"begin", "reap"}
      BY <3>1 DEF SInv, Orderly, MonInv, Watching
    <3>2. CASE InRun(k)
      BY <3>2, StartHasFields DEF SInv, InRun, InStart, Orderly, StartInv
    <3> QED BY <2>1, <3>1, <3>2 DEF SInv, Orderly, AliveInv
  <2> QED BY <2>1
<1> QED BY <1>1, SInvAlways, PTL

\* ... it has its root and an address from exec to exit
\* (container.go:330-351, 445-468).
THEOREM ProcessKeepsResources == Spec => []ProcessHasResources
<1>1. SInv => ProcessHasResources
  <2> SUFFICES ASSUME SInv, OrderlyStarts, NEW n \in Start, proc[n] = "alive"
               PROVE  mounted /\ leased[n] # {}
    BY DEF ProcessHasResources
  <2>1. CASE mon[n] \in {"begin", "reap"}
    BY <2>1 DEF SInv, Orderly, MonInv, Watching, Holds
  <2>2. CASE InRun(n)
    <3>1. PICK c \in Client : pc[c] \in {"run", "monitor"} /\ mine[c] = n
      BY <2>2 DEF InRun
    <3> QED BY <3>1, StartHasFields DEF SInv, Orderly, StartInv, InStart, Late
  <2> QED BY <2>1, <2>2 DEF SInv, Orderly, AliveInv
<1> QED BY <1>1, SInvAlways, PTL

\* ... and no address goes back to the pool twice (network.go:292-304).
THEOREM ReleasedOnce == Spec => []NoDoubleRelease
<1>1. SInv => NoDoubleRelease
  BY DEF SInv, NoDoubleRelease, Orderly
<1> QED BY <1>1, SInvAlways, PTL

\* To one client at a time the daemon never follows a nil field, whatever fails
\* (container.go:345-356, 418-474).
THEOREM SerialNeverPanics == Spec => []NoPanic
<1>1. SInv => NoPanic
  BY DEF SInv, NoPanic, Alone
<1> QED BY <1>1, SInvAlways, PTL

\* At rest every address is in the pool again, unless a Start failed between
\* allocateNetwork and exec (network.go:203).
THEOREM RestReturnsAddresses == Spec => []RestingHoldsNothing
<1>1. SInv => RestingHoldsNothing
  <2> SUFFICES ASSUME SInv, OrderlyStarts, ~Fails("config"), ~Fails("exec"), AtRest
               PROVE  free = Address
    BY DEF RestingHoldsNothing, AddressReturned
  <2>1. \A n \in Start : leased[n] = {}
    BY DEF SInv, LeasedInv, Holds, AtRest, Watching, InLate, Late, Idle
  <2> QED BY <2>1 DEF SInv, Pool!Inv, Pool!Conserved
<1> QED BY <1>1, SInvAlways, PTL

\* When stop or kill says that it is done to its only client, nothing of the
\* container is left, if every Start that mounts its root goes on to run it
\* (container.go:493-518).
THEOREM StoppedLeavesNothing == Spec => StopLeavesNothing
<1> DEFINE
  Done(c) == Serial /\ StartsOnceMounted /\ Ends(c) =>
               /\ ~Running' /\ ~mounted' /\ network' = None /\ free' = Address
               /\ \A n \in Start : proc'[n] # "alive"
<1>1. SInv /\ SInv' /\ [Next]_vars => [\A c \in Client : Done(c)]_vars
  <2> SUFFICES ASSUME SInv, SInv', Next, NEW c \in Client,
                      Serial, StartsOnceMounted, Ends(c)
               PROVE  /\ ~Running' /\ ~mounted' /\ network' = None
                      /\ free' = Address
                      /\ \A n \in Start : proc'[n] # "alive"
    OBVIOUS
  <2>1. Serial' /\ OrderlyStarts' /\ StartsOnceMounted'
        /\ ~Fails("config")' /\ ~Fails("exec")'
    BY WorldStays, SameWorld DEF OrderlyStarts, StartsOnceMounted, Fails
  <2>2. StopStep(c)
    <3>1. ASSUME NEW d \in Client, Issued(d)
          PROVE  pc'[c] \in {pc[c], "mount", "stop", "kill"}
      BY <3>1
        DEF Issued, CmdStart, CmdRestart, CmdStop, CmdKill, Issue, SInv, IInv,
            TypeOK
    <3>2. ASSUME NEW d \in Client, StartStep(d) \/ StopStep(d)
          PROVE  d = c \/ pc'[c] = pc[c]
      BY <3>2
        DEF StartStep, EnsureMounted, AllocateNetwork, NoNetwork, GenerateConfig,
            SetCmd, Exec, SetRunning, GoMonitor, StopStep, StopCheck, Term,
            StopWaited, StopTimedOut, KillCheck, SigKill, KillWaited, Go, Panic,
            SInv, IInv, TypeOK
    <3>3. ASSUME NEW n \in Start, MonitorStep(n) \/ Exit(n) PROVE pc' = pc
      BY <3>3
        DEF MonitorStep, MonitorWait, MonitorReap, MonitorStatus, MonitorRelease,
            MonitorClear, MonitorUmount, MonitorStopped, Monitor, Exit, Panic
    <3>4. ~StartStep(c)
      BY DEF Ends, SInv, IInv, HasStart, Begins, InStart, StartStep, EnsureMounted,
             AllocateNetwork, NoNetwork, GenerateConfig, SetCmd, Exec, SetRunning,
             GoMonitor, Go, At, Panic
    <3> QED BY <3>1, <3>2, <3>3, <3>4 DEF Next, Ends
  <2>3. ~Running' /\ ~Idle(c)
    BY <2>2
      DEF Ends, StopStep, StopCheck, Term, StopWaited, StopTimedOut, KillCheck,
          SigKill, KillWaited, KillEnd, Go, At, Panic, quiet, fields, Idle, SInv,
          IInv, TypeOK
  <2>4. \A d \in Client : Idle(d)'
    <3>1. \A d \in Client \ {c} : Idle(d) /\ pc'[d] = pc[d]
      BY <2>2, <2>3
        DEF SInv, Alone, StopStep, StopCheck, Term, StopWaited, StopTimedOut,
            KillCheck, SigKill, KillWaited, Go, Panic, IInv, TypeOK
    <3> QED BY <3>1 DEF Idle, Ends
  <2>5. \A n \in Start : ~Watching(n)'
    BY <2>1, <2>3 DEF SInv, Orderly, MonInv
  <2>6. ~mounted' /\ network' = None
    BY <2>1, <2>4, <2>5
      DEF SInv, MountedInv, NetworkInv, Cleans, Holds, Watching, Late, Idle
  <2>7. \A n \in Start : leased'[n] = {}
    BY <2>1, <2>4, <2>5
      DEF SInv, LeasedInv, Holds, Watching, InLate, Late, Idle
  <2>8. free' = Address
    BY <2>7 DEF SInv, Pool!Inv, Pool!Conserved
  <2>9. \A n \in Start : proc'[n] # "alive"
    BY <2>1, <2>4, <2>5 DEF SInv, Orderly, AliveInv, Watching, InRun, Idle
  <2> QED BY <2>3, <2>6, <2>8, <2>9
<1>2. Spec => [][\A c \in Client : Done(c)]_vars
  BY <1>1, SInvAlways, PTL DEF Spec
<1> QED BY <1>2 DEF StopLeavesNothing

-----------------------------------------------------------------------------
(* In the orderly worlds the container is one Lifecycle.                     *)

\* Between the exec of a Start and the begin of its monitor.
AtRun(c) == pc[c] \in {"run", "monitor"}

\* One monitor watches, and none while a Start is under way; what lives is cmd.
LEMMA OneRun ==
  ASSUME IInv, Orderly
  PROVE  /\ \A n, m \in Start : Watching(n) /\ Watching(m) => n = m
         /\ \A c \in Client : pc[c] \in InStart =>
              /\ \A n \in Start : ~Watching(n)
              /\ \A d \in Client : AtRun(d) => d = c
         /\ \A n \in Start : proc[n] = "alive" =>
              /\ n = cmd
              /\ \/ mon[n] \in {"begin", "reap"}
                 \/ \E c \in Client : AtRun(c)
<1>1. \A n \in Start : Watching(n) => cmd = n /\ Running
  BY MonitorHasFields
<1>2. ASSUME NEW c \in Client, pc[c] \in InStart
      PROVE  /\ \A n \in Start : ~Watching(n)
             /\ \A d \in Client : AtRun(d) => d = c
  <2>1. Starting(c) /\ \A n \in Start : ~Watching(n)
    BY <1>2, StartHasFields, NoneWatches
  <2>2. \A d \in Client : AtRun(d) => Starting(d)
    BY StartHasFields DEF InStart, AtRun
  <2> QED BY <2>1, <2>2 DEF Orderly, OneStarting
<1>3. ASSUME NEW n \in Start, proc[n] = "alive"
      PROVE  /\ n = cmd
             /\ \/ mon[n] \in {"begin", "reap"}
                \/ \E c \in Client : AtRun(c)
  <2>1. CASE mon[n] \in {"begin", "reap"}
    BY <1>1, <2>1 DEF Watching
  <2>2. CASE InRun(n)
    BY <2>2, StartHasFields DEF InRun, InStart, AtRun
  <2> QED BY <1>3, <2>1, <2>2 DEF Orderly, AliveInv
<1> QED BY <1>1, <1>2, <1>3

\* What a step does to the container, and what that is in Lifecycle.
LEMMA LifeSteps ==
  ASSUME mounted \in BOOLEAN, Lives \in BOOLEAN, mounted' \in BOOLEAN,
         Lives' \in BOOLEAN
  PROVE  /\ mounted' /\ UNCHANGED <<Lives, Phase>> => Life!Next
         /\ /\ Phase = "stopped" /\ Phase' = "up" /\ mounted /\ UNCHANGED mounted
            /\ Lives'
            => Life!Next
         /\ Lives /\ ~Lives' /\ UNCHANGED <<mounted, Phase>> => Life!Next
         /\ /\ Phase = "up" /\ Phase' = "unmounted" /\ ~Lives /\ ~Lives'
            /\ mounted' => mounted
            => Life!Next
         /\ /\ Phase = "unmounted" /\ Phase' = "stopped"
            /\ UNCHANGED <<mounted, Lives>>
            => Life!Next
         /\ UNCHANGED <<mounted, Lives, Phase>> => UNCHANGED Life!vars
BY DEF Life!Next, Life!Mount, Life!Begin, Life!Exit, Life!MonitorUmount,
       Life!Report,
       Life!vars

\* A process more or less is none that lives; nor does the phase change with
\* whoever is not at its turning points.
LEMMA LifeStays ==
  ASSUME UNCHANGED mon,
         \A c \in Client : AtRun(c)' <=> AtRun(c)
  PROVE  UNCHANGED Phase
<1>1. (\E c \in Client : AtRun(c)') <=> (\E c \in Client : AtRun(c))
  OBVIOUS
<1> QED BY <1>1 DEF Phase, Watching, AtRun

\* A step of Start: the mount, and the exec, on a root that is there.
LEMMA StartLives ==
  ASSUME IInv, Orderly, IInv', NEW c \in Client, StartStep(c)
  PROVE  [Life!Next]_(Life!vars)
<1> USE DEF IInv
<1>0. /\ mounted \in BOOLEAN /\ Lives \in BOOLEAN
      /\ mounted' \in BOOLEAN /\ Lives' \in BOOLEAN
  BY DEF TypeOK, Lives
<1>1. CASE EnsureMounted(c)
  <2>1. UNCHANGED Phase
    BY <1>1, LifeStays DEF EnsureMounted, Go, At, TypeOK, monitors, AtRun
  <2>2. UNCHANGED Lives
    BY <1>1 DEF EnsureMounted, procs, Lives
  <2> QED BY <1>0, <1>1, <2>1, <2>2, LifeSteps DEF EnsureMounted
<1>2. CASE AllocateNetwork(c) \/ NoNetwork(c) \/ GenerateConfig(c) \/ SetCmd(c)
  <2>1. UNCHANGED Phase
    BY <1>2, LifeStays
      DEF AllocateNetwork, NoNetwork, GenerateConfig, SetCmd, Go, At, Panic, TypeOK,
          monitors, AtRun
  <2>2. UNCHANGED <<mounted, Lives>>
    BY <1>2
      DEF AllocateNetwork, NoNetwork, GenerateConfig, SetCmd, Panic, fields, procs,
          Lives
  <2> QED BY <1>0, <2>1, <2>2, LifeSteps
<1>3. CASE Exec(c)
  <2>1. CASE Go(c, "exec", "error") /\ UNCHANGED <<fields, pool, procs, monitors, command>>
    <3>1. UNCHANGED Phase
      BY <2>1, LifeStays DEF Go, At, TypeOK, monitors, AtRun
    <3>2. UNCHANGED <<mounted, Lives>>
      BY <2>1 DEF fields, procs, Lives
    <3> QED BY <1>0, <3>1, <3>2, LifeSteps
  <2>2. CASE /\ Go(c, "exec", "run") /\ proc' = [proc EXCEPT ![cmd] = "alive"]
             /\ UNCHANGED <<fields, pool, waited, monitors, command>>
    <3>1. pc[c] = "exec" /\ pc' = [pc EXCEPT ![c] = "run"] /\ pc[c] \in InStart
      BY <2>2 DEF Go, At, InStart
    <3>2. mounted /\ cmd \in Start
      BY <3>1, StartHasFields DEF Orderly, StartInv, Late
    <3>3. (\A n \in Start : ~Watching(n)) /\ \A d \in Client : ~AtRun(d)
      BY <3>1, OneRun DEF AtRun
    <3>4. Phase = "stopped"
      BY <3>3 DEF Phase, Watching, AtRun
    <3>5. Phase' = "up"
      <4>1. pc'[c] = "run"
        BY <3>1 DEF TypeOK
      <4>2. \A n \in Start : mon'[n] # "stopped"
        BY <2>2, <3>3 DEF Watching, monitors
      <4> QED BY <4>1, <4>2 DEF Phase
    <3>6. Lives' /\ UNCHANGED mounted
      BY <2>2, <3>2 DEF Lives, TypeOK, fields
    <3> QED BY <1>0, <3>2, <3>4, <3>5, <3>6, LifeSteps
  <2> QED BY <1>3, <2>1, <2>2 DEF Exec
<1>4. CASE SetRunning(c)
  <2>1. CASE Panic
    <3>1. UNCHANGED Phase
      BY <2>1, LifeStays DEF Panic, monitors, AtRun
    <3>2. UNCHANGED <<mounted, Lives>>
      BY <2>1 DEF Panic, fields, procs, Lives
    <3> QED BY <1>0, <3>1, <3>2, LifeSteps
  <2>2. CASE Go(c, "run", "monitor") /\ UNCHANGED <<mounted, procs, monitors>>
    <3>1. UNCHANGED Phase
      BY <2>2, LifeStays DEF Go, At, TypeOK, monitors, AtRun
    <3>2. UNCHANGED <<mounted, Lives>>
      BY <2>2 DEF procs, Lives
    <3> QED BY <1>0, <3>1, <3>2, LifeSteps
  <2> QED BY <1>4, <2>1, <2>2 DEF SetRunning
<1>5. CASE GoMonitor(c)
  <2>1. pc[c] = "monitor" /\ pc[c] \in InStart /\ mine[c] \in Start
    BY <1>5, StartHasFields DEF GoMonitor, Go, At, InStart
  <2>2. \A n \in Start : ~Watching(n)
    BY <2>1, OneRun
  <2>3. Phase = "up"
    BY <2>1, <2>2 DEF Phase, Watching
  <2>4. mon'[mine[c]] = "begin" /\ \A n \in Start : mon'[n] # "stopped"
    BY <1>5, <2>1, <2>2 DEF GoMonitor, TypeOK, Watching
  <2>5. Phase' = "up"
    BY <2>1, <2>4 DEF Phase, Watching
  <2>6. UNCHANGED <<mounted, Lives>>
    BY <1>5 DEF GoMonitor, fields, procs, Lives
  <2> QED BY <1>0, <2>3, <2>5, <2>6, LifeSteps
<1> QED BY <1>1, <1>2, <1>3, <1>4, <1>5 DEF StartStep

\* Stop and Kill: only the SIGKILL ends a process.
LEMMA StopLives ==
  ASSUME IInv, Orderly, IInv', NEW c \in Client, StopStep(c)
  PROVE  [Life!Next]_(Life!vars)
<1> USE DEF IInv
<1>0. /\ mounted \in BOOLEAN /\ Lives \in BOOLEAN
      /\ mounted' \in BOOLEAN /\ Lives' \in BOOLEAN
  BY DEF TypeOK, Lives
<1>1. UNCHANGED <<mounted, Phase>>
  <2>1. UNCHANGED <<mounted, mon>>
    BY DEF StopStep, StopCheck, Term, StopWaited, StopTimedOut, KillCheck, SigKill,
           KillWaited, Panic, quiet, fields, monitors
  <2>2. \A d \in Client : AtRun(d)' <=> AtRun(d)
    BY StoppedTo
      DEF AtRun, StopStep, StopCheck, Term, StopWaited, StopTimedOut, KillCheck,
          SigKill, KillWaited, Go, At, Panic, TypeOK
  <2> QED BY <2>1, <2>2, LifeStays
<1>2. CASE proc' = proc
  BY <1>0, <1>1, <1>2, LifeSteps DEF Lives
<1>3. CASE proc' = [proc EXCEPT ![cmd] = "exited"]
  <2>1. ~Lives'
    BY <1>3, OneRun DEF Lives, TypeOK
  <2> QED BY <1>0, <1>1, <2>1, LifeSteps
<1>4. proc' = proc \/ proc' = [proc EXCEPT ![cmd] = "exited"]
  BY DEF StopStep, StopCheck, Term, StopWaited, StopTimedOut, KillCheck, SigKill,
         KillWaited, Panic, quiet, procs
<1> QED BY <1>2, <1>3, <1>4

\* A monitor that goes on watching.
LEMMA WatchLives ==
  ASSUME IInv, Orderly, NEW n \in Start, Watching(n), mon[n] # "stopped",
         NEW to \in {"reap", "status", "release", "clear", "umount"},
         mon' = [mon EXCEPT ![n] = to]
  PROVE  UNCHANGED Phase
<1>1. \A m \in Start \ {n} : ~Watching(m) /\ mon'[m] = mon[m]
  BY OneRun DEF IInv, TypeOK
<1>2. mon'[n] = to
  BY DEF IInv, TypeOK
<1>3. Phase = "up"
  BY <1>1 DEF Phase, Watching
<1>4. Phase' = "up"
  BY <1>1, <1>2 DEF Phase, Watching
<1> QED BY <1>3, <1>4

\* The monitor: it unmounts when its process has gone, and then reports.
LEMMA MonitorLives ==
  ASSUME IInv, Orderly, IInv', NEW n \in Start, MonitorStep(n)
  PROVE  [Life!Next]_(Life!vars)
<1> USE DEF IInv
<1>0. /\ mounted \in BOOLEAN /\ Lives \in BOOLEAN
      /\ mounted' \in BOOLEAN /\ Lives' \in BOOLEAN
  BY DEF TypeOK, Lives
<1>1. CASE Panic
  <2>1. UNCHANGED Phase
    BY <1>1, LifeStays DEF Panic, monitors, AtRun
  <2>2. UNCHANGED <<mounted, Lives>>
    BY <1>1 DEF Panic, fields, procs, Lives
  <2> QED BY <1>0, <2>1, <2>2, LifeSteps
<1>2. CASE ~Panic /\ (MonitorWait(n) \/ MonitorReap(n) \/ MonitorStatus(n)
                         \/ MonitorRelease(n) \/ MonitorClear(n))
  <2>1. PICK to \in {"reap", "status", "release", "clear", "umount"} :
          mon' = [mon EXCEPT ![n] = to]
    BY <1>2
      DEF MonitorWait, MonitorReap, MonitorStatus, MonitorRelease, MonitorClear,
          Monitor
  <2>2. Watching(n) /\ mon[n] # "stopped"
    BY <1>2
      DEF MonitorWait, MonitorReap, MonitorStatus, MonitorRelease, MonitorClear,
          Monitor, MonitorAt, Watching
  <2>3. UNCHANGED Phase
    BY <2>1, <2>2, WatchLives
  <2>4. UNCHANGED mounted
    BY <1>2
      DEF MonitorWait, MonitorReap, MonitorStatus, MonitorRelease, MonitorClear,
          fields
  <2>5. UNCHANGED Lives
    <3>1. CASE MonitorReap(n)
      <4>1. /\ proc[target[n]] = "exited"
            /\ proc' = [proc EXCEPT ![target[n]] = "reaped"]
        BY <3>1 DEF MonitorReap
      <4>2. \A m \in Start : proc'[m] = "alive" <=> proc[m] = "alive"
        BY <4>1 DEF TypeOK
      <4> QED BY <4>2 DEF Lives
    <3>2. CASE ~MonitorReap(n)
      <4>1. proc' = proc
        BY <1>2, <3>2
          DEF MonitorWait, MonitorStatus, MonitorRelease, MonitorClear, procs
      <4> QED BY <4>1 DEF Lives
    <3> QED BY <3>1, <3>2
  <2> QED BY <1>0, <2>3, <2>4, <2>5, LifeSteps
<1>3. CASE MonitorUmount(n) \/ MonitorStopped(n)
  <2>1. Watching(n) /\ \A m \in Start \ {n} : ~Watching(m)
    BY <1>3, OneRun DEF MonitorUmount, MonitorStopped, Monitor, MonitorAt, Watching
  <2>2. \A c \in Client : ~AtRun(c)
    BY <2>1, OneRun DEF InStart, AtRun
  <2>3. ~Lives /\ ~Lives' /\ UNCHANGED pc
    <3>1. mon[n] \in {"umount", "stopped"} /\ UNCHANGED <<proc, pc>>
      BY <1>3 DEF MonitorUmount, MonitorStopped, Monitor, MonitorAt, procs
    <3>2. \A m \in Start : proc[m] # "alive"
      BY <2>1, <2>2, <3>1, OneRun DEF Watching
    <3> QED BY <3>1, <3>2 DEF Lives
  <2>4. CASE MonitorUmount(n)
    <3>1. /\ mon[n] = "umount" /\ mon' = [mon EXCEPT ![n] = "stopped"]
          /\ mounted' => mounted
      BY <1>0, <2>4 DEF MonitorUmount, Monitor, MonitorAt
    <3>2. mon'[n] = "stopped" /\ \A m \in Start \ {n} : mon[m] # "stopped"
      BY <2>1, <3>1 DEF TypeOK, Watching
    <3>3. Phase = "up" /\ Phase' = "unmounted"
      BY <2>1, <3>1, <3>2 DEF Phase
    <3> QED BY <1>0, <2>3, <3>1, <3>3, LifeSteps
  <2>5. CASE MonitorStopped(n)
    <3>1. /\ mon[n] = "stopped" /\ mon' = [mon EXCEPT ![n] = "done"]
          /\ UNCHANGED mounted
      BY <2>5 DEF MonitorStopped, Monitor, MonitorAt
    <3>2. \A m \in Start : mon'[m] \in {"none", "done"}
      BY <2>1, <3>1 DEF TypeOK, Watching
    <3>3. Phase = "unmounted"
      BY <3>1 DEF Phase
    <3>4. Phase' = "stopped"
      BY <2>2, <2>3, <3>2 DEF Phase, Watching, AtRun
    <3> QED BY <1>0, <2>3, <3>1, <3>3, <3>4, LifeSteps
  <2> QED BY <1>3, <2>4, <2>5
<1> QED BY <1>1, <1>2, <1>3 DEF MonitorStep

\* Every step is one of Lifecycle's, or none.
LEMMA NextLives ==
  ASSUME IInv, Orderly, IInv', Next
  PROVE  [Life!Next]_(Life!vars)
<1>0. /\ mounted \in BOOLEAN /\ Lives \in BOOLEAN
      /\ mounted' \in BOOLEAN /\ Lives' \in BOOLEAN
  BY DEF IInv, TypeOK, Lives
<1>1. ASSUME NEW c \in Client, NEW o, NEW at \in {"mount", "stop", "kill"},
             Issue(c, o, at)
      PROVE  [Life!Next]_(Life!vars)
  <2>1. UNCHANGED Phase
    BY <1>1, LifeStays DEF Issue, Idle, monitors, IInv, TypeOK, AtRun
  <2>2. UNCHANGED <<mounted, Lives>>
    BY <1>1 DEF Issue, fields, procs, Lives
  <2> QED BY <1>0, <2>1, <2>2, LifeSteps
<1>2. ASSUME NEW n \in Start, Exit(n) PROVE [Life!Next]_(Life!vars)
  <2>1. UNCHANGED Phase
    BY <1>2, LifeStays DEF Exit, monitors, AtRun
  <2>2. Lives /\ ~Lives' /\ UNCHANGED mounted
    BY <1>2, OneRun DEF Exit, fields, Lives, IInv, TypeOK
  <2> QED BY <1>0, <2>1, <2>2, LifeSteps
<1> QED BY <1>1, <1>2, StartLives, StopLives, MonitorLives
      DEF Next, Issued, CmdStart, CmdRestart, CmdStop, CmdKill

\* Container implements Lifecycle wherever starts are orderly, for any number
\* of clients that stop, kill and restart it at once: the container that
\* Registry starts, unmounts and removes is the one whose commands and monitor
\* are modelled here (container.go:313-357, 445-518).
THEOREM ContainerIsLifecycle == Spec => IsLifecycle
<1>1. Init => Life!Init
  <2> SUFFICES ASSUME Init PROVE Life!Init
    OBVIOUS
  <2>1. mounted = FALSE /\ ~Lives
    BY DEF Init, Lives
  <2>2. Phase = "stopped"
    BY DEF Init, Phase, Watching
  <2> QED BY <2>1, <2>2 DEF Life!Init
<1>2. SInv /\ SInv' /\ [Next]_vars => [OrderlyStarts => Life!Next]_(Life!vars)
  <2> SUFFICES ASSUME SInv, SInv', [Next]_vars, OrderlyStarts
               PROVE  [Life!Next]_(Life!vars)
    OBVIOUS
  <2>1. CASE Next
    BY <2>1, NextLives DEF SInv
  <2>2. CASE UNCHANGED vars
    <3>1. UNCHANGED <<mounted, Lives, Phase>>
      BY <2>2 DEF vars, Lives, Phase, Watching
    <3> QED BY <3>1 DEF Life!vars
  <2> QED BY <2>1, <2>2
<1> QED BY <1>1, <1>2, SInvAlways, PTL DEF Spec, IsLifecycle
=============================================================================
