------------------------------ MODULE Session -------------------------------
(***************************************************************************)
(* The input of a container, from who types it to the process, and what    *)
(* ends when: the docker client (client/client.go), its connection         *)
(* (rcli/tcp.go), CmdRun -i -a and CmdAttach (server/server.go), the       *)
(* io.Pipe behind stdinPipe, the copier of a run and the pipe or tty that  *)
(* the process reads (container.go).                                       *)
(*                                                                         *)
(* A container has one pipe after the other: it is made with the first,    *)
(* and the monitor of run n makes pipe n + 1.  An io.Pipe holds nothing: a *)
(* Write waits for the Read that takes it, and for ever if none comes.     *)
(* Starts are orderly here, of a stopped container (Container has the      *)
(* others); the output is in Streams, of which only the end is kept.       *)
(***************************************************************************)
EXTENDS Integers, Sequences

CONSTANTS
  Client,      \* who calls, each once
  Runner,      \* the one of them who calls run -i -a
  Input,       \* bound on the chunks of input of each client
  MaxRuns,     \* bound on the runs of the container
  PipeSize,    \* chunks that wait for the process to read them
  World        \* Config.Tty, and the clients whose stdin is a terminal

ASSUME SessionAssumption ==
  /\ Runner \in Client
  /\ Input \in [Client -> Nat] /\ MaxRuns \in Nat /\ PipeSize \in Nat \ {0}
  /\ World \subseteq [tty : BOOLEAN, term : SUBSET Client]

Run == 1..MaxRuns
Pipe == 1..MaxRuns + 1
Chunk == UNION {{c} \X (1..Input[c]) : c \in Client}
None == 0

VARIABLES
  world,
  run, phase,   \* the last run: "up", "exited", "closed" or "stopped"
  cur,          \* container.stdin and container.stdinPipe
  wclosed, rclosed,   \* the pipes with a closed end
  copier, src, hold,  \* a run's copier, its pipe, the chunk in its hands
  input, eof,   \* what waits for the process to read, and whether it ends
  got,          \* what the process has read
  cl,           \* a client
  shut,         \* whether it sent its EOF or is gone
  cmd,          \* the command that serves it
  to, sc, took, \* the copier of that command: its pipe, where it is, the
                \* chunks it took off the connection
  out           \* its StdoutPipe and StderrPipe

container == <<world, run, phase, cur>>
pipes == <<wclosed, rclosed>>
copiers == <<copier, src, hold>>
process == <<input, eof, got>>
clients == <<cl, shut>>
server == <<cmd, to, sc, took, out>>
vars == <<container, pipes, copiers, process, clients, server>>

Init ==
  /\ world \in World /\ run = 0 /\ phase = "stopped" /\ cur = 1
  /\ wclosed = {} /\ rclosed = {}
  /\ copier = [n \in Run |-> "off"] /\ src = [n \in Run |-> None]
  /\ hold = [n \in Run |-> <<>>]
  /\ input = <<>> /\ eof = FALSE /\ got = <<>>
  /\ cl = [c \in Client |-> "off"]
  /\ shut = [c \in Client |-> FALSE]
  /\ cmd = [c \in Client |-> "off"] /\ to = [c \in Client |-> None]
  /\ sc = [c \in Client |-> "off"] /\ took = [c \in Client |-> 0]
  /\ out = [c \in Client |-> "off"]

-----------------------------------------------------------------------------
(* A call.                                                                  *)

\* SimpleMode, Serve and what the command does before it waits: it takes the
\* current pipe, if it is to, and the pipes of the output.
Call(c, stdin) ==
  /\ cl[c] = "off" /\ cl' = [cl EXCEPT ![c] = "on"]
  /\ to' = [to EXCEPT ![c] = IF stdin THEN cur ELSE None]
  /\ sc' = [sc EXCEPT ![c] = IF stdin THEN "read" ELSE "off"]
  /\ out' = [out EXCEPT ![c] = "open"]
  /\ UNCHANGED <<container, pipes, copiers, process, shut, took>>

\* CmdRun -i -a, up to its Start.
CallRun ==
  /\ Call(Runner, TRUE) /\ cmd' = [cmd EXCEPT ![Runner] = "starting"]

\* CmdAttach with or without -i.
CallAttach(c) ==
  /\ c # Runner /\ run > 0
  /\ \E stdin \in BOOLEAN : Call(c, stdin)
  /\ cmd' = [cmd EXCEPT ![c] = "serving"]

\* Mutant: the copier is made with the container and ends with the first run.
BeginOnce ==
  /\ phase = "stopped" /\ run < MaxRuns /\ run' = run + 1 /\ phase' = "up"
  /\ copier' = [copier EXCEPT ![run + 1] = IF run = 0 THEN "begin" ELSE "done"]
  /\ UNCHANGED <<world, cur, pipes, src, hold, process, clients, to, sc, took, out>>

\* Start: the run has a copier of its own.
Begin ==
  /\ phase = "stopped" /\ run < MaxRuns /\ run' = run + 1 /\ phase' = "up"
  /\ copier' = [copier EXCEPT ![run + 1] = "begin"]
  /\ UNCHANGED <<world, cur, pipes, src, hold, process, clients, to, sc, took, out>>

StartRun ==
  /\ cmd[Runner] = "starting" /\ Begin
  /\ cmd' = [cmd EXCEPT ![Runner] = "serving"]

\* CmdStart, from somebody else.
Restart == run > 0 /\ Begin /\ UNCHANGED cmd

-----------------------------------------------------------------------------
(* The copier of a run, and the process.                                    *)

\* Its goroutine looks for container.stdin when it gets to run.
CopierBegins(n) ==
  /\ copier[n] = "begin" /\ copier' = [copier EXCEPT ![n] = "read"]
  /\ src' = [src EXCEPT ![n] = cur]
  /\ UNCHANGED <<container, pipes, hold, process, clients, server>>

\* A Write of a client's copier meets a Read of the pipe.
Pass(c, n) ==
  /\ sc[c] = "write" /\ copier[n] = "read" /\ src[n] = to[c]
  /\ hold' = [hold EXCEPT ![n] = <<c, took[c]>>]
  /\ copier' = [copier EXCEPT ![n] = "write"]
  /\ sc' = [sc EXCEPT ![c] = "read"]
  /\ UNCHANGED <<container, pipes, src, process, clients, cmd, to, took, out>>

\* The pipe of a process that is gone is closed; its tty is not, since
\* startPty never closes stdin_slave, and takes what nobody will read.
CopierWrite(n) ==
  /\ copier[n] = "write"
  /\ IF n = run /\ phase = "up"
     THEN /\ Len(input) < PipeSize /\ input' = Append(input, hold[n])
          /\ copier' = [copier EXCEPT ![n] = "read"]
     ELSE /\ copier' = [copier EXCEPT ![n] = IF world.tty THEN "read" ELSE "done"]
          /\ UNCHANGED input
  /\ hold' = [hold EXCEPT ![n] = <<>>]
  /\ UNCHANGED <<container, pipes, src, eof, got, clients, server>>

\* The pipe was closed.  start's copier closes the process's stdin, startPty's
\* closes the pipe it has just read to its end.
CopierEof(n) ==
  /\ copier[n] = "read" /\ src[n] \in wclosed
  /\ copier' = [copier EXCEPT ![n] = "done"]
  /\ IF world.tty
     THEN rclosed' = rclosed \union {src[n]} /\ UNCHANGED eof
     ELSE eof' = (eof \/ (n = run /\ phase = "up")) /\ UNCHANGED rclosed
  /\ UNCHANGED <<container, wclosed, src, hold, input, got, clients, server>>

ProcessReads ==
  /\ phase = "up" /\ input # <<>>
  /\ got' = Append(got, Head(input)) /\ input' = Tail(input)
  /\ UNCHANGED <<container, pipes, copiers, eof, clients, server>>

Exit ==
  /\ phase = "up" /\ phase' = "exited" /\ input' = <<>> /\ eof' = FALSE /\ got' = <<>>
  /\ UNCHANGED <<world, run, cur, pipes, copiers, clients, server>>

\* monitor closes the output of whoever is attached ...
MonitorClose ==
  /\ phase = "exited" /\ phase' = "closed"
  /\ out' = [c \in Client |-> IF out[c] = "open" THEN "ended" ELSE out[c]]
  /\ UNCHANGED <<world, run, cur, pipes, copiers, process, clients,
                 cmd, to, sc, took>>

\* Mutant: the next run gets the pipe of this one.
MonitorKeepsPipe ==
  /\ phase = "closed" /\ phase' = "stopped"
  /\ UNCHANGED <<world, run, cur, pipes, copiers, process, clients, server>>

\* ... makes the pipe of the next run and reports the stop.
MonitorStopped ==
  /\ phase = "closed" /\ phase' = "stopped" /\ cur' = cur + 1
  /\ UNCHANGED <<world, run, pipes, copiers, process, clients, server>>

-----------------------------------------------------------------------------
(* The command, in the goroutine of its connection and its copier.          *)

Served == <<container, rclosed, copiers, process, clients, to, out>>

\* The client types a chunk, and it is taken off the connection.
CopyRead(c) ==
  /\ sc[c] = "read" /\ cmd[c] # "returned"
  /\ cl[c] = "on" /\ ~shut[c] /\ took[c] < Input[c]
  /\ took' = [took EXCEPT ![c] = @ + 1] /\ sc' = [sc EXCEPT ![c] = "write"]
  /\ UNCHANGED <<Served, wclosed, cmd>>

ConnectionEnds(c) ==
  /\ sc[c] = "read"
  /\ cmd[c] = "returned" \/ shut[c]
  /\ sc' = [sc EXCEPT ![c] = "done"]

\* Mutant: run leaves its pipe open, as attach does.
CopyEndOpen(c) ==
  ConnectionEnds(c) /\ UNCHANGED <<Served, wclosed, cmd, took>>

\* Mutant: attach closes its pipe, as run does.
CopyEndCloses(c) ==
  /\ ConnectionEnds(c) /\ wclosed' = wclosed \union {to[c]}
  /\ UNCHANGED <<Served, cmd, took>>

\* run closes its pipe then, attach leaves it to others.
CopyEnd(c) ==
  /\ ConnectionEnds(c)
  /\ wclosed' = IF c = Runner THEN wclosed \union {to[c]} ELSE wclosed
  /\ UNCHANGED <<Served, cmd, took>>

\* A Write to a pipe with a closed end fails.
CopyRefused(c) ==
  /\ sc[c] = "write" /\ to[c] \in rclosed \union wclosed
  /\ sc' = [sc EXCEPT ![c] = "done"]
  /\ wclosed' = IF c = Runner THEN wclosed \union {to[c]} ELSE wclosed
  /\ UNCHANGED <<Served, cmd, took>>

\* There is output for a client that is gone.
OutputBreaks(c) ==
  /\ cl[c] = "killed" /\ out[c] = "open" /\ out' = [out EXCEPT ![c] = "broken"]
  /\ UNCHANGED <<container, pipes, copiers, process, clients, cmd, to, sc, took>>

\* The copies of the output are through; run then waits for the container,
\* attach for its copy of the input.
Ended(c) ==
  /\ cmd[c] = "serving" /\ out[c] \in {"ended", "broken"}
  /\ IF c = Runner THEN out[c] = "broken" \/ phase = "stopped"
                   ELSE sc[c] \in {"off", "done"}

\* Mutant: run waits for its copy of the input, too.
ReturnAfterInput(c) ==
  /\ Ended(c) /\ sc[c] \in {"off", "done"}
  /\ cmd' = [cmd EXCEPT ![c] = "returned"]
  /\ UNCHANGED <<container, pipes, copiers, process, clients, to, sc, took, out>>

\* The command returns and its connection is closed.
Return(c) ==
  /\ Ended(c) /\ cmd' = [cmd EXCEPT ![c] = "returned"]
  /\ UNCHANGED <<container, pipes, copiers, process, clients, to, sc, took, out>>

-----------------------------------------------------------------------------
(* The client: two copies, and what it waits for.                           *)

Daemon == <<container, pipes, copiers, process, server>>

\* Its stdin ends, which a raw terminal never does, or the connection is
\* closed when it sends.
SendEnds(c) ==
  /\ cl[c] \in {"on", "rest"} /\ ~shut[c]
  /\ c \notin world.term \/ cmd[c] = "returned"
  /\ shut' = [shut EXCEPT ![c] = TRUE] /\ UNCHANGED <<Daemon, cl>>

\* The output is at its end: at a terminal that is all, else SimpleMode waits
\* for its stdin to be.
Received(c) ==
  /\ cl[c] = "on" /\ cmd[c] = "returned"
  /\ cl' = [cl EXCEPT ![c] = IF c \in world.term THEN "exited" ELSE "rest"]
  /\ UNCHANGED <<Daemon, shut>>

Sent(c) ==
  /\ cl[c] = "rest" /\ shut[c] /\ cl' = [cl EXCEPT ![c] = "exited"]
  /\ UNCHANGED <<Daemon, shut>>

Killed(c) ==
  /\ cl[c] \in {"on", "rest"} /\ cl' = [cl EXCEPT ![c] = "killed"]
  /\ shut' = [shut EXCEPT ![c] = TRUE] /\ UNCHANGED Daemon

-----------------------------------------------------------------------------
CopierStep(n) == CopierBegins(n) \/ CopierWrite(n) \/ CopierEof(n)
ClientStep(c) == SendEnds(c) \/ Received(c) \/ Sent(c) \/ Killed(c)

Next ==
  \/ CallRun \/ StartRun \/ Restart \/ Exit \/ ProcessReads
  \/ MonitorClose \/ MonitorStopped
  \/ \E n \in Run : CopierStep(n)
  \/ \E c \in Client, n \in Run : Pass(c, n)
  \/ \E c \in Client :
       \/ CallAttach(c) \/ CopyRead(c) \/ CopyEnd(c) \/ CopyRefused(c)
       \/ OutputBreaks(c) \/ Return(c) \/ ClientStep(c)

\* The goroutines of the daemon and the client go on; the process is one that
\* reads its input.  Nobody has to call, type, end or go.
Fairness ==
  /\ WF_vars(StartRun) /\ WF_vars(ProcessReads)
  /\ WF_vars(MonitorClose) /\ WF_vars(MonitorStopped)
  /\ \A n \in Run : WF_vars(CopierStep(n))
  /\ \A c \in Client :
       /\ WF_vars(\E n \in Run : Pass(c, n))
       /\ WF_vars(CopyEnd(c)) /\ WF_vars(Return(c))
       /\ WF_vars(Received(c)) /\ WF_vars(Sent(c))

Spec == Init /\ [][Next]_vars /\ Fairness

-----------------------------------------------------------------------------
TypeOK ==
  /\ world \in World /\ run \in 0..MaxRuns
  /\ phase \in {"up", "exited", "closed", "stopped"}
  /\ cur \in Pipe /\ cur = run + (IF phase = "stopped" THEN 1 ELSE 0)
  /\ wclosed \subseteq Pipe /\ rclosed \subseteq Pipe
  /\ copier \in [Run -> {"off", "begin", "read", "write", "done"}]
  /\ src \in [Run -> Pipe \union {None}]
  /\ hold \in [Run -> Chunk \union {<<>>}]
  /\ input \in Seq(Chunk) /\ Len(input) <= PipeSize /\ eof \in BOOLEAN
  /\ got \in Seq(Chunk)
  /\ cl \in [Client -> {"off", "on", "rest", "exited", "killed"}]
  /\ \A c \in Client : took[c] \in 0..Input[c]
  /\ shut \in [Client -> BOOLEAN]
  /\ cmd \in [Client -> {"off", "starting", "serving", "returned"}]
  /\ to \in [Client -> Pipe \union {None}]
  /\ sc \in [Client -> {"off", "read", "write", "done"}]
  /\ out \in [Client -> {"off", "open", "ended", "broken"}]

\* The copier of an earlier run that got to its pipe only when that was the
\* pipe of run n already: there are two readers then.
Shared(n) == \E m \in Run : m # n /\ src[m] = n

\* Whoever's chunks are in s, they are there from the first on, in order, none
\* missing between them and none twice.
InOrder(s) ==
  \A i \in 1..Len(s) :
    /\ \A k \in 1..(s[i][2] - 1) : \E j \in 1..(i - 1) : s[j] = <<s[i][1], k>>
    /\ \A j \in 1..(i - 1) : s[j] # s[i]

\* A process reads what a client typed for its run, in order and from the
\* first chunk on, with nothing left out, and never what was typed for an
\* earlier one (container.go:462; container_test.go:275-320 restarts once).
InputInOrder ==
  ~Shared(run) => InOrder(got) /\ \A i \in 1..Len(got) : to[got[i][1]] = run

\* The stdin of a process ends when the input of the one who ran it does,
\* never with an attached client's, and in a later run not at all
\* (server/server.go:793 and 880-884).
OnlyRunnerEnds ==
  eof => /\ run = 1 /\ sc[Runner] = "done"
         /\ shut[Runner] \/ cmd[Runner] = "returned"

\* It does end then, after all of the input: docker run -i -a in a pipeline
\* gets through (container_test.go:500-534).  A tty never sees an end.
EofReaches ==
  ~world.tty /\ cmd[Runner] = "serving" /\ shut[Runner] ~>
    eof \/ phase # "up" \/ run > 1

\* What is typed for the run that is up does not get stuck on its way, who
\* ever was attached to an earlier one.
InputFlows ==
  \A c \in Client :
    sc[c] = "write" /\ phase = "up" /\ to[c] = run ~>
      sc[c] # "write" \/ phase # "up" \/ to[c] \in wclosed \union rclosed

\* When the container stops for good, whoever waits for it gets back, but for
\* two: attach -i, whose copy of the input has to end first, and a client
\* whose own stdin is neither a terminal nor at its end (client.go:52-62,
\* server/server.go:811, 907-915).
ClientsReturn ==
  \A c \in Client :
    run = MaxRuns /\ phase = "exited" ~>
      \/ cl[c] \in {"off", "exited", "killed"}
      \/ c # Runner /\ sc[c] \notin {"off", "done"}
      \/ c \notin world.term /\ ~shut[c]
=============================================================================
