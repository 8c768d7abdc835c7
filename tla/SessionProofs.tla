--------------------------- MODULE SessionProofs ----------------------------
(***************************************************************************)
(* For any number of clients, runs and chunks of input: the stdin of a     *)
(* process ends only with the input of who ran it, and a process reads     *)
(* what was typed for its run from the first chunk on and in order. The    *)
(* line of a run is what its process has read, what waits for it and what  *)
(* its copier has in its hands: it always has, of each client that still   *)
(* copies into its pipe, all the chunks passed so far. Last, neither a     *)
(* chunk nor the end of the input is held up.                              *)
(***************************************************************************)
EXTENDS Session, SequenceTheorems, TLAPS

PhaseValues == {"up", "exited", "closed", "stopped"}
CopierValues == {"off", "begin", "read", "write", "done"}

\* The pipe is that of the run that is up or comes next, and only the first
\* is ever closed.
RunOK ==
  /\ world \in World /\ run \in 0..MaxRuns /\ phase \in PhaseValues
  /\ cur = (IF phase = "stopped" THEN run + 1 ELSE run)
  /\ run = 0 => phase = "stopped"

\* The copier of a run reads its pipe or that of a later one.
CopierOK ==
  /\ copier \in [Run -> CopierValues] /\ src \in [Run -> Pipe \union {None}]
  /\ hold \in [Run -> Chunk \union {<<>>}]
  /\ \A n \in Run : copier[n] # "off" => n <= run
  /\ \A n \in Run : copier[n] \in {"read", "write"} => src[n] >= n
  /\ \A n \in Run : copier[n] = "write" => hold[n] \in Chunk

ProcessOK ==
  /\ input \in Seq(Chunk) /\ Len(input) <= PipeSize
  /\ got \in Seq(Chunk) /\ eof \in BOOLEAN

ClientOK ==
  /\ cl \in [Client -> {"off", "on", "rest", "exited", "killed"}]
  /\ shut \in [Client -> BOOLEAN]

CommandOK ==
  /\ cmd \in [Client -> {"off", "starting", "serving", "returned"}]
  /\ sc \in [Client -> {"off", "read", "write", "done"}]
  /\ out \in [Client -> {"off", "open", "ended", "broken"}]

InputOK ==
  /\ to \in [Client -> Pipe \union {None}] /\ took \in [Client -> Nat]
  /\ \A c \in Client : took[c] <= Input[c]
  /\ \A c \in Client : sc[c] = "write" => took[c] > 0

\* Who runs it does so before its first start, so has its first pipe ...
RunnerOK ==
  /\ cmd[Runner] \in {"off", "starting"} => run = 0
  /\ cl[Runner] = "off" => cmd[Runner] = "off"
  /\ cl[Runner] = "off" => sc[Runner] = "off"
  /\ sc[Runner] # "off" => to[Runner] = 1

\* ... and is who closes it, at the end of its own input.
ClosedOK ==
  /\ wclosed \subseteq {1} /\ rclosed \subseteq wclosed
  /\ wclosed # {} =>
       sc[Runner] = "done" /\ (shut[Runner] \/ cmd[Runner] = "returned")

EofOK == eof => phase = "up" /\ run = 1 /\ wclosed # {}

IInv ==
  /\ RunOK /\ CopierOK /\ ProcessOK /\ ClientOK /\ CommandOK /\ InputOK
  /\ RunnerOK /\ ClosedOK /\ EofOK

\* What the constants are.
LEMMA Constants ==
  /\ Runner \in Client /\ MaxRuns \in Nat /\ PipeSize \in Nat /\ PipeSize > 0
  /\ Input \in [Client -> Nat]
BY SessionAssumption

\* A run has a pipe, and so has what comes after it.
LEMMA RunsAndPipes ==
  /\ Run \subseteq Nat /\ Pipe \subseteq Nat /\ 1 \in Pipe
  /\ \A n \in Nat : n > 0 /\ n <= MaxRuns => n \in Run /\ n \in Pipe
       /\ n + 1 \in Pipe
BY Constants DEF Run, Pipe

\* A pipe that a client or a copier gets is one that exists.
LEMMA CurIsPipe ==
  ASSUME RunOK
  PROVE  cur \in Pipe /\ cur \in Nat /\ run <= cur /\ run \in Nat
BY Constants DEF RunOK, Pipe

\* No step of the daemon, of the process or of a client breaks it.
LEMMA NextKeeps ==
  ASSUME IInv, [Next]_vars
  PROVE  IInv'
<1>1. /\ RunOK /\ CopierOK /\ ProcessOK /\ ClientOK /\ CommandOK /\ InputOK
      /\ RunnerOK /\ ClosedOK /\ EofOK
  BY DEF IInv
<1>2. ASSUME CallRun PROVE IInv'
  <2>1. UNCHANGED <<world, run, phase, cur, wclosed, rclosed, copier, src, hold,
            input, eof, got, shut, took>>
    BY <1>2
      DEF CallRun, Call, container, pipes, copiers, process, clients, server,
         Served, Daemon
  <2>2. RunOK' /\ CopierOK' /\ ProcessOK' /\ EofOK'
    BY <1>1, <2>1 DEF RunOK, CopierOK, ProcessOK, EofOK
  <2>3. ClientOK'
    BY <1>1, <1>2, <2>1, Constants DEF CallRun, Call, ClientOK
  <2>4. CommandOK'
    BY <1>1, <1>2, <2>1, Constants DEF CallRun, Call, CommandOK
  <2>5. InputOK'
    <3>1. to' = [to EXCEPT ![Runner] = cur] /\ sc' = [sc EXCEPT ![Runner] = "read"]
      BY <1>2 DEF CallRun, Call
    <3>2. to' \in [Client -> Pipe \union {None}]
      BY <1>1, <3>1, CurIsPipe DEF InputOK
    <3>3. \A d \in Client : sc'[d] = "write" => sc[d] = "write"
      BY <1>1, <3>1 DEF CommandOK
    <3> QED BY <1>1, <2>1, <3>2, <3>3 DEF InputOK
  <2>6. RunnerOK'
    <3>1. /\ cl[Runner] = "off" /\ cl' = [cl EXCEPT ![Runner] = "on"]
          /\ to' = [to EXCEPT ![Runner] = cur]
               /\ cmd' = [cmd EXCEPT ![Runner] = "starting"]
      BY <1>2 DEF CallRun, Call
    <3>2. run = 0
      BY <1>1, <3>1 DEF RunnerOK
    <3>3. cur = 1
      BY <1>1, <3>2 DEF RunOK
    <3>4. cl'[Runner] = "on" /\ to'[Runner] = 1
      BY <1>1, <3>1, <3>3, Constants DEF ClientOK, InputOK
    <3> QED BY <2>1, <3>2, <3>4 DEF RunnerOK
  <2>7. ClosedOK'
    <3>1. cl[Runner] = "off"
      BY <1>2 DEF CallRun, Call
    <3>2. wclosed = {}
      BY <1>1, <3>1 DEF RunnerOK, ClosedOK
    <3> QED BY <1>1, <2>1, <3>2 DEF ClosedOK
  <2> QED BY <2>2, <2>3, <2>4, <2>5, <2>6, <2>7 DEF IInv
<1>3. ASSUME NEW c \in Client, CallAttach(c) PROVE IInv'
  <2>1. UNCHANGED <<world, run, phase, cur, wclosed, rclosed, copier, src, hold,
            input, eof, got, shut, took>>
    BY <1>3
      DEF CallAttach, Call, container, pipes, copiers, process, clients, server,
         Served, Daemon
  <2>2. RunOK' /\ CopierOK' /\ ProcessOK' /\ EofOK'
    BY <1>1, <2>1 DEF RunOK, CopierOK, ProcessOK, EofOK
  <2>3. ClientOK'
    BY <1>1, <1>3, <2>1, Constants DEF CallAttach, Call, ClientOK
  <2>4. CommandOK'
    BY <1>1, <1>3, <2>1, Constants DEF CallAttach, Call, CommandOK
  <2>5. InputOK'
    <3>1. PICK p \in Pipe \union {None}, m \in {"read", "off"} :
            to' = [to EXCEPT ![c] = p] /\ sc' = [sc EXCEPT ![c] = m]
      BY <1>1, <1>3, CurIsPipe DEF CallAttach, Call
    <3>2. to' \in [Client -> Pipe \union {None}]
      BY <1>1, <3>1 DEF InputOK
    <3>3. \A d \in Client : sc'[d] = "write" => sc[d] = "write"
      BY <1>1, <3>1 DEF CommandOK
    <3> QED BY <1>1, <2>1, <3>2, <3>3 DEF InputOK
  <2>6. RunnerOK'
    BY <1>1, <1>3, <2>1, Constants DEF CallAttach, Call, RunnerOK
  <2>7. ClosedOK'
    BY <1>1, <1>3, <2>1, Constants DEF CallAttach, Call, ClosedOK
  <2> QED BY <2>2, <2>3, <2>4, <2>5, <2>6, <2>7 DEF IInv
<1>4. ASSUME StartRun PROVE IInv'
  <2>1. UNCHANGED <<world, cur, wclosed, rclosed, src, hold, input, eof, got, cl,
            shut, to, sc, took, out>>
    BY <1>4
      DEF StartRun, Begin, container, pipes, copiers, process, clients, server,
         Served, Daemon
  <2>2. ProcessOK' /\ ClientOK' /\ InputOK'
    BY <1>1, <2>1 DEF ProcessOK, ClientOK, InputOK
  <2>3. RunOK'
    BY <1>1, <1>4, <2>1, Constants DEF StartRun, Begin, RunOK, PhaseValues
  <2>4. CopierOK'
    <3>1. /\ run < MaxRuns /\ run' = run + 1
               /\ copier' = [copier EXCEPT ![run + 1] = "begin"]
      BY <1>4 DEF StartRun, Begin
    <3>2. run \in Nat /\ run + 1 \in Run
      <4>1. run \in Nat
        BY <1>1, CurIsPipe
      <4>2. run + 1 \in Nat /\ run + 1 > 0 /\ run + 1 <= MaxRuns
        BY <3>1, <4>1, Constants
      <4> QED BY <4>1, <4>2, RunsAndPipes
    <3>3. /\ copier' \in [Run -> CopierValues] /\ copier'[run + 1] = "begin"
          /\ \A n \in Run \ {run + 1} : copier'[n] = copier[n]
      BY <1>1, <3>1, <3>2 DEF CopierOK, CopierValues
    <3>4. ASSUME NEW n \in Run, copier'[n] # "off" PROVE n <= run'
      <4>1. CASE n = run + 1
        BY <3>1, <3>2, <4>1
      <4>2. CASE n # run + 1
        <5>1. n <= run
          BY <1>1, <3>3, <3>4, <4>2 DEF CopierOK
        <5> QED BY <3>1, <3>2, <5>1, RunsAndPipes
      <4> QED BY <4>1, <4>2
    <3> QED BY <1>1, <2>1, <3>3, <3>4 DEF CopierOK
  <2>5. CommandOK'
    BY <1>1, <1>4, <2>1, Constants DEF StartRun, Begin, CommandOK
  <2>6. RunnerOK'
    <3>1. cmd[Runner] = "starting" /\ cmd' = [cmd EXCEPT ![Runner] = "serving"]
      BY <1>4 DEF StartRun
    <3>2. cmd'[Runner] = "serving"
      BY <1>1, <3>1, Constants DEF CommandOK
    <3>3. cl[Runner] # "off"
      BY <1>1, <3>1 DEF RunnerOK
    <3> QED BY <1>1, <2>1, <3>2, <3>3 DEF RunnerOK
  <2>7. ClosedOK'
    BY <1>1, <1>4, <2>1, Constants DEF StartRun, Begin, ClosedOK
  <2>8. EofOK'
    BY <1>1, <1>4, <2>1, Constants DEF StartRun, Begin, EofOK
  <2> QED BY <2>2, <2>3, <2>4, <2>5, <2>6, <2>7, <2>8 DEF IInv
<1>5. ASSUME Restart PROVE IInv'
  <2>1. UNCHANGED <<world, cur, wclosed, rclosed, src, hold, input, eof, got, cl,
            shut, cmd, to, sc, took, out>>
    BY <1>5
      DEF Restart, Begin, container, pipes, copiers, process, clients, server,
         Served, Daemon
  <2>2. ProcessOK' /\ ClientOK' /\ CommandOK' /\ InputOK' /\ ClosedOK'
    BY <1>1, <2>1 DEF ProcessOK, ClientOK, CommandOK, InputOK, ClosedOK
  <2>3. RunOK'
    BY <1>1, <1>5, <2>1, Constants DEF Restart, Begin, RunOK, PhaseValues
  <2>4. CopierOK'
    <3>1. /\ run < MaxRuns /\ run' = run + 1
               /\ copier' = [copier EXCEPT ![run + 1] = "begin"]
      BY <1>5 DEF Restart, Begin
    <3>2. run \in Nat /\ run + 1 \in Run
      <4>1. run \in Nat
        BY <1>1, CurIsPipe
      <4>2. run + 1 \in Nat /\ run + 1 > 0 /\ run + 1 <= MaxRuns
        BY <3>1, <4>1, Constants
      <4> QED BY <4>1, <4>2, RunsAndPipes
    <3>3. /\ copier' \in [Run -> CopierValues] /\ copier'[run + 1] = "begin"
          /\ \A n \in Run \ {run + 1} : copier'[n] = copier[n]
      BY <1>1, <3>1, <3>2 DEF CopierOK, CopierValues
    <3>4. ASSUME NEW n \in Run, copier'[n] # "off" PROVE n <= run'
      <4>1. CASE n = run + 1
        BY <3>1, <3>2, <4>1
      <4>2. CASE n # run + 1
        <5>1. n <= run
          BY <1>1, <3>3, <3>4, <4>2 DEF CopierOK
        <5> QED BY <3>1, <3>2, <5>1, RunsAndPipes
      <4> QED BY <4>1, <4>2
    <3> QED BY <1>1, <2>1, <3>3, <3>4 DEF CopierOK
  <2>5. RunnerOK'
    BY <1>1, <1>5, <2>1, Constants DEF Restart, Begin, RunnerOK
  <2>6. EofOK'
    BY <1>1, <1>5, <2>1, Constants DEF Restart, Begin, EofOK
  <2> QED BY <2>2, <2>3, <2>4, <2>5, <2>6 DEF IInv
<1>6. ASSUME NEW n \in Run, CopierBegins(n) PROVE IInv'
  <2>1. UNCHANGED <<world, run, phase, cur, wclosed, rclosed, hold, input, eof,
            got, cl, shut, cmd, to, sc, took, out>>
    BY <1>6
      DEF CopierBegins, container, pipes, copiers, process, clients, server,
         Served, Daemon
  <2>2. RunOK' /\ ProcessOK' /\ ClientOK' /\ CommandOK' /\ InputOK' /\ RunnerOK'
          /\ ClosedOK' /\ EofOK'
    BY <1>1, <2>1
      DEF RunOK, ProcessOK, ClientOK, CommandOK, InputOK, RunnerOK, ClosedOK, EofOK
  <2>3. CopierOK'
    <3>1. /\ copier[n] = "begin" /\ copier' = [copier EXCEPT ![n] = "read"]
          /\ src' = [src EXCEPT ![n] = cur]
      BY <1>6 DEF CopierBegins
    <3>2. n <= run /\ cur \in Pipe /\ n \in Nat /\ cur >= n
      BY <1>1, <3>1, CurIsPipe, RunsAndPipes DEF CopierOK
    <3>3. /\ copier' \in [Run -> CopierValues] /\ copier'[n] = "read"
          /\ \A m \in Run \ {n} : copier'[m] = copier[m]
      BY <1>1, <3>1 DEF CopierOK, CopierValues
    <3>4. /\ src' \in [Run -> Pipe \union {None}] /\ src'[n] = cur
          /\ \A m \in Run \ {n} : src'[m] = src[m]
      BY <1>1, <3>1, <3>2 DEF CopierOK
    <3> QED BY <1>1, <2>1, <3>1, <3>2, <3>3, <3>4 DEF CopierOK
  <2> QED BY <2>2, <2>3 DEF IInv
<1>7. ASSUME NEW c \in Client, NEW n \in Run, Pass(c, n) PROVE IInv'
  <2>1. UNCHANGED <<world, run, phase, cur, wclosed, rclosed, src, input, eof, got,
            cl, shut, cmd, to, took, out>>
    BY <1>7
      DEF Pass, container, pipes, copiers, process, clients, server, Served, Daemon
  <2>2. RunOK' /\ ProcessOK' /\ ClientOK' /\ EofOK'
    BY <1>1, <2>1 DEF RunOK, ProcessOK, ClientOK, EofOK
  <2>3. CopierOK'
    <3>1. /\ sc[c] = "write" /\ copier[n] = "read"
               /\ hold' = [hold EXCEPT ![n] = <<c, took[c]>>]
          /\ copier' = [copier EXCEPT ![n] = "write"]
      BY <1>7 DEF Pass
    <3>2. <<c, took[c]>> \in Chunk
      <4>1. took[c] \in 1..Input[c]
        BY <1>1, <3>1, Constants DEF InputOK
      <4> QED BY <4>1 DEF Chunk
    <3>3. /\ copier' \in [Run -> CopierValues] /\ copier'[n] = "write"
          /\ \A m \in Run \ {n} : copier'[m] = copier[m]
      BY <1>1, <3>1 DEF CopierOK, CopierValues
    <3>4. /\ hold' \in [Run -> Chunk \union {<<>>}] /\ hold'[n] \in Chunk
          /\ \A m \in Run \ {n} : hold'[m] = hold[m]
      BY <1>1, <3>1, <3>2 DEF CopierOK
    <3> QED BY <1>1, <2>1, <3>1, <3>3, <3>4 DEF CopierOK
  <2>4. CommandOK'
    BY <1>1, <1>7, <2>1, Constants DEF Pass, CommandOK
  <2>5. InputOK'
    BY <1>1, <1>7, <2>1, Constants DEF Pass, InputOK
  <2>6. RunnerOK'
    BY <1>1, <1>7, <2>1, Constants DEF Pass, RunnerOK
  <2>7. ClosedOK'
    BY <1>1, <1>7, <2>1, Constants DEF Pass, ClosedOK
  <2> QED BY <2>2, <2>3, <2>4, <2>5, <2>6, <2>7 DEF IInv
<1>8. ASSUME NEW n \in Run, CopierWrite(n) PROVE IInv'
  <2>1. UNCHANGED <<world, run, phase, cur, wclosed, rclosed, src, eof, got, cl,
            shut, cmd, to, sc, took, out>>
    BY <1>8
      DEF CopierWrite, container, pipes, copiers, process, clients, server, Served,
         Daemon
  <2>2. RunOK' /\ ClientOK' /\ CommandOK' /\ InputOK' /\ RunnerOK' /\ ClosedOK'
          /\ EofOK'
    BY <1>1, <2>1 DEF RunOK, ClientOK, CommandOK, InputOK, RunnerOK, ClosedOK, EofOK
  <2>3. CopierOK'
    BY <1>1, <1>8, <2>1, Constants DEF CopierWrite, CopierOK, CopierValues
  <2>4. ProcessOK'
    <3>1. CASE input' = input
      BY <1>1, <2>1, <3>1 DEF ProcessOK
    <3>2. CASE input' # input
      <4>1. copier[n] = "write" /\ Len(input) < PipeSize
              /\ input' = Append(input, hold[n])
        BY <1>8, <3>2 DEF CopierWrite
      <4>2. hold[n] \in Chunk
        BY <1>1, <4>1 DEF CopierOK
      <4>3. input \in Seq(Chunk)
        BY <1>1 DEF ProcessOK
      <4>4. input' \in Seq(Chunk) /\ Len(input') = Len(input) + 1
        BY <4>1, <4>2, <4>3
      <4>5. Len(input') <= PipeSize
        BY <4>1, <4>3, <4>4, Constants
      <4> QED BY <1>1, <2>1, <4>4, <4>5 DEF ProcessOK
    <3> QED BY <3>1, <3>2
  <2> QED BY <2>2, <2>3, <2>4 DEF IInv
<1>9. ASSUME NEW n \in Run, CopierEof(n) PROVE IInv'
  <2>1. UNCHANGED <<world, run, phase, cur, wclosed, src, hold, input, got, cl,
            shut, cmd, to, sc, took, out>>
    BY <1>9
      DEF CopierEof, container, pipes, copiers, process, clients, server, Served,
         Daemon
  <2>2. RunOK' /\ ClientOK' /\ CommandOK' /\ InputOK' /\ RunnerOK'
    BY <1>1, <2>1 DEF RunOK, ClientOK, CommandOK, InputOK, RunnerOK
  <2>3. CopierOK'
    BY <1>1, <1>9, <2>1, Constants DEF CopierEof, CopierOK, CopierValues
  <2>4. ProcessOK'
    BY <1>1, <1>9, <2>1, Constants DEF CopierEof, ProcessOK
  <2>5. ClosedOK'
    BY <1>1, <1>9, <2>1, Constants DEF CopierEof, ClosedOK
  <2>6. EofOK'
    <3>1. CASE eof' = eof
      BY <1>1, <2>1, <3>1 DEF EofOK
    <3>2. CASE eof' # eof
      <4>1. copier[n] = "read" /\ src[n] \in wclosed /\ n = run /\ phase = "up"
        BY <1>1, <1>9, <3>2 DEF CopierEof, ProcessOK
      <4>2. src[n] = 1
        BY <1>1, <4>1 DEF ClosedOK
      <4>3. n <= 1 /\ n \in Nat /\ n > 0
        BY <1>1, <4>1, <4>2, Constants DEF CopierOK, Run
      <4>4. run = 1
        BY <4>1, <4>3
      <4> QED BY <2>1, <4>1, <4>4 DEF EofOK
    <3> QED BY <3>1, <3>2
  <2> QED BY <2>2, <2>3, <2>4, <2>5, <2>6 DEF IInv
<1>10. ASSUME ProcessReads PROVE IInv'
  <2>1. UNCHANGED <<world, run, phase, cur, wclosed, rclosed, copier, src, hold,
            eof, cl, shut, cmd, to, sc, took, out>>
    BY <1>10
      DEF ProcessReads, container, pipes, copiers, process, clients, server,
         Served, Daemon
  <2>2. RunOK' /\ CopierOK' /\ ClientOK' /\ CommandOK' /\ InputOK' /\ RunnerOK'
          /\ ClosedOK' /\ EofOK'
    BY <1>1, <2>1
      DEF RunOK, CopierOK, ClientOK, CommandOK, InputOK, RunnerOK, ClosedOK, EofOK
  <2>3. ProcessOK'
    BY <1>1, <1>10, <2>1, Constants DEF ProcessReads, ProcessOK
  <2> QED BY <2>2, <2>3 DEF IInv
<1>11. ASSUME Exit PROVE IInv'
  <2>1. UNCHANGED <<world, run, cur, wclosed, rclosed, copier, src, hold, cl, shut,
            cmd, to, sc, took, out>>
    BY <1>11
      DEF Exit, container, pipes, copiers, process, clients, server, Served, Daemon
  <2>2. CopierOK' /\ ClientOK' /\ CommandOK' /\ InputOK' /\ RunnerOK' /\ ClosedOK'
    BY <1>1, <2>1 DEF CopierOK, ClientOK, CommandOK, InputOK, RunnerOK, ClosedOK
  <2>3. RunOK'
    BY <1>1, <1>11, <2>1, Constants DEF Exit, RunOK, PhaseValues
  <2>4. ProcessOK'
    <3>1. input' = <<>> /\ got' = <<>>
      BY <1>11 DEF Exit
    <3>2. eof' \in BOOLEAN
      BY <1>11, Zenon DEF Exit
    <3> QED BY <3>1, <3>2, Constants DEF ProcessOK
  <2>5. EofOK'
    BY <1>1, <1>11, <2>1, Constants DEF Exit, EofOK
  <2> QED BY <2>2, <2>3, <2>4, <2>5 DEF IInv
<1>12. ASSUME MonitorClose PROVE IInv'
  <2>1. UNCHANGED <<world, run, cur, wclosed, rclosed, copier, src, hold, input,
            eof, got, cl, shut, cmd, to, sc, took>>
    BY <1>12
      DEF MonitorClose, container, pipes, copiers, process, clients, server,
         Served, Daemon
  <2>2. CopierOK' /\ ProcessOK' /\ ClientOK' /\ InputOK' /\ RunnerOK' /\ ClosedOK'
    BY <1>1, <2>1 DEF CopierOK, ProcessOK, ClientOK, InputOK, RunnerOK, ClosedOK
  <2>3. RunOK'
    BY <1>1, <1>12, <2>1, Constants DEF MonitorClose, RunOK, PhaseValues
  <2>4. CommandOK'
    BY <1>1, <1>12, <2>1, Constants DEF MonitorClose, CommandOK
  <2>5. EofOK'
    BY <1>1, <1>12, <2>1, Constants DEF MonitorClose, EofOK
  <2> QED BY <2>2, <2>3, <2>4, <2>5 DEF IInv
<1>13. ASSUME MonitorStopped PROVE IInv'
  <2>1. UNCHANGED <<world, run, wclosed, rclosed, copier, src, hold, input, eof,
            got, cl, shut, cmd, to, sc, took, out>>
    BY <1>13
      DEF MonitorStopped, container, pipes, copiers, process, clients, server,
         Served, Daemon
  <2>2. CopierOK' /\ ProcessOK' /\ ClientOK' /\ CommandOK' /\ InputOK'
          /\ RunnerOK' /\ ClosedOK'
    BY <1>1, <2>1
      DEF CopierOK, ProcessOK, ClientOK, CommandOK, InputOK, RunnerOK, ClosedOK
  <2>3. RunOK'
    BY <1>1, <1>13, <2>1, Constants DEF MonitorStopped, RunOK, PhaseValues
  <2>4. EofOK'
    BY <1>1, <1>13, <2>1, Constants DEF MonitorStopped, EofOK
  <2> QED BY <2>2, <2>3, <2>4 DEF IInv
<1>14. ASSUME NEW c \in Client, CopyRead(c) PROVE IInv'
  <2>1. UNCHANGED <<world, run, phase, cur, wclosed, rclosed, copier, src, hold,
            input, eof, got, cl, shut, cmd, to, out>>
    BY <1>14
      DEF CopyRead, container, pipes, copiers, process, clients, server, Served,
         Daemon
  <2>2. RunOK' /\ CopierOK' /\ ProcessOK' /\ ClientOK' /\ EofOK'
    BY <1>1, <2>1 DEF RunOK, CopierOK, ProcessOK, ClientOK, EofOK
  <2>3. CommandOK'
    BY <1>1, <1>14, <2>1, Constants DEF CopyRead, CommandOK
  <2>4. InputOK'
    <3>1. /\ took[c] < Input[c] /\ took' = [took EXCEPT ![c] = took[c] + 1]
          /\ sc' = [sc EXCEPT ![c] = "write"]
      BY <1>14 DEF CopyRead
    <3>2. took[c] \in Nat /\ Input[c] \in Nat
      BY <1>1, Constants DEF InputOK
    <3>3. /\ took' \in [Client -> Nat] /\ took'[c] = took[c] + 1
          /\ \A d \in Client \ {c} : took'[d] = took[d]
      BY <1>1, <3>1, <3>2 DEF InputOK
    <3>4. \A d \in Client : took'[d] <= Input[d]
      <4>1. took'[c] <= Input[c]
        BY <3>1, <3>2, <3>3
      <4>2. \A d \in Client \ {c} : took'[d] <= Input[d]
        BY <1>1, <3>3 DEF InputOK
      <4> QED BY <4>1, <4>2
    <3>5. ASSUME NEW d \in Client, sc'[d] = "write" PROVE took'[d] > 0
      <4>1. CASE d = c
        BY <3>2, <3>3, <4>1
      <4>2. CASE d # c
        <5>1. sc[d] = "write"
          BY <1>1, <3>1, <3>5, <4>2 DEF CommandOK
        <5> QED BY <1>1, <3>3, <4>2, <5>1 DEF InputOK
      <4> QED BY <4>1, <4>2
    <3> QED BY <1>1, <2>1, <3>3, <3>4, <3>5 DEF InputOK
  <2>5. RunnerOK'
    BY <1>1, <1>14, <2>1, Constants DEF CopyRead, RunnerOK
  <2>6. ClosedOK'
    BY <1>1, <1>14, <2>1, Constants DEF CopyRead, ClosedOK
  <2> QED BY <2>2, <2>3, <2>4, <2>5, <2>6 DEF IInv
<1>15. ASSUME NEW c \in Client, CopyEnd(c) PROVE IInv'
  <2>1. UNCHANGED <<world, run, phase, cur, rclosed, copier, src, hold, input, eof,
            got, cl, shut, cmd, to, took, out>>
    BY <1>15
      DEF CopyEnd, ConnectionEnds, container, pipes, copiers, process, clients,
         server, Served, Daemon
  <2>2. RunOK' /\ CopierOK' /\ ProcessOK' /\ ClientOK'
    BY <1>1, <2>1 DEF RunOK, CopierOK, ProcessOK, ClientOK
  <2>3. CommandOK'
    BY <1>1, <1>15, <2>1, Constants DEF CopyEnd, ConnectionEnds, CommandOK
  <2>4. InputOK'
    BY <1>1, <1>15, <2>1, Constants DEF CopyEnd, ConnectionEnds, InputOK
  <2>5. RunnerOK'
    BY <1>1, <1>15, <2>1, Constants DEF CopyEnd, ConnectionEnds, RunnerOK
  <2>6. ClosedOK'
    <3>1. /\ sc[c] = "read" /\ (cmd[c] = "returned" \/ shut[c])
          /\ sc' = [sc EXCEPT ![c] = "done"]
          /\ wclosed' = IF c = Runner THEN wclosed \union {to[c]} ELSE wclosed
      BY <1>15 DEF CopyEnd, ConnectionEnds
    <3>2. CASE c = Runner
      <4>1. to[Runner] = 1
        BY <1>1, <3>1, <3>2 DEF RunnerOK
      <4>2. sc'[Runner] = "done"
        BY <1>1, <3>1, <3>2, Constants DEF CommandOK
      <4> QED BY <1>1, <2>1, <3>1, <3>2, <4>1, <4>2 DEF ClosedOK
    <3>3. CASE c # Runner
      <4>1. sc'[Runner] = sc[Runner]
        BY <1>1, <3>1, <3>3, Constants DEF CommandOK
      <4> QED BY <1>1, <2>1, <3>1, <3>3, <4>1 DEF ClosedOK
    <3> QED BY <3>2, <3>3
  <2>7. EofOK'
    BY <1>1, <1>15, <2>1, Constants DEF CopyEnd, ConnectionEnds, EofOK
  <2> QED BY <2>2, <2>3, <2>4, <2>5, <2>6, <2>7 DEF IInv
<1>16. ASSUME NEW c \in Client, CopyRefused(c) PROVE IInv'
  <2>1. UNCHANGED <<world, run, phase, cur, rclosed, copier, src, hold, input, eof,
            got, cl, shut, cmd, to, took, out>>
    BY <1>16
      DEF CopyRefused, container, pipes, copiers, process, clients, server, Served,
         Daemon
  <2>2. RunOK' /\ CopierOK' /\ ProcessOK' /\ ClientOK'
    BY <1>1, <2>1 DEF RunOK, CopierOK, ProcessOK, ClientOK
  <2>3. CommandOK'
    BY <1>1, <1>16, <2>1, Constants DEF CopyRefused, CommandOK
  <2>4. InputOK'
    BY <1>1, <1>16, <2>1, Constants DEF CopyRefused, InputOK
  <2>5. RunnerOK'
    BY <1>1, <1>16, <2>1, Constants DEF CopyRefused, RunnerOK
  <2>6. ClosedOK'
    BY <1>1, <1>16, <2>1, Constants DEF CopyRefused, ClosedOK
  <2>7. EofOK'
    BY <1>1, <1>16, <2>1, Constants DEF CopyRefused, EofOK
  <2> QED BY <2>2, <2>3, <2>4, <2>5, <2>6, <2>7 DEF IInv
<1>17. ASSUME NEW c \in Client, OutputBreaks(c) PROVE IInv'
  <2>1. UNCHANGED <<world, run, phase, cur, wclosed, rclosed, copier, src, hold,
            input, eof, got, cl, shut, cmd, to, sc, took>>
    BY <1>17
      DEF OutputBreaks, container, pipes, copiers, process, clients, server,
         Served, Daemon
  <2>2. RunOK' /\ CopierOK' /\ ProcessOK' /\ ClientOK' /\ InputOK' /\ RunnerOK'
          /\ ClosedOK' /\ EofOK'
    BY <1>1, <2>1
      DEF RunOK, CopierOK, ProcessOK, ClientOK, InputOK, RunnerOK, ClosedOK, EofOK
  <2>3. CommandOK'
    BY <1>1, <1>17, <2>1, Constants DEF OutputBreaks, CommandOK
  <2> QED BY <2>2, <2>3 DEF IInv
<1>18. ASSUME NEW c \in Client, Return(c) PROVE IInv'
  <2>1. UNCHANGED <<world, run, phase, cur, wclosed, rclosed, copier, src, hold,
            input, eof, got, cl, shut, to, sc, took, out>>
    BY <1>18
      DEF Return, Ended, container, pipes, copiers, process, clients, server,
         Served, Daemon
  <2>2. RunOK' /\ CopierOK' /\ ProcessOK' /\ ClientOK' /\ InputOK' /\ EofOK'
    BY <1>1, <2>1 DEF RunOK, CopierOK, ProcessOK, ClientOK, InputOK, EofOK
  <2>3. CommandOK'
    BY <1>1, <1>18, <2>1, Constants DEF Return, Ended, CommandOK
  <2>4. RunnerOK'
    BY <1>1, <1>18, <2>1, Constants DEF Return, Ended, RunnerOK
  <2>5. ClosedOK'
    BY <1>1, <1>18, <2>1, Constants DEF Return, Ended, ClosedOK
  <2> QED BY <2>2, <2>3, <2>4, <2>5 DEF IInv
<1>19. ASSUME NEW c \in Client, SendEnds(c) PROVE IInv'
  <2>1. UNCHANGED <<world, run, phase, cur, wclosed, rclosed, copier, src, hold,
            input, eof, got, cl, cmd, to, sc, took, out>>
    BY <1>19
      DEF SendEnds, container, pipes, copiers, process, clients, server, Served,
         Daemon
  <2>2. RunOK' /\ CopierOK' /\ ProcessOK' /\ CommandOK' /\ InputOK' /\ RunnerOK'
          /\ EofOK'
    BY <1>1, <2>1
      DEF RunOK, CopierOK, ProcessOK, CommandOK, InputOK, RunnerOK, EofOK
  <2>3. ClientOK'
    BY <1>1, <1>19, <2>1, Constants DEF SendEnds, ClientOK
  <2>4. ClosedOK'
    BY <1>1, <1>19, <2>1, Constants DEF SendEnds, ClosedOK
  <2> QED BY <2>2, <2>3, <2>4 DEF IInv
<1>20. ASSUME NEW c \in Client, Received(c) PROVE IInv'
  <2>1. UNCHANGED <<world, run, phase, cur, wclosed, rclosed, copier, src, hold,
            input, eof, got, shut, cmd, to, sc, took, out>>
    BY <1>20
      DEF Received, container, pipes, copiers, process, clients, server, Served,
         Daemon
  <2>2. RunOK' /\ CopierOK' /\ ProcessOK' /\ CommandOK' /\ InputOK' /\ ClosedOK'
          /\ EofOK'
    BY <1>1, <2>1
      DEF RunOK, CopierOK, ProcessOK, CommandOK, InputOK, ClosedOK, EofOK
  <2>3. ClientOK'
    BY <1>1, <1>20, <2>1, Constants DEF Received, ClientOK
  <2>4. RunnerOK'
    BY <1>1, <1>20, <2>1, Constants DEF Received, RunnerOK
  <2> QED BY <2>2, <2>3, <2>4 DEF IInv
<1>21. ASSUME NEW c \in Client, Sent(c) PROVE IInv'
  <2>1. UNCHANGED <<world, run, phase, cur, wclosed, rclosed, copier, src, hold,
            input, eof, got, shut, cmd, to, sc, took, out>>
    BY <1>21
      DEF Sent, container, pipes, copiers, process, clients, server, Served, Daemon
  <2>2. RunOK' /\ CopierOK' /\ ProcessOK' /\ CommandOK' /\ InputOK' /\ ClosedOK'
          /\ EofOK'
    BY <1>1, <2>1
      DEF RunOK, CopierOK, ProcessOK, CommandOK, InputOK, ClosedOK, EofOK
  <2>3. ClientOK'
    BY <1>1, <1>21, <2>1, Constants DEF Sent, ClientOK
  <2>4. RunnerOK'
    BY <1>1, <1>21, <2>1, Constants DEF Sent, RunnerOK
  <2> QED BY <2>2, <2>3, <2>4 DEF IInv
<1>22. ASSUME NEW c \in Client, Killed(c) PROVE IInv'
  <2>1. UNCHANGED <<world, run, phase, cur, wclosed, rclosed, copier, src, hold,
            input, eof, got, cmd, to, sc, took, out>>
    BY <1>22
      DEF Killed, container, pipes, copiers, process, clients, server, Served,
         Daemon
  <2>2. RunOK' /\ CopierOK' /\ ProcessOK' /\ CommandOK' /\ InputOK' /\ EofOK'
    BY <1>1, <2>1 DEF RunOK, CopierOK, ProcessOK, CommandOK, InputOK, EofOK
  <2>3. ClientOK'
    BY <1>1, <1>22, <2>1, Constants DEF Killed, ClientOK
  <2>4. RunnerOK'
    BY <1>1, <1>22, <2>1, Constants DEF Killed, RunnerOK
  <2>5. ClosedOK'
    BY <1>1, <1>22, <2>1, Constants DEF Killed, ClosedOK
  <2> QED BY <2>2, <2>3, <2>4, <2>5 DEF IInv
<1>23. CASE UNCHANGED vars
  BY <1>1, <1>23
    DEF vars, container, pipes, copiers, process, clients, server, Served, Daemon,
       IInv, RunOK, CopierOK, ProcessOK, ClientOK, CommandOK, InputOK, RunnerOK,
       ClosedOK, EofOK
<1> QED BY <1>2, <1>3, <1>4, <1>5, <1>6, <1>7, <1>8, <1>9, <1>10, <1>11, <1>12,
     <1>13, <1>14, <1>15, <1>16, <1>17, <1>18, <1>19, <1>20, <1>21, <1>22,
     <1>23 DEF Next, CopierStep, ClientStep

\* Nobody has called.
LEMMA InitHolds == Init => IInv
<1> SUFFICES ASSUME Init PROVE IInv
  OBVIOUS
<1>1. RunOK
  BY Constants DEF Init, RunOK, PhaseValues
<1>2. CopierOK
  <2>1. /\ copier = [n \in Run |-> "off"] /\ src = [n \in Run |-> None]
        /\ hold = [n \in Run |-> <<>>]
    BY Zenon DEF Init
  <2>2. /\ copier \in [Run -> CopierValues] /\ src \in [Run -> Pipe \union {None}]
        /\ hold \in [Run -> Chunk \union {<<>>}]
    BY <2>1 DEF CopierValues
  <2>3. \A n \in Run : copier[n] = "off"
    BY <2>1
  <2> QED BY <2>2, <2>3 DEF CopierOK
<1>3. ProcessOK
  <2>1. input = <<>> /\ got = <<>>
    BY DEF Init
  <2>2. eof \in BOOLEAN
    BY Zenon DEF Init
  <2> QED BY <2>1, <2>2, Constants DEF ProcessOK
<1>4. ClientOK /\ CommandOK
  BY DEF Init, ClientOK, CommandOK
<1>5. InputOK
  BY Constants DEF Init, InputOK
<1>6. RunnerOK /\ ClosedOK /\ EofOK
  BY Constants DEF Init, RunnerOK, ClosedOK, EofOK
<1> QED BY <1>1, <1>2, <1>3, <1>4, <1>5, <1>6 DEF IInv

\* It holds in every state.
LEMMA Invariance == Spec => []IInv
<1>1. IInv /\ [Next]_vars => IInv'
  BY NextKeeps
<1> QED BY <1>1, InitHolds, PTL DEF Spec

\* The types.
THEOREM SessionTypeOK == Spec => []TypeOK
<1>1. IInv => TypeOK
  <2> SUFFICES ASSUME IInv PROVE TypeOK
    OBVIOUS
  <2>1. /\ cur \in Pipe /\ cur = run + (IF phase = "stopped" THEN 1 ELSE 0)
        /\ run \in 0..MaxRuns
    BY CurIsPipe DEF IInv, RunOK
  <2>2. wclosed \subseteq Pipe /\ rclosed \subseteq Pipe
    BY RunsAndPipes DEF IInv, ClosedOK
  <2>3. ASSUME NEW c \in Client PROVE took[c] \in 0..Input[c]
    <3>1. took[c] \in Nat /\ took[c] <= Input[c] /\ Input[c] \in Nat
      BY Constants DEF IInv, InputOK
    <3> QED BY <3>1
  <2>4. world \in World /\ phase \in {"up", "exited", "closed", "stopped"}
    BY DEF IInv, RunOK, PhaseValues
  <2>5. /\ copier \in [Run -> {"off", "begin", "read", "write", "done"}]
        /\ src \in [Run -> Pipe \union {None}]
             /\ hold \in [Run -> Chunk \union {<<>>}]
    BY DEF IInv, CopierOK, CopierValues
  <2>6. to \in [Client -> Pipe \union {None}]
    BY DEF IInv, InputOK
  <2> QED BY <2>1, <2>2, <2>3, <2>4, <2>5, <2>6
    DEF IInv, ProcessOK, ClientOK, CommandOK, TypeOK
<1> QED BY <1>1, Invariance, PTL

\* The stdin of a process ends when the input of the one who ran it does, with
\* any number of clients attached and gone (server/server.go:793, 880-884).
THEOREM EofIsRunners == Spec => []OnlyRunnerEnds
<1>1. IInv => OnlyRunnerEnds
  BY DEF IInv, EofOK, ClosedOK, OnlyRunnerEnds
<1> QED BY <1>1, Invariance, PTL

-----------------------------------------------------------------------------
(* The order of the input.  What has gone into the pipe of the run that is  *)
(* up, and not been swallowed, is what its process has read, what waits for *)
(* it and what its copier has in its hands.                                 *)

Hand == IF copier[run] = "write" THEN <<hold[run]>> ELSE <<>>
Line == got \o input \o Hand

\* The chunks of c that went into its pipe while it goes on copying.
Passed(c) == IF sc[c] = "write" THEN took[c] - 1 ELSE took[c]
Copies(c) == sc[c] \in {"read", "write"}

SourceOK ==
  /\ \A n \in Run : copier[n] \in {"off", "begin"} => src[n] = None
  /\ \A c \in Client : cl[c] = "off" => sc[c] = "off"
  /\ \A c \in Client : sc[c] = "off" => took[c] = 0
  /\ \A c \in Client : Copies(c) => to[c] # None
  /\ \A c \in Client :
       Copies(c) /\ (\A n \in Run : src[n] # to[c]) => Passed(c) = 0
  /\ phase # "up" => got = <<>> /\ input = <<>>

\* Nothing is in the line that its clients have not passed, or missing.
Has(c) == \A k \in 1..Passed(c) : \E i \in 1..Len(Line) : Line[i] = <<c, k>>
Known(x) ==
  /\ to[x[1]] = run /\ sc[x[1]] # "off"
  /\ Copies(x[1]) => x[2] <= Passed(x[1])
Whole ==
  /\ InOrder(Line)
  /\ \A i \in 1..Len(Line) : Known(Line[i])
  /\ \A c \in Client : to[c] = run /\ Copies(c) => Has(c)

Alone == phase = "up" /\ ~Shared(run)
LineOK ==
  Alone => Whole /\ (copier[run] \in {"read", "write"} => src[run] = run)

OInv == SourceOK /\ LineOK

\* A chunk has its client and its number.
LEMMA ChunkParts ==
  ASSUME NEW x \in Chunk
  PROVE  x[1] \in Client /\ x[2] \in Nat /\ x = <<x[1], x[2]>>
<1>1. PICK c \in Client : x \in {c} \X (1..Input[c])
  BY DEF Chunk
<1>2. PICK k \in 1..Input[c] : x = <<c, k>>
  BY <1>1
<1> QED BY <1>2, Constants

\* What the line is made of.
LEMMA LineType ==
  ASSUME IInv, phase = "up"
  PROVE  /\ run \in Run /\ input \in Seq(Chunk) /\ got \in Seq(Chunk)
         /\ Hand \in Seq(Chunk) /\ Line \in Seq(Chunk)
<1>1. run \in Run
  BY Constants DEF IInv, RunOK, Run
<1>2. input \in Seq(Chunk) /\ got \in Seq(Chunk)
  BY DEF IInv, ProcessOK
<1>3. copier[run] = "write" => hold[run] \in Chunk
  BY <1>1 DEF IInv, CopierOK
<1>4. Hand \in Seq(Chunk)
  BY <1>3 DEF Hand
<1>5. got \o input \in Seq(Chunk)
  BY <1>2, ConcatProperties, Zenon
<1> QED BY <1>1, <1>2, <1>4, <1>5, ConcatProperties, Zenon DEF Line

\* After a step that leaves the line alone and only adds clients, it is as
\* whole as it was.
LEMMA LineKeeps ==
  ASSUME IInv, LineOK, Alone, run' = run, Line' = Line,
         \A c \in Client : sc[c] # "off" => sc'[c] # "off" /\ to'[c] = to[c],
         \A c \in Client : Copies(c)' /\ to'[c] = run =>
           \/ Copies(c) /\ to[c] = run /\ Passed(c)' = Passed(c)
           \/ sc[c] = "off" /\ Passed(c)' = 0
  PROVE  Whole'
<1>1. Whole
  BY DEF LineOK
<1>2. Line \in Seq(Chunk)
  BY LineType DEF Alone
<1>3. InOrder(Line')
  BY <1>1 DEF Whole
<1>4. ASSUME NEW i \in 1..Len(Line) PROVE Known(Line[i])'
  <2> DEFINE d == Line[i][1]
  <2>1. Line[i] \in Chunk
    BY <1>2, ElementOfSeq
  <2>2. d \in Client
    BY <2>1, ChunkParts
  <2>3. to[d] = run /\ sc[d] # "off" /\ (Copies(d) => Line[i][2] <= Passed(d))
    BY <1>1 DEF Whole, Known
  <2>4. to'[d] = run /\ sc'[d] # "off"
    BY <2>2, <2>3
  <2>5. ASSUME NEW e \in Client, e = d, Copies(e)' PROVE Line[i][2] <= Passed(e)'
    BY <2>2, <2>3, <2>4, <2>5 DEF Copies
  <2> QED BY <2>2, <2>4, <2>5 DEF Known
<1>5. ASSUME NEW c \in Client, to'[c] = run', Copies(c)' PROVE Has(c)'
  <2>1. ASSUME Copies(c), to[c] = run, Passed(c)' = Passed(c) PROVE Has(c)'
    <3>1. \A k \in 1..Passed(c) : \E i \in 1..Len(Line) : Line[i] = <<c, k>>
      BY <1>1, <2>1 DEF Whole, Has
    <3> QED BY <2>1, <3>1 DEF Has
  <2>2. ASSUME Passed(c)' = 0 PROVE Has(c)'
    BY <2>2 DEF Has
  <2> QED BY <1>5, <2>1, <2>2
<1> QED BY <1>3, <1>4, <1>5 DEF Whole

\* What was read is what the line begins with.
LEMMA Begins ==
  ASSUME NEW S, NEW g \in Seq(S), NEW q \in Seq(S), NEW h \in Seq(S)
  PROVE  /\ Len(g) <= Len(g \o q \o h)
         /\ \A i \in 1..Len(g) : (g \o q \o h)[i] = g[i]
<1> DEFINE v == g \o q
<1>1. /\ v \in Seq(S) /\ Len(v) = Len(g) + Len(q)
      /\ \A i \in 1..Len(g) + Len(q) :
           v[i] = IF i <= Len(g) THEN g[i] ELSE q[i - Len(g)]
  BY ConcatProperties, Zenon
<1>2. v \in Seq(S)
  BY <1>1
<1> HIDE DEF v
<1> DEFINE w == v \o h
<1>3. /\ Len(w) = Len(v) + Len(h)
      /\ \A i \in 1..Len(v) + Len(h) :
           w[i] = IF i <= Len(v) THEN v[i] ELSE h[i - Len(v)]
  BY <1>2, ConcatProperties, Zenon
<1> HIDE DEF w
<1>4. Len(g) \in Nat /\ Len(q) \in Nat /\ Len(h) \in Nat
  OBVIOUS
<1>5. Len(g) <= Len(w) /\ \A i \in 1..Len(g) : w[i] = g[i]
  BY <1>1, <1>3, <1>4
<1> QED BY <1>5 DEF v, w

\* The process takes the first of what waits: the line stays as it is.
LEMMA TakeFirst ==
  ASSUME NEW S, NEW g \in Seq(S), NEW q \in Seq(S), NEW h \in Seq(S), q # <<>>
  PROVE  Append(g, Head(q)) \o Tail(q) \o h = g \o q \o h
<1>1. /\ Len(q) \in Nat /\ Len(q) > 0 /\ Head(q) = q[1] /\ q[1] \in S
      /\ Tail(q) \in Seq(S) /\ Len(Tail(q)) = Len(q) - 1
      /\ \A i \in 1..(Len(q) - 1) : Tail(q)[i] = q[i + 1]
  BY EmptySeq
<1>2. /\ Append(g, Head(q)) \in Seq(S) /\ Len(Append(g, Head(q))) = Len(g) + 1
      /\ Append(g, Head(q))[Len(g) + 1] = Head(q)
      /\ \A i \in 1..Len(g) : Append(g, Head(q))[i] = g[i]
  BY <1>1, AppendProperties
<1> DEFINE a == Append(g, Head(q))
           t == Tail(q)
<1>3. /\ a \o t \in Seq(S) /\ Len(a \o t) = Len(a) + Len(t)
      /\ \A i \in 1..Len(a) + Len(t) :
           (a \o t)[i] = IF i <= Len(a) THEN a[i] ELSE t[i - Len(a)]
  BY <1>1, <1>2, ConcatProperties, Zenon
<1>4. /\ g \o q \in Seq(S) /\ Len(g \o q) = Len(g) + Len(q)
      /\ \A i \in 1..Len(g) + Len(q) :
           (g \o q)[i] = IF i <= Len(g) THEN g[i] ELSE q[i - Len(g)]
  BY ConcatProperties, Zenon
<1> DEFINE u == a \o t
           v == g \o q
<1> HIDE DEF a, t
<1>5. Len(u) = Len(v) /\ Len(g) \in Nat
  BY <1>1, <1>2, <1>3, <1>4 DEF a, t
<1>6. ASSUME NEW i \in 1..Len(v) PROVE u[i] = v[i]
  <2>1. CASE i <= Len(g)
    BY <1>1, <1>2, <1>3, <1>4, <1>5, <2>1 DEF a
  <2>2. CASE i = Len(g) + 1
    <3>1. v[i] = q[1]
      BY <1>1, <1>4, <1>5, <2>2
    <3>2. u[i] = a[i] /\ a[i] = q[1]
      BY <1>1, <1>2, <1>3, <1>5, <2>2 DEF a
    <3> QED BY <3>1, <3>2
  <2>3. CASE i > Len(g) + 1
    <3>1. i - Len(g) - 1 \in 1..(Len(q) - 1) /\ i - Len(g) \in 1..Len(q)
      BY <1>1, <1>4, <1>5, <2>3
    <3>2. v[i] = q[i - Len(g)]
      BY <1>4, <1>5, <2>3
    <3>3. u[i] = t[i - Len(g) - 1]
      <4>1. Len(a) = Len(g) + 1
        BY <1>2 DEF a
      <4> QED BY <1>1, <1>3, <1>4, <1>5, <2>3, <4>1
    <3>4. t[i - Len(g) - 1] = q[i - Len(g)]
      BY <1>1, <3>1 DEF t
    <3> QED BY <3>2, <3>3, <3>4
  <2>4. i \in Int /\ Len(g) \in Int
    BY <1>5
  <2>5. i <= Len(g) \/ i = Len(g) + 1 \/ i > Len(g) + 1
    BY <2>4
  <2> QED BY <2>1, <2>2, <2>3, <2>5
<1>7. u = v
  <2> HIDE DEF u, v
  <2>1. u \in Seq(S) /\ v \in Seq(S)
    BY <1>3, <1>4 DEF u, v
  <2> QED BY <1>5, <1>6, <2>1, SeqEqual
<1> QED BY <1>7 DEF a, t

\* The copier puts what it holds behind what waits.
LEMMA PutLast ==
  ASSUME NEW S, NEW g \in Seq(S), NEW q \in Seq(S), NEW x \in S
  PROVE  g \o Append(q, x) \o <<>> = g \o q \o <<x>>
<1>1. Append(q, x) = q \o <<x>> /\ <<x>> \in Seq(S) /\ <<>> \in Seq(S)
  BY AppendIsConcat
<1>2. g \o (q \o <<x>>) = g \o q \o <<x>>
  BY <1>1, ConcatAssociative
<1>3. g \o Append(q, x) \in Seq(S)
  BY <1>1
<1>4. \A z \in Seq(S) : z \o <<>> = z
  BY ConcatEmptySeq
<1> QED BY <1>1, <1>2, <1>3, <1>4, Zenon
\* The daemon's commands and the clients move no chunk along the line.
LEMMA Clients ==
  ASSUME IInv, OInv, UNCHANGED <<run, phase, copier, src, hold, input, got>>,
         \A c \in Client : sc[c] # "off" => sc'[c] # "off" /\ to'[c] = to[c],
         \A c \in Client : Copies(c)' =>
           /\ to'[c] # None
           /\ \/ Copies(c) /\ to'[c] = to[c] /\ Passed(c)' = Passed(c)
              \/ sc[c] = "off" /\ Passed(c)' = 0,
         \A c \in Client : cl'[c] = "off" => sc'[c] = "off",
         \A c \in Client : sc'[c] = "off" => took'[c] = 0
  PROVE  OInv'
<1>1. SourceOK'
  <2>1. SourceOK
    BY DEF OInv
  <2>2. ASSUME NEW c \in Client, Copies(c)', \A n \in Run : src'[n] # to'[c]
        PROVE  Passed(c)' = 0
    BY <2>1, <2>2 DEF SourceOK
  <2> QED BY <2>1, <2>2 DEF SourceOK
<1>2. ASSUME Alone' PROVE Whole'
  <2>1. Alone /\ Line' = Line
    BY <1>2 DEF Alone, Shared, Line, Hand
  <2> QED BY <2>1, LineKeeps DEF OInv
<1>3. ASSUME Alone', copier'[run'] \in {"read", "write"} PROVE src'[run'] = run'
  BY <1>3 DEF OInv, LineOK, Alone, Shared
<1> QED BY <1>1, <1>2, <1>3 DEF OInv, LineOK

\* Who calls has typed nothing yet.
LEMMA CallsKeep ==
  ASSUME IInv, OInv, CallRun \/ \E c \in Client : CallAttach(c)
  PROVE  OInv'
<1>1. PICK c \in Client, stdin \in BOOLEAN : Call(c, stdin)
  BY Constants DEF CallRun, CallAttach
<1>2. /\ cl[c] = "off" /\ cl' = [cl EXCEPT ![c] = "on"]
      /\ to' = [to EXCEPT ![c] = IF stdin THEN cur ELSE None]
      /\ sc' = [sc EXCEPT ![c] = IF stdin THEN "read" ELSE "off"]
      /\ UNCHANGED <<run, phase, copier, src, hold, input, got, took>>
  BY <1>1 DEF Call, container, pipes, copiers, process
<1>3. /\ cl \in [Client -> {"off", "on", "rest", "exited", "killed"}]
      /\ sc \in [Client -> {"off", "read", "write", "done"}]
      /\ to \in [Client -> Pipe \union {None}]
  BY DEF IInv, ClientOK, CommandOK, InputOK
<1>4. sc[c] = "off" /\ took[c] = 0
  BY <1>2 DEF OInv, SourceOK
<1>5. cur # None
  BY CurIsPipe DEF IInv, Pipe, None
<1>6. /\ cl'[c] = "on" /\ to'[c] = (IF stdin THEN cur ELSE None)
      /\ sc'[c] = IF stdin THEN "read" ELSE "off"
  BY <1>2, <1>3
<1>7. ASSUME NEW d \in Client, d # c
      PROVE  cl'[d] = cl[d] /\ to'[d] = to[d] /\ sc'[d] = sc[d]
  BY <1>2, <1>3, <1>7
<1>8. \A d \in Client : sc[d] # "off" => sc'[d] # "off" /\ to'[d] = to[d]
  BY <1>4, <1>7
<1>9. ASSUME NEW d \in Client, Copies(d)'
      PROVE  /\ to'[d] # None
             /\ \/ Copies(d) /\ to'[d] = to[d] /\ Passed(d)' = Passed(d)
                \/ sc[d] = "off" /\ Passed(d)' = 0
  BY <1>2, <1>4, <1>5, <1>6, <1>7, <1>9 DEF Copies, Passed, OInv, SourceOK
<1>10. \A d \in Client : cl'[d] = "off" => sc'[d] = "off"
  BY <1>6, <1>7 DEF OInv, SourceOK
<1>11. \A d \in Client : sc'[d] = "off" => took'[d] = 0
  BY <1>2, <1>4, <1>7 DEF OInv, SourceOK
<1> QED BY <1>2, <1>8, <1>9, <1>10, <1>11, Clients

\* A chunk that is taken off the connection has not gone into the pipe, and
\* who stops copying does so for good.
LEMMA CommandsKeep ==
  ASSUME IInv, OInv, NEW c \in Client,
         CopyRead(c) \/ CopyEnd(c) \/ CopyRefused(c)
  PROVE  OInv'
<1>1. /\ UNCHANGED <<run, phase, copier, src, hold, input, got, cl, to>>
      /\ sc[c] \in {"read", "write"}
      /\ \/ /\ sc[c] = "read" /\ sc' = [sc EXCEPT ![c] = "write"]
            /\ took' = [took EXCEPT ![c] = @ + 1]
         \/ sc' = [sc EXCEPT ![c] = "done"] /\ took' = took
  BY DEF CopyRead, CopyEnd, CopyRefused, ConnectionEnds, Served, container,
         copiers, process, clients
<1>2. /\ sc \in [Client -> {"off", "read", "write", "done"}]
      /\ took \in [Client -> Nat]
  BY DEF IInv, CommandOK, InputOK
<1>3. \A d \in Client : sc[d] # "off" => sc'[d] # "off" /\ to'[d] = to[d]
  BY <1>1, <1>2
<1>4. ASSUME NEW d \in Client, Copies(d)'
      PROVE  /\ to'[d] # None
             /\ Copies(d) /\ to'[d] = to[d] /\ Passed(d)' = Passed(d)
  <2>1. Copies(d) /\ to'[d] = to[d]
    BY <1>1, <1>2, <1>4 DEF Copies
  <2>2. to[d] # None
    BY <2>1 DEF OInv, SourceOK
  <2>3. CASE d = c
    <3>1. sc[c] = "read" /\ sc'[c] = "write" /\ took'[c] = took[c] + 1
      BY <1>1, <1>2, <1>4, <2>3 DEF Copies
    <3>2. took[c] \in Nat
      BY <1>2
    <3>3. Passed(d) = took[c]
      BY <2>3, <3>1 DEF Passed
    <3>4. Passed(d)' = took'[c] - 1
      BY <2>3, <3>1 DEF Passed
    <3> QED BY <2>1, <2>2, <3>1, <3>2, <3>3, <3>4
  <2>4. CASE d # c
    <3>1. sc'[d] = sc[d] /\ took'[d] = took[d]
      BY <1>1, <1>2, <2>4
    <3> QED BY <2>1, <2>2, <3>1 DEF Passed
  <2> QED BY <2>3, <2>4
<1>5. \A d \in Client : cl'[d] = "off" => sc'[d] = "off"
  BY <1>1, <1>2 DEF OInv, SourceOK
<1>6. \A d \in Client : sc'[d] = "off" => took'[d] = 0
  BY <1>1, <1>2 DEF OInv, SourceOK
<1> QED BY <1>1, <1>3, <1>4, <1>5, <1>6, Clients

\* What happens to the client, to its output and to its command.
LEMMA OthersKeep ==
  ASSUME IInv, OInv, NEW c \in Client,
         OutputBreaks(c) \/ Return(c) \/ ClientStep(c)
  PROVE  OInv'
<1>1. /\ UNCHANGED <<run, phase, copier, src, hold, input, got, to, sc, took>>
      /\ \/ cl' = cl
         \/ \E v \in {"rest", "exited", "killed"} : cl' = [cl EXCEPT ![c] = v]
  BY DEF OutputBreaks, Return, ClientStep, SendEnds, Received, Sent, Killed,
         Daemon, container, copiers, process, clients, server
<1>2. \A d \in Client : cl'[d] = "off" => sc'[d] = "off"
  BY <1>1 DEF IInv, ClientOK, OInv, SourceOK
<1>3. ASSUME NEW d \in Client, Copies(d)'
      PROVE  to'[d] # None /\ Copies(d) /\ Passed(d)' = Passed(d)
  BY <1>1, <1>3 DEF Copies, Passed, OInv, SourceOK
<1>4. \A d \in Client : sc'[d] = "off" => took'[d] = 0
  BY <1>1 DEF OInv, SourceOK
<1> QED BY <1>1, <1>2, <1>3, <1>4, Clients
\* A run starts with an empty line, and nobody has got to its pipe.
LEMMA BeginKeeps ==
  ASSUME IInv, OInv, Begin
  PROVE  OInv'
<1>1. /\ phase = "stopped" /\ phase' = "up" /\ run' = run + 1 /\ run < MaxRuns
      /\ copier' = [copier EXCEPT ![run + 1] = "begin"]
      /\ UNCHANGED <<src, hold, input, got, cl, to, sc, took>>
  BY DEF Begin, process, clients
<1>2. /\ run + 1 \in Run /\ run \in Nat /\ copier \in [Run -> CopierValues]
      /\ src \in [Run -> Pipe \union {None}]
  <2>1. run \in Nat /\ MaxRuns \in Nat
    BY CurIsPipe, Constants DEF IInv
  <2>2. run + 1 \in Nat /\ run + 1 > 0 /\ run + 1 <= MaxRuns
    BY <1>1, <2>1
  <2> QED BY <2>1, <2>2, RunsAndPipes DEF IInv, CopierOK
<1>3. SourceOK /\ got = <<>> /\ input = <<>>
  BY <1>1 DEF OInv, SourceOK
<1>4. copier[run + 1] = "off" /\ src[run + 1] = None
  <2>1. copier[run + 1] = "off"
    BY <1>2 DEF IInv, CopierOK
  <2> QED BY <1>2, <1>3, <2>1 DEF SourceOK
<1>5. copier'[run'] = "begin"
  BY <1>1, <1>2
<1>6. SourceOK'
  <2>1. \A n \in Run : copier'[n] \in {"off", "begin"} => src'[n] = None
    BY <1>1, <1>2, <1>3, <1>4 DEF SourceOK
  <2>2. \A c \in Client : Copies(c)' = Copies(c) /\ Passed(c)' = Passed(c)
    BY <1>1 DEF Copies, Passed
  <2> QED BY <1>1, <1>3, <2>1, <2>2 DEF SourceOK
<1>7. Line' = <<>>
  <2>1. Hand' = <<>>
    BY <1>5 DEF Hand
  <2> QED BY <1>1, <1>3, <2>1 DEF Line
<1>8. ASSUME Alone' PROVE Whole'
  <2>1. ASSUME NEW c \in Client, to'[c] = run', Copies(c)' PROVE Has(c)'
    <3>1. \A n \in Run : n # run + 1 => src[n] # run + 1
      BY <1>1, <1>8 DEF Alone, Shared
    <3>2. \A n \in Run : src[n] # to[c]
      BY <1>1, <1>2, <1>4, <2>1, <3>1 DEF None
    <3>3. Passed(c) = 0
      BY <1>1, <1>3, <2>1, <3>2 DEF SourceOK, Copies
    <3>4. Passed(c)' = 0
      BY <1>1, <3>3 DEF Passed
    <3> QED BY <3>4 DEF Has
  <2> QED BY <1>7, <2>1 DEF Whole, InOrder
<1> QED BY <1>5, <1>6, <1>8 DEF OInv, LineOK

\* A copier that gets to its pipe late, in the time of another run, makes two
\* readers of that one's.
LEMMA CopierBeginsKeeps ==
  ASSUME IInv, OInv, NEW n \in Run, CopierBegins(n)
  PROVE  OInv'
<1>1. /\ copier[n] = "begin" /\ copier' = [copier EXCEPT ![n] = "read"]
      /\ src' = [src EXCEPT ![n] = cur]
      /\ UNCHANGED <<run, phase, hold, input, got, cl, to, sc, took>>
  BY DEF CopierBegins, container, process, clients, server
<1>2. copier \in [Run -> CopierValues] /\ src \in [Run -> Pipe \union {None}]
  BY DEF IInv, CopierOK
<1>3. SourceOK /\ src[n] = None
  BY <1>1 DEF OInv, SourceOK
<1>4. \A c \in Client : Copies(c)' = Copies(c) /\ Passed(c)' = Passed(c)
  BY <1>1 DEF Copies, Passed
<1>5. SourceOK'
  <2>1. \A m \in Run : copier'[m] \in {"off", "begin"} => src'[m] = None
    BY <1>1, <1>2, <1>3 DEF SourceOK
  <2>2. ASSUME NEW c \in Client, Copies(c), \A m \in Run : src'[m] # to[c]
        PROVE  Passed(c) = 0
    <3>1. \A m \in Run : src[m] # to[c]
      BY <1>1, <1>2, <1>3, <2>2 DEF SourceOK
    <3> QED BY <1>3, <2>2, <3>1 DEF SourceOK
  <2> QED BY <1>1, <1>3, <1>4, <2>1, <2>2 DEF SourceOK
<1>6. ASSUME Alone'
      PROVE  Alone /\ (n = run => src'[run] = run)
  <2>1. phase = "up" /\ \A m \in Run : m # run => src'[m] # run
    BY <1>1, <1>6 DEF Alone, Shared
  <2>2. cur = run
    BY <2>1 DEF IInv, RunOK
  <2>3. n = run
    BY <1>1, <1>2, <2>1, <2>2
  <2> QED BY <1>1, <1>2, <2>1, <2>2, <2>3 DEF Alone, Shared
<1>7. ASSUME Alone' PROVE Whole'
  <2>1. Alone
    BY <1>6, <1>7
  <2>2. run \in Run
    BY <2>1, LineType DEF Alone
  <2>3. Hand' = Hand
    BY <1>1, <1>2, <2>2 DEF Hand
  <2>4. Line' = Line
    BY <1>1, <2>3 DEF Line
  <2>5. \A c \in Client : sc[c] # "off" => sc'[c] # "off" /\ to'[c] = to[c]
    BY <1>1
  <2>6. \A c \in Client : Copies(c)' /\ to'[c] = run =>
          Copies(c) /\ to[c] = run /\ Passed(c)' = Passed(c)
    BY <1>1, <1>4
  <2> QED BY <1>1, <2>1, <2>4, <2>5, <2>6, LineKeeps DEF OInv
<1>8. ASSUME Alone', copier'[run'] \in {"read", "write"} PROVE src'[run'] = run'
  BY <1>1, <1>2, <1>6, <1>8 DEF OInv, LineOK
<1> QED BY <1>5, <1>7, <1>8 DEF OInv, LineOK

\* What the copier puts where the process reads it was in its hands.
LEMMA CopierWriteKeeps ==
  ASSUME IInv, OInv, NEW n \in Run, CopierWrite(n)
  PROVE  OInv'
<1>1. /\ copier[n] = "write" /\ hold' = [hold EXCEPT ![n] = <<>>]
      /\ \E v \in {"read", "done"} : copier' = [copier EXCEPT ![n] = v]
      /\ UNCHANGED <<run, phase, src, got, cl, to, sc, took>>
      /\ n = run /\ phase = "up" => input' = Append(input, hold[n])
      /\ ~(n = run /\ phase = "up") => input' = input
  BY DEF CopierWrite, container, clients, server
<1>2. /\ copier \in [Run -> CopierValues] /\ hold \in [Run -> Chunk \union {<<>>}]
  BY DEF IInv, CopierOK
<1>3. \A c \in Client : Copies(c)' = Copies(c) /\ Passed(c)' = Passed(c)
  BY <1>1 DEF Copies, Passed
<1>4. SourceOK'
  <2>1. SourceOK
    BY DEF OInv
  <2>2. \A m \in Run : copier'[m] \in {"off", "begin"} => src'[m] = None
    BY <1>1, <1>2, <2>1 DEF SourceOK
  <2> QED BY <1>1, <1>3, <2>1, <2>2 DEF SourceOK
<1>5. Alone' => Alone
  BY <1>1 DEF Alone, Shared
<1>6. ASSUME Alone PROVE Line' = Line
  <2>1. /\ run \in Run /\ input \in Seq(Chunk) /\ got \in Seq(Chunk)
    BY <1>6, LineType DEF Alone
  <2>2. CASE n = run
    <3>1. Hand = <<hold[n]>> /\ hold[n] \in Chunk
      BY <1>1, <2>2 DEF Hand, IInv, CopierOK
    <3>2. Hand' = <<>>
      BY <1>1, <1>2, <2>1, <2>2 DEF Hand
    <3>3. input' = Append(input, hold[n]) /\ got' = got
      BY <1>1, <1>6, <2>2 DEF Alone
    <3>4. got \o Append(input, hold[n]) \o <<>> = got \o input \o <<hold[n]>>
      BY <2>1, <3>1, PutLast
    <3> QED BY <3>1, <3>2, <3>3, <3>4, Zenon DEF Line
  <2>3. CASE n # run
    <3>1. Hand' = Hand
      BY <1>1, <1>2, <2>1, <2>3 DEF Hand
    <3> QED BY <1>1, <2>3, <3>1 DEF Line
  <2> QED BY <2>2, <2>3
<1>7. ASSUME Alone' PROVE Whole'
  <2>1. \A c \in Client : sc[c] # "off" => sc'[c] # "off" /\ to'[c] = to[c]
    BY <1>1
  <2>2. \A c \in Client : Copies(c)' /\ to'[c] = run =>
          Copies(c) /\ to[c] = run /\ Passed(c)' = Passed(c)
    BY <1>1, <1>3
  <2> QED BY <1>1, <1>5, <1>6, <1>7, <2>1, <2>2, LineKeeps DEF OInv
<1>8. ASSUME Alone', copier'[run'] \in {"read", "write"} PROVE src'[run'] = run'
  <2>1. copier[run] \in {"read", "write"}
    BY <1>1, <1>2, <1>8
  <2> QED BY <1>1, <1>5, <1>8, <2>1 DEF OInv, LineOK
<1> QED BY <1>4, <1>7, <1>8 DEF OInv, LineOK

\* A copier that is at its end has nothing in its hands.
LEMMA CopierEofKeeps ==
  ASSUME IInv, OInv, NEW n \in Run, CopierEof(n)
  PROVE  OInv'
<1>1. /\ copier[n] = "read" /\ copier' = [copier EXCEPT ![n] = "done"]
      /\ UNCHANGED <<run, phase, src, hold, input, got, cl, to, sc, took>>
  BY DEF CopierEof, container, clients, server
<1>2. copier \in [Run -> CopierValues]
  BY DEF IInv, CopierOK
<1>3. \A c \in Client : Copies(c)' = Copies(c) /\ Passed(c)' = Passed(c)
  BY <1>1 DEF Copies, Passed
<1>4. SourceOK'
  <2>1. SourceOK
    BY DEF OInv
  <2>2. \A m \in Run : copier'[m] \in {"off", "begin"} => src'[m] = None
    BY <1>1, <1>2, <2>1 DEF SourceOK
  <2> QED BY <1>1, <1>3, <2>1, <2>2 DEF SourceOK
<1>5. Alone' => Alone
  BY <1>1 DEF Alone, Shared
<1>6. ASSUME Alone' PROVE Whole'
  <2>1. run \in Run
    BY <1>5, <1>6, LineType DEF Alone
  <2>2. Hand' = Hand
    BY <1>1, <1>2, <2>1 DEF Hand
  <2>3. Line' = Line
    BY <1>1, <2>2 DEF Line
  <2>4. \A c \in Client : sc[c] # "off" => sc'[c] # "off" /\ to'[c] = to[c]
    BY <1>1
  <2>5. \A c \in Client : Copies(c)' /\ to'[c] = run =>
          Copies(c) /\ to[c] = run /\ Passed(c)' = Passed(c)
    BY <1>1, <1>3
  <2> QED BY <1>1, <1>5, <1>6, <2>3, <2>4, <2>5, LineKeeps DEF OInv
<1>7. ASSUME Alone', copier'[run'] \in {"read", "write"} PROVE src'[run'] = run'
  <2>1. copier[run] \in {"read", "write"}
    BY <1>1, <1>2, <1>7
  <2> QED BY <1>1, <1>5, <1>7, <2>1 DEF OInv, LineOK
<1> QED BY <1>4, <1>6, <1>7 DEF OInv, LineOK
\* The place of a chunk is right if those before it are the same.
Placed(s, i) ==
  /\ \A k \in 1..(s[i][2] - 1) : \E j \in 1..(i - 1) : s[j] = <<s[i][1], k>>
  /\ \A j \in 1..(i - 1) : s[j] # s[i]

\* It is right in whatever goes on from there, too.
LEMMA SamePlace ==
  ASSUME NEW s, NEW t, NEW i \in Nat, i > 0, Placed(s, i),
         \A j \in 1..i : t[j] = s[j]
  PROVE  Placed(t, i)
<1>1. t[i] = s[i] /\ \A j \in 1..(i - 1) : t[j] = s[j]
  OBVIOUS
<1>2. ASSUME NEW k \in 1..(t[i][2] - 1)
      PROVE  \E j \in 1..(i - 1) : t[j] = <<t[i][1], k>>
  <2>1. k \in 1..(s[i][2] - 1)
    BY <1>1
  <2>2. PICK j \in 1..(i - 1) : s[j] = <<s[i][1], k>>
    BY <2>1 DEF Placed
  <2>3. t[j] = <<t[i][1], k>>
    BY <1>1, <2>2, Zenon
  <2> QED BY <2>3
<1>3. ASSUME NEW j \in 1..(i - 1) PROVE t[j] # t[i]
  BY <1>1 DEF Placed
<1> QED BY <1>2, <1>3 DEF Placed

\* What a line in order begins with is in order.
LEMMA FirstInOrder ==
  ASSUME NEW s \in Seq(Chunk), NEW t \in Seq(Chunk), InOrder(s),
         Len(t) <= Len(s), \A i \in 1..Len(t) : s[i] = t[i]
  PROVE  InOrder(t)
<1>1. ASSUME NEW i \in 1..Len(t) PROVE Placed(t, i)
  <2>1. i \in Nat /\ i > 0 /\ i \in 1..Len(s) /\ \A j \in 1..i : t[j] = s[j]
    <3>1. Len(t) \in Nat /\ Len(s) \in Nat
      OBVIOUS
    <3> QED BY <3>1
  <2>2. Placed(s, i)
    BY <2>1, Zenon DEF InOrder, Placed
  <2> QED BY <2>1, <2>2, SamePlace
<1> QED BY <1>1, Zenon DEF InOrder, Placed

\* The next chunk of a client may follow.
LEMMA NextInOrder ==
  ASSUME NEW s \in Seq(Chunk), NEW x \in Chunk, InOrder(s),
         \A k \in 1..(x[2] - 1) : \E j \in 1..Len(s) : s[j] = <<x[1], k>>,
         \A j \in 1..Len(s) : s[j] # x
  PROVE  InOrder(Append(s, x))
<1> DEFINE A == Append(s, x)
<1>1. /\ Len(A) = Len(s) + 1 /\ A[Len(s) + 1] = x /\ Len(s) \in Nat
      /\ \A i \in 1..Len(s) : A[i] = s[i]
  BY AppendProperties
<1> HIDE DEF A
<1>2. ASSUME NEW i \in 1..Len(A), i <= Len(s) PROVE Placed(A, i)
  <2>1. i \in Nat /\ i > 0 /\ i \in 1..Len(s) /\ \A j \in 1..i : A[j] = s[j]
    BY <1>1, <1>2
  <2>2. Placed(s, i)
    BY <2>1, Zenon DEF InOrder, Placed
  <2> QED BY <2>1, <2>2, SamePlace
<1>3. Placed(A, Len(s) + 1)
  <2> DEFINE n == Len(s) + 1
  <2>1. A[n] = x /\ 1..(n - 1) = 1..Len(s)
    BY <1>1
  <2> HIDE DEF n
  <2>2. ASSUME NEW k \in 1..(A[n][2] - 1)
        PROVE  \E j \in 1..(n - 1) : A[j] = <<A[n][1], k>>
    <3>1. PICK j \in 1..Len(s) : s[j] = <<x[1], k>>
      BY <2>1
    <3> QED BY <1>1, <2>1, <3>1, Zenon
  <2>3. ASSUME NEW j \in 1..(n - 1) PROVE A[j] # A[n]
    BY <1>1, <2>1
  <2>4. Placed(A, n)
    BY <2>2, <2>3, Zenon DEF Placed
  <2> QED BY <2>4 DEF n
<1>4. ASSUME NEW i \in 1..Len(A) PROVE Placed(A, i)
  <2>1. i <= Len(s) \/ i = Len(s) + 1
    BY <1>1
  <2> QED BY <1>2, <1>3, <2>1
<1>5. InOrder(A)
  BY <1>4, Zenon DEF InOrder, Placed
<1> QED BY <1>5 DEF A

\* What is passed into the pipe of the run is the next chunk of its client.
LEMMA PassKeeps ==
  ASSUME IInv, OInv, NEW c \in Client, NEW n \in Run, Pass(c, n)
  PROVE  OInv'
<1>1. /\ sc[c] = "write" /\ copier[n] = "read" /\ src[n] = to[c]
      /\ hold' = [hold EXCEPT ![n] = <<c, took[c]>>]
      /\ copier' = [copier EXCEPT ![n] = "write"]
      /\ sc' = [sc EXCEPT ![c] = "read"]
      /\ UNCHANGED <<run, phase, src, input, got, cl, to, took>>
  BY DEF Pass, container, process, clients
<1>2. /\ copier \in [Run -> CopierValues] /\ hold \in [Run -> Chunk \union {<<>>}]
      /\ sc \in [Client -> {"off", "read", "write", "done"}]
      /\ took \in [Client -> Nat] /\ took[c] > 0
  BY <1>1 DEF IInv, CopierOK, CommandOK, InputOK
<1>3. sc'[c] = "read" /\ \A d \in Client : d # c => sc'[d] = sc[d]
  BY <1>1, <1>2
<1>4. SourceOK
  BY DEF OInv
<1>5. Passed(c) = took[c] - 1 /\ Passed(c)' = took[c]
  BY <1>1, <1>3 DEF Passed
<1>6. \A d \in Client : Copies(d)' = Copies(d)
  BY <1>1, <1>3 DEF Copies
<1>7. \A d \in Client : d # c => Passed(d)' = Passed(d)
  BY <1>1, <1>3 DEF Passed
<1>8. SourceOK'
  <2>1. \A m \in Run : copier'[m] \in {"off", "begin"} => src'[m] = None
    BY <1>1, <1>2, <1>4 DEF SourceOK
  <2>2. \A d \in Client : sc'[d] = "off" => sc[d] = "off"
    BY <1>3
  <2>3. \A d \in Client : cl'[d] = "off" => sc'[d] = "off"
    BY <1>1, <1>3, <1>4 DEF SourceOK
  <2> QED BY <1>1, <1>4, <1>6, <1>7, <2>1, <2>2, <2>3 DEF SourceOK
<1>9. Alone' => Alone
  BY <1>1 DEF Alone, Shared
<1>10. \A d \in Client : sc[d] # "off" => sc'[d] # "off" /\ to'[d] = to[d]
  BY <1>1, <1>3
<1>11. ASSUME Alone', copier'[run'] \in {"read", "write"} PROVE src'[run'] = run'
  <2>1. copier[run] \in {"read", "write"}
    BY <1>1, <1>2, <1>11
  <2> QED BY <1>1, <1>9, <1>11, <2>1 DEF OInv, LineOK
<1>12. ASSUME Alone, n # run PROVE Whole'
  <2>1. run \in Run /\ to[c] # run
    BY <1>1, <1>12, LineType DEF Alone, Shared
  <2>2. Hand' = Hand
    BY <1>1, <1>2, <1>12, <2>1 DEF Hand
  <2>3. Line' = Line
    BY <1>1, <2>2 DEF Line
  <2>4. \A d \in Client : Copies(d)' /\ to'[d] = run =>
          Copies(d) /\ to[d] = run /\ Passed(d)' = Passed(d)
    BY <1>1, <1>6, <1>7, <2>1
  <2> QED BY <1>1, <1>10, <1>12, <2>3, <2>4, LineKeeps DEF OInv
<1>13. ASSUME Alone, n = run PROVE Whole'
  <2> DEFINE x == <<c, took[c]>>
  <2>1. /\ run \in Run /\ input \in Seq(Chunk) /\ got \in Seq(Chunk)
        /\ Line \in Seq(Chunk)
    BY <1>13, LineType DEF Alone
  <2>2. to[c] = run /\ Copies(c) /\ Whole
    BY <1>1, <1>13, <2>1 DEF OInv, LineOK, Copies
  <2>3. x \in Chunk
    BY <1>2, Constants DEF IInv, InputOK, Chunk
  <2>4. Line = got \o input
    <3>1. Hand = <<>>
      BY <1>1, <1>13 DEF Hand
    <3>2. got \o input \in Seq(Chunk)
      BY <2>1, ConcatProperties, Zenon
    <3> QED BY <3>1, <3>2, ConcatEmptySeq DEF Line
  <2>5. Line' = Append(Line, x)
    <3>1. Hand' = <<x>>
      BY <1>1, <1>2, <1>13, <2>1 DEF Hand
    <3>2. Line' = Line \o <<x>>
      BY <1>1, <2>4, <3>1, Zenon DEF Line
    <3> QED BY <2>1, <2>3, <3>2, AppendIsConcat
  <2> DEFINE L == Line
             A == Line'
  <2>6. /\ Len(A) = Len(L) + 1 /\ A[Len(L) + 1] = x /\ Len(L) \in Nat
        /\ \A i \in 1..Len(L) : A[i] = L[i]
    BY <2>1, <2>3, <2>5, AppendProperties
  <2>7. /\ InOrder(L) /\ \A i \in 1..Len(L) : Known(L[i])
        /\ \A d \in Client : to[d] = run /\ Copies(d) => Has(d)
    BY <2>2 DEF Whole
  <2>8. \A i \in 1..Len(L) : L[i] \in Chunk
    BY <2>1, ElementOfSeq
  <2>9. ASSUME NEW i \in 1..Len(L) PROVE L[i] # x
    <3>1. ASSUME L[i] = x PROVE FALSE
      <4>1. L[i][1] = c /\ L[i][2] = took[c]
        BY <3>1
      <4>2. took[c] <= Passed(c)
        BY <2>2, <2>7, <4>1 DEF Known
      <4> QED BY <1>2, <1>5, <4>2
    <3> QED BY <3>1
  <2>10. ASSUME NEW k \in 1..(took[c] - 1)
         PROVE  \E j \in 1..Len(L) : L[j] = <<c, k>>
    BY <1>5, <2>2, <2>7 DEF Has
  <2> HIDE DEF L, A
  <2>11. InOrder(A)
    <3>1. x[1] = c /\ x[2] = took[c]
      OBVIOUS
    <3>2. InOrder(Append(L, x))
      <4>1. L \in Seq(Chunk)
        BY <2>1 DEF L
      <4> HIDE DEF x
      <4> QED BY <2>3, <2>7, <2>9, <2>10, <3>1, <4>1, NextInOrder
    <3> QED BY <2>5, <3>2 DEF A, L
  <2>12. ASSUME NEW i \in 1..Len(A), NEW y, y = A[i] PROVE Known(y)'
    <3>1. CASE i <= Len(L)
      <4>1. i \in 1..Len(L) /\ y = L[i]
        BY <2>6, <2>12, <3>1
      <4> DEFINE d == L[i][1]
      <4>2. d \in Client /\ L[i][2] \in Nat
        BY <2>8, <4>1, ChunkParts
      <4>3. to[d] = run /\ sc[d] # "off" /\ (Copies(d) => L[i][2] <= Passed(d))
        BY <2>7, <4>1 DEF Known
      <4>4. to'[d] = run' /\ sc'[d] # "off"
        BY <1>1, <1>10, <4>2, <4>3
      <4>5. ASSUME NEW e \in Client, e = d, Copies(e)' PROVE L[i][2] <= Passed(e)'
        <5>1. L[i][2] <= Passed(e)
          BY <1>6, <4>3, <4>5
        <5> QED BY <1>2, <1>5, <1>7, <4>2, <5>1
      <4> QED BY <4>1, <4>2, <4>4, <4>5 DEF Known
    <3>2. CASE i = Len(L) + 1
      <4>1. y[1] = c /\ y[2] = took[c]
        BY <2>6, <2>12, <3>2
      <4>2. to'[c] = run' /\ sc'[c] # "off" /\ took[c] <= Passed(c)'
        BY <1>1, <1>2, <1>3, <1>5, <2>2
      <4> QED BY <4>1, <4>2 DEF Known
    <3> QED BY <2>6, <3>1, <3>2
  <2>13. ASSUME NEW d \in Client, to'[d] = run', Copies(d)' PROVE Has(d)'
    <3>1. ASSUME NEW k \in 1..Passed(d)' PROVE \E i \in 1..Len(A) : A[i] = <<d, k>>
      <4>1. ASSUME \E i \in 1..Len(L) : L[i] = <<d, k>>
            PROVE  \E i \in 1..Len(A) : A[i] = <<d, k>>
        BY <2>6, <4>1
      <4>2. CASE d # c
        <5>1. k \in 1..Passed(d) /\ Has(d)
          BY <1>1, <1>6, <1>7, <2>7, <2>13, <4>2
        <5> QED BY <4>1, <5>1 DEF Has, L
      <4>3. CASE d = c /\ k # took[c]
        <5>1. k \in 1..(took[c] - 1)
          BY <1>2, <1>5, <4>3
        <5> QED BY <2>10, <4>1, <4>3, <5>1
      <4>4. CASE d = c /\ k = took[c]
        BY <2>6, <4>4
      <4> QED BY <4>2, <4>3, <4>4
    <3> QED BY <3>1 DEF Has, A
  <2>14. InOrder(Line')
    BY <2>11 DEF A
  <2>15. \A i \in 1..Len(Line') : Known(Line[i])'
    BY <2>12 DEF A, Known, Copies, Passed
  <2> QED BY <2>13, <2>14, <2>15 DEF Whole
<1> QED BY <1>8, <1>9, <1>11, <1>12, <1>13 DEF OInv, LineOK

\* The process reads from the front.
LEMMA ProcessReadsKeeps ==
  ASSUME IInv, OInv, ProcessReads
  PROVE  OInv'
<1>1. /\ phase = "up" /\ input # <<>>
      /\ got' = Append(got, Head(input)) /\ input' = Tail(input)
      /\ UNCHANGED <<run, phase, copier, src, hold, cl, to, sc, took>>
  BY DEF ProcessReads, container, copiers, clients, server
<1>2. Hand' = Hand
  BY <1>1 DEF Hand
<1>3. Line' = Line
  <2>1. Append(got, Head(input)) \o Tail(input) \o Hand = got \o input \o Hand
    <3>1. /\ got \in Seq(Chunk) /\ input \in Seq(Chunk) /\ Hand \in Seq(Chunk)
          /\ input # <<>>
      BY <1>1, LineType
    <3> DEFINE Stays(S, g, q, h) == Append(g, Head(q)) \o Tail(q) \o h = g \o q \o h
    <3>2. \A S : \A g, q, h \in Seq(S) : q # <<>> => Stays(S, g, q, h)
      BY TakeFirst
    <3> HIDE DEF Stays
    <3>3. Stays(Chunk, got, input, Hand)
      BY <3>1, <3>2, Zenon
    <3> QED BY <3>3 DEF Stays
  <2> QED BY <1>1, <1>2, <2>1, Zenon DEF Line
<1>4. \A c \in Client : Copies(c)' = Copies(c) /\ Passed(c)' = Passed(c)
  BY <1>1 DEF Copies, Passed
<1>5. Alone' = Alone
  BY <1>1 DEF Alone, Shared
<1>6. SourceOK'
  BY <1>1, <1>4 DEF OInv, SourceOK
<1>7. ASSUME Alone' PROVE Whole'
  <2>1. \A c \in Client : sc[c] # "off" => sc'[c] # "off" /\ to'[c] = to[c]
    BY <1>1
  <2>2. \A c \in Client : Copies(c)' /\ to'[c] = run =>
          Copies(c) /\ to[c] = run /\ Passed(c)' = Passed(c)
    BY <1>1, <1>4
  <2> QED BY <1>1, <1>3, <1>5, <1>7, <2>1, <2>2, LineKeeps DEF OInv
<1>8. ASSUME Alone', copier'[run'] \in {"read", "write"} PROVE src'[run'] = run'
  BY <1>1, <1>5, <1>8 DEF OInv, LineOK
<1> QED BY <1>6, <1>7, <1>8 DEF OInv, LineOK

\* With the process its line is gone.
LEMMA EndsKeep ==
  ASSUME IInv, OInv, Exit \/ MonitorClose \/ MonitorStopped
  PROVE  OInv'
<1>1. /\ phase' # "up" /\ got' = <<>> /\ input' = <<>>
      /\ UNCHANGED <<copier, src, hold, cl, to, sc, took>>
  BY DEF Exit, MonitorClose, MonitorStopped, copiers, process, clients, server,
         OInv, SourceOK
<1>2. \A c \in Client : Copies(c)' = Copies(c) /\ Passed(c)' = Passed(c)
  BY <1>1 DEF Copies, Passed
<1>3. SourceOK'
  BY <1>1, <1>2 DEF OInv, SourceOK
<1> QED BY <1>1, <1>3 DEF OInv, LineOK, Alone

\* No step of anybody breaks it.
LEMMA OrderKeeps ==
  ASSUME IInv, OInv, [Next]_vars
  PROVE  OInv'
<1>1. CASE Next
  BY <1>1, CallsKeep, BeginKeeps, EndsKeep, ProcessReadsKeeps, CopierBeginsKeeps,
     CopierWriteKeeps, CopierEofKeeps, PassKeeps, CommandsKeep, OthersKeep
  DEF Next, StartRun, Restart, CopierStep
<1>2. CASE UNCHANGED vars
  <2>1. /\ UNCHANGED <<run, phase, copier, src, hold, input, got, cl, to, sc, took>>
    BY <1>2 DEF vars, container, copiers, process, clients, server
  <2>2. \A c \in Client : Copies(c)' = Copies(c) /\ Passed(c)' = Passed(c)
    BY <2>1 DEF Copies, Passed
  <2>3. SourceOK
    BY DEF OInv
  <2> QED BY <2>1, <2>2, <2>3, Clients DEF SourceOK
<1> QED BY <1>1, <1>2

\* Nothing is on its way before the first call.
LEMMA InitOrder == Init => OInv
<1> SUFFICES ASSUME Init PROVE OInv
  OBVIOUS
<1>1. /\ phase = "stopped" /\ got = <<>> /\ input = <<>>
      /\ \A n \in Run : src[n] = None
      /\ \A c \in Client : sc[c] = "off" /\ took[c] = 0
  BY DEF Init
<1> QED BY <1>1 DEF OInv, SourceOK, LineOK, Alone, Copies

\* A process reads what was typed for its run in order, from the first chunk
\* on, nothing left out, for any number of clients, runs and chunks: it is
\* what its line begins with (container.go:462).
THEOREM InputStaysInOrder == Spec => []InputInOrder
<1>1. IInv /\ OInv => InputInOrder
  <2> SUFFICES ASSUME IInv, OInv, ~Shared(run)
               PROVE  InOrder(got) /\ \A i \in 1..Len(got) : to[got[i][1]] = run
    BY DEF InputInOrder
  <2>1. CASE phase # "up"
    BY <2>1 DEF OInv, SourceOK, InOrder
  <2>2. CASE phase = "up"
    <3>1. Whole
      BY <2>2 DEF OInv, LineOK, Alone
    <3>2. /\ input \in Seq(Chunk) /\ got \in Seq(Chunk) /\ Hand \in Seq(Chunk)
      BY <2>2, LineType
    <3>3. Len(got) <= Len(Line) /\ \A i \in 1..Len(got) : Line[i] = got[i]
      <4> DEFINE Before(S, g, q, h) ==
            /\ Len(g) <= Len(g \o q \o h)
            /\ \A i \in 1..Len(g) : (g \o q \o h)[i] = g[i]
      <4>1. \A S : \A g, q, h \in Seq(S) : Before(S, g, q, h)
        BY Begins
      <4> HIDE DEF Before
      <4>2. Before(Chunk, got, input, Hand)
        BY <3>2, <4>1, Zenon
      <4> QED BY <4>2, Zenon DEF Before, Line
    <3>4. InOrder(got)
      BY <2>2, <3>1, <3>2, <3>3, LineType, FirstInOrder DEF Whole
    <3>5. ASSUME NEW i \in 1..Len(got) PROVE to[got[i][1]] = run
      <4>1. i \in 1..Len(Line) /\ Line[i] = got[i]
        <5>1. Len(got) \in Nat /\ Len(Line) \in Nat
          BY <2>2, <3>2, LineType
        <5> QED BY <3>3, <5>1
      <4> QED BY <3>1, <4>1 DEF Whole, Known
    <3> QED BY <3>4, <3>5
  <2> QED BY <2>1, <2>2
<1>2. IInv /\ OInv /\ [Next]_vars => OInv'
  BY OrderKeeps
<1> QED BY <1>1, <1>2, InitOrder, Invariance, PTL DEF Spec

-----------------------------------------------------------------------------
(* The safety in InputFlows and EofReaches: what the input, and its end, wait *)
(* for can happen while the process is up.                                   *)

\* The copier of the run that is up begins, or writes, or its process reads
\* (the guards of CopierBegins, CopierWrite and ProcessReads).
LineMoves ==
  \/ copier[run] = "begin"
  \/ copier[run] = "write" /\ Len(input) < PipeSize
  \/ input # <<>>

\* A chunk for the run that is up can go on, or be passed.
NobodyBlocks ==
  \A c \in Client :
    sc[c] = "write" /\ phase = "up" /\ to[c] = run
      /\ to[c] \notin wclosed \union rclosed =>
        LineMoves \/ (copier[run] = "read" /\ src[run] = to[c])

\* The end of the input is on its way: the command's copy sees it, or hands
\* on what comes before it, or the copier of the run sees the pipe closed.
EndComes ==
  ~world.tty /\ phase = "up" /\ run = 1 /\ cmd[Runner] = "serving"
    /\ shut[Runner] /\ ~eof =>
      \/ sc[Runner] = "read"
      \/ sc[Runner] = "write" /\ copier[1] = "read" /\ src[1] = to[Runner]
      \/ copier[1] = "read" /\ src[1] \in wclosed
      \/ LineMoves

\* What that needs: the copier of the run that is up reads the run's own pipe
\* and ends only with it, and then the process has seen the end ...
CopierLives ==
  phase = "up" =>
    /\ copier[run] \in {"begin", "read", "write", "done"}
    /\ copier[run] # "begin" => src[run] = run
    /\ copier[run] = "done" => run \in wclosed /\ (world.tty \/ eof)

\* ... and who runs it copies its input, and closes the pipe at the end.
RunnerCopies ==
  /\ cmd[Runner] # "off" => sc[Runner] # "off"
  /\ sc[Runner] = "done" => 1 \in wclosed

LiveOK == CopierLives /\ RunnerCopies

\* Before the first run there is nothing to keep.
LEMMA LiveInit == Init => LiveOK
BY Constants DEF Init, LiveOK, CopierLives, RunnerCopies

\* The copiers, the process and the monitor keep it.
LEMMA CopierKeepsLives ==
  ASSUME IInv, LiveOK, [Next]_vars
  PROVE  CopierLives'
<1>1. /\ RunOK /\ CopierOK /\ CopierLives /\ run \in Nat
      /\ run > 0 => run \in Run
  BY RunsAndPipes, Constants DEF IInv, LiveOK, RunOK
<1>2. ASSUME UNCHANGED <<run, phase, world, copier, src>>, wclosed \subseteq wclosed',
             eof => eof'
      PROVE  CopierLives'
  BY <1>1, <1>2 DEF CopierLives
<1>3. CASE Begin
  <2>1. /\ run' = run + 1 /\ run + 1 \in Run
        /\ copier' = [copier EXCEPT ![run + 1] = "begin"]
    BY <1>1, <1>3, RunsAndPipes, Constants DEF Begin, RunOK
  <2>2. copier'[run'] = "begin"
    BY <1>1, <2>1 DEF CopierOK
  <2> QED BY <2>2 DEF CopierLives
<1>4. CASE Exit \/ MonitorClose \/ MonitorStopped
  BY <1>4 DEF Exit, MonitorClose, MonitorStopped, CopierLives
<1>5. ASSUME NEW n \in Run, CopierBegins(n)
      PROVE  CopierLives'
  BY <1>1, <1>5 DEF CopierBegins, CopierLives, CopierOK, RunOK, container, pipes,
                    process
<1>6. ASSUME NEW n \in Run, CopierWrite(n)
      PROVE  CopierLives'
  BY <1>1, <1>6 DEF CopierWrite, CopierLives, CopierOK, container, pipes
<1>7. ASSUME NEW n \in Run, CopierEof(n)
      PROVE  CopierLives'
  <2>1. /\ UNCHANGED <<run, phase, world, src, wclosed>>
        /\ copier[n] = "read" /\ src[n] \in wclosed
        /\ copier' = [copier EXCEPT ![n] = "done"]
    BY <1>7 DEF CopierEof, container
  <2>2. world.tty \/ eof' = (eof \/ (n = run /\ phase = "up"))
    BY <1>7 DEF CopierEof
  <2>3. world.tty => eof' = eof
    BY <1>7 DEF CopierEof
  <2>4. eof \in BOOLEAN
    BY DEF IInv, ProcessOK
  <2>5. CASE n = run
    BY <1>1, <2>1, <2>2, <2>3, <2>5 DEF CopierLives, CopierOK
  <2>6. CASE n # run
    BY <1>1, <2>1, <2>2, <2>3, <2>4, <2>6 DEF CopierLives, CopierOK
  <2> QED BY <2>5, <2>6
<1>8. ASSUME NEW c \in Client, NEW n \in Run, Pass(c, n)
      PROVE  CopierLives'
  BY <1>1, <1>8 DEF Pass, CopierLives, CopierOK, container, pipes, process
<1>9. CASE CallRun \/ ProcessReads \/ \E c \in Client :
             \/ CallAttach(c) \/ CopyRead(c) \/ CopyEnd(c) \/ CopyRefused(c)
             \/ OutputBreaks(c) \/ Return(c) \/ ClientStep(c)
  BY <1>2, <1>9 DEF CallRun, ProcessReads, CallAttach, Call, CopyRead, CopyEnd,
       CopyRefused, OutputBreaks, Return, ClientStep, SendEnds, Received, Sent,
       Killed, container, pipes, copiers, process, Served, Daemon
<1>10. CASE UNCHANGED vars
  BY <1>2, <1>10 DEF vars, container, pipes, copiers, process
<1> QED BY <1>3, <1>4, <1>5, <1>6, <1>7, <1>8, <1>9, <1>10
        DEF Next, CopierStep, StartRun, Restart

\* And so do the commands.
LEMMA RunnerStillCopies ==
  ASSUME IInv, LiveOK, [Next]_vars
  PROVE  RunnerCopies'
<1>1. RunnerCopies /\ CommandOK /\ RunnerOK /\ Runner \in Client
  BY Constants DEF IInv, LiveOK
<1>2. ASSUME wclosed \subseteq wclosed', cmd[Runner] = "off" => cmd'[Runner] = "off",
             sc'[Runner] = sc[Runner]
      PROVE  RunnerCopies'
  BY <1>1, <1>2 DEF RunnerCopies
<1>3. CASE CallRun
  BY <1>1, <1>3 DEF CallRun, Call, RunnerCopies, CommandOK
<1>4. CASE StartRun
  <2>1. wclosed' = wclosed /\ sc' = sc /\ cmd[Runner] = "starting"
    BY <1>4 DEF StartRun, Begin, pipes
  <2> QED BY <1>2, <2>1
<1>5. CASE Restart \/ Exit \/ ProcessReads \/ MonitorClose \/ MonitorStopped
           \/ \E n \in Run : CopierStep(n)
  BY <1>2, <1>5 DEF Restart, Begin, Exit, ProcessReads, MonitorClose,
       MonitorStopped, CopierStep, CopierBegins, CopierWrite, CopierEof, pipes, server
<1>6. ASSUME NEW c \in Client, NEW n \in Run, Pass(c, n)
      PROVE  RunnerCopies'
  BY <1>1, <1>6 DEF Pass, RunnerCopies, CommandOK, pipes
<1>7. ASSUME NEW c \in Client, CallAttach(c)
      PROVE  RunnerCopies'
  BY <1>1, <1>2, <1>7 DEF CallAttach, Call, CommandOK, pipes
<1>8. ASSUME NEW c \in Client, CopyRead(c) \/ CopyEnd(c) \/ CopyRefused(c)
      PROVE  RunnerCopies'
  BY <1>1, <1>8 DEF CopyRead, CopyEnd, ConnectionEnds, CopyRefused, RunnerCopies,
       CommandOK, RunnerOK
<1>9. ASSUME NEW c \in Client, OutputBreaks(c) \/ Return(c) \/ ClientStep(c)
      PROVE  RunnerCopies'
  BY <1>1, <1>2, <1>9 DEF OutputBreaks, Return, Ended, ClientStep, SendEnds,
       Received, Sent, Killed, pipes, server, Daemon, CommandOK
<1>10. CASE UNCHANGED vars
  BY <1>2, <1>10 DEF vars, pipes, server
<1> QED BY <1>3, <1>4, <1>5, <1>6, <1>7, <1>8, <1>9, <1>10 DEF Next

\* Both hold in every state.
LEMMA LiveAlways == Spec => [](IInv /\ LiveOK)
<1>1. IInv /\ LiveOK /\ [Next]_vars => LiveOK'
  BY CopierKeepsLives, RunnerStillCopies DEF LiveOK
<1> QED BY <1>1, LiveInit, Invariance, PTL DEF Spec

\* What is in the hands of the copier of a live run can be written, or is
\* behind something the process can read.
LEMMA WriteMoves ==
  ASSUME IInv, copier[run] = "write"
  PROVE  LineMoves
<1>1. input = <<>> => Len(input) < PipeSize
  BY Constants DEF IInv, ProcessOK
<1> QED BY <1>1 DEF LineMoves

\* A chunk that is typed for the run that is up is not held up, whoever was
\* attached to an earlier run: the copier of this one is there to take it, or
\* is about to be, or has one in its hands that the process makes room for
\* (container.go:269-305, 445-468).
THEOREM InputIsNotHeld == Spec => []NobodyBlocks
<1>1. ASSUME IInv, LiveOK, NEW c \in Client, phase = "up", to[c] = run,
             to[c] \notin wclosed
      PROVE  LineMoves \/ (copier[run] = "read" /\ src[run] = to[c])
  <2>1. copier[run] \in {"begin", "read", "write"}
    BY <1>1 DEF LiveOK, CopierLives
  <2>2. CASE copier[run] = "begin"
    BY <2>2 DEF LineMoves
  <2>3. CASE copier[run] = "read"
    BY <1>1, <2>3 DEF LiveOK, CopierLives
  <2>4. CASE copier[run] = "write"
    BY <1>1, <2>4, WriteMoves
  <2> QED BY <2>1, <2>2, <2>3, <2>4
<1>2. IInv /\ LiveOK => NobodyBlocks
  BY <1>1 DEF NobodyBlocks
<1> QED BY <1>2, LiveAlways, PTL

\* In a pipeline the end of the input of who runs the container is never left
\* on its way to the process: whoever has it, or what is still before it, can
\* go on (server/server.go:880-884, container.go:298-305).
THEOREM EndIsNotHeld == Spec => []EndComes
<1>1. ASSUME IInv, LiveOK, ~world.tty, phase = "up", run = 1,
             cmd[Runner] = "serving", shut[Runner], ~eof
      PROVE  \/ sc[Runner] = "read"
             \/ sc[Runner] = "write" /\ copier[1] = "read" /\ src[1] = to[Runner]
             \/ copier[1] = "read" /\ src[1] \in wclosed
             \/ LineMoves
  <2>1. /\ copier[1] \in {"begin", "read", "write"}
        /\ copier[1] # "begin" => src[1] = 1
    BY <1>1 DEF LiveOK, CopierLives
  <2>2. /\ sc[Runner] \in {"read", "write", "done"} /\ to[Runner] = 1
        /\ sc[Runner] = "done" => 1 \in wclosed
    BY <1>1, Constants DEF LiveOK, RunnerCopies, IInv, CommandOK, RunnerOK
  <2>3. CASE copier[1] = "begin"
    BY <1>1, <2>3 DEF LineMoves
  <2>4. CASE copier[1] = "read"
    BY <2>1, <2>2, <2>4
  <2>5. CASE copier[1] = "write"
    BY <1>1, <2>5, WriteMoves
  <2> QED BY <2>1, <2>3, <2>4, <2>5
<1>2. IInv /\ LiveOK => EndComes
  BY <1>1 DEF EndComes
<1> QED BY <1>2, LiveAlways, PTL
=============================================================================
