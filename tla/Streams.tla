------------------------------ MODULE Streams -------------------------------
(***************************************************************************)
(* The output of a container on its way to who is attached to it: the      *)
(* goroutine that copies what the process writes (os/exec's, or startPty's *)
(* for a tty), the writeBroadcaster it copies to, and behind it the log    *)
(* and, for each client, an io.Pipe whose reading end a bufReader drains   *)
(* for the client to read (utils.go:43-148).  One stream is modelled;      *)
(* stdout and stderr are two instances of the same code.                   *)
(*                                                                         *)
(* What the process writes is cut into chunks, and a chunk is known by the *)
(* run of the container that wrote it and its place in that run.  The      *)
(* critical sections of bufReader hold one operation each and are one step *)
(* each.  Fields the code reads outside the lock are read in steps apart.  *)
(* What drain has read and not yet stored is nobody else's to see, so its  *)
(* Read and its buf.Write are one step.                                    *)
(***************************************************************************)
EXTENDS Integers, SequencesExt

CONSTANTS
  Client,      \* who may attach, each once
  MaxRuns,     \* bound on the runs of the container
  World        \* the worlds it may live in: Config.Tty, who attaches there
               \* and who of them ever reads, and what each run may write

Run == 1 .. MaxRuns

ASSUME StreamsAssumption ==
  /\ {"log", "none"} \intersect Client = {} /\ MaxRuns \in Nat
  /\ \A w \in World :
       /\ w.tty \in BOOLEAN
       /\ w.reading \subseteq w.attaching /\ w.attaching \subseteq Client
       /\ w.chunks \in Seq(Nat) /\ Len(w.chunks) <= MaxRuns

Writer == Client \union {"log"}
Chunk == Run \X Nat
None == "none"

VARIABLES
  world,
  run,              \* the last run begun
  proc,             \* the process of a run: "none", "up", "dead"
  written, copied,  \* the chunks it wrote, and those the copier has read
  monitor,          \* the monitor of a run
  copier, at,       \* the copier of a run, and the writer its Write is at
  failed,           \* the writers its Write will evict
  writers,          \* writeBroadcaster.writers
  log,              \* the log file
  pipe,             \* a client's io.Pipe: "none", "open", or the end that
                    \* was closed first, "writer" or "reader"
  drain,            \* bufReader.drain
  buf, err,         \* bufReader.buf, and whether bufReader.err is set
  reader,           \* the client's copy loop over bufReader.Read
  got,              \* what it has read
  since, closedIn   \* history: what was copied before the client attached,
                    \* and the run in which its pipe was closed

runs == <<run, proc, written>>
copiers == <<copied, copier, at, failed>>
clients == <<drain, buf, err, reader, got, since>>
vars == <<world, run, proc, written, copied, monitor, copier, at, failed,
          writers, log, pipe, drain, buf, err, reader, got, since,
          closedIn>>

Init ==
  /\ world \in World
  /\ run = 0 /\ proc = [r \in Run |-> "none"]
  /\ written = [r \in Run |-> 0] /\ copied = [r \in Run |-> 0]
  /\ monitor = [r \in Run |-> "none"] /\ copier = [r \in Run |-> "none"]
  /\ at = [r \in Run |-> None] /\ failed = [r \in Run |-> <<>>]
  /\ writers = <<"log">> /\ log = <<>>
  /\ pipe = [c \in Client |-> "none"]
  /\ drain = [c \in Client |-> "none"]
  /\ buf = [c \in Client |-> <<>>] /\ err = [c \in Client |-> FALSE]
  /\ reader = [c \in Client |-> "none"] /\ got = [c \in Client |-> <<>>]
  /\ since = [c \in Client |-> [r \in Run |-> 0]]
  /\ closedIn = [c \in Client |-> 0]

-----------------------------------------------------------------------------
(* The process and its monitor.                                             *)

\* Start: the process is up, its output has a copier, and its monitor waits.
Start ==
  /\ run < Len(world.chunks) /\ (run > 0 => monitor[run] = "stopped")
  /\ run' = run + 1
  /\ proc' = [proc EXCEPT ![run'] = "up"]
  /\ copier' = [copier EXCEPT ![run'] = "read"]
  /\ monitor' = [monitor EXCEPT ![run'] = "wait"]
  /\ UNCHANGED <<world, written, copied, at, failed, writers, log, pipe,
                 clients, closedIn>>

Output(r) ==
  /\ proc[r] = "up" /\ written[r] < world.chunks[r]
  /\ written' = [written EXCEPT ![r] = @ + 1]
  /\ UNCHANGED <<world, run, proc, copiers, monitor, writers, log, pipe,
                 clients, closedIn>>

Exit(r) ==
  /\ proc[r] = "up" /\ proc' = [proc EXCEPT ![r] = "dead"]
  /\ UNCHANGED <<world, run, written, copiers, monitor, writers, log, pipe,
                 clients, closedIn>>

\* Mutant: the monitor waits for the process only.
MonitorWaitsProcess(r) ==
  /\ monitor[r] = "wait" /\ proc[r] = "dead"
  /\ monitor' = [monitor EXCEPT ![r] = "close"]
  /\ UNCHANGED <<world, runs, copiers, writers, log, pipe, clients, closedIn>>

\* cmd.Wait() joins the copier that os/exec started; that of a tty is
\* startPty's and nobody joins it.
MonitorWait(r) ==
  /\ monitor[r] = "wait" /\ proc[r] = "dead"
  /\ ~world.tty => copier[r] = "done"
  /\ monitor' = [monitor EXCEPT ![r] = "close"]
  /\ UNCHANGED <<world, runs, copiers, writers, log, pipe, clients, closedIn>>

\* writeBroadcaster.Close: every writer in the list is closed and stays in
\* it.  The log's Close does nothing (NopWriteCloser).
Close(r) ==
  LET now == {c \in Client : pipe[c] = "open" /\ Contains(writers, c)}
  IN /\ pipe' = [c \in Client |-> IF c \in now THEN "writer" ELSE pipe[c]]
     /\ closedIn' = [c \in Client |-> IF c \in now THEN r ELSE closedIn[c]]
     /\ UNCHANGED writers

MonitorClose(r) ==
  /\ monitor[r] = "close" /\ Close(r)
  /\ monitor' = [monitor EXCEPT ![r] = "stopped"]
  /\ UNCHANGED <<world, runs, copiers, log, clients>>

-----------------------------------------------------------------------------
(* The copier: io.Copy from the process to writeBroadcaster.Write, which    *)
(* visits the writers in the order of the list.                             *)

CopierAt(r, pc) == copier[r] = pc /\ UNCHANGED <<world, runs, monitor, closedIn>>

Place(w) == CHOOSE i \in 1 .. Len(writers) : writers[i] = w

\* e.Next(): an element that another Write has removed is nobody's neighbour
\* any more, and the visit ends there.
NextWriter(w) ==
  IF Contains(writers, w) /\ Place(w) < Len(writers)
  THEN writers[Place(w) + 1] ELSE None

Visit(r, w) ==
  /\ at' = [at EXCEPT ![r] = w]
  /\ copier' = [copier EXCEPT ![r] = IF w = None THEN "evict" ELSE "offer"]

Copying(r) == <<r, copied[r]>>

CopierRead(r) ==
  /\ CopierAt(r, "read") /\ copied[r] < written[r]
  /\ copied' = [copied EXCEPT ![r] = @ + 1]
  /\ Visit(r, Head(writers))
  /\ UNCHANGED <<failed, writers, log, pipe, clients>>

WriteLog(r) ==
  /\ CopierAt(r, "offer") /\ at[r] = "log"
  /\ log' = Append(log, Copying(r))
  /\ Visit(r, NextWriter("log"))
  /\ UNCHANGED <<copied, failed, writers, pipe, clients>>

\* The write returns an error, and the writer will be evicted.
Fail(r) ==
  /\ failed' = [failed EXCEPT ![r] = Append(@, at[r])]
  /\ Visit(r, NextWriter(at[r]))

\* Pipe writes take turns; one on a closed pipe fails at once.
Offer(r) ==
  /\ CopierAt(r, "offer") /\ at[r] \in Client
  /\ \A q \in Run : ~(copier[q] = "pending" /\ at[q] = at[r])
  /\ IF pipe[at[r]] = "open"
     THEN copier' = [copier EXCEPT ![r] = "pending"] /\ UNCHANGED <<at, failed>>
     ELSE Fail(r)
  /\ UNCHANGED <<copied, writers, log, pipe, clients>>

\* The pipe was closed while the write waited for its reader.
OfferFails(r) ==
  /\ CopierAt(r, "pending") /\ pipe[at[r]] # "open"
  /\ Fail(r)
  /\ UNCHANGED <<copied, writers, log, pipe, clients>>

\* Remove: nothing happens to an element that another Write has removed.
RemoveElement(w) ==
  writers' = IF Contains(writers, w) THEN RemoveAt(writers, Place(w)) ELSE writers

\* The loop over the writers that failed, and its end.
Evict(r) ==
  /\ CopierAt(r, "evict") /\ failed[r] # <<>>
  /\ RemoveElement(Head(failed[r]))
  /\ failed' = [failed EXCEPT ![r] = Tail(@)]
  /\ UNCHANGED <<copied, copier, at, log, pipe, clients>>

Evicted(r) ==
  /\ CopierAt(r, "evict") /\ failed[r] = <<>>
  /\ copier' = [copier EXCEPT ![r] = "read"]
  /\ UNCHANGED <<copied, at, failed, writers, log, pipe, clients>>

\* Mutant: the copier ends with the process, whatever is still unread.
CopierEndEarly(r) ==
  /\ copier[r] = "read" /\ proc[r] = "dead"
  /\ copier' = [copier EXCEPT ![r] = "done"]
  /\ IF world.tty THEN Close(r) ELSE UNCHANGED <<pipe, closedIn, writers>>
  /\ UNCHANGED <<world, runs, monitor, copied, at, failed, log, clients>>

\* The end of the process's output.  startPty's copier then closes the
\* broadcaster, whatever run it is by now.
CopierEnd(r) ==
  /\ copier[r] = "read" /\ proc[r] = "dead" /\ copied[r] = written[r]
  /\ copier' = [copier EXCEPT ![r] = "done"]
  /\ IF world.tty THEN Close(r) ELSE UNCHANGED <<pipe, closedIn, writers>>
  /\ UNCHANGED <<world, runs, monitor, copied, at, failed, log, clients>>

-----------------------------------------------------------------------------
(* bufReader.drain.                                                         *)

Pending(c) == {r \in Run : copier[r] = "pending" /\ at[r] = c}

DrainAt(c, pc) == drain[c] = pc /\ UNCHANGED <<world, runs, monitor, copied,
                                              writers, log, pipe, closedIn>>
DrainTo(c, pc) == drain' = [drain EXCEPT ![c] = pc]

\* Mutant: the write that waits is not told that its chunk has been read.
DrainReadAgain(c) ==
  /\ DrainAt(c, "read") /\ pipe[c] # "reader"
  /\ \E r \in Pending(c) :
       buf' = [buf EXCEPT ![c] = Append(@, Copying(r))]
  /\ DrainTo(c, "signal")
  /\ UNCHANGED <<copier, at, failed, err, reader, got, since>>

\* The write that waits at the other end is done, even if that end has been
\* closed since it began.
DrainRead(c) ==
  /\ DrainAt(c, "read") /\ pipe[c] # "reader"
  /\ \E r \in Pending(c) :
       /\ buf' = [buf EXCEPT ![c] = Append(@, Copying(r))]
       /\ Visit(r, NextWriter(c))
  /\ DrainTo(c, "signal")
  /\ UNCHANGED <<failed, err, reader, got, since>>

DrainError(c) ==
  /\ DrainAt(c, "read")
  /\ \/ pipe[c] = "reader"
     \/ pipe[c] = "writer" /\ Pending(c) = {}
  /\ err' = [err EXCEPT ![c] = TRUE]
  /\ DrainTo(c, "signal")
  /\ UNCHANGED <<copier, at, failed, buf, reader, got, since>>

\* Mutant: the signal goes out only when there is an error to report.
DrainSignalsErrors(c) ==
  /\ DrainAt(c, "signal")
  /\ reader' = [reader EXCEPT ![c] = IF @ = "asleep" /\ err[c] THEN "take" ELSE @]
  /\ DrainTo(c, IF err[c] THEN "done" ELSE "read")
  /\ UNCHANGED <<copier, at, failed, buf, err, got, since>>

\* Mutant: drain waits until the client has taken what it has.
DrainSignalWaits(c) ==
  /\ DrainAt(c, "signal") /\ buf[c] = <<>>
  /\ DrainTo(c, IF err[c] THEN "done" ELSE "read")
  /\ UNCHANGED <<copier, at, failed, buf, err, reader, got, since>>

DrainSignal(c) ==
  /\ DrainAt(c, "signal")
  /\ reader' = [reader EXCEPT ![c] = IF @ = "asleep" THEN "take" ELSE @]
  /\ DrainTo(c, IF err[c] THEN "done" ELSE "read")
  /\ UNCHANGED <<copier, at, failed, buf, err, got, since>>

-----------------------------------------------------------------------------
(* The client: CmdAttach, CmdRun -a and Output read until an error.         *)

Daemon == <<world, runs, monitor, copiers, log>>
ReaderAt(c, from, to) == reader[c] = from /\ reader' = [reader EXCEPT ![c] = to]

\* StdoutPipe: AddWriter puts the new pipe at the end of the list.
Attach(c) ==
  /\ c \in world.attaching /\ ReaderAt(c, "none", "attached")
  /\ writers' = Append(writers, c)
  /\ pipe' = [pipe EXCEPT ![c] = "open"]
  /\ since' = [since EXCEPT ![c] = copied]
  /\ DrainTo(c, "read")
  /\ UNCHANGED <<Daemon, buf, err, got, closedIn>>

\* Output closes its pipe when Start fails.
Abandon(c) ==
  /\ ReaderAt(c, "attached", "gone")
  /\ pipe' = [pipe EXCEPT ![c] = "reader"]
  /\ UNCHANGED <<Daemon, writers, drain, buf, err, got, since, closedIn>>

ReaderStep(c, from, to) ==
  /\ ReaderAt(c, from, to)
  /\ UNCHANGED <<Daemon, writers, pipe, drain, err, since, closedIn>>

Begin(c) ==
  /\ c \in world.reading /\ ReaderStep(c, "attached", "take")
  /\ UNCHANGED <<buf, got>>

\* bufReader.Read: the buffer, then the error, then cond.Wait.  What was read
\* goes to the client's connection; when that fails the copy ends, and nobody
\* closes the pipe.
Take(c) ==
  IF buf[c] = <<>>
  THEN ReaderStep(c, "take", "check") /\ UNCHANGED <<buf, got>>
  ELSE /\ ReaderStep(c, "take", "take") \/ ReaderStep(c, "take", "gone")
       /\ got' = [got EXCEPT ![c] = @ \o buf[c]]
       /\ buf' = [buf EXCEPT ![c] = <<>>]

Check(c) ==
  /\ ReaderStep(c, "check", IF err[c] THEN "eof" ELSE "sleep")
  /\ UNCHANGED <<buf, got>>

Sleep(c) == ReaderStep(c, "sleep", "asleep") /\ UNCHANGED <<buf, got>>

-----------------------------------------------------------------------------
MonitorStep(r) == MonitorWait(r) \/ MonitorClose(r)

CopierStep(r) ==
  \/ CopierRead(r) \/ WriteLog(r) \/ Offer(r) \/ OfferFails(r)
  \/ Evict(r) \/ Evicted(r) \/ CopierEnd(r)

DrainStep(c) == DrainRead(c) \/ DrainError(c) \/ DrainSignal(c)

ReadStep(c) == Begin(c) \/ Take(c) \/ Check(c) \/ Sleep(c)

Next ==
  \/ Start
  \/ \E r \in Run : Output(r) \/ Exit(r) \/ MonitorStep(r) \/ CopierStep(r)
  \/ \E c \in Client : \/ DrainStep(c) \/ Attach(c) \/ Abandon(c)
                       \/ ReadStep(c)

\* The goroutines of the daemon go on running.  A process need not end, a
\* client need not attach, and its connection may block for ever.
Fairness ==
  /\ \A r \in Run : WF_vars(MonitorStep(r)) /\ WF_vars(CopierStep(r))
  /\ \A c \in Client : WF_vars(DrainStep(c)) /\ WF_vars(ReadStep(c))

Spec == Init /\ [][Next]_vars /\ Fairness
-----------------------------------------------------------------------------
(* Properties.                                                              *)

TypeOK ==
  /\ world \in World /\ run \in 0 .. MaxRuns
  /\ proc \in [Run -> {"none", "up", "dead"}]
  /\ written \in [Run -> Nat] /\ copied \in [Run -> Nat]
  /\ monitor \in [Run -> {"none", "wait", "close", "stopped"}]
  /\ copier \in [Run -> {"none", "read", "offer", "pending", "evict", "done"}]
  /\ at \in [Run -> Writer \union {None}]
  /\ failed \in [Run -> Seq(Client)]
  /\ writers \in Seq(Writer) /\ log \in Seq(Chunk)
  /\ pipe \in [Client -> {"none", "open", "writer", "reader"}]
  /\ drain \in [Client -> {"none", "read", "signal", "done"}]
  /\ buf \in [Client -> Seq(Chunk)] /\ err \in [Client -> BOOLEAN]
  /\ reader \in [Client -> {"none", "attached", "take", "check", "sleep",
                            "asleep", "eof", "gone"}]
  /\ got \in [Client -> Seq(Chunk)]
  /\ since \in [Client -> [Run -> Nat]] /\ closedIn \in [Client -> 0 .. MaxRuns]

Received(c) == got[c] \o buf[c]

\* The chunks of each run are in the order they were written, with none left
\* out between two of them and none twice.
NextOf(s, m, n) ==
  /\ s[m][2] < s[n][2]
  /\ \A k \in (s[m][2] + 1) .. (s[n][2] - 1) :
       \E i \in (m + 1) .. (n - 1) : s[i] = <<s[n][1], k>>
InSequence(s) ==
  \A n \in 1 .. Len(s) : \A m \in 1 .. (n - 1) :
    s[m][1] = s[n][1] => NextOf(s, m, n)

\* The log holds all of every run, in order, whoever attaches, leaves or is
\* evicted meanwhile, and is complete once the copier of the run is done.
LogIsWhole ==
  /\ InSequence(log)
  /\ \A n \in 1 .. Len(log) :
       LET r == log[n][1]
       IN log[n][2] \in 1 .. written[r] /\ Contains(log, <<r, 1>>)
  /\ \A r \in Run : copier[r] = "done" =>
       \A k \in 1 .. written[r] : Contains(log, <<r, k>>)

\* The removal of a writer ends another Write's visit of it (NextWriter), and
\* that one's chunk does not reach the writers behind.  It takes two copiers
\* at work and two clients.
Undisturbed ==
  world.tty =>
    Len(world.chunks) <= 1 \/ \A c, d \in world.attaching : c = d

\* A client gets the output of a run without a gap, a repetition or a swap.
NoGap == Undisturbed => \A c \in Client : InSequence(Received(c))

\* Without a tty the end of the stream comes after everything the process
\* wrote since the client attached: the copier is done before the monitor
\* closes the broadcaster, and drain stores its last chunk before the error.
NothingLost ==
  \A c \in Client :
    ~world.tty /\ err[c] /\ pipe[c] = "writer" =>
      \A r \in 1 .. closedIn[c] : \A i \in (since[c][r] + 1) .. written[r] :
        Contains(Received(c), <<r, i>>)

\* No client keeps the container's output waiting: not one that is slow, not
\* one that has gone, not one that never began to read.
OutputFlows ==
  \A r \in Run : copier[r] = "pending" ~> copier[r] # "pending"

\* A reader that has missed a signal is woken by the next chunk.
NextChunkWakes ==
  \A c \in Client :
    drain[c] = "signal" /\ reader[c] = "asleep" ~> buf[c] = <<>>

\* container_test.go:146, 261 and 270: what Output read until the end of the
\* stream is all the process wrote.
EofMeansAll ==
  \A c \in Client :
    ~world.tty /\ reader[c] = "eof" =>
      \A r \in 1 .. closedIn[c] : \A i \in (since[c][r] + 1) .. written[r] :
        Contains(got[c], <<r, i>>)
=============================================================================
