--------------------------- MODULE RegistryProofs ---------------------------
(***************************************************************************)
(* For any number of clients, ids and deaths of the daemon and whichever   *)
(* of Steps may fail: what is listed can be restored, what was quietly     *)
(* removed stays removed, and an rm empties no root under a process that   *)
(* its Stop was there to end.                                              *)
(***************************************************************************)
EXTENDS Registry, TLAPS

\* Whom a command or a create is about has an id that was drawn, and nothing
\* runs under one that was not.
Named ==
  /\ listed \subseteq used /\ destroyed \subseteq used
  /\ \A c \in Client : pc[c] # "idle" => id[c] \in used
  /\ \A i \in Id \ used : run[i] = "stopped"

\* A daemon that has died has no connections.
Down == daemon = "down" => \A c \in Client : pc[c] = "idle"

\* A container that is being created is nobody else's to touch, and on disk
\* as far as its creator has come.
Made(c) == pc[c] \in {"row", "mkdir", "open", "write", "push"}

Hidden ==
  \A c \in Client : Made(c) =>
    /\ id[c] \notin listed /\ id[c] \notin gone /\ run[id[c]] = "stopped"
    /\ \A d \in Client : d # c /\ pc[d] # "idle" => id[d] # id[c]

\* Its creator's steps so far.
StageOf(c) ==
  /\ pc[c] \in {"mkdir", "open", "write", "push"} => id[c] \in rows
  /\ pc[c] \in {"open", "write", "push"} => id[c] \in dirs
  /\ pc[c] \in {"write", "push"} => Config \in files[id[c]]
  /\ pc[c] = "push" => id[c] \in whole

Stage == \A c \in Client : StageOf(c)

\* What is listed and not being destroyed is on disk, but for the end of a
\* config.json that is being written or could not be.
KeptOf(i) ==
  i \in rows /\ Config \in files[i] /\ (Saving(i) \/ i \in torn \/ i \in whole)

Kept == \A i \in listed : ~Destroying(i) => KeptOf(i)

\* How far a Destroy has come that nobody has disturbed.
Undisturbed(c) ==
  /\ run[id[c]] = "stopped" /\ mounts[id[c]] \in {0, 1}
  /\ pc[c] \in {"deregister", "delete", "sweep", "rmdir", "remove"} =>
       mounts[id[c]] = 0
  /\ pc[c] = "rmdir" => files[id[c]] = {}
  /\ pc[c] = "remove" => id[c] \notin dirs

Destroys(c) ==
  pc[c] \in {"stop", "stopping", "mounted", "umount", "deregister", "delete",
            "sweep", "rmdir", "remove"}

Alone ==
  \A c \in Client : c \in quiet /\ Destroys(c) => Undisturbed(c)

\* A process of this daemon is in a run that its monitor has not seen end.
LiveRuns == \A i \in alive : run[i] \in {"started", "savingStart", "running"}

\* A Destroy whose Stop has returned finds no process but one that was started
\* since.
StopEnds == \A c \in Client : Removing(c) => id[c] \notin alive \/ id[c] \in raced

Spared == LiveRuns /\ StopEnds /\ RmSparesProcesses

IInv ==
  /\ DiskOK /\ CommandOK /\ Spared /\ Named /\ Down /\ Hidden /\ Stage
  /\ Kept /\ Alone /\ StaysDestroyed

PcValues == {"idle", "row", "mkdir", "open", "write", "push", "userdata", "fetch",
             "folders", "unmount", "exec", "find", "stop", "stopping", "mounted",
             "umount", "deregister", "delete", "sweep", "rmdir", "remove"}

RunValues == {"stopped", "started", "savingStart", "running", "unmounted",
              "reporting", "savingStop"}

\* The count of the daemon's deaths stays within its bound.
LEMMA BoundStep ==
  ASSUME MaxCrashes \in Nat, crashes \in 0 .. MaxCrashes, crashes < MaxCrashes,
         crashes' = crashes + 1
  PROVE  crashes' \in 0 .. MaxCrashes
OBVIOUS

\* It starts there.
LEMMA BoundStart ==
  ASSUME MaxCrashes \in Nat, crashes = 0
  PROVE  crashes \in 0 .. MaxCrashes
OBVIOUS

USE RegistryAssumption
USE DEF Config, UserData, NoId, disk, processes, host, command, history, life

-----------------------------------------------------------------------------
(* What the helpers of the actions do, field by field.                      *)

\* A step of a client that goes on with its command moves nobody else.
Moves(c, from, T) ==
  /\ pc[c] = from /\ pc'[c] \in T /\ daemon = "up"
  /\ \A d \in Client \ {c} : pc'[d] = pc[d]
  /\ UNCHANGED <<id, op, used, daemon, crashes>>
  /\ id[c] \in used /\ id[c] \in Id /\ (run' = run => CommandOK')

\* What Go(c, from, to) says, whatever the action computes `to' from.
LEMMA GoStep ==
  ASSUME IInv, NEW c \in Client, NEW from, NEW T \in SUBSET PcValues,
         \E to \in T : Go(c, from, to), from # "idle"
  PROVE  Moves(c, from, T)
<1>1. /\ pc \in [Client -> PcValues] /\ CommandOK /\ used \subseteq Id
  BY DEF IInv, CommandOK, DiskOK, PcValues
<1>2. PICK to \in T : Go(c, from, to)
  OBVIOUS
<1>3. pc[c] = from /\ pc' = [pc EXCEPT ![c] = to] /\ daemon = "up"
      /\ UNCHANGED <<id, op, used, daemon, crashes>>
  BY <1>2 DEF Go, command, life
<1>4. pc' \in [Client -> PcValues]
  BY <1>1, <1>3
<1>5. id[c] \in used /\ id[c] \in Id
  BY <1>1, <1>3 DEF IInv, Named
<1>6. run' = run => CommandOK'
  BY <1>1, <1>3, <1>4 DEF CommandOK, PcValues
<1> QED BY <1>2, <1>1, <1>3, <1>5, <1>6 DEF Moves

\* Opening a file truncates it, in a directory that is there.
LEMMA OpenStep ==
  ASSUME DiskOK, NEW i \in Id, NEW f \in {Config, UserData}, Open(i, f)
  PROVE  /\ files' \in [Id -> SUBSET {Config, UserData}]
         /\ \A j \in Id \ {i} : files'[j] = files[j]
         /\ files'[i] = (IF i \in dirs THEN files[i] \union {f} ELSE files[i])
         /\ whole' = (IF i \in dirs /\ f = Config THEN whole \ {i} ELSE whole)
<1>1. files \in [Id -> SUBSET {Config, UserData}]
  BY DEF DiskOK
<1>2. CASE i \in dirs
  BY <1>1, <1>2 DEF Open
<1>3. CASE i \notin dirs
  BY <1>1, <1>3 DEF Open
<1> QED BY <1>2, <1>3

\* And which of them it is, when the action names it.
LEMMA GoTo ==
  ASSUME IInv, NEW c \in Client, NEW from, NEW to, Go(c, from, to)
  PROVE  pc'[c] = to
BY DEF IInv, CommandOK, Go

\* A create shares its id with no other command.
LEMMA MadeApart ==
  ASSUME IInv, NEW c \in Client, pc[c] # "idle", NEW d \in Client, d # c, Made(d)
  PROVE  id[d] # id[c] /\ id[d] \in Id
<1>1. pc[d] # "idle"
  BY DEF Made
<1>2. id[d] \in used /\ used \subseteq Id
  BY <1>1 DEF IInv, Named, DiskOK
<1>3. id[d] # id[c]
  BY Zenon DEF IInv, Hidden
<1> QED BY <1>2, <1>3

\* A step of a run moves no other run and no client.
LEMMA RunsStep ==
  ASSUME CommandOK, NEW i \in Id, NEW from, NEW to \in RunValues,
         Runs(i, from, to)
  PROVE  /\ run[i] = from /\ run'[i] = to /\ daemon = "up" /\ CommandOK'
         /\ \A j \in Id \ {i} : run'[j] = run[j]
         /\ UNCHANGED <<listed, rows, dirs, id, pc, used, daemon>>
<1>1. run \in [Id -> RunValues]
  BY DEF CommandOK, RunValues
<1>2. /\ run[i] = from /\ run' = [run EXCEPT ![i] = to] /\ daemon = "up"
      /\ UNCHANGED <<listed, rows, dirs, op, id, pc, used, daemon, crashes>>
  BY DEF Runs
<1>3. run' \in [Id -> RunValues]
  BY <1>1, <1>2
<1>4. CommandOK'
  BY <1>2, <1>3 DEF CommandOK, RunValues
<1> QED BY <1>1, <1>2, <1>4

\* A create stays nobody else's as long as no command begins.
LEMMA HiddenKept ==
  ASSUME Hidden, UNCHANGED id,
         \A d \in Client : pc'[d] # "idle" => pc[d] # "idle",
         \A c \in Client : Made(c)' =>
           Made(c) /\ id[c] \notin listed' /\ id[c] \notin gone'
             /\ run'[id[c]] = "stopped"
  PROVE  Hidden'
BY DEF Hidden, Made

\* A client's step on which no Destroy gets past its Stop spares as before.
LEMMA SparedKept ==
  ASSUME Spared, UNCHANGED <<alive, orphans, stripped, run, raced, id>>,
         \A d \in Client : Removing(d)' => Removing(d) \/ id[d] \notin alive
  PROVE  Spared'
BY DEF Spared, LiveRuns, StopEnds, RmSparesProcesses

\* Nor does a step of a run that goes on, or whose process has ended.
LEMMA SparedRun ==
  ASSUME Spared, alive \subseteq Id, NEW i \in Id,
         UNCHANGED <<alive, orphans, stripped, raced, id, pc>>,
         \A j \in Id \ {i} : run'[j] = run[j],
         i \notin alive \/ run'[i] \in {"started", "savingStart", "running"}
  PROVE  Spared'
BY DEF Spared, LiveRuns, StopEnds, RmSparesProcesses, Removing

\* What a step of Umount leaves on the roots.
LEMMA UnmountsStep ==
  ASSUME mounts \in [Id -> Nat], NEW i \in Id, Unmounts(i)
  PROVE  /\ mounts' \in [Id -> Nat]
         /\ \A j \in Id \ {i} : mounts'[j] = mounts[j]
         /\ mounts'[i] > 0 => mounts[i] > 0
         /\ mounts[i] = 0 => mounts'[i] = 0
         /\ mounts[i] \in {0, 1} => mounts'[i] \in {0, 1}
         /\ mounts[i] \in {0, 1} /\ Detach(i) => mounts'[i] = 0
<1>1. CASE UmountFails(i) /\ ~Detach(i)
  BY <1>1 DEF UmountFails
<1>2. CASE Detach(i)
  <2>1. mounts' = [mounts EXCEPT ![i] =
                     IF mounts[i] = 0 THEN 0 ELSE mounts[i] - 1]
    BY <1>2 DEF Detach
  <2> QED BY <2>1
<1> QED BY <1>1, <1>2 DEF Unmounts

\* No step of the daemon, of a process or of its death breaks it.
LEMMA NextKeeps ==
  ASSUME IInv, [Next]_vars
  PROVE  IInv'
<1>1. DiskOK /\ CommandOK /\ Spared /\ Named /\ Down /\ Hidden
        /\ Stage /\ Kept /\ Alone /\ StaysDestroyed
  BY DEF IInv
<1>2. /\ used \subseteq Id /\ quiet \subseteq Client
           /\ files \in [Id -> SUBSET {Config, UserData}]
      /\ (\A i \in Id : files[i] # {} => i \in dirs)
           /\ (\A i \in whole : i \in Id /\ Config \in files[i])
  BY <1>1 DEF DiskOK
<1>3. ASSUME NEW c \in Client, InsertRow(c) PROVE IInv'
  <2>1. \E to \in {"mkdir", "idle"} : Go(c, "row", to)
    BY <1>3 DEF InsertRow
  <2>2. /\ pc[c] = "row" /\ pc'[c] \in {"mkdir", "idle"} /\ daemon = "up"
        /\ \A d \in Client \ {c} : pc'[d] = pc[d]
        /\ UNCHANGED <<id, op, used, daemon, crashes>>
        /\ id[c] \in used /\ id[c] \in Id /\ (run' = run => CommandOK')
    <3>1. {"mkdir", "idle"} \in SUBSET PcValues /\ "row" # "idle"
      BY DEF PcValues
    <3>2. Moves(c, "row", {"mkdir", "idle"})
      BY <2>1, <3>1, GoStep
    <3> QED BY <3>2 DEF Moves
  <2>3. CommandOK'
    BY <1>3, <2>2 DEF InsertRow
  <2>4. DiskOK' /\ Spared'
    <3>1. DiskOK'
      BY <1>1, <1>3, <2>2 DEF InsertRow, Touched, Trips, Mounted, DiskOK
    <3>2. Spared'
      BY <1>1, <1>3, <2>2, SparedKept DEF InsertRow, Touched, Trips, Removing
    <3> QED BY <3>1, <3>2
  <2>5. Named' /\ Down'
    BY <1>1, <1>3, <2>2 DEF InsertRow, Touched, Named, Down
  <2>6. Hidden'
    BY <1>1, <1>3, <2>2, HiddenKept DEF InsertRow, Touched, Hidden, Made
  <2>7. Stage'
    <3>1. pc'[c] = "idle" \/ rows' = rows \union {id[c]}
      <4>1. CASE Go(c, "row", "idle")
        BY <1>3, <4>1, GoTo DEF InsertRow
      <4> QED BY <1>3, <4>1 DEF InsertRow
    <3> QED BY <1>1, <1>2, <1>3, <2>2, <3>1
      DEF InsertRow, Written, Stage, StageOf, Hidden, Made, Named
  <2>8. Kept'
    BY <1>1, <1>2, <1>3, <2>2
      DEF InsertRow, Touched, Trips, Written, Kept, KeptOf, Hidden, Stage,
          StageOf, Made, Destroying, Saving
  <2>9. Alone'
    BY <1>1, <1>2, <1>3, <2>2
      DEF InsertRow, Touched, Trips, Alone, Destroys, Undisturbed, Hidden,
         Made, Named
  <2>10. StaysDestroyed'
    BY <1>1, <1>2, <1>3, <2>2
      DEF InsertRow, Touched, Trips, StaysDestroyed, Hidden, Made, Alone,
          Destroys, Undisturbed, Named
  <2> QED BY <2>3, <2>4, <2>5, <2>6, <2>7, <2>8, <2>9, <2>10 DEF IInv
<1>4. ASSUME NEW c \in Client, Mkdir(c) PROVE IInv'
  <2>1. \E to \in {"open", "idle"} : Go(c, "mkdir", to)
    BY <1>4 DEF Mkdir
  <2>2. /\ pc[c] = "mkdir" /\ pc'[c] \in {"open", "idle"} /\ daemon = "up"
        /\ \A d \in Client \ {c} : pc'[d] = pc[d]
        /\ UNCHANGED <<id, op, used, daemon, crashes>>
        /\ id[c] \in used /\ id[c] \in Id /\ (run' = run => CommandOK')
    <3>1. {"open", "idle"} \in SUBSET PcValues /\ "mkdir" # "idle"
      BY DEF PcValues
    <3>2. Moves(c, "mkdir", {"open", "idle"})
      BY <2>1, <3>1, GoStep
    <3> QED BY <3>2 DEF Moves
  <2>3. CommandOK'
    BY <1>4, <2>2 DEF Mkdir
  <2>4. DiskOK' /\ Spared'
    <3>1. DiskOK'
      BY <1>1, <1>4, <2>2 DEF Mkdir, Touched, Trips, Mounted, DiskOK
    <3>2. Spared'
      BY <1>1, <1>4, <2>2, SparedKept DEF Mkdir, Touched, Trips, Removing
    <3> QED BY <3>1, <3>2
  <2>5. Named' /\ Down'
    BY <1>1, <1>4, <2>2 DEF Mkdir, Touched, Named, Down
  <2>6. Hidden'
    BY <1>1, <1>4, <2>2, HiddenKept DEF Mkdir, Touched, Hidden, Made
  <2>7. UNCHANGED <<rows, files, whole>>
          /\ (pc'[c] = "idle" \/ dirs' = dirs \union {id[c]})
    <3>1. CASE Go(c, "mkdir", "idle")
      BY <1>4, <3>1, GoTo DEF Mkdir
    <3> QED BY <1>4, <3>1 DEF Mkdir
  <2>8. Stage'
    <3>1. ASSUME NEW d \in Client, d # c, Made(d)
            PROVE id[d] # id[c] /\ id[d] \in Id
      BY <2>2, <2>7, <3>1, MadeApart
    <3>2. SUFFICES ASSUME NEW d \in Client PROVE StageOf(d)'
      BY DEF Stage
    <3>3. CASE d = c
      <4>1. StageOf(c)
        BY <1>1 DEF Stage
      <4>2. StageOf(c)'
        BY <1>2, <1>4, <2>2, <2>7, <4>1 DEF Mkdir, Written, StageOf
      <4> QED BY <3>3, <4>2
    <3>4. CASE d # c
      BY <1>1, <1>2, <1>4, <2>2, <2>7, <3>1, <3>4
        DEF Mkdir, Written, Stage, StageOf, Made
    <3> QED BY <3>3, <3>4
  <2>9. Kept'
    BY <1>1, <1>2, <1>4, <2>2, <2>7
      DEF Mkdir, Touched, Trips, Written, Kept, KeptOf, Hidden, Stage, StageOf,
          Made, Destroying, Saving
  <2>10. Alone'
    BY <1>1, <1>2, <1>4, <2>2, <2>7
      DEF Mkdir, Touched, Trips, Alone, Destroys, Undisturbed, Hidden, Made,
         Named
  <2>11. StaysDestroyed'
    <3>1. SUFFICES ASSUME NEW i \in gone' PROVE i \notin dirs' /\ i \notin listed'
      BY DEF StaysDestroyed
    <3>2. CASE i = id[c]
      BY <1>1, <1>4, <2>2, <2>7, <3>1, <3>2
        DEF Mkdir, StaysDestroyed, Hidden, Made, Alone, Destroys, Undisturbed
    <3>3. CASE i # id[c]
      BY <1>1, <1>4, <2>2, <2>7, <3>1, <3>3 DEF Mkdir, StaysDestroyed
    <3> QED BY <3>2, <3>3
  <2> QED BY <2>3, <2>4, <2>5, <2>6, <2>8, <2>9, <2>10, <2>11 DEF IInv
<1>5. ASSUME NEW c \in Client, CreateOpen(c) PROVE IInv'
  <2>1. \E to \in {"write"} : Go(c, "open", to)
    BY <1>5 DEF CreateOpen
  <2>2. /\ pc[c] = "open" /\ pc'[c] \in {"write"} /\ daemon = "up"
        /\ \A d \in Client \ {c} : pc'[d] = pc[d]
        /\ UNCHANGED <<id, op, used, daemon, crashes>>
        /\ id[c] \in used /\ id[c] \in Id /\ (run' = run => CommandOK')
    <3>1. {"write"} \in SUBSET PcValues /\ "open" # "idle"
      BY DEF PcValues
    <3>2. Moves(c, "open", {"write"})
      BY <2>1, <3>1, GoStep
    <3> QED BY <3>2 DEF Moves
  <2>3. \/ id[c] \notin dirs /\ UNCHANGED <<files, whole>>
        \/ /\ files' \in [Id -> SUBSET {Config, UserData}]
           /\ \A j \in Id \ {id[c]} : files'[j] = files[j]
           /\ files'[id[c]] = files[id[c]] \union {Config}
           /\ id[c] \in dirs /\ whole' = whole \ {id[c]}
    <3>1. Open(id[c], Config)
      BY <1>5 DEF CreateOpen
    <3>2. CASE Open(id[c], Config) /\ id[c] \in dirs
      BY <1>1, <2>2, <3>2, OpenStep
    <3>3. CASE Open(id[c], Config) /\ id[c] \notin dirs
      BY <3>3 DEF Open
    <3> QED BY <3>1, <3>2, <3>3
  <2>4. CommandOK'
    BY <1>5, <2>2, <2>3 DEF CreateOpen
  <2>5. DiskOK' /\ Spared'
    <3>1. DiskOK'
      BY <1>1, <1>5, <2>2, <2>3 DEF CreateOpen, Touched, Trips, Mounted, DiskOK
    <3>2. Spared'
      BY <1>1, <1>5, <2>2, <2>3, SparedKept
        DEF CreateOpen, Touched, Trips, Removing
    <3> QED BY <3>1, <3>2
  <2>6. Named' /\ Down'
    BY <1>1, <1>5, <2>2, <2>3 DEF CreateOpen, Touched, Named, Down
  <2>7. Hidden'
    BY <1>1, <1>5, <2>2, HiddenKept DEF CreateOpen, Touched, Hidden, Made
  <2>8. Stage'
    <3>1. ASSUME NEW d \in Client, d # c, Made(d)
            PROVE id[d] # id[c] /\ id[d] \in Id
      BY <2>2, <2>3, <3>1, MadeApart
    <3>2. SUFFICES ASSUME NEW d \in Client PROVE StageOf(d)'
      BY DEF Stage
    <3>3. CASE d = c
      <4>1. StageOf(c)
        BY <1>1 DEF Stage
      <4>2. StageOf(c)'
        BY <1>2, <1>5, <2>2, <2>3, <4>1 DEF CreateOpen, Written, StageOf
      <4> QED BY <3>3, <4>2
    <3>4. CASE d # c
      BY <1>1, <1>2, <1>5, <2>2, <2>3, <3>1, <3>4
        DEF CreateOpen, Written, Stage, StageOf, Made
    <3> QED BY <3>3, <3>4
  <2>9. Kept'
    <3>1. listed' = listed /\ id[c] \notin listed
      BY <1>1, <1>5, <2>2, <2>3 DEF CreateOpen, Hidden, Made, Destroying
    <3>2. SUFFICES ASSUME NEW i \in listed, ~Destroying(i)' PROVE KeptOf(i)'
      BY <3>1 DEF Kept
    <3>3. ~Destroying(i)
      BY <3>2, <2>2, <2>3 DEF Destroying
    <3>4. KeptOf(i) /\ i \in Id
      BY <1>1, <1>2, <3>3 DEF Kept, Named
    <3>5. CASE i = id[c]
      BY <1>2, <1>5, <2>2, <2>3, <3>1, <3>2, <3>4, <3>5
        DEF CreateOpen, Touched, Trips, Written, KeptOf, Saving
    <3>6. CASE i # id[c]
      BY <1>2, <1>5, <2>2, <2>3, <3>1, <3>4, <3>6
        DEF CreateOpen, Touched, Trips, Written, KeptOf, Saving
    <3> QED BY <3>5, <3>6
  <2>10. Alone'
    <3>1. SUFFICES ASSUME NEW d \in Client, d \in quiet', Destroys(d)'
            PROVE Undisturbed(d)'
      BY DEF Alone
    <3>2. CASE d = c
      BY <3>1, <3>2, <2>2 DEF Destroys
    <3>3. CASE d # c
      <4>1. Destroys(d) /\ d \in quiet /\ id[d] \in Id
        BY <1>1, <1>2, <1>5, <2>2, <2>3, <3>1, <3>3
          DEF CreateOpen, Touched, Destroys, Named
      <4>2. Undisturbed(d)
        BY <1>1, <4>1 DEF Alone
      <4>3. pc'[d] = pc[d] /\ id'[d] = id[d]
        BY <2>2, <3>3
      <4>4. id[d] # id[c]
        <5>1. pc[d] # "idle" /\ Made(c)
          BY <2>2, <4>1 DEF Destroys, Made
        <5> QED BY <3>3, <5>1, MadeApart
      <4> QED BY <1>5, <2>2, <2>3, <4>1, <4>2, <4>3, <4>4
        DEF CreateOpen, Undisturbed
    <3> QED BY <3>2, <3>3
  <2>11. StaysDestroyed'
    BY <1>1, <1>2, <1>5, <2>2, <2>3
      DEF CreateOpen, Touched, Trips, StaysDestroyed, Hidden, Made, Alone,
          Destroys, Undisturbed, Named
  <2> QED BY <2>4, <2>5, <2>6, <2>7, <2>8, <2>9, <2>10, <2>11 DEF IInv
<1>6. ASSUME NEW c \in Client, CreateWrite(c) PROVE IInv'
  <2>1. \E to \in {"push", "idle"} : Go(c, "write", to)
    BY <1>6 DEF CreateWrite
  <2>2. /\ pc[c] = "write" /\ pc'[c] \in {"push", "idle"} /\ daemon = "up"
        /\ \A d \in Client \ {c} : pc'[d] = pc[d]
        /\ UNCHANGED <<id, op, used, daemon, crashes>>
        /\ id[c] \in used /\ id[c] \in Id /\ (run' = run => CommandOK')
    <3>1. {"push", "idle"} \in SUBSET PcValues /\ "write" # "idle"
      BY DEF PcValues
    <3>2. Moves(c, "write", {"push", "idle"})
      BY <2>1, <3>1, GoStep
    <3> QED BY <3>2 DEF Moves
  <2>3. CommandOK'
    BY <1>6, <2>2 DEF CreateWrite
  <2>4. DiskOK' /\ Spared'
    <3>1. DiskOK'
      BY <1>1, <1>6, <2>2 DEF CreateWrite, Written, Mounted, DiskOK
    <3>2. Spared'
      BY <1>1, <1>6, <2>2, SparedKept DEF CreateWrite, Touched, Trips, Removing
    <3> QED BY <3>1, <3>2
  <2>5. Named' /\ Down'
    BY <1>1, <1>6, <2>2 DEF CreateWrite, Touched, Named, Down
  <2>6. Hidden'
    BY <1>1, <1>6, <2>2, HiddenKept DEF CreateWrite, Touched, Hidden, Made
  <2>7. UNCHANGED <<rows, files, dirs>>
          /\ (pc'[c] = "idle" \/ whole' = Written(id[c]))
    <3>1. CASE Go(c, "write", "idle")
      BY <1>6, <3>1, GoTo DEF CreateWrite
    <3> QED BY <1>6, <3>1 DEF CreateWrite
  <2>8. Stage'
    <3>1. ASSUME NEW d \in Client, d # c, Made(d)
            PROVE id[d] # id[c] /\ id[d] \in Id
      BY <2>2, <2>7, <3>1, MadeApart
    <3>2. SUFFICES ASSUME NEW d \in Client PROVE StageOf(d)'
      BY DEF Stage
    <3>3. CASE d = c
      <4>1. StageOf(c)
        BY <1>1 DEF Stage
      <4>2. StageOf(c)'
        BY <1>2, <1>6, <2>2, <2>7, <4>1 DEF CreateWrite, Written, StageOf
      <4> QED BY <3>3, <4>2
    <3>4. CASE d # c
      BY <1>1, <1>2, <1>6, <2>2, <2>7, <3>1, <3>4
        DEF CreateWrite, Written, Stage, StageOf, Made
    <3> QED BY <3>3, <3>4
  <2>9. Kept'
    BY <1>1, <1>2, <1>6, <2>2, <2>7
      DEF CreateWrite, Touched, Trips, Written, Kept, KeptOf, Hidden, Stage,
          StageOf, Made, Destroying, Saving
  <2>10. Alone'
    BY <1>1, <1>2, <1>6, <2>2, <2>7
      DEF CreateWrite, Touched, Trips, Alone, Destroys, Undisturbed, Hidden,
         Made, Named
  <2>11. StaysDestroyed'
    BY <1>1, <1>2, <1>6, <2>2, <2>7
      DEF CreateWrite, Touched, Trips, StaysDestroyed, Hidden, Made, Alone,
          Destroys, Undisturbed, Named
  <2> QED BY <2>3, <2>4, <2>5, <2>6, <2>8, <2>9, <2>10, <2>11 DEF IInv
<1>7. ASSUME NEW c \in Client, PushBack(c) PROVE IInv'
  <2>1. \E to \in {"userdata"} : Go(c, "push", to)
    BY <1>7 DEF PushBack
  <2>2. /\ pc[c] = "push" /\ pc'[c] \in {"userdata"} /\ daemon = "up"
        /\ \A d \in Client \ {c} : pc'[d] = pc[d]
        /\ UNCHANGED <<id, op, used, daemon, crashes>>
        /\ id[c] \in used /\ id[c] \in Id /\ (run' = run => CommandOK')
    <3>1. {"userdata"} \in SUBSET PcValues /\ "push" # "idle"
      BY DEF PcValues
    <3>2. Moves(c, "push", {"userdata"})
      BY <2>1, <3>1, GoStep
    <3> QED BY <3>2 DEF Moves
  <2>3. CommandOK'
    BY <1>7, <2>2 DEF PushBack
  <2>4. DiskOK' /\ Spared'
    <3>1. DiskOK'
      BY <1>1, <1>7, <2>2 DEF PushBack, Touched, Trips, Mounted, DiskOK
    <3>2. Spared'
      BY <1>1, <1>7, <2>2, SparedKept DEF PushBack, Touched, Trips, Removing
    <3> QED BY <3>1, <3>2
  <2>5. Named' /\ Down'
    BY <1>1, <1>7, <2>2 DEF PushBack, Touched, Named, Down
  <2>6. Hidden'
    BY <1>1, <1>7, <2>2, HiddenKept DEF PushBack, Touched, Hidden, Made
  <2>7. Stage'
    BY <1>1, <1>2, <1>7, <2>2
      DEF PushBack, Written, Stage, StageOf, Hidden, Made, Named
  <2>8. Kept'
    <3>1. listed' = listed \union {id[c]}
            /\ UNCHANGED <<rows, files, whole, run, torn>>
      BY <1>7 DEF PushBack
    <3>2. KeptOf(id[c])
      <4>1. StageOf(c)
        BY <1>1 DEF Stage
      <4> QED BY <2>2, <4>1 DEF StageOf, KeptOf
    <3>3. SUFFICES ASSUME NEW i \in listed', ~Destroying(i)' PROVE KeptOf(i)'
      BY DEF Kept
    <3>4. CASE i = id[c]
      BY <3>1, <3>2, <3>4 DEF KeptOf, Saving
    <3>5. CASE i # id[c]
      <4>1. i \in listed /\ ~Destroying(i)
        BY <2>2, <3>1, <3>3, <3>5 DEF Destroying
      <4>2. KeptOf(i)
        BY <1>1, <4>1 DEF Kept
      <4> QED BY <3>1, <4>2 DEF KeptOf, Saving
    <3> QED BY <3>4, <3>5
  <2>9. Alone'
    BY <1>1, <1>2, <1>7, <2>2
      DEF PushBack, Touched, Trips, Alone, Destroys, Undisturbed, Hidden,
         Made, Named
  <2>10. StaysDestroyed'
    <3>1. SUFFICES ASSUME NEW i \in gone' PROVE i \notin dirs' /\ i \notin listed'
      BY DEF StaysDestroyed
    <3>2. CASE i = id[c]
      BY <1>1, <1>7, <2>2, <3>1, <3>2
        DEF PushBack, StaysDestroyed, Hidden, Made, Alone, Destroys, Undisturbed
    <3>3. CASE i # id[c]
      BY <1>1, <1>7, <2>2, <3>1, <3>3 DEF PushBack, StaysDestroyed
    <3> QED BY <3>2, <3>3
  <2> QED BY <2>3, <2>4, <2>5, <2>6, <2>7, <2>8, <2>9, <2>10 DEF IInv
<1>8. ASSUME NEW c \in Client, SetUserData(c) PROVE IInv'
  <2>1. \E to \in {"idle", "find"} : Go(c, "userdata", to)
    BY <1>8 DEF SetUserData
  <2>2. /\ pc[c] = "userdata" /\ pc'[c] \in {"idle", "find"} /\ daemon = "up"
        /\ \A d \in Client \ {c} : pc'[d] = pc[d]
        /\ UNCHANGED <<id, op, used, daemon, crashes>>
        /\ id[c] \in used /\ id[c] \in Id /\ (run' = run => CommandOK')
    <3>1. {"idle", "find"} \in SUBSET PcValues /\ "userdata" # "idle"
      BY DEF PcValues
    <3>2. Moves(c, "userdata", {"idle", "find"})
      BY <2>1, <3>1, GoStep
    <3> QED BY <3>2 DEF Moves
  <2>3. \/ UNCHANGED <<files, whole>>
        \/ /\ files' \in [Id -> SUBSET {Config, UserData}]
           /\ \A j \in Id \ {id[c]} : files'[j] = files[j]
           /\ files'[id[c]] = files[id[c]] \union {UserData}
           /\ id[c] \in dirs /\ whole' = whole
    <3>1. UNCHANGED <<files, whole>> \/ Open(id[c], UserData)
      BY <1>8 DEF SetUserData
    <3>2. CASE Open(id[c], UserData) /\ id[c] \in dirs
      BY <1>1, <2>2, <3>2, OpenStep
    <3>3. CASE Open(id[c], UserData) /\ id[c] \notin dirs
      BY <3>3 DEF Open
    <3> QED BY <3>1, <3>2, <3>3
  <2>4. CommandOK'
    BY <1>8, <2>2, <2>3 DEF SetUserData
  <2>5. DiskOK' /\ Spared'
    <3>1. DiskOK'
      BY <1>1, <1>8, <2>2, <2>3 DEF SetUserData, Touched, Trips, Mounted, DiskOK
    <3>2. Spared'
      BY <1>1, <1>8, <2>2, <2>3, SparedKept
        DEF SetUserData, Touched, Trips, Removing
    <3> QED BY <3>1, <3>2
  <2>6. Named' /\ Down'
    BY <1>1, <1>8, <2>2, <2>3 DEF SetUserData, Touched, Named, Down
  <2>7. Hidden'
    BY <1>1, <1>8, <2>2, HiddenKept DEF SetUserData, Touched, Hidden, Made
  <2>8. Stage'
    BY <1>1, <1>2, <1>8, <2>2, <2>3
      DEF SetUserData, Written, Stage, StageOf, Hidden, Made, Named
  <2>9. Kept'
    <3>1. listed' = listed /\ (run' = run /\ rows' = rows)
      BY <1>1, <1>8, <2>2, <2>3 DEF SetUserData, Hidden, Made, Destroying
    <3>2. SUFFICES ASSUME NEW i \in listed, ~Destroying(i)' PROVE KeptOf(i)'
      BY <3>1 DEF Kept
    <3>3. ~Destroying(i)
      BY <3>2, <2>2, <2>3 DEF Destroying
    <3>4. KeptOf(i) /\ i \in Id
      BY <1>1, <1>2, <3>3 DEF Kept, Named
    <3>5. CASE i = id[c]
      BY <1>2, <1>8, <2>2, <2>3, <3>1, <3>2, <3>4, <3>5
        DEF SetUserData, Touched, Trips, Written, KeptOf, Saving
    <3>6. CASE i # id[c]
      BY <1>2, <1>8, <2>2, <2>3, <3>1, <3>4, <3>6
        DEF SetUserData, Touched, Trips, Written, KeptOf, Saving
    <3> QED BY <3>5, <3>6
  <2>10. Alone'
    <3>1. SUFFICES ASSUME NEW d \in Client, d \in quiet', Destroys(d)'
            PROVE Undisturbed(d)'
      BY DEF Alone
    <3>2. CASE d = c
      BY <3>1, <3>2, <2>2 DEF Destroys
    <3>3. CASE d # c
      <4>1. Destroys(d) /\ d \in quiet /\ id[d] \in Id
        BY <1>1, <1>2, <1>8, <2>2, <2>3, <3>1, <3>3
          DEF SetUserData, Touched, Destroys, Named
      <4>2. Undisturbed(d)
        BY <1>1, <4>1 DEF Alone
      <4>3. pc'[d] = pc[d] /\ id'[d] = id[d]
        BY <2>2, <3>3
      <4>4. UNCHANGED <<mounts, dirs, files, run>> \/ id[d] # id[c]
        BY <1>8, <3>1 DEF SetUserData, Touched
      <4> QED BY <1>8, <2>2, <2>3, <4>1, <4>2, <4>3, <4>4
        DEF SetUserData, Undisturbed
    <3> QED BY <3>2, <3>3
  <2>11. StaysDestroyed'
    BY <1>1, <1>2, <1>8, <2>2, <2>3
      DEF SetUserData, Touched, Trips, StaysDestroyed, Hidden, Made, Alone,
          Destroys, Undisturbed, Named
  <2> QED BY <2>4, <2>5, <2>6, <2>7, <2>8, <2>9, <2>10, <2>11 DEF IInv
<1>9. ASSUME NEW c \in Client, EnsureMounted(c) PROVE IInv'
  <2>1. \E to \in {"folders", "exec", "idle"} : Go(c, "fetch", to)
    BY <1>9 DEF EnsureMounted
  <2>2. /\ pc[c] = "fetch" /\ pc'[c] \in {"folders", "exec", "idle"}
             /\ daemon = "up"
        /\ \A d \in Client \ {c} : pc'[d] = pc[d]
        /\ UNCHANGED <<id, op, used, daemon, crashes>>
        /\ id[c] \in used /\ id[c] \in Id /\ (run' = run => CommandOK')
    <3>1. {"folders", "exec", "idle"} \in SUBSET PcValues /\ "fetch" # "idle"
      BY DEF PcValues
    <3>2. Moves(c, "fetch", {"folders", "exec", "idle"})
      BY <2>1, <3>1, GoStep
    <3> QED BY <3>2 DEF Moves
  <2>3. CommandOK'
    BY <1>9, <2>2 DEF EnsureMounted
  <2>4. DiskOK' /\ Spared'
    <3>1. DiskOK'
      BY <1>1, <1>9, <2>2 DEF EnsureMounted, Touched, Trips, Mounted, DiskOK
    <3>2. Spared'
      BY <1>1, <1>9, <2>2, SparedKept
        DEF EnsureMounted, Touched, Trips, Removing
    <3> QED BY <3>1, <3>2
  <2>5. Named' /\ Down'
    BY <1>1, <1>9, <2>2 DEF EnsureMounted, Touched, Named, Down
  <2>6. Hidden'
    BY <1>1, <1>9, <2>2, HiddenKept DEF EnsureMounted, Touched, Hidden, Made
  <2>7. Stage'
    BY <1>1, <1>2, <1>9, <2>2
      DEF EnsureMounted, Written, Stage, StageOf, Hidden, Made, Named
  <2>8. Kept'
    <3>1. UNCHANGED <<listed, files, whole, run, torn>> /\ rows \subseteq rows'
      BY <1>9 DEF EnsureMounted, Touched
    <3>2. SUFFICES ASSUME NEW i \in listed, ~Destroying(i)' PROVE KeptOf(i)'
      BY <3>1 DEF Kept
    <3>3. ~Destroying(i)
      BY <3>2, <2>2 DEF Destroying
    <3>4. KeptOf(i)
      BY <1>1, <3>3 DEF Kept
    <3> QED BY <3>1, <3>4 DEF KeptOf, Saving
  <2>9. Alone'
    <3>1. SUFFICES ASSUME NEW d \in Client, d \in quiet', Destroys(d)'
            PROVE Undisturbed(d)'
      BY DEF Alone
    <3>2. CASE d = c
      BY <3>1, <3>2, <2>2 DEF Destroys
    <3>3. CASE d # c
      <4>1. Destroys(d) /\ d \in quiet /\ id[d] \in Id
        BY <1>1, <1>2, <1>9, <2>2, <3>1, <3>3
          DEF EnsureMounted, Touched, Destroys, Named
      <4>2. Undisturbed(d)
        BY <1>1, <4>1 DEF Alone
      <4>3. pc'[d] = pc[d] /\ id'[d] = id[d]
        BY <2>2, <3>3
      <4>4. UNCHANGED <<mounts, dirs, files, run>> \/ id[d] # id[c]
        BY <1>9, <3>1 DEF EnsureMounted, Touched
      <4> QED BY <1>9, <2>2, <4>1, <4>2, <4>3, <4>4
                DEF EnsureMounted, Undisturbed
    <3> QED BY <3>2, <3>3
  <2>10. StaysDestroyed'
    BY <1>1, <1>2, <1>9, <2>2
      DEF EnsureMounted, Touched, Trips, StaysDestroyed, Hidden, Made, Alone,
          Destroys, Undisturbed, Named
  <2> QED BY <2>3, <2>4, <2>5, <2>6, <2>7, <2>8, <2>9, <2>10 DEF IInv
<1>10. ASSUME NEW c \in Client, Mount(c) PROVE IInv'
  <2>1. \E to \in {"exec", "idle"} : Go(c, "folders", to)
    BY <1>10 DEF Mount
  <2>2. /\ pc[c] = "folders" /\ pc'[c] \in {"exec", "idle"} /\ daemon = "up"
        /\ \A d \in Client \ {c} : pc'[d] = pc[d]
        /\ UNCHANGED <<id, op, used, daemon, crashes>>
        /\ id[c] \in used /\ id[c] \in Id /\ (run' = run => CommandOK')
    <3>1. {"exec", "idle"} \in SUBSET PcValues /\ "folders" # "idle"
      BY DEF PcValues
    <3>2. Moves(c, "folders", {"exec", "idle"})
      BY <2>1, <3>1, GoStep
    <3> QED BY <3>2 DEF Moves
  <2>3. CommandOK'
    BY <1>10, <2>2 DEF Mount
  <2>4. DiskOK' /\ Spared'
    <3>1. DiskOK'
      BY <1>1, <1>10, <2>2 DEF Mount, Touched, Trips, Mounted, DiskOK
    <3>2. Spared'
      BY <1>1, <1>10, <2>2, SparedKept DEF Mount, Touched, Trips, Removing
    <3> QED BY <3>1, <3>2
  <2>5. Named' /\ Down'
    BY <1>1, <1>10, <2>2 DEF Mount, Touched, Named, Down
  <2>6. Hidden'
    BY <1>1, <1>10, <2>2, HiddenKept DEF Mount, Touched, Hidden, Made
  <2>7. Stage'
    BY <1>1, <1>2, <1>10, <2>2
      DEF Mount, Written, Stage, StageOf, Hidden, Made, Named
  <2>8. Kept'
    BY <1>1, <1>2, <1>10, <2>2
      DEF Mount, Touched, Trips, Written, Kept, KeptOf, Hidden, Stage, StageOf,
          Made, Destroying, Saving
  <2>9. Alone'
    <3>1. SUFFICES ASSUME NEW d \in Client, d \in quiet', Destroys(d)'
            PROVE Undisturbed(d)'
      BY DEF Alone
    <3>2. CASE d = c
      BY <3>1, <3>2, <2>2 DEF Destroys
    <3>3. CASE d # c
      <4>1. Destroys(d) /\ d \in quiet /\ id[d] \in Id
        BY <1>1, <1>2, <1>10, <2>2, <3>1, <3>3
          DEF Mount, Touched, Destroys, Named
      <4>2. Undisturbed(d)
        BY <1>1, <4>1 DEF Alone
      <4>3. pc'[d] = pc[d] /\ id'[d] = id[d]
        BY <2>2, <3>3
      <4>4. id[d] # id[c] /\ mounts'[id[d]] = mounts[id[d]]
        BY <1>1, <1>10, <2>2, <3>1, <4>1, <4>3 DEF Mount, Touched, DiskOK
      <4> QED BY <1>10, <2>2, <4>1, <4>2, <4>3, <4>4 DEF Mount, Undisturbed
    <3> QED BY <3>2, <3>3
  <2>10. StaysDestroyed'
    BY <1>1, <1>2, <1>10, <2>2
      DEF Mount, Touched, Trips, StaysDestroyed, Hidden, Made, Alone, Destroys,
         Undisturbed, Named
  <2> QED BY <2>3, <2>4, <2>5, <2>6, <2>7, <2>8, <2>9, <2>10 DEF IInv
<1>11. ASSUME NEW c \in Client, Unmount(c) PROVE IInv'
  <2>1. \E to \in {"idle"} : Go(c, "unmount", to)
    BY <1>11 DEF Unmount
  <2>2. /\ pc[c] = "unmount" /\ pc'[c] \in {"idle"} /\ daemon = "up"
        /\ \A d \in Client \ {c} : pc'[d] = pc[d]
        /\ UNCHANGED <<id, op, used, daemon, crashes>>
        /\ id[c] \in used /\ id[c] \in Id /\ (run' = run => CommandOK')
    <3>1. {"idle"} \in SUBSET PcValues /\ "unmount" # "idle"
      BY DEF PcValues
    <3>2. Moves(c, "unmount", {"idle"})
      BY <2>1, <3>1, GoStep
    <3> QED BY <3>2 DEF Moves
  <2>3. CommandOK' /\ mounts \in [Id -> Nat] /\ Unmounts(id[c])
    BY <1>1, <1>11, <2>2 DEF Unmount, DiskOK
  <2>4. DiskOK' /\ Spared'
    <3>1. DiskOK'
      BY <1>1, <1>11, <2>2, <2>3, UnmountsStep
        DEF Unmount, Touched, Trips, Mounted, DiskOK
    <3>2. Spared'
      BY <1>1, <1>11, <2>2, SparedKept DEF Unmount, Touched, Trips, Removing
    <3> QED BY <3>1, <3>2
  <2>5. Named' /\ Down'
    BY <1>1, <1>11, <2>2 DEF Unmount, Touched, Named, Down
  <2>6. Hidden'
    BY <1>1, <1>11, <2>2, HiddenKept DEF Unmount, Touched, Hidden, Made
  <2>7. Stage'
    BY <1>1, <1>2, <1>11, <2>2
      DEF Unmount, Written, Stage, StageOf, Hidden, Made, Named
  <2>8. Kept'
    BY <1>1, <1>2, <1>11, <2>2
      DEF Unmount, Touched, Trips, Written, Kept, KeptOf, Hidden, Stage,
          StageOf, Made, Destroying, Saving
  <2>9. Alone'
    <3>1. SUFFICES ASSUME NEW d \in Client, d \in quiet', Destroys(d)'
            PROVE Undisturbed(d)'
      BY DEF Alone
    <3>2. d # c
      BY <3>1, <2>2 DEF Destroys
    <3>3. /\ Destroys(d) /\ d \in quiet /\ id[d] \in Id /\ id[d] # id[c]
          /\ pc'[d] = pc[d] /\ id'[d] = id[d]
      BY <1>1, <1>2, <1>11, <2>2, <3>1, <3>2
        DEF Unmount, Touched, Destroys, Named
    <3>4. Undisturbed(d) /\ mounts'[id[d]] = mounts[id[d]]
      BY <1>1, <2>2, <2>3, <3>3, UnmountsStep DEF Alone
    <3> QED BY <1>11, <3>3, <3>4 DEF Unmount, Undisturbed
  <2>10. StaysDestroyed'
    BY <1>1, <1>2, <1>11, <2>2
      DEF Unmount, Touched, Trips, StaysDestroyed, Hidden, Made, Alone,
          Destroys, Undisturbed, Named
  <2> QED BY <2>3, <2>4, <2>5, <2>6, <2>7, <2>8, <2>9, <2>10 DEF IInv
<1>12. ASSUME NEW c \in Client, Exec(c) PROVE IInv'
  <2>1. \E to \in {"idle"} : Go(c, "exec", to)
    BY <1>12 DEF Exec
  <2>2. /\ pc[c] = "exec" /\ pc'[c] \in {"idle"} /\ daemon = "up"
        /\ \A d \in Client \ {c} : pc'[d] = pc[d]
        /\ UNCHANGED <<id, op, used, daemon, crashes>>
        /\ id[c] \in used /\ id[c] \in Id /\ (run' = run => CommandOK')
    <3>1. {"idle"} \in SUBSET PcValues /\ "exec" # "idle"
      BY DEF PcValues
    <3>2. Moves(c, "exec", {"idle"})
      BY <2>1, <3>1, GoStep
    <3> QED BY <3>2 DEF Moves
  <2>3. /\ \A j \in Id \ {id[c]} : run'[j] = run[j]
        /\ run[id[c]] = "stopped" /\ run'[id[c]] = "started" /\ CommandOK'
    <3>1. UNCHANGED <<id, op, used, daemon, crashes>>
            /\ pc' \in [Client -> PcValues]
                 /\ run' = [run EXCEPT ![id[c]] = "started"]
                      /\ run[id[c]] = "stopped"
      BY <1>1, <1>12, <2>2 DEF Exec, CommandOK, Go, PcValues
    <3>2. run \in [Id -> {"stopped", "started", "savingStart", "running",
              "unmounted", "reporting", "savingStop"}]
      BY <1>1 DEF CommandOK
    <3>3. run' \in [Id -> {"stopped", "started", "savingStart", "running",
              "unmounted", "reporting", "savingStop"}]
                /\ \A j \in Id \ {id[c]} : run'[j] = run[j]
      BY <2>2, <3>2, <3>1
    <3>4. run'[id[c]] = "started"
      BY <2>2, <3>2, <3>1
    <3>5. CommandOK'
      BY <1>1, <3>1, <3>3 DEF CommandOK, PcValues
    <3> QED BY <3>1, <3>3, <3>4, <3>5
  <2>4. CommandOK'
    BY <1>12, <2>2, <2>3 DEF Exec
  <2>5. DiskOK' /\ Spared'
    <3>1. DiskOK'
      BY <1>1, <1>12, <2>2, <2>3 DEF Exec, Touched, Trips, Mounted, DiskOK
    <3>2. LiveRuns'
      BY <1>1, <1>12, <2>3 DEF Exec, Spared, LiveRuns, DiskOK
    <3>3. /\ alive' \subseteq alive \union {id[c]}
          /\ raced \ {id[c]} \subseteq raced'
          /\ (\E d \in Client : id[d] = id[c] /\ Removing(d)) => id[c] \in raced'
          /\ UNCHANGED <<orphans, stripped>>
      BY <1>12 DEF Exec
    <3>4. StopEnds'
      <4>1. SUFFICES ASSUME NEW d \in Client, Removing(d)'
                     PROVE  id[d] \notin alive' \/ id[d] \in raced'
        BY <2>2 DEF StopEnds
      <4>2. Removing(d)
        BY <2>2, <4>1 DEF Removing
      <4> QED BY <1>1, <3>3, <4>2 DEF Spared, StopEnds
    <3>5. RmSparesProcesses'
      <4>1. id[c] \notin stripped \/ id[c] \in orphans
        BY <1>1, <2>3 DEF Spared, LiveRuns, DiskOK
      <4> QED BY <1>1, <3>3, <4>1 DEF Spared, RmSparesProcesses
    <3> QED BY <3>1, <3>2, <3>4, <3>5 DEF Spared
  <2>6. Named' /\ Down'
    BY <1>1, <1>12, <2>2, <2>3 DEF Exec, Touched, Named, Down
  <2>7. Hidden'
    <3>1. ASSUME NEW d \in Client, Made(d)' PROVE Made(d) /\ d # c
      BY <2>2, <2>3, <3>1 DEF Made
    <3>2. ASSUME NEW d \in Client, Made(d)' PROVE run'[id[d]] = run[id[d]]
      BY <2>2, <2>3, <3>1, <3>2, MadeApart
    <3>3. ASSUME NEW d \in Client, Made(d)'
          PROVE  id[d] \notin listed /\ id[d] \notin gone /\ run[id[d]] = "stopped"
      BY <1>1, <3>1, <3>3 DEF Hidden
    <3>4. UNCHANGED <<listed, gone>>
      BY <1>12 DEF Exec, Touched
    <3> QED BY <1>1, <2>2, <2>3, <3>1, <3>2, <3>3, <3>4, HiddenKept
  <2>8. Stage'
    BY <1>1, <1>2, <1>12, <2>2, <2>3
      DEF Exec, Written, Stage, StageOf, Hidden, Made, Named
  <2>9. Kept'
    <3>1. listed' = listed /\ (run[id[c]] = "stopped"
            /\ UNCHANGED <<rows, files, whole>>)
      BY <1>1, <1>12, <2>2, <2>3 DEF Exec, Hidden, Made, Destroying
    <3>2. SUFFICES ASSUME NEW i \in listed, ~Destroying(i)' PROVE KeptOf(i)'
      BY <3>1 DEF Kept
    <3>3. ~Destroying(i)
      BY <3>2, <2>2, <2>3 DEF Destroying
    <3>4. KeptOf(i) /\ i \in Id
      BY <1>1, <1>2, <3>3 DEF Kept, Named
    <3>5. CASE i = id[c]
      BY <1>2, <1>12, <2>2, <2>3, <3>1, <3>2, <3>4, <3>5
        DEF Exec, Touched, Trips, Written, KeptOf, Saving
    <3>6. CASE i # id[c]
      BY <1>2, <1>12, <2>2, <2>3, <3>1, <3>4, <3>6
        DEF Exec, Touched, Trips, Written, KeptOf, Saving
    <3> QED BY <3>5, <3>6
  <2>10. Alone'
    <3>1. SUFFICES ASSUME NEW d \in Client, d \in quiet', Destroys(d)'
            PROVE Undisturbed(d)'
      BY DEF Alone
    <3>2. CASE d = c
      BY <3>1, <3>2, <2>2 DEF Destroys
    <3>3. CASE d # c
      <4>1. Destroys(d) /\ d \in quiet /\ id[d] \in Id
        BY <1>1, <1>2, <1>12, <2>2, <2>3, <3>1, <3>3
          DEF Exec, Touched, Destroys, Named
      <4>2. Undisturbed(d)
        BY <1>1, <4>1 DEF Alone
      <4>3. pc'[d] = pc[d] /\ id'[d] = id[d]
        BY <2>2, <3>3
      <4>4. UNCHANGED <<mounts, dirs, files, run>> \/ id[d] # id[c]
        BY <1>12, <3>1 DEF Exec, Touched
      <4> QED BY <1>12, <2>2, <2>3, <4>1, <4>2, <4>3, <4>4 DEF Exec, Undisturbed
    <3> QED BY <3>2, <3>3
  <2>11. StaysDestroyed'
    BY <1>1, <1>2, <1>12, <2>2, <2>3
      DEF Exec, Touched, Trips, StaysDestroyed, Hidden, Made, Alone, Destroys,
         Undisturbed, Named
  <2> QED BY <2>4, <2>5, <2>6, <2>7, <2>8, <2>9, <2>10, <2>11 DEF IInv
<1>13. ASSUME NEW c \in Client, Find(c) PROVE IInv'
  <2>1. \E to \in {"stop", "idle"} : Go(c, "find", to)
    BY <1>13 DEF Find
  <2>2. /\ pc[c] = "find" /\ pc'[c] \in {"stop", "idle"} /\ daemon = "up"
        /\ \A d \in Client \ {c} : pc'[d] = pc[d]
        /\ UNCHANGED <<id, op, used, daemon, crashes>>
        /\ id[c] \in used /\ id[c] \in Id /\ (run' = run => CommandOK')
    <3>1. {"stop", "idle"} \in SUBSET PcValues /\ "find" # "idle"
      BY DEF PcValues
    <3>2. Moves(c, "find", {"stop", "idle"})
      BY <2>1, <3>1, GoStep
    <3> QED BY <3>2 DEF Moves
  <2>3. CommandOK'
    BY <1>13, <2>2 DEF Find
  <2>4. DiskOK' /\ Spared'
    <3>1. DiskOK'
      BY <1>1, <1>13, <2>2 DEF Find, Touched, Trips, Mounted, DiskOK
    <3>2. Spared'
      BY <1>1, <1>13, <2>2, SparedKept DEF Find, Touched, Trips, Removing
    <3> QED BY <3>1, <3>2
  <2>5. Named' /\ Down'
    BY <1>1, <1>13, <2>2 DEF Find, Touched, Named, Down
  <2>6. Hidden'
    BY <1>1, <1>13, <2>2, HiddenKept DEF Find, Touched, Hidden, Made
  <2>7. Stage'
    BY <1>1, <1>2, <1>13, <2>2
      DEF Find, Written, Stage, StageOf, Hidden, Made, Named
  <2>8. Kept'
    BY <1>1, <1>2, <1>13, <2>2
      DEF Find, Touched, Trips, Written, Kept, KeptOf, Hidden, Stage, StageOf,
          Made, Destroying, Saving
  <2>9. Alone'
    BY <1>1, <1>2, <1>13, <2>2
      DEF Find, Touched, Trips, Alone, Destroys, Undisturbed, Hidden, Made,
         Named
  <2>10. StaysDestroyed'
    BY <1>1, <1>2, <1>13, <2>2
      DEF Find, Touched, Trips, StaysDestroyed, Hidden, Made, Alone, Destroys,
         Undisturbed, Named
  <2> QED BY <2>3, <2>4, <2>5, <2>6, <2>7, <2>8, <2>9, <2>10 DEF IInv
<1>14. ASSUME NEW c \in Client, StopSignal(c) PROVE IInv'
  <2>1. \E to \in {"stopping", "mounted"} : Go(c, "stop", to)
    BY <1>14 DEF StopSignal
  <2>2. /\ pc[c] = "stop" /\ pc'[c] \in {"stopping", "mounted"} /\ daemon = "up"
        /\ \A d \in Client \ {c} : pc'[d] = pc[d]
        /\ UNCHANGED <<id, op, used, daemon, crashes>>
        /\ id[c] \in used /\ id[c] \in Id /\ (run' = run => CommandOK')
    <3>1. {"stopping", "mounted"} \in SUBSET PcValues /\ "stop" # "idle"
      BY DEF PcValues
    <3>2. Moves(c, "stop", {"stopping", "mounted"})
      BY <2>1, <3>1, GoStep
    <3> QED BY <3>2 DEF Moves
  <2>3. CommandOK'
    BY <1>14, <2>2 DEF StopSignal
  <2>4. DiskOK' /\ Spared'
    <3>1. DiskOK'
      BY <1>1, <1>14, <2>2 DEF StopSignal, Touched, Trips, Mounted, DiskOK
    <3>2. pc'[c] = "mounted" => id[c] \notin alive
      <4>1. CASE Running(id[c])
        BY <1>14, <4>1, GoTo DEF StopSignal
      <4> QED BY <1>1, <4>1 DEF Running, Spared, LiveRuns
    <3>3. Spared'
      BY <1>1, <1>14, <2>2, <3>2, SparedKept DEF StopSignal, Removing
    <3> QED BY <3>1, <3>3
  <2>5. Named' /\ Down'
    BY <1>1, <1>14, <2>2 DEF StopSignal, Touched, Named, Down
  <2>6. Hidden'
    BY <1>1, <1>14, <2>2, HiddenKept DEF StopSignal, Touched, Hidden, Made
  <2>7. Stage'
    BY <1>1, <1>2, <1>14, <2>2
      DEF StopSignal, Written, Stage, StageOf, Hidden, Made, Named
  <2>8. Kept'
    BY <1>1, <1>2, <1>14, <2>2
      DEF StopSignal, Touched, Trips, Written, Kept, KeptOf, Hidden, Stage,
          StageOf, Made, Destroying, Saving
  <2>9. Alone'
    BY <1>1, <1>2, <1>14, <2>2
      DEF StopSignal, Touched, Trips, Alone, Destroys, Undisturbed, Hidden,
         Made, Named
  <2>10. StaysDestroyed'
    BY <1>1, <1>2, <1>14, <2>2
      DEF StopSignal, Touched, Trips, StaysDestroyed, Hidden, Made, Alone,
          Destroys, Undisturbed, Named
  <2> QED BY <2>3, <2>4, <2>5, <2>6, <2>7, <2>8, <2>9, <2>10 DEF IInv
<1>15. ASSUME NEW c \in Client, Stopped(c) PROVE IInv'
  <2>1. \E to \in {"mounted"} : Go(c, "stopping", to)
    BY <1>15 DEF Stopped
  <2>2. /\ pc[c] = "stopping" /\ pc'[c] \in {"mounted"} /\ daemon = "up"
        /\ \A d \in Client \ {c} : pc'[d] = pc[d]
        /\ UNCHANGED <<id, op, used, daemon, crashes>>
        /\ id[c] \in used /\ id[c] \in Id /\ (run' = run => CommandOK')
    <3>1. {"mounted"} \in SUBSET PcValues /\ "stopping" # "idle"
      BY DEF PcValues
    <3>2. Moves(c, "stopping", {"mounted"})
      BY <2>1, <3>1, GoStep
    <3> QED BY <3>2 DEF Moves
  <2>3. CommandOK'
    BY <1>15, <2>2 DEF Stopped
  <2>4. DiskOK' /\ Spared'
    <3>1. DiskOK'
      BY <1>1, <1>15, <2>2 DEF Stopped, Touched, Trips, Mounted, DiskOK
    <3>2. id[c] \notin alive
      BY <1>1, <1>15 DEF Stopped, Running, Spared, LiveRuns
    <3>3. Spared'
      BY <1>1, <1>15, <2>2, <3>2, SparedKept DEF Stopped, Removing
    <3> QED BY <3>1, <3>3
  <2>5. Named' /\ Down'
    BY <1>1, <1>15, <2>2 DEF Stopped, Touched, Named, Down
  <2>6. Hidden'
    BY <1>1, <1>15, <2>2, HiddenKept DEF Stopped, Touched, Hidden, Made
  <2>7. Stage'
    BY <1>1, <1>2, <1>15, <2>2
      DEF Stopped, Written, Stage, StageOf, Hidden, Made, Named
  <2>8. Kept'
    BY <1>1, <1>2, <1>15, <2>2
      DEF Stopped, Touched, Trips, Written, Kept, KeptOf, Hidden, Stage,
          StageOf, Made, Destroying, Saving
  <2>9. Alone'
    BY <1>1, <1>2, <1>15, <2>2
      DEF Stopped, Touched, Trips, Alone, Destroys, Undisturbed, Hidden, Made,
         Named
  <2>10. StaysDestroyed'
    BY <1>1, <1>2, <1>15, <2>2
      DEF Stopped, Touched, Trips, StaysDestroyed, Hidden, Made, Alone,
          Destroys, Undisturbed, Named
  <2> QED BY <2>3, <2>4, <2>5, <2>6, <2>7, <2>8, <2>9, <2>10 DEF IInv
<1>16. ASSUME NEW c \in Client, StopFails(c) PROVE IInv'
  <2>1. \E to \in {"idle"} : Go(c, "stopping", to)
    BY <1>16 DEF StopFails
  <2>2. /\ pc[c] = "stopping" /\ pc'[c] \in {"idle"} /\ daemon = "up"
        /\ \A d \in Client \ {c} : pc'[d] = pc[d]
        /\ UNCHANGED <<id, op, used, daemon, crashes>>
        /\ id[c] \in used /\ id[c] \in Id /\ (run' = run => CommandOK')
    <3>1. {"idle"} \in SUBSET PcValues /\ "stopping" # "idle"
      BY DEF PcValues
    <3>2. Moves(c, "stopping", {"idle"})
      BY <2>1, <3>1, GoStep
    <3> QED BY <3>2 DEF Moves
  <2>3. CommandOK'
    BY <1>16, <2>2 DEF StopFails
  <2>4. DiskOK' /\ Spared'
    <3>1. DiskOK'
      BY <1>1, <1>16, <2>2 DEF StopFails, Touched, Trips, Mounted, DiskOK
    <3>2. Spared'
      BY <1>1, <1>16, <2>2, SparedKept DEF StopFails, Touched, Trips, Removing
    <3> QED BY <3>1, <3>2
  <2>5. Named' /\ Down'
    BY <1>1, <1>16, <2>2 DEF StopFails, Touched, Named, Down
  <2>6. Hidden'
    BY <1>1, <1>16, <2>2, HiddenKept DEF StopFails, Touched, Hidden, Made
  <2>7. Stage'
    BY <1>1, <1>2, <1>16, <2>2
      DEF StopFails, Written, Stage, StageOf, Hidden, Made, Named
  <2>8. Kept'
    BY <1>1, <1>2, <1>16, <2>2
      DEF StopFails, Touched, Trips, Written, Kept, KeptOf, Hidden, Stage,
          StageOf, Made, Destroying, Saving
  <2>9. Alone'
    BY <1>1, <1>2, <1>16, <2>2
      DEF StopFails, Touched, Trips, Alone, Destroys, Undisturbed, Hidden,
         Made, Named
  <2>10. StaysDestroyed'
    BY <1>1, <1>2, <1>16, <2>2
      DEF StopFails, Touched, Trips, StaysDestroyed, Hidden, Made, Alone,
          Destroys, Undisturbed, Named
  <2> QED BY <2>3, <2>4, <2>5, <2>6, <2>7, <2>8, <2>9, <2>10 DEF IInv
<1>17. ASSUME NEW c \in Client, IsMounted(c) PROVE IInv'
  <2>1. \E to \in {"umount", "sweep"} : Go(c, "mounted", to)
    BY <1>17 DEF IsMounted
  <2>2. /\ pc[c] = "mounted" /\ pc'[c] \in {"umount", "sweep"} /\ daemon = "up"
        /\ \A d \in Client \ {c} : pc'[d] = pc[d]
        /\ UNCHANGED <<id, op, used, daemon, crashes>>
        /\ id[c] \in used /\ id[c] \in Id /\ (run' = run => CommandOK')
    <3>1. {"umount", "sweep"} \in SUBSET PcValues /\ "mounted" # "idle"
      BY DEF PcValues
    <3>2. Moves(c, "mounted", {"umount", "sweep"})
      BY <2>1, <3>1, GoStep
    <3> QED BY <3>2 DEF Moves
  <2>3. CommandOK'
    BY <1>17, <2>2 DEF IsMounted
  <2>4. DiskOK' /\ Spared'
    <3>1. DiskOK'
      BY <1>1, <1>17, <2>2 DEF IsMounted, Touched, Trips, Mounted, DiskOK
    <3>2. Spared'
      BY <1>1, <1>17, <2>2, SparedKept DEF IsMounted, Touched, Trips, Removing
    <3> QED BY <3>1, <3>2
  <2>5. Named' /\ Down'
    BY <1>1, <1>17, <2>2 DEF IsMounted, Touched, Named, Down
  <2>6. Hidden'
    BY <1>1, <1>17, <2>2, HiddenKept DEF IsMounted, Touched, Hidden, Made
  <2>7. Stage'
    BY <1>1, <1>2, <1>17, <2>2
      DEF IsMounted, Written, Stage, StageOf, Hidden, Made, Named
  <2>8. Kept'
    BY <1>1, <1>2, <1>17, <2>2
      DEF IsMounted, Touched, Trips, Written, Kept, KeptOf, Hidden, Stage,
          StageOf, Made, Destroying, Saving
  <2>9. Alone'
    <3>1. SUFFICES ASSUME NEW d \in Client, d \in quiet', Destroys(d)'
            PROVE Undisturbed(d)'
      BY DEF Alone
    <3>2. CASE d = c
      <4>1. pc'[c] = "sweep" => ~Mounted(id[c])
        <5>1. CASE Mounted(id[c])
          BY <1>17, <5>1, GoTo DEF IsMounted
        <5> QED BY <5>1
      <4>2. c \in quiet /\ Destroys(c)
        BY <1>17, <2>2, <3>1, <3>2 DEF IsMounted, Touched, Destroys
      <4>3. Undisturbed(c)
        BY <1>1, <4>2 DEF Alone
      <4>4. Undisturbed(c)'
        BY <1>17, <2>2, <4>1, <4>3 DEF IsMounted, Undisturbed, Mounted
      <4> QED BY <3>2, <4>4
    <3>3. CASE d # c
      <4>1. Destroys(d) /\ d \in quiet /\ id[d] \in Id
        BY <1>1, <1>2, <1>17, <2>2, <3>1, <3>3
          DEF IsMounted, Touched, Destroys, Named
      <4>2. Undisturbed(d)
        BY <1>1, <4>1 DEF Alone
      <4>3. pc'[d] = pc[d] /\ id'[d] = id[d]
        BY <2>2, <3>3
      <4>4. UNCHANGED <<mounts, dirs, files, run>> \/ id[d] # id[c]
        BY <1>17, <3>1 DEF IsMounted, Touched
      <4> QED BY <1>17, <2>2, <4>1, <4>2, <4>3, <4>4 DEF IsMounted, Undisturbed
    <3> QED BY <3>2, <3>3
  <2>10. StaysDestroyed'
    BY <1>1, <1>2, <1>17, <2>2
      DEF IsMounted, Touched, Trips, StaysDestroyed, Hidden, Made, Alone,
          Destroys, Undisturbed, Named
  <2> QED BY <2>3, <2>4, <2>5, <2>6, <2>7, <2>8, <2>9, <2>10 DEF IInv
<1>18. ASSUME NEW c \in Client, DestroyUmount(c) PROVE IInv'
  <2>1. \E to \in {"deregister"} : Go(c, "umount", to)
    BY <1>18 DEF DestroyUmount
  <2>2. /\ pc[c] = "umount" /\ pc'[c] \in {"deregister"} /\ daemon = "up"
        /\ \A d \in Client \ {c} : pc'[d] = pc[d]
        /\ UNCHANGED <<id, op, used, daemon, crashes>>
        /\ id[c] \in used /\ id[c] \in Id /\ (run' = run => CommandOK')
    <3>1. {"deregister"} \in SUBSET PcValues /\ "umount" # "idle"
      BY DEF PcValues
    <3>2. Moves(c, "umount", {"deregister"})
      BY <2>1, <3>1, GoStep
    <3> QED BY <3>2 DEF Moves
  <2>3. /\ CommandOK' /\ mounts \in [Id -> Nat] /\ Unmounts(id[c])
        /\ quiet' \subseteq quiet /\ (c \in quiet' => Detach(id[c]))
    BY <1>1, <1>18, <2>2 DEF DestroyUmount, Unmounts, Trips, DiskOK
  <2>4. DiskOK' /\ Spared'
    <3>1. DiskOK'
      BY <1>1, <1>18, <2>2, <2>3, UnmountsStep
        DEF DestroyUmount, Touched, Trips, Mounted, DiskOK
    <3>2. Spared'
      BY <1>1, <1>18, <2>2, SparedKept
        DEF DestroyUmount, Touched, Trips, Removing
    <3> QED BY <3>1, <3>2
  <2>5. Named' /\ Down'
    BY <1>1, <1>18, <2>2 DEF DestroyUmount, Trips, Named, Down
  <2>6. Hidden'
    BY <1>1, <1>18, <2>2, HiddenKept DEF DestroyUmount, Trips, Hidden, Made
  <2>7. Stage'
    BY <1>1, <1>2, <1>18, <2>2
      DEF DestroyUmount, Written, Stage, StageOf, Hidden, Made, Named
  <2>8. Kept'
    BY <1>1, <1>2, <1>18, <2>2
      DEF DestroyUmount, Touched, Trips, Written, Kept, KeptOf, Hidden, Stage,
          StageOf, Made, Destroying, Saving
  <2>9. Alone'
    <3>1. SUFFICES ASSUME NEW d \in Client, d \in quiet', Destroys(d)'
            PROVE Undisturbed(d)'
      BY DEF Alone
    <3>2. Destroys(d) /\ d \in quiet /\ id[d] \in Id
      BY <1>1, <1>2, <2>2, <2>3, <3>1 DEF Destroys, Named
    <3>3. Undisturbed(d) /\ UNCHANGED <<files, dirs, run>>
      BY <1>1, <1>18, <3>2 DEF Alone, DestroyUmount
    <3>4. CASE d = c
      BY <2>2, <2>3, <3>1, <3>2, <3>3, <3>4, UnmountsStep DEF Undisturbed
    <3>5. CASE d # c
      <4>1. pc'[d] = pc[d] /\ id'[d] = id[d]
        BY <2>2, <3>5
      <4>2. \/ mounts'[id[d]] = mounts[id[d]]
            \/ /\ mounts[id[d]] = 0 => mounts'[id[d]] = 0
               /\ mounts[id[d]] \in {0, 1} => mounts'[id[d]] \in {0, 1}
        BY <2>2, <2>3, <3>2, UnmountsStep
      <4> QED BY <3>3, <4>1, <4>2 DEF Undisturbed
    <3> QED BY <3>4, <3>5
  <2>10. StaysDestroyed'
    BY <1>1, <1>2, <1>18, <2>2
      DEF DestroyUmount, Touched, Trips, StaysDestroyed, Hidden, Made, Alone,
          Destroys, Undisturbed, Named
  <2> QED BY <2>3, <2>4, <2>5, <2>6, <2>7, <2>8, <2>9, <2>10 DEF IInv
<1>19. ASSUME NEW c \in Client, Deregister(c) PROVE IInv'
  <2>1. \E to \in {"sweep", "delete"} : Go(c, "deregister", to)
    BY <1>19 DEF Deregister
  <2>2. /\ pc[c] = "deregister" /\ pc'[c] \in {"sweep", "delete"} /\ daemon = "up"
        /\ \A d \in Client \ {c} : pc'[d] = pc[d]
        /\ UNCHANGED <<id, op, used, daemon, crashes>>
        /\ id[c] \in used /\ id[c] \in Id /\ (run' = run => CommandOK')
    <3>1. {"sweep", "delete"} \in SUBSET PcValues /\ "deregister" # "idle"
      BY DEF PcValues
    <3>2. Moves(c, "deregister", {"sweep", "delete"})
      BY <2>1, <3>1, GoStep
    <3> QED BY <3>2 DEF Moves
  <2>3. CommandOK'
    BY <1>19, <2>2 DEF Deregister
  <2>4. DiskOK' /\ Spared'
    <3>1. DiskOK'
      BY <1>1, <1>19, <2>2 DEF Deregister, Touched, Trips, Mounted, DiskOK
    <3>2. Spared'
      BY <1>1, <1>19, <2>2, SparedKept DEF Deregister, Touched, Trips, Removing
    <3> QED BY <3>1, <3>2
  <2>5. Named' /\ Down'
    BY <1>1, <1>19, <2>2 DEF Deregister, Touched, Named, Down
  <2>6. Hidden'
    BY <1>1, <1>19, <2>2, HiddenKept DEF Deregister, Touched, Hidden, Made
  <2>7. Stage'
    BY <1>1, <1>2, <1>19, <2>2
      DEF Deregister, Written, Stage, StageOf, Hidden, Made, Named
  <2>8. Kept'
    BY <1>1, <1>2, <1>19, <2>2
      DEF Deregister, Touched, Trips, Written, Kept, KeptOf, Hidden, Stage,
          StageOf, Made, Destroying, Saving
  <2>9. Alone'
    BY <1>1, <1>2, <1>19, <2>2
      DEF Deregister, Touched, Trips, Alone, Destroys, Undisturbed, Hidden,
         Made, Named
  <2>10. StaysDestroyed'
    BY <1>1, <1>2, <1>19, <2>2
      DEF Deregister, Touched, Trips, StaysDestroyed, Hidden, Made, Alone,
          Destroys, Undisturbed, Named
  <2> QED BY <2>3, <2>4, <2>5, <2>6, <2>7, <2>8, <2>9, <2>10 DEF IInv
<1>20. ASSUME NEW c \in Client, DeleteRow(c) PROVE IInv'
  <2>1. \E to \in {"sweep"} : Go(c, "delete", to)
    BY <1>20 DEF DeleteRow
  <2>2. /\ pc[c] = "delete" /\ pc'[c] \in {"sweep"} /\ daemon = "up"
        /\ \A d \in Client \ {c} : pc'[d] = pc[d]
        /\ UNCHANGED <<id, op, used, daemon, crashes>>
        /\ id[c] \in used /\ id[c] \in Id /\ (run' = run => CommandOK')
    <3>1. {"sweep"} \in SUBSET PcValues /\ "delete" # "idle"
      BY DEF PcValues
    <3>2. Moves(c, "delete", {"sweep"})
      BY <2>1, <3>1, GoStep
    <3> QED BY <3>2 DEF Moves
  <2>3. CommandOK'
    BY <1>20, <2>2 DEF DeleteRow
  <2>4. DiskOK' /\ Spared'
    <3>1. DiskOK'
      BY <1>1, <1>20, <2>2 DEF DeleteRow, Touched, Trips, Mounted, DiskOK
    <3>2. Spared'
      BY <1>1, <1>20, <2>2, SparedKept DEF DeleteRow, Touched, Trips, Removing
    <3> QED BY <3>1, <3>2
  <2>5. Named' /\ Down'
    BY <1>1, <1>20, <2>2 DEF DeleteRow, Touched, Named, Down
  <2>6. Hidden'
    BY <1>1, <1>20, <2>2, HiddenKept DEF DeleteRow, Touched, Hidden, Made
  <2>7. Stage'
    BY <1>1, <1>2, <1>20, <2>2
      DEF DeleteRow, Written, Stage, StageOf, Hidden, Made, Named
  <2>8. Kept'
    BY <1>1, <1>2, <1>20, <2>2
      DEF DeleteRow, Touched, Trips, Written, Kept, KeptOf, Hidden, Stage,
          StageOf, Made, Destroying, Saving
  <2>9. Alone'
    BY <1>1, <1>2, <1>20, <2>2
      DEF DeleteRow, Touched, Trips, Alone, Destroys, Undisturbed, Hidden,
         Made, Named
  <2>10. StaysDestroyed'
    BY <1>1, <1>2, <1>20, <2>2
      DEF DeleteRow, Touched, Trips, StaysDestroyed, Hidden, Made, Alone,
          Destroys, Undisturbed, Named
  <2> QED BY <2>3, <2>4, <2>5, <2>6, <2>7, <2>8, <2>9, <2>10 DEF IInv
<1>21. ASSUME NEW c \in Client, Sweep(c) PROVE IInv'
  <2>1. \E to \in {"rmdir"} : Go(c, "sweep", to)
    BY <1>21 DEF Sweep
  <2>2. /\ pc[c] = "sweep" /\ pc'[c] \in {"rmdir"} /\ daemon = "up"
        /\ \A d \in Client \ {c} : pc'[d] = pc[d]
        /\ UNCHANGED <<id, op, used, daemon, crashes>>
        /\ id[c] \in used /\ id[c] \in Id /\ (run' = run => CommandOK')
    <3>1. {"rmdir"} \in SUBSET PcValues /\ "sweep" # "idle"
      BY DEF PcValues
    <3>2. Moves(c, "sweep", {"rmdir"})
      BY <2>1, <3>1, GoStep
    <3> QED BY <3>2 DEF Moves
  <2>3. /\ files' \in [Id -> SUBSET {Config, UserData}]
        /\ \A j \in Id \ {id[c]} : files'[j] = files[j]
        /\ files'[id[c]] \subseteq files[id[c]]
        /\ whole' \subseteq whole /\ whole \ {id[c]} \subseteq whole'
        /\ id[c] \in whole' => Config \in files'[id[c]]
        /\ quiet' \subseteq quiet /\ (c \in quiet' => files'[id[c]] = {})
    <3>1. PICK left \in SUBSET files[id[c]] :
            /\ files' = [files EXCEPT ![id[c]] = left]
            /\ whole' = IF Config \in left THEN whole ELSE whole \ {id[c]}
            /\ \/ left = {} /\ UNCHANGED quiet
               \/ quiet' = quiet \ {c}
      BY <1>21 DEF Sweep, Trips
    <3> QED BY <1>2, <2>2, <3>1
  <2>4. CommandOK'
    BY <1>21, <2>2, <2>3 DEF Sweep
  <2>5. DiskOK' /\ Spared'
    <3>1. DiskOK'
      BY <1>1, <1>21, <2>2, <2>3
        DEF Sweep, Strips, Touched, Trips, Mounted, DiskOK
    <3>2. LiveRuns'
      BY <1>1, <1>21 DEF Sweep, Spared, LiveRuns
    <3>3. UNCHANGED <<alive, raced, orphans>>
          /\ stripped' \subseteq
               stripped \union ({id[c]} \intersect (alive \union orphans))
      BY <1>21 DEF Sweep, Strips, Trips
    <3>4. StopEnds'
      BY <1>1, <2>2, <3>3 DEF Spared, StopEnds, Removing
    <3>5. RmSparesProcesses'
      <4>1. id[c] \notin alive \/ id[c] \in raced
        BY <1>1, <2>2 DEF Spared, StopEnds, Removing
      <4> QED BY <1>1, <3>3, <4>1 DEF Spared, RmSparesProcesses
    <3> QED BY <3>1, <3>2, <3>4, <3>5 DEF Spared
  <2>6. Named' /\ Down'
    BY <1>1, <1>21, <2>2, <2>3 DEF Sweep, Trips, Named, Down
  <2>7. Hidden'
    BY <1>1, <1>21, <2>2, HiddenKept DEF Sweep, Trips, Hidden, Made
  <2>8. Stage'
    <3>1. ASSUME NEW d \in Client, d # c, Made(d)
            PROVE id[d] # id[c] /\ id[d] \in Id
      BY <2>2, <2>3, <3>1, MadeApart
    <3>2. SUFFICES ASSUME NEW d \in Client PROVE StageOf(d)'
      BY DEF Stage
    <3>3. CASE d = c
      <4>1. StageOf(c)
        BY <1>1 DEF Stage
      <4>2. StageOf(c)'
        BY <1>2, <1>21, <2>2, <2>3, <4>1 DEF Sweep, Written, StageOf
      <4> QED BY <3>3, <4>2
    <3>4. CASE d # c
      BY <1>1, <1>2, <1>21, <2>2, <2>3, <3>1, <3>4
        DEF Sweep, Written, Stage, StageOf, Made
    <3> QED BY <3>3, <3>4
  <2>9. Kept'
    <3>1. listed' = listed /\ Destroying(id[c])'
      BY <1>1, <1>21, <2>2, <2>3 DEF Sweep, Hidden, Made, Destroying
    <3>2. SUFFICES ASSUME NEW i \in listed, ~Destroying(i)' PROVE KeptOf(i)'
      BY <3>1 DEF Kept
    <3>3. ~Destroying(i)
      BY <3>2, <2>2, <2>3 DEF Destroying
    <3>4. KeptOf(i) /\ i \in Id
      BY <1>1, <1>2, <3>3 DEF Kept, Named
    <3>5. CASE i = id[c]
      BY <1>2, <1>21, <2>2, <2>3, <3>1, <3>2, <3>4, <3>5
        DEF Sweep, Touched, Trips, Written, KeptOf, Saving
    <3>6. CASE i # id[c]
      BY <1>2, <1>21, <2>2, <2>3, <3>1, <3>4, <3>6
        DEF Sweep, Touched, Trips, Written, KeptOf, Saving
    <3> QED BY <3>5, <3>6
  <2>10. Alone'
    <3>1. SUFFICES ASSUME NEW d \in Client, d \in quiet', Destroys(d)'
            PROVE Undisturbed(d)'
      BY DEF Alone
    <3>2. CASE d = c
      <4>1. c \in quiet /\ Destroys(c)
        BY <2>2, <2>3, <3>1, <3>2 DEF Destroys
      <4>2. Undisturbed(c)
        BY <1>1, <4>1 DEF Alone
      <4>3. Undisturbed(c)'
        BY <1>21, <2>2, <2>3, <3>1, <3>2, <4>2 DEF Sweep, Undisturbed
      <4> QED BY <3>2, <4>3
    <3>3. CASE d # c
      <4>1. Destroys(d) /\ d \in quiet /\ id[d] \in Id
        BY <1>1, <1>2, <1>21, <2>2, <2>3, <3>1, <3>3
          DEF Sweep, Touched, Destroys, Named
      <4>2. Undisturbed(d)
        BY <1>1, <4>1 DEF Alone
      <4>3. pc'[d] = pc[d] /\ id'[d] = id[d]
        BY <2>2, <3>3
      <4>4. /\ UNCHANGED <<mounts, dirs, run>>
            /\ files'[id[d]] \subseteq files[id[d]]
        BY <1>21, <2>2, <2>3, <4>1 DEF Sweep
      <4> QED BY <1>21, <2>2, <2>3, <4>1, <4>2, <4>3, <4>4
                DEF Sweep, Undisturbed
    <3> QED BY <3>2, <3>3
  <2>11. StaysDestroyed'
    BY <1>1, <1>2, <1>21, <2>2, <2>3
      DEF Sweep, Touched, Trips, StaysDestroyed, Hidden, Made, Alone, Destroys,
         Undisturbed, Named
  <2> QED BY <2>4, <2>5, <2>6, <2>7, <2>8, <2>9, <2>10, <2>11 DEF IInv
<1>22. ASSUME NEW c \in Client, Rmdir(c) PROVE IInv'
  <2>1. \E to \in {"remove"} : Go(c, "rmdir", to)
    BY <1>22 DEF Rmdir
  <2>2. /\ pc[c] = "rmdir" /\ pc'[c] \in {"remove"} /\ daemon = "up"
        /\ \A d \in Client \ {c} : pc'[d] = pc[d]
        /\ UNCHANGED <<id, op, used, daemon, crashes>>
        /\ id[c] \in used /\ id[c] \in Id /\ (run' = run => CommandOK')
    <3>1. {"remove"} \in SUBSET PcValues /\ "rmdir" # "idle"
      BY DEF PcValues
    <3>2. Moves(c, "rmdir", {"remove"})
      BY <2>1, <3>1, GoStep
    <3> QED BY <3>2 DEF Moves
  <2>3. CommandOK'
    BY <1>22, <2>2 DEF Rmdir
  <2>4. DiskOK' /\ Spared'
    <3>1. DiskOK'
      BY <1>1, <1>22, <2>2 DEF Rmdir, Touched, Trips, Mounted, DiskOK
    <3>2. Spared'
      BY <1>1, <1>22, <2>2, SparedKept DEF Rmdir, Touched, Trips, Removing
    <3> QED BY <3>1, <3>2
  <2>5. Named' /\ Down'
    BY <1>1, <1>22, <2>2 DEF Rmdir, Trips, Named, Down
  <2>6. Hidden'
    BY <1>1, <1>22, <2>2, HiddenKept DEF Rmdir, Trips, Hidden, Made
  <2>7. Stage'
    <3>1. ASSUME NEW d \in Client, d # c, Made(d)
            PROVE id[d] # id[c] /\ id[d] \in Id
      BY <2>2, <3>1, MadeApart
    <3>2. SUFFICES ASSUME NEW d \in Client PROVE StageOf(d)'
      BY DEF Stage
    <3>3. CASE d = c
      <4>1. StageOf(c)
        BY <1>1 DEF Stage
      <4>2. StageOf(c)'
        BY <1>2, <1>22, <2>2, <4>1 DEF Rmdir, Written, StageOf
      <4> QED BY <3>3, <4>2
    <3>4. CASE d # c
      BY <1>1, <1>2, <1>22, <2>2, <3>1, <3>4
        DEF Rmdir, Written, Stage, StageOf, Made
    <3> QED BY <3>3, <3>4
  <2>8. Kept'
    BY <1>1, <1>2, <1>22, <2>2
      DEF Rmdir, Touched, Trips, Written, Kept, KeptOf, Hidden, Stage, StageOf,
          Made, Destroying, Saving
  <2>9. Alone'
    <3>1. SUFFICES ASSUME NEW d \in Client, d \in quiet', Destroys(d)'
            PROVE Undisturbed(d)'
      BY DEF Alone
    <3>2. /\ quiet' \subseteq quiet /\ dirs' \subseteq dirs
          /\ files[id[c]] = {} /\ ~Mounted(id[c]) /\ c \in quiet' =>
               id[c] \notin dirs'
          /\ UNCHANGED <<mounts, files, run>>
      BY <1>22 DEF Rmdir, Trips
    <3>3. Destroys(d) /\ d \in quiet
      BY <2>2, <3>1, <3>2 DEF Destroys
    <3>4. Undisturbed(d) /\ id[d] \in Id /\ id'[d] = id[d]
      BY <1>1, <1>2, <2>2, <3>3 DEF Alone, Destroys, Named
    <3>5. CASE d = c
      <4>1. mounts[id[c]] = 0 /\ files[id[c]] = {} /\ pc'[c] = "remove"
        BY <2>2, <3>4, <3>5 DEF Undisturbed
      <4>2. id[c] \notin dirs'
        BY <3>1, <3>2, <3>5, <4>1 DEF Mounted
      <4> QED BY <3>2, <3>4, <3>5, <4>1, <4>2 DEF Undisturbed
    <3>6. CASE d # c
      BY <2>2, <3>2, <3>4, <3>6 DEF Undisturbed
    <3> QED BY <3>5, <3>6
  <2>10. StaysDestroyed'
    BY <1>1, <1>2, <1>22, <2>2
      DEF Rmdir, Touched, Trips, StaysDestroyed, Hidden, Made, Alone, Destroys,
         Undisturbed, Named
  <2> QED BY <2>3, <2>4, <2>5, <2>6, <2>7, <2>8, <2>9, <2>10 DEF IInv
<1>23. ASSUME NEW c \in Client, Remove(c) PROVE IInv'
  <2>1. \E to \in {"idle"} : Go(c, "remove", to)
    BY <1>23 DEF Remove
  <2>2. /\ pc[c] = "remove" /\ pc'[c] \in {"idle"} /\ daemon = "up"
        /\ \A d \in Client \ {c} : pc'[d] = pc[d]
        /\ UNCHANGED <<id, op, used, daemon, crashes>>
        /\ id[c] \in used /\ id[c] \in Id /\ (run' = run => CommandOK')
    <3>1. {"idle"} \in SUBSET PcValues /\ "remove" # "idle"
      BY DEF PcValues
    <3>2. Moves(c, "remove", {"idle"})
      BY <2>1, <3>1, GoStep
    <3> QED BY <3>2 DEF Moves
  <2>3. CommandOK'
    BY <1>23, <2>2 DEF Remove
  <2>4. DiskOK' /\ Spared'
    <3>1. DiskOK'
      BY <1>1, <1>23, <2>2 DEF Remove, Touched, Trips, Mounted, DiskOK
    <3>2. Spared'
      BY <1>1, <1>23, <2>2, SparedKept DEF Remove, Touched, Trips, Removing
    <3> QED BY <3>1, <3>2
  <2>5. Named' /\ Down'
    BY <1>1, <1>23, <2>2 DEF Remove, Touched, Named, Down
  <2>6. Hidden'
    BY <1>1, <1>23, <2>2, HiddenKept DEF Remove, Touched, Hidden, Made
  <2>7. Stage'
    <3>1. ASSUME NEW d \in Client, d # c, Made(d)
            PROVE id[d] # id[c] /\ id[d] \in Id
      BY <2>2, <3>1, MadeApart
    <3>2. SUFFICES ASSUME NEW d \in Client PROVE StageOf(d)'
      BY DEF Stage
    <3>3. CASE d = c
      <4>1. StageOf(c)
        BY <1>1 DEF Stage
      <4>2. StageOf(c)'
        BY <1>2, <1>23, <2>2, <4>1 DEF Remove, Written, StageOf
      <4> QED BY <3>3, <4>2
    <3>4. CASE d # c
      BY <1>1, <1>2, <1>23, <2>2, <3>1, <3>4
        DEF Remove, Written, Stage, StageOf, Made
    <3> QED BY <3>3, <3>4
  <2>8. Kept'
    BY <1>1, <1>2, <1>23, <2>2
      DEF Remove, Touched, Trips, Written, Kept, KeptOf, Hidden, Stage,
          StageOf, Made, Destroying, Saving
  <2>9. Alone'
    <3>1. SUFFICES ASSUME NEW d \in Client, d \in quiet', Destroys(d)'
            PROVE Undisturbed(d)'
      BY DEF Alone
    <3>2. CASE d = c
      BY <3>1, <3>2, <2>2 DEF Destroys
    <3>3. CASE d # c
      <4>1. Destroys(d) /\ d \in quiet /\ id[d] \in Id
        BY <1>1, <1>2, <1>23, <2>2, <3>1, <3>3
          DEF Remove, Touched, Destroys, Named
      <4>2. Undisturbed(d)
        BY <1>1, <4>1 DEF Alone
      <4>3. pc'[d] = pc[d] /\ id'[d] = id[d]
        BY <2>2, <3>3
      <4>4. UNCHANGED <<mounts, dirs, files, run>> \/ id[d] # id[c]
        BY <1>23, <3>1 DEF Remove, Touched
      <4> QED BY <1>23, <2>2, <4>1, <4>2, <4>3, <4>4 DEF Remove, Undisturbed
    <3> QED BY <3>2, <3>3
  <2>10. StaysDestroyed'
    <3>1. SUFFICES ASSUME NEW i \in gone' PROVE i \notin dirs' /\ i \notin listed'
      BY DEF StaysDestroyed
    <3>2. CASE i = id[c]
      BY <1>1, <1>23, <2>2, <3>1, <3>2
        DEF Remove, StaysDestroyed, Hidden, Made, Alone, Destroys, Undisturbed
    <3>3. CASE i # id[c]
      BY <1>1, <1>23, <2>2, <3>1, <3>3 DEF Remove, StaysDestroyed
    <3> QED BY <3>2, <3>3
  <2> QED BY <2>3, <2>4, <2>5, <2>6, <2>7, <2>8, <2>9, <2>10 DEF IInv
<1>24. ASSUME NEW i \in Id, SaveOpen(i) PROVE IInv'
  <2>1. PICK to \in {"savingStart", "savingStop"}, from \in {"started",
            "reporting"} : Runs(i, from, to)
    BY <1>24 DEF SaveOpen
  <2>2. /\ run'[i] \in {"savingStart", "savingStop"}
             /\ run[i] \in {"started", "reporting"} /\ daemon = "up" /\ CommandOK'
        /\ \A j \in Id \ {i} : run'[j] = run[j]
        /\ UNCHANGED <<listed, rows, dirs, id, pc, used, daemon>>
    BY <1>1, <2>1, RunsStep DEF RunValues
  <2>3. /\ files' \in [Id -> SUBSET {Config, UserData}]
        /\ \A j \in Id \ {i} : files'[j] = files[j]
             /\ (j \in whole' <=> j \in whole)
        /\ whole' \subseteq whole
             /\ files'[i] =
                  (IF i \in dirs THEN files[i] \union {Config} ELSE files[i])
    BY <1>1, <1>24, OpenStep DEF SaveOpen
  <2>4. UNCHANGED <<mounts, alive, orphans, stripped, destroyed, gone, torn, raced>>
          /\ quiet' = {c \in quiet : id[c] # i}
    BY <1>24 DEF SaveOpen, Touched
  <2>5. DiskOK' /\ Spared'
    <3>1. DiskOK'
      BY <1>1, <2>2, <2>3, <2>4 DEF DiskOK, Mounted
    <3>2. i \notin alive \/ run'[i] \in {"started", "savingStart", "running"}
      <4>1. CASE run[i] = "started"
        BY <1>1, <1>24, <2>2, <4>1, RunsStep DEF SaveOpen, RunValues
      <4> QED BY <1>1, <2>2, <4>1 DEF Spared, LiveRuns
    <3> QED BY <1>1, <2>2, <2>4, <3>1, <3>2, SparedRun DEF DiskOK
  <2>6. Named' /\ Down' /\ StaysDestroyed'
    BY <1>1, <2>2, <2>4 DEF Named, Down, StaysDestroyed
  <2>7. ASSUME NEW c \in Client, Made(c) PROVE id[c] # i
    BY <1>1, <2>2, <2>7 DEF Hidden
  <2>8. Hidden'
    <3>1. ASSUME NEW c \in Client, Made(c)' 
          PROVE  Made(c) /\ id[c] \notin listed' /\ id[c] \notin gone'
            /\ run'[id[c]] = "stopped"
      <4>1. Made(c) /\ id[c] \in Id
        BY <1>1, <1>2, <2>2, <3>1 DEF Made, Named
      <4> QED BY <1>1, <2>2, <2>4, <2>7, <4>1 DEF Hidden
    <3> QED BY <1>1, <2>2, <3>1, HiddenKept
  <2>9. Stage'
    <3>1. SUFFICES ASSUME NEW c \in Client, Made(c) PROVE StageOf(c)'
      BY <2>2 DEF Stage, StageOf, Made
    <3>2. StageOf(c) /\ id[c] \in Id /\ id[c] # i
      BY <1>1, <1>2, <2>7, <3>1 DEF Stage, Named, Made
    <3> QED BY <2>2, <2>3, <3>2 DEF StageOf
  <2>10. Kept'
    <3>1. SUFFICES ASSUME NEW j \in listed, ~Destroying(j) PROVE KeptOf(j)'
      BY <2>2 DEF Kept, Destroying
    <3>2. KeptOf(j) /\ j \in Id
      BY <1>1, <1>2, <3>1 DEF Kept, Named
    <3>3. CASE j = i
      BY <2>2, <2>3, <2>4, <3>2, <3>3 DEF KeptOf, Saving
    <3>4. CASE j # i
      BY <2>2, <2>3, <2>4, <3>2, <3>4 DEF KeptOf, Saving
    <3> QED BY <3>3, <3>4
  <2>11. Alone'
    <3>1. SUFFICES ASSUME NEW c \in Client, c \in quiet, id[c] # i,
              Destroys(c) PROVE Undisturbed(c)'
      BY <2>2, <2>4 DEF Alone, Destroys
    <3>2. Undisturbed(c) /\ id[c] \in Id
      BY <1>1, <1>2, <3>1 DEF Alone, Destroys, Named
    <3> QED BY <2>2, <2>3, <2>4, <3>1, <3>2 DEF Undisturbed
  <2> QED BY <2>2, <2>5, <2>6, <2>8, <2>9, <2>10, <2>11 DEF IInv
<1>25. ASSUME NEW i \in Id, SaveWrite(i) PROVE IInv'
  <2>1. PICK to \in {"running", "stopped"}, from \in {"savingStart",
            "savingStop"} : Runs(i, from, to)
    BY <1>25 DEF SaveWrite
  <2>2. /\ run'[i] \in {"running", "stopped"}
             /\ run[i] \in {"savingStart", "savingStop"} /\ daemon = "up"
                  /\ CommandOK'
        /\ \A j \in Id \ {i} : run'[j] = run[j]
        /\ UNCHANGED <<listed, rows, dirs, id, pc, used, daemon>>
    BY <1>1, <2>1, RunsStep DEF RunValues
  <2>3. /\ UNCHANGED <<files, mounts, alive, orphans, stripped, destroyed,
                       quiet, gone, raced>>
        /\ whole' = IF Config \in files[i] THEN whole \union {i} ELSE whole
        /\ torn' = torn \ {i}
    BY <1>25 DEF SaveWrite, Written
  <2>4. DiskOK' /\ Spared'
    <3>1. DiskOK'
      BY <1>1, <2>2, <2>3 DEF DiskOK, Mounted
    <3>2. i \notin alive \/ run'[i] \in {"started", "savingStart", "running"}
      <4>1. CASE run[i] = "savingStart"
        BY <1>1, <1>25, <2>2, <4>1, RunsStep DEF SaveWrite, RunValues
      <4> QED BY <1>1, <2>2, <4>1 DEF Spared, LiveRuns
    <3> QED BY <1>1, <2>2, <2>3, <3>1, <3>2, SparedRun DEF DiskOK
  <2>5. Named' /\ Down' /\ StaysDestroyed'
    BY <1>1, <2>2, <2>3 DEF Named, Down, StaysDestroyed
  <2>6. ASSUME NEW c \in Client, Made(c) PROVE id[c] # i
    BY <1>1, <2>2, <2>6 DEF Hidden
  <2>7. Hidden'
    <3>1. ASSUME NEW c \in Client, Made(c)' 
          PROVE  Made(c) /\ id[c] \notin listed' /\ id[c] \notin gone'
            /\ run'[id[c]] = "stopped"
      <4>1. Made(c) /\ id[c] \in Id
        BY <1>1, <1>2, <2>2, <3>1 DEF Made, Named
      <4> QED BY <1>1, <2>2, <2>3, <2>6, <4>1 DEF Hidden
    <3> QED BY <1>1, <2>2, <3>1, HiddenKept
  <2>8. Stage'
    BY <1>1, <2>2, <2>3 DEF Stage, StageOf
  <2>9. Kept'
    <3>1. SUFFICES ASSUME NEW j \in listed, ~Destroying(j) PROVE KeptOf(j)'
      BY <2>2 DEF Kept, Destroying
    <3>2. KeptOf(j) /\ j \in Id
      BY <1>1, <1>2, <3>1 DEF Kept, Named
    <3>3. CASE j = i
      BY <2>2, <2>3, <3>2, <3>3 DEF KeptOf, Saving
    <3>4. CASE j # i
      BY <2>2, <2>3, <3>2, <3>4 DEF KeptOf, Saving
    <3> QED BY <3>3, <3>4
  <2>10. Alone'
    <3>1. SUFFICES ASSUME NEW c \in Client, c \in quiet, Destroys(c)
            PROVE Undisturbed(c)'
      BY <2>2, <2>3 DEF Alone, Destroys
    <3>2. Undisturbed(c) /\ id[c] \in Id
      BY <1>1, <1>2, <3>1 DEF Alone, Destroys, Named
    <3>3. id[c] # i
      BY <2>2, <3>2 DEF Undisturbed
    <3> QED BY <2>2, <2>3, <3>2, <3>3 DEF Undisturbed
  <2> QED BY <2>2, <2>4, <2>5, <2>7, <2>8, <2>9, <2>10 DEF IInv
<1>26. ASSUME NEW i \in Id, Exit(i) PROVE IInv'
  <2>1. /\ alive' \subseteq alive /\ orphans' \subseteq orphans
        /\ stripped' = stripped \ {i}
        /\ alive \ {i} \subseteq alive' /\ orphans \ {i} \subseteq orphans'
          /\ UNCHANGED <<listed, rows, dirs, files, whole, mounts, run, op, id,
                 pc, used, daemon, crashes, destroyed, quiet, gone, torn, raced>>
    BY <1>26 DEF Exit
  <2>2. CommandOK'
    BY <1>1, <2>1 DEF CommandOK
  <2>3. DiskOK' /\ Spared'
    BY <1>1, <2>1
      DEF DiskOK, Mounted, Spared, LiveRuns, StopEnds, RmSparesProcesses,
          Removing
  <2>4. Named' /\ Down' /\ Hidden' /\ StaysDestroyed'
    BY <1>1, <2>1 DEF Named, Down, Hidden, Made, StaysDestroyed
  <2>5. Stage' /\ Kept'
    BY <1>1, <2>1 DEF Stage, StageOf, Kept, KeptOf, Saving, Destroying
  <2>6. Alone'
    BY <1>1, <2>1 DEF Alone, Destroys, Undisturbed
  <2> QED BY <2>2, <2>3, <2>4, <2>5, <2>6 DEF IInv
<1>27. ASSUME NEW i \in Id, MonitorUmount(i) \/ SetStopped(i) PROVE IInv'
  <2>1. Runs(i, "running", "unmounted") \/ Runs(i, "unmounted", "reporting")
    BY <1>27 DEF MonitorUmount, SetStopped
  <2>2. /\ run'[i] \in {"unmounted", "reporting"}
             /\ run[i] \in {"running", "unmounted"} /\ daemon = "up" /\ CommandOK'
        /\ \A j \in Id \ {i} : run'[j] = run[j]
        /\ UNCHANGED <<listed, rows, dirs, id, pc, used, daemon>>
    BY <1>1, <2>1, RunsStep DEF RunValues
  <2>3. /\ UNCHANGED <<files, whole, alive, orphans, stripped, destroyed, gone,
                       torn, raced>>
        /\ mounts' = mounts \/ Unmounts(i)
        /\ quiet' \subseteq quiet
    <3>1. CASE MonitorUmount(i)
      BY <3>1 DEF MonitorUmount, Touched
    <3>2. CASE SetStopped(i)
      BY <3>2 DEF SetStopped
    <3> QED BY <1>27, <3>1, <3>2
  <2>4. DiskOK' /\ Spared'
    <3>1. mounts \in [Id -> Nat]
      BY <1>1 DEF DiskOK
    <3>2. /\ mounts' \in [Id -> Nat] /\ \A j \in Id \ {i} : mounts'[j] = mounts[j]
          /\ Mounted(i)' => Mounted(i)
      BY <2>3, <3>1, UnmountsStep DEF Mounted
    <3>3. DiskOK'
      BY <1>1, <2>2, <2>3, <3>2 DEF DiskOK, Mounted
    <3>4. i \notin alive
      <4>1. CASE MonitorUmount(i)
        BY <4>1 DEF MonitorUmount
      <4>2. CASE SetStopped(i)
        BY <1>1, <4>2 DEF SetStopped, Runs, Spared, LiveRuns
      <4> QED BY <1>27, <4>1, <4>2
    <3> QED BY <1>1, <2>2, <2>3, <3>3, <3>4, SparedRun DEF DiskOK
  <2>5. Named' /\ Down' /\ StaysDestroyed'
    BY <1>1, <2>2, <2>3 DEF Named, Down, StaysDestroyed
  <2>6. ASSUME NEW c \in Client, Made(c) PROVE id[c] # i
    BY <1>1, <2>2, <2>6 DEF Hidden
  <2>7. Hidden'
    <3>1. ASSUME NEW c \in Client, Made(c)' 
          PROVE  Made(c) /\ id[c] \notin listed' /\ id[c] \notin gone'
            /\ run'[id[c]] = "stopped"
      <4>1. Made(c) /\ id[c] \in Id
        BY <1>1, <1>2, <2>2, <3>1 DEF Made, Named
      <4> QED BY <1>1, <2>2, <2>3, <2>6, <4>1 DEF Hidden
    <3> QED BY <1>1, <2>2, <3>1, HiddenKept
  <2>8. Stage'
    BY <1>1, <2>2, <2>3 DEF Stage, StageOf
  <2>9. Kept'
    <3>1. SUFFICES ASSUME NEW j \in listed, ~Destroying(j) PROVE KeptOf(j)'
      BY <2>2 DEF Kept, Destroying
    <3>2. KeptOf(j) /\ j \in Id
      BY <1>1, <1>2, <3>1 DEF Kept, Named
    <3> QED BY <2>2, <2>3, <3>2 DEF KeptOf, Saving
  <2>10. Alone'
    <3>1. SUFFICES ASSUME NEW c \in Client, c \in quiet, Destroys(c)
            PROVE Undisturbed(c)'
      BY <2>2, <2>3 DEF Alone, Destroys
    <3>2. Undisturbed(c) /\ id[c] \in Id
      BY <1>1, <1>2, <3>1 DEF Alone, Destroys, Named
    <3>3. id[c] # i
      BY <2>2, <3>2 DEF Undisturbed
    <3>4. mounts'[id[c]] = mounts[id[c]]
      BY <1>1, <2>3, <3>2, <3>3, UnmountsStep DEF DiskOK
    <3> QED BY <2>2, <2>3, <3>2, <3>3, <3>4 DEF Undisturbed
  <2> QED BY <2>2, <2>4, <2>5, <2>7, <2>8, <2>9, <2>10 DEF IInv
<1>28. ASSUME Crash PROVE IInv'
  <2>1. /\ listed' = {} /\ run' = [j \in Id |-> "stopped"] /\ daemon' = "down"
        /\ op' = [c \in Client |-> "none"] /\ pc' = [c \in Client |-> "idle"]
             /\ id' = [c \in Client |-> NoId]
        /\ crashes < MaxCrashes /\ crashes' = crashes + 1
        /\ UNCHANGED <<used, rows, dirs, files, whole, mounts, stripped, destroyed,
               quiet, gone, torn, raced>>
        /\ alive' = {} /\ orphans' = orphans \union alive
    BY <1>28 DEF Crash
  <2>2. CommandOK'
    <3>1. crashes \in 0 .. MaxCrashes
      BY <1>1 DEF CommandOK
    <3>2. crashes' \in 0 .. MaxCrashes
      <4>1. crashes < MaxCrashes /\ crashes' = crashes + 1
        BY <2>1
      <4>2. MaxCrashes \in Nat
        BY RegistryAssumption
      <4> QED BY <3>1, <4>1, <4>2, BoundStep
    <3> QED BY <2>1, <3>2 DEF CommandOK
  <2>3. DiskOK' /\ Spared'
    BY <1>1, <2>1 DEF DiskOK, Mounted, Spared, LiveRuns, StopEnds,
         RmSparesProcesses, Removing
  <2>4. \A c \in Client : pc'[c] = "idle"
    BY <2>1
  <2>5. Named' /\ Down' /\ Hidden' /\ StaysDestroyed'
    BY <1>1, <2>1, <2>4 DEF Named, Down, Hidden, Made, StaysDestroyed
  <2>6. Stage' /\ Kept'
    BY <2>1, <2>4 DEF Stage, StageOf, Kept
  <2>7. Alone'
    BY <2>4 DEF Alone, Destroys
  <2> QED BY <2>2, <2>3, <2>5, <2>6, <2>7 DEF IInv
<1>29. ASSUME Restore PROVE IInv'
  <2>1. /\ daemon = "down" /\ daemon' = "up"
             /\ listed' = dirs \intersect whole \intersect rows
        /\ UNCHANGED <<used, rows, dirs, files, whole, mounts, alive, orphans,
                       stripped, run, op, id, pc, crashes, destroyed, quiet,
                       gone, torn, raced>>
    BY <1>29 DEF Restore
  <2>2. CommandOK'
    BY <1>1, <2>1 DEF CommandOK
  <2>3. DiskOK' /\ Spared'
    BY <1>1, <2>1
      DEF DiskOK, Mounted, Spared, LiveRuns, StopEnds, RmSparesProcesses,
          Removing
  <2>4. \A c \in Client : pc'[c] = "idle"
    BY <1>1, <2>1 DEF Down
  <2>5. Named' /\ Down' /\ Hidden' /\ StaysDestroyed'
    BY <1>1, <2>1, <2>3, <2>4
      DEF Named, Down, Hidden, Made, StaysDestroyed, DiskOK
  <2>6. Stage'
    BY <2>1, <2>4 DEF Stage, StageOf
  <2>7. Kept'
    BY <1>2, <2>1 DEF Kept, KeptOf
  <2>8. Alone'
    BY <2>4 DEF Alone, Destroys
  <2> QED BY <2>2, <2>3, <2>5, <2>6, <2>7, <2>8 DEF IInv
<1>30. ASSUME UNCHANGED vars PROVE IInv'
  <2>1. UNCHANGED <<listed, used, rows, dirs, files, whole, mounts, alive,
                    orphans, stripped, run, op, pc, id, daemon, crashes,
                    destroyed, quiet, gone, torn, raced>>
    BY <1>30 DEF vars
  <2>2. CommandOK'
    BY <1>1, <2>1 DEF CommandOK
  <2>3. DiskOK' /\ Spared'
    BY <1>1, <2>1
      DEF DiskOK, Mounted, Spared, LiveRuns, StopEnds, RmSparesProcesses,
          Removing
  <2>4. Named' /\ Down' /\ Hidden' /\ StaysDestroyed'
    BY <1>1, <2>1 DEF Named, Down, Hidden, Made, StaysDestroyed
  <2>5. Stage' /\ Kept'
    BY <1>1, <2>1 DEF Stage, StageOf, Kept, KeptOf, Saving, Destroying
  <2>6. Alone'
    BY <1>1, <2>1 DEF Alone, Destroys, Undisturbed
  <2> QED BY <2>2, <2>3, <2>4, <2>5, <2>6 DEF IInv
<1>31. ASSUME NEW c \in Client,
           CmdRm(c) \/ CmdStart(c) \/ CmdMount(c) \/ CmdUmount(c) PROVE IInv'
  <2>1. PICK o \in {"rm", "start", "mount", "umount"}, at \in {"find", "fetch",
            "unmount"} : Issue(c, o, at)
    BY <1>31 DEF CmdRm, CmdStart, CmdMount, CmdUmount
  <2>2. PICK i \in listed : id' = [id EXCEPT ![c] = i]
    BY <2>1 DEF Issue
  <2>3. /\ pc[c] = "idle" /\ pc' = [pc EXCEPT ![c] = at]
             /\ op' = [op EXCEPT ![c] = o] /\ daemon = "up"
        /\ UNCHANGED <<listed, rows, dirs, files, whole, mounts, alive, orphans,
                       stripped, run, used, daemon, crashes, destroyed, quiet,
                       gone, torn, raced>>
    BY <2>1 DEF Issue
  <2>4. i \in used /\ i \in Id
    BY <1>1, <1>2, <2>2 DEF Named
  <2>5. CommandOK'
    BY <1>1, <2>1, <2>2, <2>3, <2>4 DEF CommandOK
  <2>6. /\ id'[c] = i /\ pc'[c] \in {"find", "fetch", "unmount"}
        /\ \A d \in Client \ {c} : id'[d] = id[d] /\ pc'[d] = pc[d]
    BY <1>1, <2>1, <2>2, <2>3 DEF CommandOK
  <2>7. DiskOK' /\ Spared'
    <3>1. DiskOK' /\ LiveRuns' /\ RmSparesProcesses'
      BY <1>1, <2>3 DEF DiskOK, Mounted, Spared, LiveRuns, RmSparesProcesses
    <3>2. ASSUME NEW d \in Client, Removing(d)' PROVE Removing(d) /\ id'[d] = id[d]
      BY <2>6, <3>2 DEF Removing
    <3>3. StopEnds'
      BY <1>1, <2>3, <3>2 DEF Spared, StopEnds
    <3> QED BY <3>1, <3>3 DEF Spared
  <2>8. Named' /\ Down' /\ StaysDestroyed'
    BY <1>1, <2>3, <2>4, <2>6 DEF Named, Down, StaysDestroyed
  <2>9. Hidden'
    <3>1. SUFFICES ASSUME NEW d \in Client, Made(d)'
                   PROVE  /\ id'[d] \notin listed' /\ id'[d] \notin gone'
                     /\ run'[id'[d]] = "stopped"
                          /\ \A e \in Client : e # d
                               /\ pc'[e] # "idle" => id'[e] # id'[d]
      BY DEF Hidden
    <3>2. Made(d) /\ d # c
      BY <2>6, <3>1 DEF Made
    <3>3. /\ id[d] \notin listed /\ id[d] \notin gone /\ run[id[d]] = "stopped"
          /\ \A e \in Client : e # d /\ pc[e] # "idle" => id[e] # id[d]
      BY <1>1, <3>2 DEF Hidden
    <3>4. id'[d] = id[d]
      BY <2>6, <3>2
    <3>5. ASSUME NEW e \in Client, e # d, pc'[e] # "idle" PROVE id'[e] # id'[d]
      <4>1. CASE e = c
        BY <1>1, <2>2, <2>6, <3>3, <3>4, <4>1
      <4>2. CASE e # c
        BY <2>6, <3>3, <3>4, <3>5, <4>2
      <4> QED BY <4>1, <4>2
    <3> QED BY <2>3, <3>3, <3>4, <3>5
  <2>10. Stage'
    <3>1. SUFFICES ASSUME NEW d \in Client PROVE StageOf(d)'
      BY DEF Stage
    <3>2. StageOf(d)
      BY <1>1 DEF Stage
    <3> QED BY <2>3, <2>6, <3>2 DEF StageOf
  <2>11. Kept'
    <3>1. SUFFICES ASSUME NEW j \in listed, ~Destroying(j)' PROVE KeptOf(j)'
      BY <2>3 DEF Kept
    <3>2. ~Destroying(j)
      BY <2>3, <2>6, <3>1 DEF Destroying
    <3>3. KeptOf(j)
      BY <1>1, <3>2 DEF Kept
    <3> QED BY <2>3, <3>3 DEF KeptOf, Saving
  <2>12. Alone'
    <3>1. SUFFICES ASSUME NEW d \in Client, d \in quiet, Destroys(d)'
            PROVE Undisturbed(d)'
      BY <2>3 DEF Alone
    <3>2. d # c /\ Destroys(d)
      BY <2>6, <3>1 DEF Destroys
    <3>3. Undisturbed(d)
      BY <1>1, <3>1, <3>2 DEF Alone
    <3> QED BY <2>3, <2>6, <3>2, <3>3 DEF Undisturbed
  <2> QED BY <2>5, <2>7, <2>8, <2>9, <2>10, <2>11, <2>12 DEF IInv
<1>32. ASSUME NEW c \in Client, CreateContainer(c) PROVE IInv'
  <2>1. PICK i \in Id \ used : id' = [id EXCEPT ![c] = i] /\ used' = used \union {i}
    BY <1>32 DEF CreateContainer
  <2>2. /\ pc[c] = "idle" /\ pc' = [pc EXCEPT ![c] = "row"]
             /\ op' = [op EXCEPT ![c] = "create"] /\ daemon = "up"
        /\ UNCHANGED <<listed, rows, dirs, files, whole, mounts, alive, orphans,
                       stripped, run, daemon, crashes, destroyed, quiet, gone,
                       torn, raced>>
    BY <1>32 DEF CreateContainer
  <2>3. CommandOK'
    BY <1>1, <2>1, <2>2 DEF CommandOK
  <2>4. /\ id'[c] = i /\ pc'[c] = "row"
        /\ \A d \in Client \ {c} : id'[d] = id[d] /\ pc'[d] = pc[d]
    BY <1>1, <2>1, <2>2 DEF CommandOK
  <2>5. DiskOK' /\ Spared'
    BY <1>1, <2>1, <2>2
      DEF DiskOK, Mounted, Spared, LiveRuns, StopEnds, RmSparesProcesses,
          Removing
  <2>6. Named' /\ Down' /\ StaysDestroyed'
    <3>1. ASSUME NEW d \in Client, pc'[d] # "idle" PROVE id'[d] \in used'
      <4>1. used \subseteq used' /\ i \in used'
        BY <2>1
      <4>2. CASE d = c
        <5>1. id'[d] = i
          BY <2>4, <4>2
        <5> QED BY <4>1, <5>1
      <4>3. CASE d # c
        <5>1. id[d] \in used
          BY <1>1, <2>4, <3>1, <4>3 DEF Named
        <5>2. id'[d] = id[d]
          BY <2>4, <4>3
        <5> QED BY <4>1, <5>1, <5>2
      <4> QED BY <4>2, <4>3
    <3>2. Named'
      BY <1>1, <2>1, <2>2, <3>1 DEF Named
    <3> QED BY <1>1, <2>2, <3>2 DEF Down, StaysDestroyed
  <2>7. Hidden'
    <3>1. SUFFICES ASSUME NEW d \in Client, Made(d)'
                   PROVE  /\ id'[d] \notin listed' /\ id'[d] \notin gone'
                     /\ run'[id'[d]] = "stopped"
                          /\ \A e \in Client : e # d
                               /\ pc'[e] # "idle" => id'[e] # id'[d]
      BY DEF Hidden
    <3>2. CASE d = c
      <4>1. i \notin listed /\ i \notin gone
              /\ (\A e \in Client : pc[e] # "idle" => id[e] # i)
        BY <1>1, <2>1 DEF Named, DiskOK
      <4>2. run[i] = "stopped"
        BY <1>1, <2>1 DEF Named
      <4> QED BY <2>2, <2>4, <3>2, <4>1, <4>2
    <3>3. CASE d # c
      <4>1. Made(d)
        BY <2>4, <3>1, <3>3 DEF Made
      <4>2. /\ id[d] \notin listed /\ id[d] \notin gone /\ run[id[d]] = "stopped"
            /\ \A e \in Client : e # d /\ pc[e] # "idle" => id[e] # id[d]
        BY <1>1, <4>1 DEF Hidden
      <4>3. id'[d] = id[d] /\ id[d] # i
        BY <1>1, <2>1, <2>4, <3>3, <4>1 DEF Named, Made
      <4>4. ASSUME NEW e \in Client, e # d, pc'[e] # "idle" PROVE id'[e] # id'[d]
        BY <2>4, <4>2, <4>3, <4>4
      <4> QED BY <2>2, <4>2, <4>3, <4>4
    <3> QED BY <3>2, <3>3
  <2>8. Stage'
    <3>1. SUFFICES ASSUME NEW d \in Client PROVE StageOf(d)'
      BY DEF Stage
    <3>2. StageOf(d)
      BY <1>1 DEF Stage
    <3> QED BY <2>2, <2>4, <3>2 DEF StageOf
  <2>9. Kept'
    <3>1. SUFFICES ASSUME NEW j \in listed, ~Destroying(j)' PROVE KeptOf(j)'
      BY <2>2 DEF Kept
    <3>2. ~Destroying(j)
      BY <2>2, <2>4, <3>1 DEF Destroying
    <3>3. KeptOf(j)
      BY <1>1, <3>2 DEF Kept
    <3> QED BY <2>2, <3>3 DEF KeptOf, Saving
  <2>10. Alone'
    <3>1. SUFFICES ASSUME NEW d \in Client, d \in quiet, Destroys(d)'
            PROVE Undisturbed(d)'
      BY <2>2 DEF Alone
    <3>2. d # c /\ Destroys(d)
      BY <2>4, <3>1 DEF Destroys
    <3>3. Undisturbed(d)
      BY <1>1, <3>1, <3>2 DEF Alone
    <3> QED BY <2>2, <2>4, <3>2, <3>3 DEF Undisturbed
  <2> QED BY <2>3, <2>5, <2>6, <2>7, <2>8, <2>9, <2>10 DEF IInv
<1>33. ASSUME NEW c \in Client, StartFails(c) PROVE IInv'
  <2>1. \E to \in {"idle"} : Go(c, "exec", to)
    BY <1>33 DEF StartFails
  <2>2. /\ pc[c] = "exec" /\ pc'[c] \in {"idle"} /\ daemon = "up"
        /\ \A d \in Client \ {c} : pc'[d] = pc[d]
        /\ UNCHANGED <<id, op, used, daemon, crashes>>
        /\ id[c] \in used /\ id[c] \in Id /\ (run' = run => CommandOK')
    <3>1. {"idle"} \in SUBSET PcValues /\ "exec" # "idle"
      BY DEF PcValues
    <3>2. Moves(c, "exec", {"idle"})
      BY <2>1, <3>1, GoStep
    <3> QED BY <3>2 DEF Moves
  <2>3. CommandOK'
    BY <1>33, <2>2 DEF StartFails
  <2>4. DiskOK' /\ Spared'
    <3>1. DiskOK'
      BY <1>1, <1>33, <2>2 DEF StartFails, Touched, Trips, Mounted, DiskOK
    <3>2. Spared'
      BY <1>1, <1>33, <2>2, SparedKept DEF StartFails, Touched, Trips, Removing
    <3> QED BY <3>1, <3>2
  <2>5. Named' /\ Down'
    BY <1>1, <1>33, <2>2 DEF StartFails, Touched, Named, Down
  <2>6. Hidden'
    BY <1>1, <1>33, <2>2, HiddenKept DEF StartFails, Touched, Hidden, Made
  <2>7. Stage'
    BY <1>1, <1>2, <1>33, <2>2
      DEF StartFails, Written, Stage, StageOf, Hidden, Made, Named
  <2>8. Kept'
    BY <1>1, <1>2, <1>33, <2>2
      DEF StartFails, Touched, Trips, Written, Kept, KeptOf, Hidden, Stage,
          StageOf, Made, Destroying, Saving
  <2>9. Alone'
    <3>1. SUFFICES ASSUME NEW d \in Client, d \in quiet', Destroys(d)'
            PROVE Undisturbed(d)'
      BY DEF Alone
    <3>2. d # c
      BY <3>1, <2>2 DEF Destroys
    <3>3. /\ Destroys(d) /\ d \in quiet /\ id[d] \in Id /\ id[d] # id[c]
          /\ pc'[d] = pc[d] /\ id'[d] = id[d]
      BY <1>1, <1>2, <1>33, <2>2, <3>1, <3>2
        DEF StartFails, Touched, Destroys, Named
    <3>4. Undisturbed(d)
      BY <1>1, <3>3 DEF Alone
    <3> QED BY <1>33, <3>3, <3>4 DEF StartFails, Undisturbed
  <2>10. StaysDestroyed'
    BY <1>1, <1>2, <1>33, <2>2
      DEF StartFails, Touched, Trips, StaysDestroyed, Hidden, Made, Alone,
          Destroys, Undisturbed, Named
  <2> QED BY <2>3, <2>4, <2>5, <2>6, <2>7, <2>8, <2>9, <2>10 DEF IInv
<1>34. ASSUME NEW i \in Id, SaveFails(i) PROVE IInv'
  <2>1. PICK to \in {"running", "stopped"}, from \in {"started",
            "reporting", "savingStart", "savingStop"} : Runs(i, from, to)
    BY <1>34 DEF SaveFails
  <2>2. /\ run'[i] \in {"running", "stopped"}
             /\ run[i] \in {"started", "reporting", "savingStart", "savingStop"}
             /\ daemon = "up"
                  /\ CommandOK'
        /\ \A j \in Id \ {i} : run'[j] = run[j]
        /\ UNCHANGED <<listed, rows, dirs, id, pc, used, daemon>>
    BY <1>1, <2>1, RunsStep DEF RunValues
  <2>3. /\ UNCHANGED <<files, mounts, alive, orphans, stripped, destroyed,
                       quiet, gone, raced>>
        /\ whole' = whole
        /\ torn \subseteq torn' /\ torn' \subseteq torn \union {i}
        /\ run[i] \in {"savingStart", "savingStop"} => i \in torn'
    BY <1>34 DEF SaveFails
  <2>4. DiskOK' /\ Spared'
    <3>1. DiskOK'
      BY <1>1, <2>2, <2>3 DEF DiskOK, Mounted
    <3>2. i \notin alive \/ run'[i] \in {"started", "savingStart", "running"}
      <4>1. CASE run[i] \in {"started", "savingStart"}
        BY <1>1, <1>34, <2>2, <4>1, RunsStep DEF SaveFails, RunValues
      <4> QED BY <1>1, <2>2, <4>1 DEF Spared, LiveRuns
    <3> QED BY <1>1, <2>2, <2>3, <3>1, <3>2, SparedRun DEF DiskOK
  <2>5. Named' /\ Down' /\ StaysDestroyed'
    BY <1>1, <2>2, <2>3 DEF Named, Down, StaysDestroyed
  <2>6. ASSUME NEW c \in Client, Made(c) PROVE id[c] # i
    BY <1>1, <2>2, <2>6 DEF Hidden
  <2>7. Hidden'
    <3>1. ASSUME NEW c \in Client, Made(c)' 
          PROVE  Made(c) /\ id[c] \notin listed' /\ id[c] \notin gone'
            /\ run'[id[c]] = "stopped"
      <4>1. Made(c) /\ id[c] \in Id
        BY <1>1, <1>2, <2>2, <3>1 DEF Made, Named
      <4> QED BY <1>1, <2>2, <2>3, <2>6, <4>1 DEF Hidden
    <3> QED BY <1>1, <2>2, <3>1, HiddenKept
  <2>8. Stage'
    BY <1>1, <2>2, <2>3 DEF Stage, StageOf
  <2>9. Kept'
    <3>1. SUFFICES ASSUME NEW j \in listed, ~Destroying(j) PROVE KeptOf(j)'
      BY <2>2 DEF Kept, Destroying
    <3>2. KeptOf(j) /\ j \in Id
      BY <1>1, <1>2, <3>1 DEF Kept, Named
    <3>3. CASE j = i
      BY <2>2, <2>3, <3>2, <3>3 DEF KeptOf, Saving
    <3>4. CASE j # i
      BY <2>2, <2>3, <3>2, <3>4 DEF KeptOf, Saving
    <3> QED BY <3>3, <3>4
  <2>10. Alone'
    <3>1. SUFFICES ASSUME NEW c \in Client, c \in quiet, Destroys(c)
            PROVE Undisturbed(c)'
      BY <2>2, <2>3 DEF Alone, Destroys
    <3>2. Undisturbed(c) /\ id[c] \in Id
      BY <1>1, <1>2, <3>1 DEF Alone, Destroys, Named
    <3>3. id[c] # i
      BY <2>2, <3>2 DEF Undisturbed
    <3> QED BY <2>2, <2>3, <3>2, <3>3 DEF Undisturbed
  <2> QED BY <2>2, <2>4, <2>5, <2>7, <2>8, <2>9, <2>10 DEF IInv
<1> QED
  BY <1>3, <1>4, <1>5, <1>6, <1>7, <1>8, <1>9, <1>10, <1>11, <1>12, <1>13, <1>14,
       <1>15, <1>16, <1>17, <1>18, <1>19, <1>20, <1>21, <1>22, <1>23, <1>24,
       <1>25, <1>26, <1>27, <1>28, <1>29, <1>30, <1>31, <1>32, <1>33, <1>34
  DEF Next, CreateStep, MountStep, DestroyStep

\* An empty directory and a daemon without connections.
LEMMA InitHolds == Init => IInv
<1> SUFFICES ASSUME Init PROVE IInv
  OBVIOUS
<1>1. /\ listed = {} /\ used = {} /\ rows = {} /\ dirs = {} /\ whole = {}
           /\ mounts = [i \in Id |-> 0]
           /\ alive = {} /\ orphans = {} /\ stripped = {}
           /\ torn = {} /\ raced = {}
      /\ destroyed = {} /\ quiet = {} /\ gone = {} /\ daemon = "up"
      /\ \A c \in Client : pc[c] = "idle"
      /\ \A i \in Id : run[i] = "stopped" /\ files[i] = {}
  BY DEF Init
<1>2. CommandOK
  <2>1. crashes \in 0 .. MaxCrashes
    <3>1. crashes = 0 /\ MaxCrashes \in Nat
      BY RegistryAssumption DEF Init
    <3> QED BY <3>1, BoundStart
  <2> QED BY <2>1 DEF Init, CommandOK
<1>3. DiskOK /\ Spared
  <2>1. files \in [Id -> SUBSET {Config, UserData}]
    BY DEF Init
  <2> QED BY <1>1, <2>1
            DEF DiskOK, Mounted, Spared, LiveRuns, StopEnds, RmSparesProcesses,
                Removing
<1>4. Named /\ Down /\ Hidden /\ Stage /\ Kept
  BY <1>1 DEF Named, Down, Hidden, Made, Stage, StageOf, Kept
<1>5. Alone /\ StaysDestroyed
  BY <1>1 DEF Alone, StaysDestroyed
<1> QED BY <1>2, <1>3, <1>4, <1>5 DEF IInv

-----------------------------------------------------------------------------
\* The parts of the invariant that are what the runs check; the rest says whose
\* a container is: its creator's until it is listed, and Destroys' alone as long
\* as quiet says so; and that no process of this daemon is left when its run's
\* monitor, or the Stop of a Destroy, is done, but for one started since.
LEMMA Invariance == Spec => []IInv
<1>1. Init => IInv
  BY InitHolds
<1>2. IInv /\ [Next]_vars => IInv'
  BY NextKeeps
<1> QED BY <1>1, <1>2, PTL DEF Spec

\* The types, and the guarantees of the file system: what is in a directory
\* that is not there does not exist, nor is it mounted (docker.go:46, 114).
THEOREM RegistryTypeOK == Spec => []TypeOK
<1>1. IInv => TypeOK
  BY DEF IInv, TypeOK
<1> QED BY <1>1, Invariance, PTL

\* RemoveAll empties no root under a process of this daemon but one that was
\* started after rm had stopped the container (docker.go:76-90).
THEOREM RemovalSparesProcesses == Spec => []RmSparesProcesses
<1>1. IInv => RmSparesProcesses
  BY DEF IInv, Spared
<1> QED BY <1>1, Invariance, PTL

\* What the daemon lists has its row and a config.json written to the end, so
\* that the next can list it (docker.go:95-109); not while a Destroy or a save
\* of it is in the middle, nor after a save that failed half way.
THEOREM ListingSurvives == Spec => []ListedIsRestorable
<1>1. IInv => ListedIsRestorable
  BY DEF IInv, Kept, KeptOf, ListedIsRestorable
<1> QED BY <1>1, Invariance, PTL

\* What an rm has removed that nobody disturbed, and whose own umount and
\* RemoveAll did not fail, has no directory and is never listed again
\* (docker.go:70-94).
THEOREM RemovalIsFinal == Spec => []StaysDestroyed
<1>1. IInv => StaysDestroyed
  BY DEF IInv
<1> QED BY <1>1, Invariance, PTL

-----------------------------------------------------------------------------
(* Each container's runs are those of Lifecycle.                            *)

\* What a step does to a container, and what that is in Lifecycle.
LEMMA LifeSteps ==
  ASSUME NEW i \in Id, Rooted(i) \in BOOLEAN, Lives(i) \in BOOLEAN,
         Rooted(i)' \in BOOLEAN, Lives(i)' \in BOOLEAN
  PROVE  /\ Rooted(i)' /\ UNCHANGED <<Lives(i), Phase(i)>> => Life(i)!Mount
         /\ ~Rooted(i)' /\ UNCHANGED <<Lives(i), Phase(i)>>
              => Life(i)!Unmount
         /\ /\ Phase(i) = "stopped" /\ Phase(i)' = "up" /\ UNCHANGED Rooted(i)
            /\ Lives(i)' = Lives(i) \/ Lives(i)' = (Lives(i) \/ Rooted(i))
            => Life(i)!Begin
         /\ Lives(i) /\ ~Lives(i)' /\ UNCHANGED <<Rooted(i), Phase(i)>>
              => Life(i)!Exit
         /\ /\ Phase(i) = "up" /\ Phase(i)' = "unmounted" /\ ~Lives(i)
            /\ (Rooted(i)' => Rooted(i)) /\ UNCHANGED Lives(i)
            => Life(i)!MonitorUmount
         /\ /\ Phase(i) = "unmounted" /\ Phase(i)' = "stopped"
            /\ UNCHANGED <<Rooted(i), Lives(i)>>
            => Life(i)!Report
         /\ Phase(i)' = "stopped" /\ ~Lives(i)' /\ UNCHANGED Rooted(i)
              => Life(i)!Die
         /\ UNCHANGED <<Rooted(i), Lives(i), Phase(i)>> => UNCHANGED Life(i)!vars
BY DEF Life!Mount, Life!Unmount, Life!Begin, Life!Exit, Life!MonitorUmount,
       Life!Report, Life!Die, Life!vars

\* The phases of a run: the saves that follow a start and a report move none.
LEMMA Phases ==
  ASSUME NEW i \in Id
  PROVE  /\ run'[i] = run[i] => UNCHANGED Phase(i)
         /\ run[i] = "stopped" /\ run'[i] = "started"
              => Phase(i) = "stopped" /\ Phase(i)' = "up"
         /\ run[i] = "running" /\ run'[i] = "unmounted"
              => Phase(i) = "up" /\ Phase(i)' = "unmounted"
         /\ run[i] = "unmounted" /\ run'[i] = "reporting"
              => Phase(i) = "unmounted" /\ Phase(i)' = "stopped"
         /\ run'[i] = "stopped" => Phase(i)' = "stopped"
         /\ run[i] = "started" /\ run'[i] = "savingStart" => UNCHANGED Phase(i)
         /\ run[i] = "savingStart" /\ run'[i] = "running" => UNCHANGED Phase(i)
         /\ run[i] = "reporting" /\ run'[i] = "savingStop" => UNCHANGED Phase(i)
         /\ run[i] = "savingStop" /\ run'[i] = "stopped" => UNCHANGED Phase(i)
         /\ run[i] = "started" /\ run'[i] = "running" => UNCHANGED Phase(i)
         /\ run[i] = "reporting" /\ run'[i] = "stopped" => UNCHANGED Phase(i)
<1>1. run'[i] = run[i] => UNCHANGED Phase(i)
  BY Zenon DEF Phase
<1>2. run[i] = "stopped" /\ run'[i] = "started"
        => Phase(i) = "stopped" /\ Phase(i)' = "up"
  BY Zenon DEF Phase
<1>3. run[i] = "running" /\ run'[i] = "unmounted"
        => Phase(i) = "up" /\ Phase(i)' = "unmounted"
  BY Zenon DEF Phase
<1>4. run[i] = "unmounted" /\ run'[i] = "reporting"
        => Phase(i) = "unmounted" /\ Phase(i)' = "stopped"
  BY Zenon DEF Phase
<1>5. run'[i] = "stopped" => Phase(i)' = "stopped"
  BY Zenon DEF Phase
<1>6. /\ run[i] = "started" /\ run'[i] = "savingStart" => UNCHANGED Phase(i)
      /\ run[i] = "savingStart" /\ run'[i] = "running" => UNCHANGED Phase(i)
  BY Zenon DEF Phase
<1>7. /\ run[i] = "reporting" /\ run'[i] = "savingStop" => UNCHANGED Phase(i)
      /\ run[i] = "savingStop" /\ run'[i] = "stopped" => UNCHANGED Phase(i)
  BY Zenon DEF Phase
<1>8. /\ run[i] = "started" /\ run'[i] = "running" => UNCHANGED Phase(i)
      /\ run[i] = "reporting" /\ run'[i] = "stopped" => UNCHANGED Phase(i)
  BY Zenon DEF Phase
<1> QED BY Zenon, <1>1, <1>2, <1>3, <1>4, <1>5, <1>6, <1>7, <1>8

\* A root or a process that a step does not name stays as it is.
LEMMA HostStays ==
  ASSUME NEW i \in Id
  PROVE  /\ Rooted(i) \in BOOLEAN /\ Lives(i) \in BOOLEAN
         /\ Rooted(i)' \in BOOLEAN /\ Lives(i)' \in BOOLEAN
         /\ UNCHANGED mounts => UNCHANGED Rooted(i)
         /\ UNCHANGED alive => UNCHANGED Lives(i)
BY DEF Rooted, Lives, Mounted

\* Steps that leave the roots, the processes and the runs alone.
LEMMA LivesStill ==
  ASSUME NEW i \in Id, UNCHANGED <<mounts, alive>>, run'[i] = run[i]
  PROVE  [Life(i)!Next]_(Life(i)!vars)
BY Phases, HostStays, LifeSteps

\* A mount or an umount of one container leaves its root mounted or not, and
\* the others as they are.
LEMMA LivesMount ==
  ASSUME NEW i \in Id, NEW j \in Id, UNCHANGED <<alive, run>>,
         \A k \in Id \ {j} : mounts'[k] = mounts[k]
  PROVE  [Life(i)!Next]_(Life(i)!vars)
<1>1. UNCHANGED <<Lives(i), Phase(i)>>
  BY Phases, HostStays
<1>2. CASE Rooted(i)'
  BY <1>1, <1>2, HostStays, LifeSteps DEF Life!Next
<1>3. CASE ~Rooted(i)'
  BY <1>1, <1>3, HostStays, LifeSteps DEF Life!Next
<1> QED BY <1>2, <1>3

\* A process that ends is one less.
LEMMA LivesExit ==
  ASSUME NEW i \in Id, NEW j \in Id, alive' = alive \ {j},
         UNCHANGED <<mounts, run>>
  PROVE  [Life(i)!Next]_(Life(i)!vars)
<1>1. UNCHANGED <<Rooted(i), Phase(i)>>
  BY Phases, HostStays
<1>2. CASE i = j /\ j \in alive
  <2>1. Lives(i) /\ ~Lives(i)'
    BY <1>2 DEF Lives
  <2> QED BY <1>1, <2>1, HostStays, LifeSteps DEF Life!Next
<1>3. CASE i # j \/ j \notin alive
  <2>1. UNCHANGED Lives(i)
    BY <1>3 DEF Lives
  <2> QED BY <1>1, <2>1, HostStays, LifeSteps
<1> QED BY <1>2, <1>3

\* A start begins a run, with a process if the root is mounted.
LEMMA LivesExec ==
  ASSUME IInv, NEW i \in Id, NEW c \in Client, Exec(c)
  PROVE  [Life(i)!Next]_(Life(i)!vars)
<1>1. run \in [Id -> RunValues]
  BY DEF IInv, CommandOK, RunValues
<1>2. /\ run[id[c]] = "stopped" /\ run' = [run EXCEPT ![id[c]] = "started"]
      /\ \/ Mounted(id[c]) /\ alive' = alive \union {id[c]}
         \/ UNCHANGED alive
      /\ UNCHANGED mounts
  BY DEF Exec
<1>3. CASE i = id[c]
  <2>1. run[i] = "stopped" /\ run'[i] = "started"
    BY <1>1, <1>2, <1>3
  <2>2. /\ UNCHANGED Rooted(i)
        /\ Lives(i)' = Lives(i) \/ Lives(i)' = (Lives(i) \/ Rooted(i))
    BY <1>2, <1>3 DEF Rooted, Lives, Mounted
  <2> QED BY <2>1, <2>2, Phases, HostStays, LifeSteps DEF Life!Next
<1>4. CASE i # id[c]
  <2>1. run'[i] = run[i]
    BY <1>1, <1>2, <1>4
  <2>2. UNCHANGED <<Rooted(i), Lives(i)>>
    BY <1>2, <1>4 DEF Rooted, Lives, Mounted
  <2> QED BY <2>1, <2>2, Phases, HostStays, LifeSteps
<1> QED BY <1>3, <1>4

\* The monitor unmounts the root once the process has gone.
LEMMA LivesMonitorUmount ==
  ASSUME IInv, NEW i \in Id, NEW j \in Id, MonitorUmount(j)
  PROVE  [Life(i)!Next]_(Life(i)!vars)
<1>1. /\ Runs(j, "running", "unmounted") /\ Unmounts(j)
      /\ j \notin alive /\ UNCHANGED alive
  BY DEF MonitorUmount
<1>2. /\ run[j] = "running" /\ run'[j] = "unmounted"
      /\ \A k \in Id \ {j} : run'[k] = run[k]
  <2>1. CommandOK /\ "unmounted" \in RunValues
    BY DEF IInv, RunValues
  <2> QED BY <1>1, <2>1, RunsStep
<1>3. CASE i = j
  <2>1. ~Lives(i) /\ (Rooted(i)' => Rooted(i)) /\ UNCHANGED Lives(i)
    BY <1>1, <1>3, UnmountsStep DEF Rooted, Lives, Mounted, IInv, DiskOK
  <2> QED BY <1>2, <1>3, <2>1, Phases, HostStays, LifeSteps DEF Life!Next
<1>4. CASE i # j
  <2>1. UNCHANGED <<Rooted(i), Lives(i)>>
    BY <1>1, <1>4, UnmountsStep DEF Rooted, Lives, Mounted, IInv, DiskOK
  <2> QED BY <1>2, <1>4, <2>1, Phases, HostStays, LifeSteps
<1> QED BY <1>3, <1>4

\* The monitor reports.
LEMMA LivesReport ==
  ASSUME IInv, NEW i \in Id, NEW j \in Id, SetStopped(j)
  PROVE  [Life(i)!Next]_(Life(i)!vars)
<1>1. Runs(j, "unmounted", "reporting") /\ UNCHANGED <<mounts, alive>>
  BY DEF SetStopped, host
<1>2. /\ run[j] = "unmounted" /\ run'[j] = "reporting"
      /\ \A k \in Id \ {j} : run'[k] = run[k]
  <2>1. CommandOK /\ "reporting" \in RunValues
    BY DEF IInv, RunValues
  <2> QED BY <1>1, <2>1, RunsStep
<1>3. CASE i = j
  BY <1>1, <1>2, <1>3, Phases, HostStays, LifeSteps DEF Life!Next
<1>4. CASE i # j
  BY <1>1, <1>2, <1>4, LivesStill
<1> QED BY <1>3, <1>4

\* The two saves are not seen.
LEMMA LivesSave ==
  ASSUME IInv, NEW i \in Id, NEW j \in Id,
         SaveOpen(j) \/ SaveWrite(j) \/ SaveFails(j)
  PROVE  [Life(i)!Next]_(Life(i)!vars)
<1>1. UNCHANGED <<mounts, alive>>
  BY Zenon DEF SaveOpen, SaveWrite, SaveFails, host
<1>2. UNCHANGED Phase(i)
  <2> DEFINE Saves(from, to) == run[j] = from /\ run'[j] = to
                                 /\ \A k \in Id \ {j} : run'[k] = run[k]
  <2>1. ASSUME NEW from, NEW to \in RunValues, Runs(j, from, to)
        PROVE  Saves(from, to)
    BY <2>1, RunsStep DEF IInv
  <2>2. \/ Saves("started", "savingStart") \/ Saves("reporting", "savingStop")
        \/ Saves("savingStart", "running") \/ Saves("savingStop", "stopped")
        \/ Saves("started", "running") \/ Saves("reporting", "stopped")
    <3>1. /\ "savingStart" \in RunValues /\ "running" \in RunValues
          /\ "savingStop" \in RunValues /\ "stopped" \in RunValues
      BY Zenon DEF RunValues
    <3> HIDE DEF Saves
    <3> QED BY Zenon, <2>1, <3>1 DEF SaveOpen, SaveWrite, SaveFails
  <2>3. CASE i = j
    BY Zenon, <2>2, <2>3, Phases
  <2>4. CASE i # j
    <3>1. run'[i] = run[i]
      BY Zenon, <2>2, <2>4
    <3> QED BY Zenon, <3>1, Phases
  <2> QED BY <2>3, <2>4
<1> QED BY <1>1, <1>2, HostStays, LifeSteps

\* Every step is one of Lifecycle's, or none, in the life of each container.
LEMMA NextLives ==
  ASSUME IInv, Next, NEW i \in Id
  PROVE  [Life(i)!Next]_(Life(i)!vars)
<1>1. ASSUME NEW c \in Client, pc[c] # "idle" PROVE id[c] \in Id
  BY <1>1 DEF IInv, DiskOK, Named
<1>2. CASE \E c \in Client : CreateStep(c)
  BY <1>2, LivesStill
    DEF CreateStep, CreateContainer, InsertRow, Mkdir, CreateOpen, CreateWrite,
        PushBack, SetUserData
<1>3. CASE \E c \in Client : CmdRm(c) \/ CmdStart(c) \/ CmdMount(c) \/ CmdUmount(c)
  BY <1>3, LivesStill DEF CmdRm, CmdStart, CmdMount, CmdUmount, Issue
<1>4. ASSUME NEW c \in Client, MountStep(c) PROVE [Life(i)!Next]_(Life(i)!vars)
  <2>1. CASE EnsureMounted(c)
    BY <2>1, LivesStill DEF EnsureMounted
  <2>2. CASE Mount(c)
    <3>1. pc[c] # "idle"
      BY <2>2 DEF Mount, Go
    <3>2. mounts \in [Id -> Nat]
      BY DEF IInv, DiskOK
    <3>3. \/ UNCHANGED <<mounts, alive>> /\ UNCHANGED run
          \/ /\ UNCHANGED <<alive, run>>
             /\ \A k \in Id \ {id[c]} : mounts'[k] = mounts[k]
      BY <1>1, <2>2, <3>1, <3>2 DEF Mount
    <3> QED BY <1>1, <3>1, <3>3, LivesMount, LivesStill
  <2>3. CASE Unmount(c)
    <3>1. pc[c] # "idle"
      BY <2>3 DEF Unmount, Go
    <3>2. Unmounts(id[c]) /\ UNCHANGED <<alive, run>> /\ mounts \in [Id -> Nat]
      BY <2>3 DEF Unmount, Unmounts, IInv, DiskOK
    <3> QED BY <1>1, <3>1, <3>2, UnmountsStep, LivesMount
  <2>4. CASE Exec(c)
    BY <2>4, LivesExec
  <2>5. CASE StartFails(c)
    BY <2>5, LivesStill DEF StartFails
  <2> QED BY <1>4, <2>1, <2>2, <2>3, <2>4, <2>5 DEF MountStep
<1>5. ASSUME NEW c \in Client, DestroyStep(c) PROVE [Life(i)!Next]_(Life(i)!vars)
  <2>2. CASE DestroyUmount(c)
    <3>1. pc[c] # "idle"
      BY <2>2 DEF DestroyUmount, Go
    <3>2. Unmounts(id[c]) /\ UNCHANGED <<alive, run>> /\ mounts \in [Id -> Nat]
      BY <2>2 DEF DestroyUmount, Unmounts, IInv, DiskOK
    <3> QED BY <1>1, <3>1, <3>2, UnmountsStep, LivesMount
  <2>3. CASE \/ Find(c) \/ StopSignal(c) \/ Stopped(c) \/ StopFails(c)
             \/ IsMounted(c) \/ Deregister(c)
             \/ DeleteRow(c) \/ Sweep(c) \/ Rmdir(c) \/ Remove(c)
    BY <2>3, LivesStill
      DEF Find, StopSignal, Stopped, StopFails, IsMounted, Deregister,
          DeleteRow, Sweep, Rmdir, Remove
  <2> QED BY <1>5, <2>2, <2>3 DEF DestroyStep
<1>6. ASSUME NEW j \in Id,
             \/ SaveOpen(j) \/ SaveWrite(j) \/ SaveFails(j) \/ Exit(j)
             \/ MonitorUmount(j) \/ SetStopped(j)
      PROVE  [Life(i)!Next]_(Life(i)!vars)
  <2>1. CASE Exit(j)
    BY <2>1, LivesExit, LivesStill DEF Exit
  <2> QED BY <1>6, <2>1, LivesSave, LivesMonitorUmount, LivesReport
<1>7. CASE Crash
  <2>1. UNCHANGED mounts /\ ~Lives(i)' /\ run'[i] = "stopped"
    BY <1>7 DEF Crash, Lives
  <2> QED BY <2>1, Phases, HostStays, LifeSteps DEF Life!Next
<1>8. CASE Restore
  BY <1>8, LivesStill DEF Restore
<1> QED BY <1>2, <1>3, <1>4, <1>5, <1>6, <1>7, <1>8 DEF Next

\* Registry implements Lifecycle, once for each id, with a daemon that may die:
\* whatever clients, monitors and later daemons do, a container is executed on
\* its root only when its last run is over for the daemon, and its monitor
\* unmounts it after the process has gone and reports after that
\* (container.go:313-357, 445-468, docker.go:73-118).
THEOREM RegistryIsLifecycles == Spec => AreLifecycles
<1>1. Init => \A i \in Id : Life(i)!Init
  <2> SUFFICES ASSUME Init, NEW i \in Id PROVE Life(i)!Init
    OBVIOUS
  <2>1. ~Rooted(i) /\ ~Lives(i)
    BY DEF Init, Rooted, Lives, Mounted
  <2>2. Phase(i) = "stopped"
    BY DEF Init, Phase
  <2> QED BY <2>1, <2>2, HostStays DEF Life!Init
<1>2. IInv /\ [Next]_vars => [\A i \in Id : [Life(i)!Next]_(Life(i)!vars)]_vars
  <2> SUFFICES ASSUME IInv, [Next]_vars, ~UNCHANGED vars, NEW i \in Id
               PROVE  [Life(i)!Next]_(Life(i)!vars)
    OBVIOUS
  <2> QED BY NextLives
<1> QED BY <1>1, <1>2, Invariance, PTL DEF Spec, AreLifecycles
=============================================================================
