------------------------------ MODULE Registry ------------------------------
(***************************************************************************)
(* The containers the daemon knows (docker.go) and what it keeps of them   *)
(* on disk: a row of the mountpoints table, a directory with config.json   *)
(* and userdata.json, a mounted root.  Server.CreateContainer, rm, start,  *)
(* mount and umount run in the goroutines of their connections, monitors   *)
(* in the background, and nothing of it is locked or transactional.  The   *)
(* daemon may die between any two steps; the next one restores what it     *)
(* finds.                                                                  *)
(*                                                                         *)
(* Container has what happens between a start and its monitor in detail;   *)
(* here a container is started again only when its last monitor is done.   *)
(* Its id is drawn at random for each create (server.go:745), so no id is  *)
(* created twice.                                                          *)
(***************************************************************************)
EXTENDS Integers, FiniteSets

CONSTANTS
  Client,      \* connections
  Id,          \* the ids that are drawn
  Faults,      \* the steps that may fail
  MaxCrashes   \* bound on the deaths of the daemon

Steps == {"row", "mkdir", "save", "userdata", "start", "kill", "mount",
          "umount", "deregister", "remove"}
Config == "config.json"
UserData == "userdata.json"
NoId == "noId"

ASSUME RegistryAssumption ==
  /\ Faults \subseteq Steps /\ MaxCrashes \in Nat
  /\ NoId \notin Id

VARIABLES
  listed,    \* docker.containers
  used,      \* the ids drawn so far
  rows,      \* the Roots of the mountpoints table
  dirs,      \* the containers' directories that exist
  files,     \* the files in them
  whole,     \* the config.json that are written to their end
  mounts,    \* how many aufs are mounted on each root, one over the other
  alive,     \* the processes
  orphans,   \* those that have outlived the daemon that started them
  stripped,  \* the processes whose root a RemoveAll has emptied
  run,       \* where Start's save and the monitor of a container are
  op, pc, id,          \* a client's command, where it is, its container
  daemon, crashes,
  destroyed, \* history: the ids whose Destroy has returned nil
  quiet,     \* history: the clients whose Destroy found the container stopped
             \* and mounted once at most, since which nobody but Destroys has
             \* touched it, and none of whose own system calls has failed
  gone,      \* history: the ids whose Destroy has returned nil and was quiet
  torn,      \* history: the ids whose last save failed half way
  raced      \* history: the ids last started while a Destroy was at work that
             \* had stopped them

disk == <<rows, dirs, files, whole>>
processes == <<alive, orphans, stripped>>
host == <<mounts, processes>>
command == <<op, id>>
history == <<destroyed, quiet, gone, torn, raced>>
life == <<used, daemon, crashes>>
vars == <<listed, used, rows, dirs, files, whole, mounts, alive, orphans,
          stripped, run, op, pc, id, daemon, crashes, destroyed, quiet, gone,
          torn, raced>>

Fails(step) == step \in Faults

Init ==
  /\ listed = {} /\ used = {}
  /\ rows = {} /\ dirs = {} /\ files = [i \in Id |-> {}] /\ whole = {}
  /\ mounts = [i \in Id |-> 0] /\ alive = {} /\ orphans = {} /\ stripped = {}
  /\ run = [i \in Id |-> "stopped"]
  /\ op = [c \in Client |-> "none"] /\ pc = [c \in Client |-> "idle"]
  /\ id = [c \in Client |-> NoId]
  /\ daemon = "up" /\ crashes = 0
  /\ destroyed = {} /\ quiet = {} /\ gone = {} /\ torn = {} /\ raced = {}

\* Mountpoint.Mounted
Mounted(i) == mounts[i] > 0

Running(i) == run[i] \in {"started", "savingStart", "running", "unmounted"}

Go(c, from, to) ==
  /\ daemon = "up" /\ pc[c] = from
  /\ pc' = [pc EXCEPT ![c] = to]
  /\ UNCHANGED <<command, life>>

Touched(i) ==
  /\ quiet' = {c \in quiet : id[c] # i}
  /\ UNCHANGED <<destroyed, gone, torn, raced>>

\* A step of a Destroy has failed.
Trips(c) == quiet' = quiet \ {c} /\ UNCHANGED <<destroyed, gone, torn, raced>>

-----------------------------------------------------------------------------
(* ioutil.WriteFile: open with O_CREATE and O_TRUNC, then write.  Without   *)
(* the directory there is nothing to open; and what is written to a file    *)
(* that was removed in between is gone.                                     *)

Open(i, f) ==
  IF i \in dirs
  THEN /\ files' = [files EXCEPT ![i] = @ \union {f}]
       /\ whole' = IF f = Config THEN whole \ {i} ELSE whole
  ELSE UNCHANGED <<files, whole>>

Written(i) == IF Config \in files[i] THEN whole \union {i} ELSE whole

-----------------------------------------------------------------------------
(* Server.CreateContainer and Docker.Create.                                *)

CreateContainer(c) ==
  /\ daemon = "up" /\ pc[c] = "idle"
  /\ \E i \in Id \ used :
       /\ id' = [id EXCEPT ![c] = i]
       /\ used' = used \union {i}
  /\ op' = [op EXCEPT ![c] = "create"]
  /\ pc' = [pc EXCEPT ![c] = "row"]
  /\ UNCHANGED <<listed, disk, host, run, daemon, crashes, history>>

\* image.Mountpoint(): the row comes first.
InsertRow(c) ==
  \/ /\ Go(c, "row", "mkdir")
     /\ rows' = rows \union {id[c]}
     /\ UNCHANGED <<listed, dirs, files, whole, host, run, history>>
  \/ /\ Fails("row") /\ Go(c, "row", "idle")
     /\ UNCHANGED <<listed, disk, host, run, history>>

\* Mutant: createContainer does not save what it has created.
MkdirUnsaved(c) ==
  /\ Go(c, "mkdir", "push")
  /\ dirs' = dirs \union {id[c]}
  /\ UNCHANGED <<listed, rows, files, whole, host, run, history>>

\* An error leaves the row behind, here and in the steps below.
Mkdir(c) ==
  \/ /\ Go(c, "mkdir", "open")
     /\ dirs' = dirs \union {id[c]}
     /\ UNCHANGED <<listed, rows, files, whole, host, run, history>>
  \/ /\ Fails("mkdir") /\ Go(c, "mkdir", "idle")
     /\ UNCHANGED <<listed, disk, host, run, history>>

CreateOpen(c) ==
  /\ Go(c, "open", "write")
  /\ Open(id[c], Config)
  /\ UNCHANGED <<listed, rows, dirs, host, run, history>>

CreateWrite(c) ==
  \/ /\ Go(c, "write", "push")
     /\ whole' = Written(id[c])
     /\ UNCHANGED <<listed, rows, dirs, files, host, run, history>>
  \/ /\ Fails("save") /\ Go(c, "write", "idle")
     /\ UNCHANGED <<listed, disk, host, run, history>>

PushBack(c) ==
  /\ Go(c, "push", "userdata")
  /\ listed' = listed \union {id[c]}
  /\ UNCHANGED <<disk, host, run, history>>

\* SetUserData, twice: the container is known to everybody by then.  When it
\* fails, before the file was opened or after, CreateContainer destroys the
\* container and returns the error.
SetUserData(c) ==
  \/ /\ Go(c, "userdata", "idle")
     /\ id[c] \in dirs
     /\ Open(id[c], UserData)
     /\ Touched(id[c])
     /\ UNCHANGED <<listed, rows, dirs, host, run>>
  \/ /\ id[c] \notin dirs \/ Fails("userdata")
     /\ Go(c, "userdata", "find")
     /\ Touched(id[c])
     /\ UNCHANGED <<listed, disk, host, run>>

-----------------------------------------------------------------------------
(* Commands on a container of the list: rm, start, mount and umount.        *)

Issue(c, o, at) ==
  /\ daemon = "up" /\ pc[c] = "idle"
  /\ \E i \in listed : id' = [id EXCEPT ![c] = i]
  /\ op' = [op EXCEPT ![c] = o] /\ pc' = [pc EXCEPT ![c] = at]
  /\ UNCHANGED <<listed, disk, host, run, life, history>>

CmdRm(c) == Issue(c, "rm", "find")
CmdStart(c) == Issue(c, "start", "fetch")
CmdMount(c) == Issue(c, "mount", "fetch")
CmdUmount(c) == Issue(c, "umount", "unmount")

\* EnsureMounted and Image.Mount: the row, again if need be, then the folders
\* in the container's directory and the mount.
EnsureMounted(c) ==
  \/ /\ Go(c, "fetch", IF ~Mounted(id[c]) THEN "folders"
                       ELSE IF op[c] = "start" THEN "exec" ELSE "idle")
     /\ rows' = IF Mounted(id[c]) THEN rows ELSE rows \union {id[c]}
     /\ Touched(id[c])
     /\ UNCHANGED <<listed, dirs, files, whole, host, run>>
  \/ /\ Fails("row") /\ Go(c, "fetch", "idle") /\ ~Mounted(id[c])
     /\ UNCHANGED <<listed, disk, host, run, history>>

\* Of two that have found nothing mounted the second mounts over the first.
\* A mount that fails may leave its folders behind.
Mount(c) ==
  \/ /\ id[c] \in dirs
     /\ Go(c, "folders", IF op[c] = "start" THEN "exec" ELSE "idle")
     /\ mounts' = [mounts EXCEPT ![id[c]] = @ + 1]
     /\ Touched(id[c])
     /\ UNCHANGED <<listed, disk, processes, run>>
  \/ /\ id[c] \notin dirs \/ Fails("mount")
     /\ Go(c, "folders", "idle")
     /\ Touched(id[c])
     /\ UNCHANGED <<listed, disk, host, run>>

\* Umount takes off what was mounted last, if anything is mounted.  It may fail
\* under a process, whose own mount namespace may or may not pin the root.
Detach(i) == mounts' = [mounts EXCEPT ![i] = IF @ = 0 THEN 0 ELSE @ - 1]

UmountFails(i) ==
  (Fails("umount") \/ i \in alive \union orphans) /\ UNCHANGED mounts

Unmounts(i) == Detach(i) \/ UmountFails(i)

Unmount(c) ==
  /\ Go(c, "unmount", "idle")
  /\ Unmounts(id[c])
  /\ Touched(id[c])
  /\ UNCHANGED <<listed, disk, processes, run>>

\* A Destroy whose Stop has returned, and whose RemoveAll is still to come.
Removing(c) == pc[c] \in {"mounted", "umount", "deregister", "delete", "sweep"}

\* The rest of Start up to setRunning; save and the monitor follow.  lxc-start
\* ends at once on a root that was unmounted again, and may end at once on one
\* that was emptied or beside a process of that name.  Without the directory
\* there is nowhere to write its configuration.
Exec(c) ==
  /\ Go(c, "exec", "idle")
  /\ run[id[c]] = "stopped"
  /\ run' = [run EXCEPT ![id[c]] = "started"]
  /\ \/ Mounted(id[c]) /\ alive' = alive \union {id[c]}
     \/ UNCHANGED alive
  /\ raced' = IF \E d \in Client : id[d] = id[c] /\ Removing(d)
              THEN raced \union {id[c]} ELSE raced \ {id[c]}
  /\ quiet' = {d \in quiet : id[d] # id[c]}
  /\ UNCHANGED <<listed, disk, mounts, orphans, stripped, destroyed, gone,
                 torn>>

StartFails(c) ==
  /\ Go(c, "exec", "idle")
  /\ id[c] \notin dirs \/ Fails("start")
  /\ Touched(id[c])
  /\ UNCHANGED <<listed, disk, host, run>>

-----------------------------------------------------------------------------
(* The save of Start, the process, and the monitor, which saves again after *)
(* it has said that the container stopped.                                  *)

Runs(i, from, to) ==
  /\ daemon = "up" /\ run[i] = from
  /\ run' = [run EXCEPT ![i] = to]
  /\ UNCHANGED <<listed, rows, dirs, command, pc, life>>

SaveOpen(i) ==
  /\ \/ Runs(i, "started", "savingStart")
     \/ Runs(i, "reporting", "savingStop")
  /\ Open(i, Config)
  /\ Touched(i)
  /\ UNCHANGED host

SaveWrite(i) ==
  /\ \/ Runs(i, "savingStart", "running")
     \/ Runs(i, "savingStop", "stopped")
  /\ whole' = Written(i) /\ torn' = torn \ {i}
  /\ UNCHANGED <<files, host, destroyed, quiet, gone, raced>>

\* Neither looks at the error of save, which opens nothing or leaves the file
\* as short as it was when the write failed.
SaveFails(i) ==
  /\ Fails("save")
  /\ \/ Runs(i, "started", "running") \/ Runs(i, "reporting", "stopped")
     \/ Runs(i, "savingStart", "running") \/ Runs(i, "savingStop", "stopped")
  /\ torn' = IF run[i] \in {"savingStart", "savingStop"} THEN torn \union {i}
             ELSE torn
  /\ UNCHANGED <<files, whole, host, destroyed, quiet, gone, raced>>

Exit(i) ==
  /\ \/ i \in alive /\ alive' = alive \ {i} /\ UNCHANGED orphans
     \/ i \in orphans /\ orphans' = orphans \ {i} /\ UNCHANGED alive
  /\ stripped' = stripped \ {i}
  /\ UNCHANGED <<listed, disk, mounts, run, command, pc, life, history>>

\* Mutant: the monitor does not wait for the process.
MonitorNoWait(i) ==
  /\ Runs(i, "running", "unmounted")
  /\ Unmounts(i)
  /\ Touched(i)
  /\ UNCHANGED <<files, whole, processes>>

MonitorUmount(i) ==
  /\ i \notin alive
  /\ Runs(i, "running", "unmounted")
  /\ Unmounts(i)
  /\ Touched(i)
  /\ UNCHANGED <<files, whole, processes>>

SetStopped(i) ==
  /\ Runs(i, "unmounted", "reporting")
  /\ UNCHANGED <<files, whole, host, history>>

-----------------------------------------------------------------------------
(* Destroy, from rm and from a CreateContainer that failed.                 *)

Find(c) ==
  /\ daemon = "up" /\ pc[c] = "find"
  /\ Go(c, "find", IF id[c] \in listed THEN "stop" ELSE "idle")
  /\ quiet' = IF run[id[c]] = "stopped" /\ mounts[id[c]] \in {0, 1}
              THEN quiet \union {c} ELSE quiet \ {c}
  /\ UNCHANGED <<listed, disk, host, run, destroyed, gone, torn, raced>>

\* Stop: its signals, upon which the process ends sooner or later, its waits
\* and its errors.
StopSignal(c) ==
  /\ Go(c, "stop", IF Running(id[c]) THEN "stopping" ELSE "mounted")
  /\ UNCHANGED <<listed, disk, host, run, history>>

\* Mutant: Stop does not wait for Running to be cleared.
StoppedEarly(c) ==
  /\ Go(c, "stopping", "mounted")
  /\ UNCHANGED <<listed, disk, host, run, history>>

Stopped(c) ==
  /\ Go(c, "stopping", "mounted")
  /\ ~Running(id[c])
  /\ UNCHANGED <<listed, disk, host, run, history>>

StopFails(c) ==
  /\ Fails("kill")
  /\ Go(c, "stopping", "idle")
  /\ UNCHANGED <<listed, disk, host, run, history>>

IsMounted(c) ==
  /\ Go(c, "mounted", IF Mounted(id[c]) THEN "umount" ELSE "sweep")
  /\ UNCHANGED <<listed, disk, host, run, history>>

\* The errors of Umount, Deregister and RemoveAll are only logged.
DestroyUmount(c) ==
  /\ Go(c, "umount", "deregister")
  /\ \/ Detach(id[c]) /\ UNCHANGED history
     \/ UmountFails(id[c]) /\ Trips(c)
  /\ UNCHANGED <<listed, disk, processes, run>>

Deregister(c) ==
  /\ Go(c, "deregister", IF Mounted(id[c]) THEN "sweep" ELSE "delete")
  /\ UNCHANGED <<listed, disk, host, run, history>>

DeleteRow(c) ==
  \/ /\ Go(c, "delete", "sweep")
     /\ rows' = rows \ {id[c]}
     /\ UNCHANGED <<listed, dirs, files, whole, host, run, history>>
  \/ /\ Fails("deregister") /\ Go(c, "delete", "sweep")
     /\ UNCHANGED <<listed, disk, host, run, history>>

\* Mutant: Destroy removes the directory only if it is empty.
NoSweep(c) ==
  /\ Go(c, "sweep", "rmdir")
  /\ UNCHANGED <<listed, disk, host, run, history>>

\* RemoveAll: what is in the directory, as far as it can be removed, and in a
\* root that is still mounted there, under whatever process runs on it; then
\* the directory, which a file or a mounted root keeps.
Strips(i) ==
  stripped' = IF Mounted(i) /\ i \in alive \union orphans
              THEN stripped \union {i} ELSE stripped

Sweep(c) ==
  /\ Go(c, "sweep", "rmdir")
  /\ \E left \in SUBSET files[id[c]] :
       /\ files' = [files EXCEPT ![id[c]] = left]
       /\ whole' = IF Config \in left THEN whole ELSE whole \ {id[c]}
       /\ \/ left = {} /\ UNCHANGED history
          \/ Fails("remove") /\ Trips(c)
  /\ Strips(id[c])
  /\ UNCHANGED <<listed, rows, dirs, mounts, alive, orphans, run>>

Rmdir(c) ==
  /\ Go(c, "rmdir", "remove")
  /\ \/ /\ files[id[c]] = {} /\ ~Mounted(id[c])
        /\ dirs' = dirs \ {id[c]} /\ UNCHANGED history
     \/ /\ files[id[c]] # {} \/ Mounted(id[c])
        /\ UNCHANGED <<dirs, history>>
     \/ Fails("remove") /\ UNCHANGED dirs /\ Trips(c)
  /\ UNCHANGED <<listed, rows, files, whole, host, run>>

Remove(c) ==
  /\ Go(c, "remove", "idle")
  /\ listed' = listed \ {id[c]}
  /\ destroyed' = destroyed \union {id[c]}
  /\ gone' = IF c \in quiet THEN gone \union {id[c]} ELSE gone
  /\ UNCHANGED <<disk, host, run, quiet, torn, raced>>

-----------------------------------------------------------------------------
(* The daemon's death, which a process survives or not, and New: restore()  *)
(* lists the directories it can load, with a new State, whatever their      *)
(* processes do.                                                            *)

Crash ==
  /\ daemon = "up" /\ crashes < MaxCrashes
  /\ daemon' = "down" /\ crashes' = crashes + 1
  /\ listed' = {} /\ run' = [i \in Id |-> "stopped"]
  /\ op' = [c \in Client |-> "none"] /\ pc' = [c \in Client |-> "idle"]
  /\ id' = [c \in Client |-> NoId]
  /\ alive' = {} /\ orphans' = orphans \union alive
  /\ UNCHANGED <<used, disk, mounts, stripped, history>>

Restore ==
  /\ daemon = "down" /\ daemon' = "up"
  /\ listed' = dirs \intersect whole \intersect rows
  /\ UNCHANGED <<used, disk, host, run, command, pc, crashes, history>>

CreateStep(c) ==
  \/ CreateContainer(c) \/ InsertRow(c) \/ Mkdir(c) \/ CreateOpen(c)
  \/ CreateWrite(c) \/ PushBack(c) \/ SetUserData(c)

MountStep(c) ==
  EnsureMounted(c) \/ Mount(c) \/ Unmount(c) \/ Exec(c) \/ StartFails(c)

DestroyStep(c) ==
  \/ Find(c) \/ StopSignal(c) \/ Stopped(c) \/ StopFails(c) \/ IsMounted(c)
  \/ DestroyUmount(c) \/ Deregister(c) \/ DeleteRow(c) \/ Sweep(c) \/ Rmdir(c)
  \/ Remove(c)

Next ==
  \/ \E c \in Client :
       \/ CreateStep(c) \/ MountStep(c) \/ DestroyStep(c)
       \/ CmdRm(c) \/ CmdStart(c) \/ CmdMount(c) \/ CmdUmount(c)
  \/ \E i \in Id :
       \/ SaveOpen(i) \/ SaveWrite(i) \/ SaveFails(i)
       \/ Exit(i) \/ MonitorUmount(i) \/ SetStopped(i)
  \/ Crash \/ Restore

Spec == Init /\ [][Next]_vars

-----------------------------------------------------------------------------
\* The types, and what a file system guarantees: a file is in a directory.
DiskOK ==
  /\ listed \subseteq Id /\ used \subseteq Id /\ rows \subseteq used
  /\ dirs \subseteq used /\ files \in [Id -> SUBSET {Config, UserData}]
  /\ \A i \in Id : files[i] # {} => i \in dirs
  /\ \A i \in whole : i \in Id /\ Config \in files[i]
  /\ mounts \in [Id -> Nat] /\ \A i \in Id : Mounted(i) => i \in dirs
  /\ alive \subseteq Id /\ orphans \subseteq Id
  /\ stripped \subseteq alive \union orphans
  /\ quiet \subseteq Client
  /\ gone \subseteq destroyed /\ destroyed \subseteq Id
  /\ torn \subseteq Id /\ raced \subseteq Id

CommandOK ==
  /\ op \in [Client -> {"none", "create", "rm", "start", "mount", "umount"}]
  /\ pc \in [Client -> {"idle", "row", "mkdir", "open", "write", "push",
                        "userdata", "fetch", "folders", "unmount", "exec",
                        "find", "stop", "stopping", "mounted", "umount",
                        "deregister", "delete", "sweep", "rmdir", "remove"}]
  /\ id \in [Client -> Id \union {NoId}]
  /\ run \in [Id -> {"stopped", "started", "savingStart", "running",
                     "unmounted", "reporting", "savingStop"}]
  /\ daemon \in {"up", "down"} /\ crashes \in 0 .. MaxCrashes

TypeOK == DiskOK /\ CommandOK

Destroying(i) ==
  \E c \in Client :
    id[c] = i /\ pc[c] \in {"delete", "sweep", "rmdir", "remove"}

Saving(i) == run[i] \in {"savingStart", "savingStop"}

\* A container that `docker ps` shows is one the next daemon will show as well
\* (docker_test.go:273, "reloading all containers from scratch"): its row and
\* a config.json written to the end are on disk.  That is but for the moments
\* when Destroy takes it all down, and for two things the code has no answer
\* to: save() truncates the file before it writes it, and Start and the monitor
\* pass over its error (container.go:229, 355, 467).
ListedIsRestorable ==
  \A i \in listed \ torn :
    ~Destroying(i) /\ ~Saving(i) => i \in rows \intersect whole

\* A container that was stopped and not mounted twice when rm began, and that
\* nobody but other rms touched meanwhile, is gone for good once rm is done,
\* provided that no system call has failed its umount and its RemoveAll, errors
\* Destroy only logs: its directory is not left and no later daemon lists it
\* again, although its row may stay in the table, as the root was not mounted
\* or Deregister failed (docker.go:70-94).
StaysDestroyed ==
  \A i \in gone : i \notin dirs /\ i \notin listed

\* Destroy stops a container before it removes what is under it: the RemoveAll
\* of an rm (docker.go:88), which descends into a root that could not be
\* unmounted, empties it under no process of this daemon, whatever else mounts,
\* fails and saves meanwhile.  A start that comes after the rm's Stop has
\* returned has no such protection, nor has the process of an earlier daemon,
\* which the next takes for stopped.
RmSparesProcesses ==
  \A i \in stripped : i \in raced \/ i \in orphans

\* The runs of each container, which Container has in detail, with daemons
\* that die, and whoever mounts, unmounts and removes it meanwhile.
Rooted(i) == Mounted(i)

Lives(i) == i \in alive

Phase(i) ==
  IF run[i] \in {"started", "savingStart", "running"} THEN "up"
  ELSE IF run[i] = "unmounted" THEN "unmounted" ELSE "stopped"

Life(i) == INSTANCE Lifecycle WITH
             MayDie <- TRUE, root <- Rooted(i), process <- Lives(i),
             run <- Phase(i)

AreLifecycles ==
  /\ \A i \in Id : Life(i)!Init
  /\ [][\A i \in Id : [Life(i)!Next]_(Life(i)!vars)]_vars

\* "Make sure the container root directory does not exist anymore"
\* (docker_test.go:164): when Destroy has returned nil, the directory is gone.
DestroyedIsGone == \A i \in destroyed : i \notin dirs
=============================================================================
