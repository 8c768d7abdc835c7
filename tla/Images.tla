------------------------------- MODULE Images -------------------------------
(***************************************************************************)
(* The image store: fs/store.go over fs/layers.go and fs/archive.go, with  *)
(* the commands import, commit and cp that reach it.                       *)
(*                                                                         *)
(* A create runs in the goroutine of its connection, and beside it         *)
(*   - the source of the archive: curl for import; for commit bsdtar -c    *)
(*     and the goroutine of CmdStream that reads its stdout, then its      *)
(*     stderr, then its exit;                                              *)
(*   - the copier goroutine that os/exec starts for the Stdin of Untar;    *)
(*   - bsdtar -x, which extracts into a temporary directory;               *)
(*   - the goroutine that runs Untar and hands over its result.            *)
(* An archive is a number of members, and members is all that a layer is.  *)
(* Pipes between goroutines hold nothing: a write waits for its read.      *)
(*                                                                         *)
(* A job is a connection that creates one image; its id, drawn at random   *)
(* (store.go:137), is taken never to be drawn twice, so a job stands for   *)
(* the id of its image too.                                                *)
(***************************************************************************)
EXTENDS Integers, FiniteSets

CONSTANTS
  Job,        \* connections that import or commit, and their images
  Base,       \* an image imported earlier
  NoImage,    \* the empty Parent
  Absent,     \* an id that is no image
  Members,    \* the members of an archive
  Name,       \* names of images as they are typed
  Clean,      \* path.Clean, as a function on Name
  Dest,       \* the name each job gives its image
  MaxPaths,   \* bound on the rows of the table paths that cp adds to
  MaxCrashes  \* bound on the deaths of the daemon

Image == Job \union {Base}
NoLayer == -1
NoJob == NoImage

ASSUME ImagesAssumption ==
  /\ Base \notin Job /\ NoImage \notin Image
  /\ Members \in Nat /\ MaxCrashes \in Nat
  /\ Clean \in [Name -> Name] /\ Dest \in [Job -> Name]
  /\ MaxPaths \in Nat
  /\ Absent \notin [members : 0..Members, parent : Image \union {NoImage}]

VARIABLES
  pc, op, parent,         \* the command, where it is, its image's parent
  answer,     \* what the client was told
  tar,        \* the process that makes the archive
  src, sent,  \* the archive as AddLayer reads it: its end, members read
  closed,     \* untarW is closed
  feed,       \* the copier of Untar's stdin
  untar, got, \* bsdtar -x and Untar, and the members extracted
  tmp,        \* the temporary directories that exist
  unremoved,  \* the jobs whose RemoveAll met an error of the disk
  layer,      \* the layers in place, by their members
  images, paths,          \* the tables images and paths
  lock,       \* the transaction that writes to the database
  crashes

command == <<op, parent>>
source == <<tar, src>>
unpack == <<closed, feed, untar, got>>
dirs == <<tmp, unremoved>>
db == <<images, paths, lock>>
vars == <<pc, op, parent, answer, tar, src, sent, closed, feed, untar,
          got, tmp, unremoved, layer, images, paths, lock, crashes>>

Init ==
  /\ pc = [j \in Job |-> "idle"]
  /\ op = [j \in Job |-> "import"]
  /\ parent = [i \in Image |-> NoImage]
  /\ answer = [j \in Job |-> "none"]
  /\ tar = [j \in Job |-> "off"] /\ src = [j \in Job |-> "open"]
  /\ sent = [j \in Job |-> 0] /\ got = [j \in Job |-> 0]
  /\ closed = [j \in Job |-> FALSE] /\ feed = [j \in Job |-> "off"]
  /\ untar = [j \in Job |-> "off"]
  /\ tmp = {} /\ unremoved = {}
  /\ layer = [i \in Image |-> IF i = Base THEN Members ELSE NoLayer]
  /\ images = {Base} /\ \E n \in Name : paths = {<<Clean[n], Base>>}
  /\ lock = NoJob /\ crashes = 0

Go(j, from, to) == pc[j] = from /\ pc' = [pc EXCEPT ![j] = to]

Fail(j) ==
  /\ pc' = [pc EXCEPT ![j] = "done"]
  /\ answer' = [answer EXCEPT ![j] = "error"]

-----------------------------------------------------------------------------
(* The commands.                                                            *)

\* future.Curl, or http.Get in its place.
CmdImport(j) ==
  /\ Go(j, "idle", "stat")
  /\ UNCHANGED <<op, parent, tar>>

\* The tar of the container's rw branch is started, then its image looked up.
CmdCommit(j) ==
  /\ Go(j, "idle", "stat")
  /\ op' = [op EXCEPT ![j] = "commit"]
  /\ tar' = [tar EXCEPT ![j] = "running"]
  /\ \E i \in images : parent' = [parent EXCEPT ![j] = i]

Command(j) ==
  /\ CmdImport(j) \/ CmdCommit(j)
  /\ UNCHANGED <<answer, src, sent, unpack, dirs, layer, db, crashes>>

\* Image.Copy inserts the name as it was typed.
CmdCp(i, n) ==
  /\ i \in images /\ lock = NoJob /\ <<n, i>> \notin paths
  /\ Cardinality(paths) < MaxPaths
  /\ paths' = paths \union {<<n, i>>}
  /\ UNCHANGED <<pc, command, answer, source, sent, unpack, dirs, layer,
                 images, lock, crashes>>

-----------------------------------------------------------------------------
(* The source of the archive.  A member is there to be read as long as the  *)
(* source runs and has one left.                                            *)

Offers(j) ==
  /\ src[j] = "open" /\ sent[j] < Members
  /\ op[j] = "commit" => tar[j] = "running"

Downloads(j) ==
  op[j] = "import" /\ pc[j] \notin {"idle", "done"} /\ src[j] = "open"

\* All has come.
DownloadEnds(j) ==
  /\ Downloads(j) /\ sent[j] = Members
  /\ src' = [src EXCEPT ![j] = "eof"] /\ UNCHANGED tar

\* The download breaks off: its reader gets an error from http.Get and a
\* plain end of file from curl, whose exit nobody looks at.
DownloadBreaks(j) ==
  /\ Downloads(j)
  /\ \E end \in {"eof", "error"} : src' = [src EXCEPT ![j] = end]
  /\ UNCHANGED tar

\* bsdtar -c is done, fails, or has more to say on stderr than its pipe holds.
TarEnds(j) ==
  /\ tar[j] = "running" /\ sent[j] = Members
  /\ tar' = [tar EXCEPT ![j] = "ok"] /\ UNCHANGED src

TarFails(j) ==
  /\ tar[j] = "running"
  /\ \E t \in {"failed", "drowned"} : tar' = [tar EXCEPT ![j] = t]
  /\ UNCHANGED src

\* Mutant: CmdStream closes its pipe at the end of stdout.
CmdStreamUnwaited(j) ==
  /\ src[j] = "open" /\ tar[j] \in {"ok", "failed"}
  /\ src' = [src EXCEPT ![j] = "eof"] /\ UNCHANGED tar

\* stdout and stderr are at their end when the process is; then Wait tells
\* how it ended.
CmdStream(j) ==
  /\ src[j] = "open" /\ tar[j] \in {"ok", "failed"}
  /\ src' = [src EXCEPT ![j] = IF tar[j] = "ok" THEN "eof" ELSE "error"]
  /\ UNCHANGED tar

SourceFrame ==
  UNCHANGED <<pc, command, answer, sent, unpack, dirs, layer, db, crashes>>
Source(j) == (DownloadEnds(j) \/ TarEnds(j) \/ CmdStream(j)) /\ SourceFrame
SourceFails(j) == (DownloadBreaks(j) \/ TarFails(j)) /\ SourceFrame

-----------------------------------------------------------------------------
(* LayerStore.AddLayer.                                                     *)

\* Mktemp, and the goroutine with Untar.
Mktemp(j) ==
  /\ Go(j, "stat", "copy")
  /\ tmp' = tmp \union {j}
  /\ feed' = [feed EXCEPT ![j] = "reading"]
  /\ untar' = [untar EXCEPT ![j] = "running"]
  /\ UNCHANGED <<answer, sent, closed, layer>>

MktempFails(j) ==
  /\ pc[j] = "stat" /\ Fail(j)
  /\ UNCHANGED <<sent, closed, feed, untar, tmp, layer>>

\* io.Copy(untarW, archive): one member read, then written.
CopyRead(j) ==
  /\ Go(j, "copy", "write") /\ Offers(j)
  /\ sent' = [sent EXCEPT ![j] = @ + 1]
  /\ UNCHANGED <<answer, closed, feed, untar, tmp, layer>>

CopyWrite(j) ==
  /\ Go(j, "write", "copy") /\ feed[j] = "reading"
  /\ feed' = [feed EXCEPT ![j] = "holding"]
  /\ UNCHANGED <<answer, sent, closed, untar, tmp, layer>>

\* Mutant: untarW is not closed.
CopyEndOpen(j) ==
  /\ src[j] # "open"
  /\ Go(j, "copy", IF src[j] = "eof" THEN "wait" ELSE "remove")
  /\ UNCHANGED <<answer, sent, closed, feed, untar, tmp, layer>>

\* untarW.Close(); a copy that failed does not wait for the untar.
CopyEnd(j) ==
  /\ src[j] # "open"
  /\ closed' = [closed EXCEPT ![j] = TRUE]
  /\ Go(j, "copy", IF src[j] = "eof" THEN "wait" ELSE "remove")
  /\ UNCHANGED <<answer, sent, feed, untar, tmp, layer>>

\* Untar has the process and its copier behind it and offers its error.
Returned(j) == untar[j] \in {"ok", "failed"} /\ feed[j] \in {"eof", "broken"}

\* <-errors
Wait(j) ==
  /\ Returned(j)
  /\ Go(j, "wait", IF untar[j] = "ok" THEN "rename" ELSE "remove")
  /\ untar' = [untar EXCEPT ![j] = "taken"]
  /\ UNCHANGED <<answer, sent, closed, feed, tmp, layer>>

Rename(j) ==
  /\ Go(j, "rename", "insert")
  /\ layer' = [layer EXCEPT ![j] = got[j]]
  /\ tmp' = tmp \ {j}
  /\ UNCHANGED <<answer, sent, closed, feed, untar>>

\* Mutant: the error of the rename is dropped.
RenameUnchecked(j) ==
  /\ Go(j, "rename", "insert")
  /\ tmp' = tmp \ {j}
  /\ UNCHANGED <<answer, sent, closed, feed, untar, layer>>

RenameFails(j) ==
  /\ Go(j, "rename", "remove")
  /\ UNCHANGED <<answer, sent, closed, feed, untar, tmp, layer>>

\* Mutant: the temporary directory is not removed.
RemoveNothing(j) ==
  /\ pc[j] = "remove" /\ Fail(j)
  /\ UNCHANGED <<sent, closed, feed, untar, tmp, layer>>

\* The deferred RemoveAll.  A bsdtar that is still extracting may put
\* something into the directory between its emptying and its removal.
Remove(j) ==
  /\ pc[j] = "remove" /\ Fail(j)
  /\ \/ tmp' = tmp \ {j}
     \/ untar[j] = "running" /\ UNCHANGED tmp
  /\ UNCHANGED <<sent, closed, feed, untar, layer>>

\* The error of that RemoveAll is dropped with its directory in place.
RemoveFails(j) ==
  /\ pc[j] = "remove" /\ Fail(j)
  /\ unremoved' = unremoved \union {j}
  /\ UNCHANGED <<sent, closed, feed, untar, tmp, layer>>

AddLayerFrame == UNCHANGED <<command, source, got, db, crashes>>
AddLayer(j) ==
  /\ \/ Mktemp(j) \/ CopyRead(j) \/ CopyWrite(j) \/ CopyEnd(j) \/ Wait(j)
     \/ Rename(j) \/ Remove(j)
  /\ AddLayerFrame /\ UNCHANGED unremoved
AddLayerFails(j) ==
  /\ \/ MktempFails(j) /\ UNCHANGED unremoved
     \/ RenameFails(j) /\ UNCHANGED unremoved
     \/ RemoveFails(j)
  /\ AddLayerFrame

-----------------------------------------------------------------------------
(* Untar: os/exec's copier reads untarR and feeds bsdtar.                   *)

FeedUntar(j) ==
  /\ feed[j] = "holding" /\ untar[j] = "running"
  /\ feed' = [feed EXCEPT ![j] = "reading"]
  /\ got' = [got EXCEPT ![j] = @ + 1]
  /\ UNCHANGED untar

\* The pipe to a bsdtar that has ended is broken, and the copier gives up:
\* from then on nobody reads untarR.
FeedBreaks(j) ==
  /\ feed[j] = "holding" /\ untar[j] = "failed"
  /\ feed' = [feed EXCEPT ![j] = "broken"]
  /\ UNCHANGED <<untar, got>>

FeedEnds(j) ==
  /\ feed[j] = "reading" /\ closed[j]
  /\ feed' = [feed EXCEPT ![j] = "eof"]
  /\ UNCHANGED <<untar, got>>

UntarEnds(j) ==
  /\ untar[j] = "running" /\ feed[j] = "eof"
  /\ untar' = [untar EXCEPT ![j] = "ok"]
  /\ UNCHANGED <<feed, got>>

\* A broken archive, a full disk.
UntarBreaks(j) ==
  /\ untar[j] = "running"
  /\ untar' = [untar EXCEPT ![j] = "failed"]
  /\ UNCHANGED <<feed, got>>

UntarFrame ==
  UNCHANGED <<pc, command, answer, source, sent, closed, dirs, layer, db,
              crashes>>
Copier(j) == (FeedUntar(j) \/ FeedBreaks(j) \/ FeedEnds(j)) /\ UntarFrame
Untar(j) == UntarEnds(j) /\ UntarFrame
UntarFails(j) == UntarBreaks(j) /\ UntarFrame

-----------------------------------------------------------------------------
(* The transaction of Store.Create.  The first insert takes the lock of the *)
(* database.  An error returns without Rollback: a lock that is held then   *)
(* stays.                                                                   *)

InsertImage(j) ==
  /\ Go(j, "insert", "path")
  /\ lock = NoJob /\ lock' = j
  /\ UNCHANGED <<answer, images, paths>>

\* The lock is not given back in time.
InsertTimesOut(j) ==
  /\ lock # NoJob /\ pc[lock] = "done"
  /\ pc[j] = "insert" /\ Fail(j)
  /\ UNCHANGED db

InsertPath(j) == Go(j, "path", "commit") /\ UNCHANGED <<answer, db>>

\* Mutant: the name goes into the table as it was typed.
CommitTyped(j) ==
  /\ Go(j, "commit", "done")
  /\ images' = images \union {j}
  /\ paths' = paths \union {<<Dest[j], j>>}
  /\ lock' = NoJob
  /\ answer' = [answer EXCEPT ![j] = "id"]

Commit(j) ==
  /\ Go(j, "commit", "done")
  /\ images' = images \union {j}
  /\ paths' = paths \union {<<Clean[Dest[j]], j>>}
  /\ lock' = NoJob
  /\ answer' = [answer EXCEPT ![j] = "id"]

\* Begin or an insert meets an error of the disk.
InsertBreaks(j) == pc[j] \in {"insert", "path"} /\ Fail(j) /\ UNCHANGED db

\* COMMIT does: the transaction is gone with its lock, or is still open.
CommitBreaks(j) ==
  /\ pc[j] = "commit" /\ Fail(j)
  /\ lock' \in {lock, NoJob} /\ UNCHANGED <<images, paths>>

InsertFrame == UNCHANGED <<command, source, sent, unpack, dirs, layer, crashes>>
Insert(j) ==
  /\ InsertImage(j) \/ InsertTimesOut(j) \/ InsertPath(j) \/ Commit(j)
  /\ InsertFrame
InsertFails(j) == (InsertBreaks(j) \/ CommitBreaks(j)) /\ InsertFrame

\* The daemon dies, and its goroutines, processes and transaction with it.
Crash ==
  /\ crashes < MaxCrashes /\ crashes' = crashes + 1
  /\ \E j \in Job : pc[j] \notin {"idle", "done"}
  /\ pc' = [j \in Job |-> IF pc[j] = "idle" THEN "idle" ELSE "done"]
  /\ tar' = [j \in Job |-> "off"] /\ untar' = [j \in Job |-> "off"]
  /\ lock' = NoJob
  /\ UNCHANGED <<command, answer, src, sent, closed, feed, got, dirs, layer,
                 images, paths>>

-----------------------------------------------------------------------------
Create(j) == AddLayer(j) \/ Insert(j)
Fails(j) ==
  SourceFails(j) \/ AddLayerFails(j) \/ UntarFails(j) \/ InsertFails(j)

Next ==
  \/ \E j \in Job : Command(j) \/ Create(j) \/ Source(j) \/ Copier(j)
                    \/ Untar(j) \/ Fails(j)
  \/ \E i \in Image, n \in Name : CmdCp(i, n)
  \/ Crash

Fairness ==
  \A j \in Job : /\ WF_vars(Create(j)) /\ WF_vars(Source(j))
                 /\ WF_vars(Copier(j)) /\ WF_vars(Untar(j))

Spec == Init /\ [][Next]_vars /\ Fairness

-----------------------------------------------------------------------------
Pc == {"idle", "stat", "copy", "write", "wait", "rename", "remove", "insert",
       "path", "commit", "done"}

TypeOK ==
  /\ pc \in [Job -> Pc] /\ op \in [Job -> {"import", "commit"}]
  /\ parent \in [Image -> Image \union {NoImage}]
  /\ answer \in [Job -> {"none", "id", "error"}]
  /\ tar \in [Job -> {"off", "running", "ok", "failed", "drowned"}]
  /\ src \in [Job -> {"open", "eof", "error"}] /\ sent \in [Job -> 0..Members]
  /\ closed \in [Job -> BOOLEAN]
  /\ feed \in [Job -> {"off", "reading", "holding", "eof", "broken"}]
  /\ untar \in [Job -> {"off", "running", "ok", "failed", "taken"}]
  /\ got \in [Job -> 0..Members]
  /\ tmp \subseteq Job /\ unremoved \subseteq Job
  /\ layer \in [Image -> 0..Members \union {NoLayer}]
  /\ images \subseteq Image /\ paths \subseteq Name \X Image
  /\ lock \in Job \union {NoJob} /\ crashes \in 0..MaxCrashes

\* Image.layers, which Mount calls: the layer of an image is there, and so is
\* its parent, down to an image without one.
HasLayers(i) ==
  /\ layer[i] # NoLayer
  /\ parent[i] \in images \union {NoImage}

\* Every image of the table can be mounted, whatever failed or died while it
\* or another was made (store.go:146-168, layers.go:87-126).
ImagesHaveLayers == \A i \in images : HasLayers(i)

\* Store.List: the images under a name, which is cleaned first.
List(n) == {i \in images : <<Clean[n], i>> \in paths}

\* A client that was given an id finds the image under the name it asked for;
\* a client that was given an error has made no image (store.go:150-168).
AnswerIsTrue ==
  \A j \in Job : /\ answer[j] = "id" => j \in List(Dest[j])
                 /\ answer[j] = "error" => j \notin images

\* What a create that was answered leaves behind.  Once it had its temporary
\* directory, the source of its archive is at an end: no CmdStream, bsdtar -c
\* or download stays.  Unless its copy failed while bsdtar -x was running, no
\* untar stays, and no directory that RemoveAll could remove (layers.go:87-126).
\* A create whose Mktemp failed leaves the source of its archive, which nobody
\* reads, for good (layers.go:95, archive.go:53).
LeavesNothing ==
  \A j \in Job : answer[j] # "none" =>
    /\ closed[j] => src[j] # "open" /\ tar[j] # "running"
    /\ src[j] # "error" =>
         untar[j] \in {"off", "taken"} /\ (j \in tmp => j \in unremoved)

\* Seen through its images and names the store is an ImageStore: an image is
\* there at once, on a parent that is there, whole if it was committed, and
\* never changes.
Seen == [i \in Image |-> IF i \in images
                         THEN [members |-> layer[i], parent |-> parent[i]]
                         ELSE Absent]
Store == INSTANCE ImageStore WITH image <- Seen, named <- paths
IsImageStore == Store!Spec

\* The two ways in which a create blocks for ever: bsdtar -x ended before the
\* archive did, so nobody reads untarR (layers.go:103), or bsdtar -c fills its
\* stderr before its stdout ends (archive.go:58).
Stuck(j) == \/ pc[j] = "write" /\ feed[j] = "broken"
            \/ pc[j] = "copy" /\ tar[j] = "drowned"

\* A create comes to an end, however its processes, the disk and the database
\* fail, unless it is stuck in one of those two ways.
CreateEnds == \A j \in Job : pc[j] = "stat" ~> pc[j] = "done" \/ Stuck(j)
=============================================================================
