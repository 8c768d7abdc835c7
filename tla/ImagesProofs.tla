---------------------------- MODULE ImagesProofs ----------------------------
(***************************************************************************)
(* What holds of Images for any number of jobs, names, members, paths and  *)
(* deaths of the daemon: every image can be mounted, every answer is true, *)
(* nothing is left over but after a failed copy, and the store implements  *)
(* ImageStore. Last, a create can go on and has only so many steps to      *)
(* take.                                                                   *)
(***************************************************************************)
EXTENDS Images, TLAPS

B(p) == IF p THEN 1 ELSE 0

\* A job, its answer and its row.
Answered(j) ==
  /\ j \in images => pc[j] = "done" /\ answer[j] = "id"
  /\ pc[j] # "done" => answer[j] = "none"
  /\ answer[j] = "id" => j \in images /\ <<Clean[Dest[j]], j>> \in paths
  /\ op[j] = "import" => parent[j] = NoImage /\ tar[j] = "off"
  /\ op[j] = "commit" => parent[j] \in images
  /\ pc[j] = "idle" => op[j] = "import" /\ src[j] = "open"

\* The members on their way from the archive to the directory.
Flow(j) ==
  /\ pc[j] \in {"idle", "stat"} =>
       /\ sent[j] = 0 /\ got[j] = 0 /\ ~closed[j]
       /\ feed[j] = "off" /\ untar[j] = "off" /\ j \notin tmp
  /\ untar[j] \in {"running", "ok"} =>
       /\ feed[j] \in {"reading", "holding", "eof"}
       /\ sent[j] = got[j] + B(pc[j] = "write") + B(feed[j] = "holding")
  /\ untar[j] = "ok" => feed[j] = "eof"
  /\ feed[j] = "eof" => closed[j]
  /\ closed[j] => pc[j] \notin {"idle", "stat", "copy", "write"}

\* A commit that sees the end of its archive has all of it.
Whole(j) ==
  /\ op[j] = "commit" /\ pc[j] # "done" =>
       /\ tar[j] = "ok" \/ src[j] = "eof" => sent[j] = Members
       /\ pc[j] = "rename" => got[j] = Members
       /\ pc[j] \in {"insert", "path", "commit"} => layer[j] = Members
  /\ pc[j] = "wait" => src[j] = "eof"
  /\ pc[j] \in {"insert", "path", "commit"} => layer[j] # NoLayer

\* What is left of AddLayer.
Cleared(j) ==
  /\ pc[j] \in {"rename", "insert", "path", "commit"} => untar[j] = "taken"
  /\ pc[j] = "remove" => untar[j] = "taken" \/ src[j] = "error"
  /\ pc[j] \in {"insert", "path", "commit"} => j \notin tmp
  /\ answer[j] # "none" /\ src[j] # "error" =>
       untar[j] \in {"off", "taken"} /\ (j \in tmp => j \in unremoved)
  /\ closed[j] => src[j] # "open"
  /\ src[j] # "open" => tar[j] # "running"

JobInv(j) == Answered(j) /\ Flow(j) /\ Whole(j) /\ Cleared(j)

\* The rows of the table images.
Rows ==
  /\ Base \in images /\ parent[Base] = NoImage
  /\ \A i \in images : /\ HasLayers(i)
                       /\ parent[i] # NoImage => layer[i] = Members

IInv == TypeOK /\ Rows /\ \A j \in Job : JobInv(j)

\* An empty store satisfies the invariant.
LEMMA InitInv == Init => IInv
<1> SUFFICES ASSUME Init PROVE IInv
  OBVIOUS
<1> USE ImagesAssumption DEF ImagesAssumption
<1>1. TypeOK
  BY DEF Init, TypeOK, Pc, Image, NoJob
<1>2. Rows
  BY DEF Init, Rows, HasLayers, Image, NoLayer
<1>3. \A j \in Job : JobInv(j)
  BY DEF Init, JobInv, Answered, Flow, Whole, Cleared, Image, B
<1> QED BY <1>1, <1>2, <1>3 DEF IInv

\* What a job is to its own invariant.
Same(k) ==
  /\ pc'[k] = pc[k] /\ op'[k] = op[k] /\ parent'[k] = parent[k]
  /\ answer'[k] = answer[k] /\ tar'[k] = tar[k] /\ src'[k] = src[k]
  /\ sent'[k] = sent[k] /\ got'[k] = got[k] /\ closed'[k] = closed[k]
  /\ feed'[k] = feed[k] /\ untar'[k] = untar[k] /\ layer'[k] = layer[k]
  /\ (k \in tmp') = (k \in tmp) /\ (k \in unremoved') = (k \in unremoved)
  /\ (k \in images') = (k \in images)

\* A step that leaves the variables of the layers alone keeps it.
LEMMA SameKeeps ==
  ASSUME NEW k \in Job, JobInv(k), Same(k),
         images \subseteq images', paths \subseteq paths'
  PROVE  JobInv(k)'
BY DEF JobInv, Answered, Flow, Whole, Cleared, Same, B

\* Rows that are there stay, with their layers.
LEMMA RowsKept ==
  ASSUME Rows, images' = images, UNCHANGED <<parent, layer>>
  PROVE  Rows'
BY DEF Rows, HasLayers

-----------------------------------------------------------------------------
\* A new command keeps it: its handler owns nothing yet.
LEMMA CommandInv ==
  ASSUME IInv, NEW j \in Job, Command(j)
  PROVE  IInv'
<1> USE ImagesAssumption DEF ImagesAssumption
<1> USE DEF IInv, Command, CmdImport, CmdCommit, Go, unpack, dirs, db
<1>1. TypeOK'
  BY DEF TypeOK, Pc
<1>2. Rows'
  <2>1. j \notin images /\ j # Base
    BY DEF JobInv, Answered
  <2> QED BY <2>1 DEF Rows, HasLayers, TypeOK, Image
<1>3. JobInv(j)'
  <2>1. pc[j] = "idle" /\ answer[j] = "none" /\ j \notin images
        /\ src[j] = "open" /\ tar[j] = "off"
    BY DEF JobInv, Answered
  <2>2. Answered(j)'
    <3>1. CASE CmdImport(j)
      BY <2>1, <3>1 DEF TypeOK, JobInv, Answered
    <3>2. CASE CmdCommit(j)
      <4>1. parent'[j] \in images /\ op'[j] = "commit" /\ pc'[j] = "stat"
        BY <3>2 DEF TypeOK, Image
      <4> QED BY <2>1, <4>1 DEF Answered
    <3> QED BY <3>1, <3>2
  <2>3. (Flow(j) /\ Cleared(j))'
    BY <2>1 DEF TypeOK, JobInv, Flow, Cleared, B
  <2>4. Whole(j)'
    BY <2>1 DEF TypeOK, JobInv, Answered, Whole
  <2> QED BY <2>2, <2>3, <2>4 DEF JobInv
<1>4. \A k \in Job \ {j} : Same(k)
  BY DEF TypeOK, Same, Image
<1> QED BY <1>1, <1>2, <1>3, <1>4, SameKeeps

\* A step of CmdCp keeps it.
LEMMA CpInv ==
  ASSUME IInv, NEW i \in Image, NEW n \in Name, CmdCp(i, n)
  PROVE  IInv'
<1> USE DEF IInv, CmdCp, command, source, unpack, dirs
<1>1. TypeOK'
  BY DEF TypeOK
<1>2. \A k \in Job : Same(k)
  BY DEF Same
<1> QED BY <1>1, <1>2, SameKeeps, RowsKept

\* A step of the source of an archive keeps it.
LEMMA SourceInv ==
  ASSUME IInv, NEW j \in Job, Source(j) \/ SourceFails(j)
  PROVE  IInv'
<1> USE DEF IInv, Source, SourceFails, SourceFrame, command, unpack, dirs, db
<1>1. TypeOK'
  BY DEF TypeOK, DownloadEnds, DownloadBreaks, TarEnds, TarFails, CmdStream
<1>2. \A k \in Job \ {j} : Same(k)
  BY DEF TypeOK, Same, DownloadEnds, DownloadBreaks, TarEnds, TarFails, CmdStream
<1>3. JobInv(j)'
  <2>1. CASE DownloadEnds(j) \/ DownloadBreaks(j)
    BY <2>1 DEF TypeOK, JobInv, Answered, Flow, Whole, Cleared, B,
                DownloadEnds, DownloadBreaks, Downloads
  <2>2. CASE TarEnds(j) \/ TarFails(j)
    BY <2>2 DEF TypeOK, JobInv, Answered, Flow, Whole, Cleared, B,
                TarEnds, TarFails
  <2>3. CASE CmdStream(j)
    BY <2>3 DEF TypeOK, JobInv, Answered, Flow, Whole, Cleared, B, CmdStream
  <2> QED BY <2>1, <2>2, <2>3
<1> QED BY <1>1, <1>2, <1>3, SameKeeps, RowsKept

\* A step of the copier or of the untar, into a temporary directory, keeps it.
LEMMA UntarInv ==
  ASSUME IInv, NEW j \in Job, Copier(j) \/ Untar(j) \/ UntarFails(j)
  PROVE  IInv'
<1> USE ImagesAssumption DEF ImagesAssumption
<1> USE DEF IInv, Copier, Untar, UntarFails, UntarFrame, command, source,
            dirs, db
<1>1. TypeOK'
  <2>1. CASE FeedUntar(j)
    <3>1. got[j] + 1 \in 0..Members
      BY <2>1 DEF FeedUntar, TypeOK, JobInv, Flow, B
    <3> QED BY <2>1, <3>1 DEF FeedUntar, TypeOK
  <2> QED BY <2>1 DEF TypeOK, FeedBreaks, FeedEnds, UntarEnds, UntarBreaks
<1>2. \A k \in Job \ {j} : Same(k)
  BY DEF TypeOK, Same, FeedUntar, FeedBreaks, FeedEnds, UntarEnds, UntarBreaks
<1>3. JobInv(j)'
  <2>1. CASE FeedUntar(j)
    BY <2>1 DEF TypeOK, JobInv, Answered, Flow, Whole, Cleared, B, FeedUntar
  <2>2. CASE FeedBreaks(j) \/ FeedEnds(j)
    BY <2>2 DEF TypeOK, JobInv, Answered, Flow, Whole, Cleared, B,
                FeedBreaks, FeedEnds
  <2>3. CASE UntarEnds(j) \/ UntarBreaks(j)
    BY <2>3 DEF TypeOK, JobInv, Answered, Flow, Whole, Cleared, B,
                UntarEnds, UntarBreaks
  <2> QED BY <2>1, <2>2, <2>3
<1> QED BY <1>1, <1>2, <1>3, SameKeeps, RowsKept

\* No image of the table is that of a job that has not answered, so that the
\* rows do not change with the layer of one.
LEMMA RowsApart ==
  ASSUME IInv, NEW j \in Job, pc[j] # "done",
         images' = images, parent' = parent,
         \A i \in Image \ {j} : layer'[i] = layer[i]
  PROVE  Rows'
<1>1. j \notin images /\ images \subseteq Image
  BY DEF IInv, TypeOK, JobInv, Answered
<1> QED BY <1>1 DEF IInv, Rows, HasLayers

\* What a step of AddLayer makes of its job is left to show.
LEMMA AddLayerFramed ==
  ASSUME IInv, NEW j \in Job, AddLayer(j) \/ AddLayerFails(j)
  PROVE  /\ TypeOK' /\ Rows'
         /\ \A k \in Job \ {j} : Same(k)
         /\ UNCHANGED <<images, paths, command, source>>
<1> USE ImagesAssumption DEF ImagesAssumption
<1>0. /\ UNCHANGED <<images, paths, lock, op, parent, tar, src, got, crashes>>
      /\ UNCHANGED <<command, source>>
  BY DEF AddLayer, AddLayerFails, AddLayerFrame, command, source, db
<1>9. unremoved' \subseteq Job
      /\ \A k \in Job \ {j} : (k \in unremoved') = (k \in unremoved)
  BY DEF AddLayer, AddLayerFails, RemoveFails, IInv, TypeOK
<1> USE <1>0, <1>9 DEF IInv, Go, Fail
<1>1. CASE Mktemp(j) \/ MktempFails(j)
  BY <1>1, RowsKept DEF TypeOK, Pc, Same, Mktemp, MktempFails
<1>2. CASE CopyRead(j)
  <2>1. sent[j] + 1 \in 0..Members
    BY <1>2 DEF CopyRead, Offers, TypeOK
  <2> QED BY <1>2, <2>1, RowsKept DEF TypeOK, Pc, Same, CopyRead
<1>3. CASE CopyWrite(j)
  BY <1>3, RowsKept DEF TypeOK, Pc, Same, CopyWrite
<1>7. CASE CopyEnd(j)
  <2>1. TypeOK'
    BY <1>7 DEF TypeOK, Pc, CopyEnd
  <2>2. Rows'
    BY <1>7, RowsKept DEF CopyEnd
  <2> QED BY <1>7, <2>1, <2>2 DEF TypeOK, Same, CopyEnd
<1>6. CASE Wait(j)
  BY <1>6, RowsKept DEF TypeOK, Pc, Same, Wait
<1>5. CASE RenameFails(j) \/ Remove(j) \/ RemoveFails(j)
  BY <1>5, RowsKept DEF TypeOK, Pc, Same, RenameFails, Remove, RemoveFails
<1>4. CASE Rename(j)
  <2>1. Rows'
    BY <1>4, RowsApart DEF Rename, TypeOK, Image
  <2> QED BY <1>4, <2>1 DEF TypeOK, Pc, Same, Rename, Image
<1> QED BY <1>1, <1>2, <1>3, <1>4, <1>5, <1>6, <1>7 DEF AddLayer, AddLayerFails

\* A step of AddLayer, the rename into place among them, keeps it.
LEMMA AddLayerInv ==
  ASSUME IInv, NEW j \in Job, AddLayer(j) \/ AddLayerFails(j)
  PROVE  IInv'
<1> USE DEF IInv
<1>0. /\ UNCHANGED <<images, paths>> /\ UNCHANGED <<op, parent, tar, src>>
      /\ UNCHANGED got
  BY DEF AddLayer, AddLayerFails, AddLayerFrame, command, source, db
<1>1. JobInv(j)'
  <2>1. CASE Mktemp(j) \/ MktempFails(j)
    BY <1>0, <2>1 DEF TypeOK, JobInv, Answered, Flow, Whole, Cleared, B, Go, Fail,
                      Mktemp, MktempFails
  <2>2. CASE CopyRead(j)
    BY <1>0, <2>2 DEF TypeOK, JobInv, Answered, Flow, Whole, Cleared, B, Go,
                      CopyRead, Offers
  <2>3. CASE CopyWrite(j)
    BY <1>0, <2>3 DEF TypeOK, JobInv, Answered, Flow, Whole, Cleared, B, Go,
                      CopyWrite
  <2>4. CASE CopyEnd(j)
    BY <1>0, <2>4 DEF TypeOK, JobInv, Answered, Flow, Whole, Cleared, B, Go,
                      CopyEnd
  <2>5. CASE Wait(j)
    BY <1>0, <2>5 DEF TypeOK, JobInv, Answered, Flow, Whole, Cleared, B, Go,
                      Wait, Returned
  <2>6. CASE Rename(j)
    <3>1. /\ pc[j] = "rename" /\ pc'[j] = "insert" /\ layer'[j] = got[j]
          /\ got[j] \in 0..Members /\ j \notin tmp'
          /\ UNCHANGED <<answer, sent, closed, feed, untar>>
      BY <2>6 DEF Rename, Go, TypeOK, Image
    <3>2. got[j] # NoLayer
      BY <3>1, ImagesAssumption DEF ImagesAssumption, NoLayer
    <3>3. Answered(j)' /\ Flow(j)'
      BY <1>0, <3>1 DEF JobInv, Answered, Flow, B
    <3>4. Whole(j)' /\ Cleared(j)'
      BY <1>0, <3>1, <3>2 DEF JobInv, Answered, Whole, Cleared
    <3> QED BY <3>3, <3>4 DEF JobInv
  <2>8. CASE RenameFails(j)
    BY <1>0, <2>8 DEF TypeOK, JobInv, Answered, Flow, Whole, Cleared, B, Go,
                      RenameFails
  <2>7. CASE Remove(j)
    <3>1. /\ pc[j] = "remove" /\ pc'[j] = "done" /\ answer'[j] = "error"
          /\ untar[j] = "running" \/ j \notin tmp'
          /\ UNCHANGED <<sent, closed, feed, untar, layer>>
      BY <2>7 DEF Remove, Fail, TypeOK
    <3>2. Answered(j)' /\ Flow(j)'
      BY <1>0, <3>1 DEF JobInv, Answered, Flow, B
    <3>3. Whole(j)' /\ Cleared(j)'
      BY <1>0, <3>1 DEF JobInv, Whole, Cleared
    <3> QED BY <3>2, <3>3 DEF JobInv
  <2>9. CASE RemoveFails(j)
    <3>1. /\ pc[j] = "remove" /\ pc'[j] = "done" /\ answer'[j] = "error"
          /\ j \in unremoved'
          /\ UNCHANGED <<sent, closed, feed, untar, tmp, layer>>
      BY <2>9 DEF RemoveFails, Fail, TypeOK
    <3>2. Answered(j)' /\ Flow(j)'
      BY <1>0, <3>1 DEF JobInv, Answered, Flow, B
    <3>3. Whole(j)' /\ Cleared(j)'
      BY <1>0, <3>1 DEF JobInv, Whole, Cleared
    <3> QED BY <3>2, <3>3 DEF JobInv
  <2> QED BY <2>1, <2>2, <2>3, <2>4, <2>5, <2>6, <2>7, <2>8, <2>9
         DEF AddLayer, AddLayerFails
<1> QED BY <1>0, <1>1, AddLayerFramed, SameKeeps

\* A step of the insertion of an image in the index keeps it.
LEMMA InsertInv ==
  ASSUME IInv, NEW j \in Job, Insert(j) \/ InsertFails(j)
  PROVE  IInv'
<1> USE ImagesAssumption DEF ImagesAssumption
<1>0. /\ UNCHANGED <<op, parent, tar, src, sent, closed, feed, untar>>
      /\ UNCHANGED <<got, tmp, unremoved, layer, crashes>>
  BY DEF Insert, InsertFails, InsertFrame, command, source, unpack, dirs
<1> USE <1>0 DEF IInv, db, Go, Fail
<1>1. CASE InsertImage(j) \/ InsertPath(j)
  <2>1. TypeOK' /\ Rows' /\ \A k \in Job \ {j} : Same(k)
    BY <1>1, RowsKept DEF TypeOK, Pc, Same, InsertImage, InsertPath
  <2>2. JobInv(j)'
    <3>1. /\ pc[j] \in {"insert", "path"} /\ pc'[j] \in {"path", "commit"}
          /\ UNCHANGED <<answer, images, paths>>
      BY <1>1 DEF TypeOK, InsertImage, InsertPath
    <3>2. Answered(j)' /\ Flow(j)'
      BY <1>0, <3>1 DEF JobInv, Answered, Flow, B
    <3>3. Whole(j)' /\ Cleared(j)'
      BY <1>0, <3>1 DEF JobInv, Whole, Cleared
    <3> QED BY <3>2, <3>3 DEF JobInv
  <2> QED BY <1>1, <2>1, <2>2, SameKeeps DEF InsertImage, InsertPath
<1>2. CASE InsertTimesOut(j) \/ InsertBreaks(j) \/ CommitBreaks(j)
  <2> USE DEF InsertTimesOut, InsertBreaks, CommitBreaks
  <2>1. TypeOK' /\ Rows' /\ \A k \in Job \ {j} : Same(k)
    BY <1>2, RowsKept DEF TypeOK, Pc, Same
  <2>2. JobInv(j)'
    BY <1>2 DEF TypeOK, JobInv, Answered, Flow, Whole, Cleared, B
  <2> QED BY <1>2, <2>1, <2>2, SameKeeps
<1>3. CASE Commit(j)
  <2> USE <1>3 DEF Commit
  <2>0. /\ pc' \in [Job -> Pc] /\ answer' \in [Job -> {"none", "id", "error"}]
        /\ images' \subseteq Image /\ paths' \subseteq Name \X Image
        /\ lock' \in Job \union {NoJob}
    BY DEF TypeOK, Pc, Image
  <2>1. TypeOK'
    <3> HIDE DEF Commit
    <3> QED BY <1>0, <2>0 DEF TypeOK
  <2>2. \A k \in Job \ {j} : Same(k)
    BY DEF TypeOK, Same
  <2>3. /\ layer[j] # NoLayer /\ parent[j] \in images \union {NoImage}
        /\ parent[j] # NoImage => layer[j] = Members
    <3>1. pc[j] = "commit" /\ op[j] \in {"import", "commit"}
      BY DEF TypeOK
    <3>2. Answered(j) /\ Whole(j)
      BY DEF JobInv
    <3> HIDE DEF Commit
    <3> QED BY <3>1, <3>2 DEF Answered, Whole
  <2>4. Rows'
    BY <2>3 DEF Rows, HasLayers
  <2>5. JobInv(j)'
    <3>1. /\ pc[j] = "commit" /\ pc'[j] = "done" /\ answer'[j] = "id"
          /\ j \in images' /\ <<Clean[Dest[j]], j>> \in paths'
          /\ images \subseteq images'
      BY DEF TypeOK
    <3> HIDE DEF Commit
    <3>2. Answered(j)'
      BY <1>0, <3>1 DEF JobInv, Answered
    <3>3. Flow(j)'
      BY <1>0, <3>1 DEF JobInv, Flow, B
    <3>4. Whole(j)' /\ Cleared(j)'
      BY <1>0, <3>1 DEF JobInv, Whole, Cleared
    <3> QED BY <3>2, <3>3, <3>4 DEF JobInv
  <2> QED BY <2>1, <2>2, <2>4, <2>5, SameKeeps
<1> QED BY <1>1, <1>2, <1>3 DEF Insert, InsertFails

\* The death of the daemon keeps it.
LEMMA CrashInv == ASSUME IInv, Crash PROVE IInv'
<1> USE ImagesAssumption DEF ImagesAssumption
<1> USE DEF IInv, Crash, command, dirs
<1>1. TypeOK'
  BY DEF TypeOK, Pc
<1>2. \A k \in Job : JobInv(k)'
  BY DEF TypeOK, JobInv, Answered, Flow, Whole, Cleared, B
<1> QED BY <1>1, <1>2, RowsKept

\* So every step of the system keeps it.
LEMMA NextInv == ASSUME IInv, Next PROVE IInv'
<1>1. ASSUME NEW j \in Job,
             Command(j) \/ Create(j) \/ Source(j) \/ Copier(j) \/ Untar(j) \/ Fails(j)
      PROVE  IInv'
  BY <1>1, CommandInv, AddLayerInv, InsertInv, SourceInv, UntarInv
     DEF Create, Fails
<1> QED BY <1>1, CpInv, CrashInv DEF Next

\* A stutter keeps it.
LEMMA StutterInv == ASSUME IInv, UNCHANGED vars PROVE IInv'
<1>1. TypeOK' /\ Rows'
  BY RowsKept DEF IInv, vars, TypeOK
<1>2. \A k \in Job : Same(k)
  BY DEF vars, Same
<1> QED BY <1>1, <1>2, SameKeeps DEF IInv, vars

\* The inductive invariant holds in every state of the image store.
THEOREM ImagesInv == Spec => []IInv
<1>1. Init => IInv
  BY InitInv
<1>2. IInv /\ [Next]_vars => IInv'
  BY NextInv, StutterInv
<1> QED BY <1>1, <1>2, PTL DEF Spec

-----------------------------------------------------------------------------
\* Every variable keeps to its type.
THEOREM ImagesTypeOK == Spec => []TypeOK
BY ImagesInv, PTL DEF IInv

\* Every image of the table has its layer and a parent that is in the table
\* too, whatever failed or died while images were made: the layer is in place
\* before the transaction, and a layer that is in place never goes
\* (layers.go:119-125, store.go:146-168).
THEOREM ImagesMountable == Spec => []ImagesHaveLayers
<1>1. IInv => ImagesHaveLayers
  BY DEF IInv, Rows, ImagesHaveLayers
<1> QED BY <1>1, ImagesInv, PTL

\* An id is answered only for an image that is listed under its name, an error
\* only for one that was not made (store.go:150-168).
THEOREM AnswersTrue == Spec => []AnswerIsTrue
<1>1. IInv => AnswerIsTrue
  BY DEF IInv, JobInv, Answered, AnswerIsTrue, List
<1> QED BY <1>1, ImagesInv, PTL

\* Of a create that had its temporary directory and was answered, the source of
\* the archive is at an end, and only a failed copy leaves an untar behind, only
\* that or a failed RemoveAll the directory (layers.go:87-126).
THEOREM NothingLeft == Spec => []LeavesNothing
<1>1. IInv => LeavesNothing
  BY DEF IInv, JobInv, Cleared, LeavesNothing
<1> QED BY <1>1, ImagesInv, PTL

-----------------------------------------------------------------------------
(* The refinement.  Only Commit and CmdCp change what is seen.              *)

\* The empty store maps to the empty abstract store.
LEMMA SeenInit == Init => Store!Init
<1> SUFFICES ASSUME Init PROVE Store!Init
  OBVIOUS
<1> USE ImagesAssumption DEF ImagesAssumption, Init
<1>1. Seen = [i \in Image |-> IF i = Base
                             THEN [members |-> Members, parent |-> NoImage]
                             ELSE Absent]
  BY DEF Seen
<1>2. \E n \in Name : paths = {<<n, Base>>}
  OBVIOUS
<1> QED BY <1>1, <1>2 DEF Store!Init

\* The layer and the parent of an image of the table stay as they are.
LEMMA SeenKept ==
  ASSUME IInv, images' = images,
         \A i \in images : layer'[i] = layer[i] /\ parent'[i] = parent[i]
  PROVE  Seen' = Seen
BY DEF Seen

\* A committed insertion is the abstract creation of an image.
LEMMA CommitCreates ==
  ASSUME IInv, NEW j \in Job, Commit(j), InsertFrame
  PROVE  Store!Create(j, Clean[Dest[j]])
<1> USE ImagesAssumption DEF ImagesAssumption
<1> DEFINE e == [members |-> layer[j], parent |-> parent[j]]
<1>1. /\ pc[j] = "commit" /\ images' = images \union {j}
      /\ paths' = paths \union {<<Clean[Dest[j]], j>>}
      /\ UNCHANGED <<layer, parent>>
  BY DEF Commit, Go, InsertFrame, command
<1>2. j \notin images /\ j \in Image
  BY <1>1 DEF IInv, JobInv, Answered, Image
<1>3. /\ layer[j] \in 0..Members /\ parent[j] \in Image \union {NoImage}
      /\ parent[j] # NoImage => layer[j] = Members /\ parent[j] \in images
  <2>1. /\ layer[j] \in 0..Members \union {NoLayer}
        /\ parent[j] \in Image \union {NoImage} /\ op[j] \in {"import", "commit"}
    BY <1>2 DEF IInv, TypeOK
  <2>2. Answered(j) /\ Whole(j)
    BY DEF IInv, JobInv
  <2> QED BY <1>1, <2>1, <2>2 DEF Answered, Whole
<1>4. Seen[j] = Absent
  BY <1>2 DEF Seen
<1>5. Seen' = [Seen EXCEPT ![j] = e]
  BY <1>1, <1>2 DEF Seen
<1>6. e \in Store!Entry
  BY <1>3 DEF Store!Entry
<1>7. \A i \in images : i \in Store!Stored
  <2> SUFFICES ASSUME NEW i \in images PROVE i \in Store!Stored
    OBVIOUS
  <2>1. i \in Image /\ layer[i] \in 0..Members
        /\ parent[i] \in Image \union {NoImage}
    BY DEF IInv, TypeOK, Rows, HasLayers
  <2>2. Seen[i] = [members |-> layer[i], parent |-> parent[i]]
    BY <2>1 DEF Seen
  <2>3. Seen[i] # Absent
    BY <2>1, <2>2
  <2> QED BY <2>1, <2>3 DEF Store!Stored
<1> QED BY <1>1, <1>3, <1>4, <1>5, <1>6, <1>7 DEF Store!Create

\* A successful CmdCp is the abstract copy.
LEMMA CpCopies ==
  ASSUME IInv, NEW i \in Image, NEW n \in Name, CmdCp(i, n)
  PROVE  Store!Copy(i, n)
<1> USE ImagesAssumption DEF ImagesAssumption
<1>1. /\ i \in images /\ paths' = paths \union {<<n, i>>}
      /\ UNCHANGED <<images, layer, parent>>
  BY DEF CmdCp, command
<1>2. layer[i] \in 0..Members /\ parent[i] \in Image \union {NoImage}
  BY <1>1 DEF IInv, TypeOK, Rows, HasLayers
<1>3. Seen[i] # Absent
  BY <1>1, <1>2 DEF Seen
<1>4. Seen' = Seen
  BY <1>1 DEF Seen
<1> QED BY <1>1, <1>3, <1>4 DEF Store!Copy

\* Every other step leaves what the abstract store shows unchanged.
LEMMA OthersStutter ==
  ASSUME IInv, [Next]_vars, \A j \in Job : ~(Commit(j) /\ InsertFrame),
         \A i \in Image, n \in Name : ~CmdCp(i, n)
  PROVE  UNCHANGED <<Seen, paths>>
<1> SUFFICES ASSUME TRUE
    PROVE /\ UNCHANGED <<images, paths>>
          /\ \A i \in images : layer'[i] = layer[i] /\ parent'[i] = parent[i]
  BY SeenKept
<1> USE DEF IInv
<1>1. ASSUME NEW j \in Job, Command(j)
      PROVE /\ UNCHANGED <<images, paths>>
            /\ \A i \in images : layer'[i] = layer[i] /\ parent'[i] = parent[i]
  <2>1. j \notin images /\ images \subseteq Image
    BY <1>1 DEF Command, CmdImport, CmdCommit, Go, JobInv, Answered, TypeOK
  <2>2. /\ UNCHANGED <<images, paths, layer>>
        /\ \A i \in Image \ {j} : parent'[i] = parent[i]
    BY <1>1 DEF Command, CmdImport, CmdCommit, db, TypeOK
  <2> QED BY <2>1, <2>2
<1>2. ASSUME NEW j \in Job, AddLayer(j) \/ AddLayerFails(j)
      PROVE /\ UNCHANGED <<images, paths>>
            /\ \A i \in images : layer'[i] = layer[i] /\ parent'[i] = parent[i]
  <2>1. UNCHANGED <<images, paths, parent>> /\ \A k \in Job \ {j} : Same(k)
    BY <1>2, AddLayerFramed DEF command
  <2>2. layer'[Base] = layer[Base]
    BY <1>2, ImagesAssumption
       DEF ImagesAssumption, AddLayer, AddLayerFails, Mktemp, MktempFails, CopyRead,
           CopyWrite, CopyEnd, Wait, Rename, RenameFails, Remove, RemoveFails,
           TypeOK, Image
  <2>3. CASE j \in images
    <3>1. ~Rename(j)
      BY <2>3 DEF Rename, Go, JobInv, Answered
    <3>2. UNCHANGED layer
      BY <1>2, <3>1
         DEF AddLayer, AddLayerFails, Mktemp, MktempFails, CopyRead, CopyWrite,
             CopyEnd, Wait, RenameFails, Remove, RemoveFails
    <3> QED BY <2>1, <3>2
  <2>4. CASE j \notin images
    BY <2>1, <2>2, <2>4 DEF Same, TypeOK, Image
  <2> QED BY <2>3, <2>4
<1>3. ASSUME NEW j \in Job, Insert(j) \/ InsertFails(j)
      PROVE UNCHANGED <<images, paths, layer, parent>>
  BY <1>3 DEF Insert, InsertFails, InsertImage, InsertTimesOut, InsertPath,
              InsertBreaks, CommitBreaks, InsertFrame, command, db
<1>4. ASSUME NEW j \in Job,
             Source(j) \/ SourceFails(j) \/ Copier(j) \/ Untar(j) \/ UntarFails(j)
      PROVE UNCHANGED <<images, paths, layer, parent>>
  BY <1>4 DEF Source, SourceFails, SourceFrame, Copier, Untar, UntarFails,
              UntarFrame, command, db
<1>5. ASSUME Crash \/ UNCHANGED vars
      PROVE UNCHANGED <<images, paths, layer, parent>>
  BY <1>5 DEF Crash, command, vars
<1> QED BY <1>1, <1>2, <1>3, <1>4, <1>5 DEF Next, Create, Fails

\* The store implements ImageStore: whatever the goroutines, the processes and
\* the deaths of the daemon do, an image appears whole, with its name and on a
\* parent that is there, in the one step of COMMIT, and never changes after.
THEOREM ImagesImplementsStore == Spec => IsImageStore
<1>1. Init => Store!Init
  BY SeenInit
<1>2. IInv /\ [Next]_vars => [Store!Next]_<<Seen, paths>>
  <2> SUFFICES ASSUME IInv, [Next]_vars PROVE [Store!Next]_<<Seen, paths>>
    OBVIOUS
  <2>1. CASE \E j \in Job : Commit(j) /\ InsertFrame
    <3>1. PICK j \in Job : Commit(j) /\ InsertFrame
      BY <2>1
    <3> QED BY <3>1, CommitCreates, ImagesAssumption
               DEF ImagesAssumption, Image, Store!Next
  <2>2. CASE \E i \in Image, n \in Name : CmdCp(i, n)
    BY <2>2, CpCopies DEF Store!Next
  <2>3. CASE /\ \A j \in Job : ~(Commit(j) /\ InsertFrame)
             /\ \A i \in Image, n \in Name : ~CmdCp(i, n)
    BY <2>3, OthersStutter
  <2> QED BY <2>1, <2>2, <2>3
<1> QED BY <1>1, <1>2, ImagesInv, PTL DEF Spec, IsImageStore, Store!Spec
-----------------------------------------------------------------------------
(* The safety in CreateEnds: a create that has begun can go on, and has only *)
(* so many steps left.                                                       *)

\* How many more steps a command can take from p without copying a member,
\* the copier of Untar's stdin from f, and bsdtar from u; a member that is
\* still to be read takes four.
Steps(p) ==
  CASE p = "idle" -> 20 [] p = "stat" -> 16 [] p = "write" -> 8
    [] p = "copy" -> 6 [] p = "wait" -> 5 [] p = "rename" -> 4
    [] p = "insert" -> 3 [] p = "path" -> 2
    [] p \in {"remove", "commit"} -> 1 [] OTHER -> 0

FeedSteps(f) == CASE f = "holding" -> 3 [] f = "reading" -> 2 [] OTHER -> 0

UntarSteps(u) == CASE u = "running" -> 2 [] u \in {"ok", "failed"} -> 1 [] OTHER -> 0

Left(j) ==
  Steps(pc[j]) + 4 * (Members - sent[j]) + FeedSteps(feed[j])
  + UntarSteps(untar[j]) + B(tar[j] = "running") + B(src[j] = "open")

Works(j) ==
  Command(j) \/ Create(j) \/ Source(j) \/ Copier(j) \/ Untar(j) \/ Fails(j)

StepsFall ==
  \A j \in Job : Left(j)' =< Left(j) /\ (Works(j) => Left(j)' < Left(j))

\* The guards of Create, Source, Copier and Untar.
CreateCan(j) ==
  \/ pc[j] \in {"stat", "rename", "remove", "path", "commit"}
  \/ pc[j] = "copy" /\ (Offers(j) \/ src[j] # "open")
  \/ pc[j] = "write" /\ feed[j] = "reading"
  \/ pc[j] = "wait" /\ Returned(j)
  \/ pc[j] = "insert" /\ (lock = NoJob \/ pc[lock] = "done")

SourceCan(j) ==
  \/ Downloads(j) /\ sent[j] = Members
  \/ tar[j] = "running" /\ sent[j] = Members
  \/ src[j] = "open" /\ tar[j] \in {"ok", "failed"}

CopierCan(j) ==
  \/ feed[j] = "holding" /\ untar[j] \in {"running", "failed"}
  \/ feed[j] = "reading" /\ closed[j]

UntarCan(j) == untar[j] = "running" /\ feed[j] = "eof"

Can(j) == CreateCan(j) \/ SourceCan(j) \/ CopierCan(j) \/ UntarCan(j)

\* A create that has begun and is not done can go on, unless it is stuck in
\* one of the two known ways, or waits for the database; then who has that
\* can.
GoesOn ==
  \A j \in Job :
    pc[j] \notin {"idle", "done"} =>
      \/ Can(j) \/ Stuck(j)
      \/ pc[j] = "insert" /\ lock \in Job /\ pc[lock] \in {"path", "commit"}

\* What that needs: who has the database, and what runs beside a create.
Started(j) ==
  /\ pc[j] \in {"copy", "write", "wait"} =>
       untar[j] \in {"running", "ok", "failed"} /\ feed[j] # "off"
  /\ pc[j] = "wait" => closed[j]
  /\ op[j] = "commit" /\ pc[j] # "done" => tar[j] # "off"

Locked == lock # NoJob => pc[lock] \in {"path", "commit", "done"}

GInv == IInv /\ Locked /\ \A j \in Job : Started(j)

\* At first nobody has the database, and nothing runs.
LEMMA InitGoing == Init => Locked /\ \A j \in Job : Started(j)
BY DEF Init, Locked, Started

\* A step of another job leaves all this of a job alone.
LEMMA WorksAlone ==
  ASSUME IInv, NEW j \in Job, Works(j), NEW k \in Job, k # j
  PROVE  /\ pc'[k] = pc[k] /\ op'[k] = op[k] /\ tar'[k] = tar[k]
         /\ src'[k] = src[k] /\ sent'[k] = sent[k] /\ closed'[k] = closed[k]
         /\ feed'[k] = feed[k] /\ untar'[k] = untar[k]
<1> USE DEF IInv, TypeOK, Go, Fail
<1>1. CASE Command(j)
  BY <1>1 DEF Command, CmdImport, CmdCommit, unpack
<1>2. CASE AddLayer(j) \/ AddLayerFails(j)
  BY <1>2 DEF AddLayer, AddLayerFails, AddLayerFrame, command, source, Mktemp,
              MktempFails, CopyRead, CopyWrite, CopyEnd, Wait, Rename, RenameFails,
              Remove, RemoveFails
<1>3. CASE Insert(j) \/ InsertFails(j)
  BY <1>3 DEF Insert, InsertFails, InsertFrame, command, source, unpack,
              InsertImage, InsertTimesOut, InsertPath, Commit, InsertBreaks,
              CommitBreaks
<1>4. CASE Source(j) \/ SourceFails(j)
  BY <1>4 DEF Source, SourceFails, SourceFrame, command, unpack, DownloadEnds,
              DownloadBreaks, TarEnds, TarFails, CmdStream
<1>5. CASE Copier(j) \/ Untar(j) \/ UntarFails(j)
  BY <1>5 DEF Copier, Untar, UntarFails, UntarFrame, command, source, FeedUntar,
              FeedBreaks, FeedEnds, UntarEnds, UntarBreaks
<1> QED BY <1>1, <1>2, <1>3, <1>4, <1>5 DEF Works, Create, Fails

\* A step of the job keeps what it has started: Mktemp starts the untar before there is
\* anything to copy, and its end is taken by Wait alone.
LEMMA WorksStarted ==
  ASSUME IInv, NEW j \in Job, Works(j), Started(j)
  PROVE  Started(j)'
<1> USE DEF IInv, TypeOK, Go, Fail, Started
<1>1. CASE Command(j)
  <2>1. pc'[j] = "stat" /\ (op'[j] = "commit" => tar'[j] # "off")
    BY <1>1 DEF Command, CmdImport, CmdCommit, JobInv, Answered
  <2> QED BY <2>1
<1>2. CASE AddLayer(j) \/ AddLayerFails(j)
  BY <1>2 DEF AddLayer, AddLayerFails, AddLayerFrame, command, source, Mktemp,
              MktempFails, CopyRead, CopyWrite, CopyEnd, Wait, Rename, RenameFails,
              Remove, RemoveFails
<1>3. CASE Insert(j) \/ InsertFails(j)
  BY <1>3 DEF Insert, InsertFails, InsertFrame, command, source, unpack,
              InsertImage, InsertTimesOut, InsertPath, Commit, InsertBreaks,
              CommitBreaks
<1>4. CASE Source(j) \/ SourceFails(j)
  BY <1>4 DEF Source, SourceFails, SourceFrame, command, unpack, DownloadEnds,
              DownloadBreaks, TarEnds, TarFails, CmdStream
<1>5. CASE Copier(j) \/ Untar(j) \/ UntarFails(j)
  BY <1>5 DEF Copier, Untar, UntarFails, UntarFrame, command, source, FeedUntar,
              FeedBreaks, FeedEnds, UntarEnds, UntarBreaks
<1> QED BY <1>1, <1>2, <1>3, <1>4, <1>5 DEF Works, Create, Fails

\* Who has the database is inserting, or has failed inside its transaction.
LEMMA WorksLocked ==
  ASSUME IInv, Locked, NEW j \in Job, Works(j)
  PROVE  Locked'
<1> USE ImagesAssumption DEF ImagesAssumption
<1> USE DEF IInv, TypeOK, Go, Fail, Locked, NoJob, Image
<1>1. CASE Command(j)
  BY <1>1 DEF Command, CmdImport, CmdCommit, db
<1>2. CASE AddLayer(j) \/ AddLayerFails(j)
  BY <1>2 DEF AddLayer, AddLayerFails, AddLayerFrame, db, Mktemp, MktempFails,
              CopyRead, CopyWrite, CopyEnd, Wait, Rename, RenameFails, Remove,
              RemoveFails
<1>3. CASE Insert(j) \/ InsertFails(j)
  BY <1>3 DEF Insert, InsertFails, db, InsertImage, InsertTimesOut, InsertPath,
              Commit, InsertBreaks, CommitBreaks
<1>4. CASE Source(j) \/ SourceFails(j) \/ Copier(j) \/ Untar(j) \/ UntarFails(j)
  BY <1>4 DEF Source, SourceFails, SourceFrame, Copier, Untar, UntarFails,
              UntarFrame, db
<1> QED BY <1>1, <1>2, <1>3, <1>4 DEF Works, Create, Fails

\* So every step keeps both.
LEMMA NextGoing ==
  ASSUME GInv, Next
  PROVE  Locked' /\ \A j \in Job : Started(j)'
<1>1. CASE \E j \in Job : Works(j)
  <2>1. PICK j \in Job : Works(j)
    BY <1>1
  <2>2. \A k \in Job \ {j} : Started(k)'
    BY <2>1, WorksAlone DEF GInv, Started
  <2> QED BY <2>1, <2>2, WorksLocked, WorksStarted DEF GInv
<1>2. CASE \E i \in Image, n \in Name : CmdCp(i, n)
  BY <1>2 DEF GInv, CmdCp, Locked, Started, command, source, unpack
<1>3. CASE Crash
  BY <1>3 DEF GInv, IInv, TypeOK, Crash, command, Locked, Started, JobInv, Answered
<1> QED BY <1>1, <1>2, <1>3 DEF Next, Works

\* And a stutter.
LEMMA StutterGoing ==
  ASSUME GInv, UNCHANGED vars
  PROVE  Locked' /\ \A j \in Job : Started(j)'
BY DEF GInv, vars, Locked, Started

\* From it, step by step of AddLayer, what can go on.
LEMMA CreateGoesOn ==
  ASSUME GInv
  PROVE  GoesOn
<1> SUFFICES ASSUME NEW j \in Job, pc[j] \notin {"idle", "done"},
                    ~Can(j), ~Stuck(j)
             PROVE  pc[j] = "insert" /\ lock \in Job
                    /\ pc[lock] \in {"path", "commit"}
  BY DEF GoesOn
<1> USE DEF GInv, IInv, TypeOK, Can, CreateCan
<1>1. Started(j) /\ JobInv(j)
  OBVIOUS
<1>2. pc[j] # "copy"
  <2> SUFFICES ASSUME pc[j] = "copy" PROVE FALSE
    OBVIOUS
  <2>1. src[j] = "open" /\ ~Offers(j)
    OBVIOUS
  <2>2. CASE op[j] = "import"
    BY <2>1, <2>2, ImagesAssumption
       DEF SourceCan, Downloads, Offers, ImagesAssumption
  <2>3. CASE op[j] = "commit"
    BY <1>1, <2>1, <2>3, ImagesAssumption
       DEF SourceCan, Offers, Started, Stuck, ImagesAssumption
  <2> QED BY <2>2, <2>3
<1>3. pc[j] # "write"
  BY <1>1 DEF CopierCan, UntarCan, Started, Stuck, JobInv, Flow
<1>4. pc[j] # "wait"
  BY <1>1 DEF CopierCan, UntarCan, Returned, Started, JobInv, Flow
<1>5. pc[j] = "insert" /\ lock # NoJob /\ pc[lock] # "done"
  BY <1>2, <1>3, <1>4 DEF Pc
<1> QED BY <1>5 DEF Locked

\* However its processes, the disk and the database fail, a create that has
\* begun is never left with nothing to wait for, but in the two ways of Stuck:
\* it, its source, its copier or its untar can take a step, or the one that
\* has the database can (layers.go:87-126, archive.go:40-88, store.go:134-168).
THEOREM CreateIsNeverLeft == Spec => []GoesOn
<1>1. Init => GInv
  BY InitInv, InitGoing DEF GInv
<1>2. GInv /\ [Next]_vars => GInv'
  BY NextInv, StutterInv, NextGoing, StutterGoing DEF GInv
<1>3. GInv => GoesOn
  BY CreateGoesOn
<1> QED BY <1>1, <1>2, <1>3, PTL DEF Spec

-----------------------------------------------------------------------------
\* Steps are counted in natural numbers.
LEMMA StepsAreNat ==
  ASSUME NEW p
  PROVE  Steps(p) \in Nat /\ FeedSteps(p) \in Nat /\ UntarSteps(p) \in Nat
BY DEF Steps, FeedSteps, UntarSteps

\* And so are the parts of what a job has left, before a step and after it.
LEMMA LeftParts ==
  ASSUME NEW j \in Job, TypeOK
  PROVE  /\ Steps(pc[j]) \in Nat /\ Steps(pc'[j]) \in Nat
         /\ FeedSteps(feed[j]) \in Nat /\ FeedSteps(feed'[j]) \in Nat
         /\ UntarSteps(untar[j]) \in Nat /\ UntarSteps(untar'[j]) \in Nat
         /\ B(tar[j] = "running") \in 0..1 /\ B(src[j] = "open") \in 0..1
         /\ B(tar'[j] = "running") \in 0..1 /\ B(src'[j] = "open") \in 0..1
         /\ sent[j] \in Nat /\ Members \in Nat /\ Members - sent[j] \in Nat
<1>1. /\ Steps(pc[j]) \in Nat /\ Steps(pc'[j]) \in Nat
      /\ FeedSteps(feed[j]) \in Nat /\ FeedSteps(feed'[j]) \in Nat
      /\ UntarSteps(untar[j]) \in Nat /\ UntarSteps(untar'[j]) \in Nat
  BY StepsAreNat
<1>2. /\ B(tar[j] = "running") \in 0..1 /\ B(src[j] = "open") \in 0..1
      /\ B(tar'[j] = "running") \in 0..1 /\ B(src'[j] = "open") \in 0..1
  BY DEF B
<1>3. sent[j] \in Nat /\ Members \in Nat /\ Members - sent[j] \in Nat
  BY ImagesAssumption DEF ImagesAssumption, TypeOK
<1> QED BY <1>1, <1>2, <1>3

\* The steps from each place.
LEMMA StepsTable ==
  /\ Steps("idle") = 20 /\ Steps("stat") = 16 /\ Steps("write") = 8
  /\ Steps("copy") = 6 /\ Steps("wait") = 5 /\ Steps("rename") = 4
  /\ Steps("insert") = 3 /\ Steps("path") = 2 /\ Steps("remove") = 1
  /\ Steps("commit") = 1 /\ Steps("done") = 0
  /\ FeedSteps("off") = 0 /\ FeedSteps("reading") = 2 /\ FeedSteps("holding") = 3
  /\ FeedSteps("eof") = 0 /\ FeedSteps("broken") = 0
  /\ UntarSteps("off") = 0 /\ UntarSteps("running") = 2 /\ UntarSteps("ok") = 1
  /\ UntarSteps("failed") = 1 /\ UntarSteps("taken") = 0
BY DEF Steps, FeedSteps, UntarSteps

\* A command that goes on, with nothing else happening, has one step less.
LEMMA GoingFalls ==
  ASSUME TypeOK, NEW j \in Job, UNCHANGED <<src, sent, feed, untar>>,
         \/ pc[j] = "idle" /\ pc'[j] = "stat"
         \/ tar' = tar /\ Steps(pc'[j]) < Steps(pc[j])
  PROVE  Left(j)' < Left(j)
BY LeftParts, StepsTable DEF Left

\* Who works has one step less: a member that was read is one less to read, but
\* has still to be written, taken by the copier and extracted.
LEMMA WorkerFalls ==
  ASSUME IInv, NEW j \in Job, Works(j)
  PROVE  Left(j)' < Left(j)
<1>0. TypeOK
  BY DEF IInv
<1> USE <1>0 DEF TypeOK, Go, Fail
<1>1. CASE Command(j)
  <2>1. pc[j] = "idle" /\ pc'[j] = "stat" /\ UNCHANGED <<src, sent, feed, untar>>
    BY <1>1 DEF Command, CmdImport, CmdCommit, unpack
  <2> QED BY <2>1, GoingFalls
<1>2. CASE AddLayer(j) \/ AddLayerFails(j)
  <2> USE DEF AddLayerFrame, command, source
  <2>1. CASE Mktemp(j) /\ AddLayerFrame
    <3>1. /\ pc[j] = "stat" /\ pc'[j] = "copy"
          /\ feed'[j] = "reading" /\ untar'[j] = "running"
          /\ UNCHANGED <<src, sent, tar>>
      BY <2>1 DEF Mktemp
    <3> HIDE DEF TypeOK
    <3> QED BY <3>1, LeftParts, StepsTable DEF Left
  <2>2. CASE CopyRead(j) /\ AddLayerFrame
    <3>1. /\ pc[j] = "copy" /\ pc'[j] = "write" /\ sent'[j] = sent[j] + 1
          /\ UNCHANGED <<src, tar, feed, untar>>
      BY <2>2 DEF CopyRead
    <3> HIDE DEF TypeOK
    <3> QED BY <3>1, LeftParts, StepsTable DEF Left
  <2>3. CASE CopyWrite(j) /\ AddLayerFrame
    <3>1. /\ pc[j] = "write" /\ pc'[j] = "copy"
          /\ feed[j] = "reading" /\ feed'[j] = "holding"
          /\ UNCHANGED <<src, sent, tar, untar>>
      BY <2>3 DEF CopyWrite
    <3> HIDE DEF TypeOK
    <3> QED BY <3>1, LeftParts, StepsTable DEF Left
  <2>4. CASE (MktempFails(j) \/ CopyEnd(j)) /\ AddLayerFrame
    <3>1. /\ \/ pc[j] = "stat" /\ pc'[j] = "done"
             \/ pc[j] = "copy" /\ pc'[j] \in {"wait", "remove"}
          /\ UNCHANGED <<src, sent, tar, feed, untar>>
      BY <2>4 DEF MktempFails, CopyEnd
    <3> QED BY <3>1, GoingFalls, StepsTable
  <2>5. CASE Wait(j) /\ AddLayerFrame
    <3>1. /\ pc[j] = "wait" /\ pc'[j] \in {"rename", "remove"}
          /\ untar[j] \in {"ok", "failed"} /\ untar'[j] = "taken"
          /\ UNCHANGED <<src, sent, tar, feed>>
      BY <2>5 DEF Wait, Returned
    <3> HIDE DEF TypeOK
    <3> QED BY <3>1, LeftParts, StepsTable DEF Left
  <2>6. CASE /\ Rename(j) \/ RenameFails(j) \/ Remove(j) \/ RemoveFails(j)
             /\ AddLayerFrame
    <3>1. /\ \/ pc[j] = "rename" /\ pc'[j] \in {"insert", "remove"}
             \/ pc[j] = "remove" /\ pc'[j] = "done"
          /\ UNCHANGED <<src, sent, tar, feed, untar>>
      BY <2>6 DEF Rename, RenameFails, Remove, RemoveFails
    <3> QED BY <3>1, GoingFalls, StepsTable
  <2> QED BY <1>2, <2>1, <2>2, <2>3, <2>4, <2>5, <2>6 DEF AddLayer, AddLayerFails
<1>3. CASE Insert(j) \/ InsertFails(j)
  <2>1. /\ \/ pc[j] = "insert" /\ pc'[j] \in {"path", "done"}
           \/ pc[j] = "path" /\ pc'[j] \in {"commit", "done"}
           \/ pc[j] = "commit" /\ pc'[j] = "done"
        /\ UNCHANGED <<src, sent, tar, feed, untar>>
    BY <1>3 DEF Insert, InsertFails, InsertFrame, source, unpack, InsertImage,
                InsertTimesOut, InsertPath, Commit, InsertBreaks, CommitBreaks
  <2> QED BY <2>1, GoingFalls, StepsTable
<1>4. CASE Source(j) \/ SourceFails(j)
  <2>1. UNCHANGED <<pc, sent, feed, untar>>
    BY <1>4 DEF Source, SourceFails, SourceFrame, unpack
  <2>2. \/ src[j] = "open" /\ src'[j] # "open" /\ tar' = tar
        \/ tar[j] = "running" /\ tar'[j] # "running" /\ src' = src
    BY <1>4 DEF Source, SourceFails, Downloads, DownloadEnds, DownloadBreaks,
                TarEnds, TarFails, CmdStream
  <2> HIDE DEF TypeOK
  <2> QED BY <2>1, <2>2, LeftParts DEF Left, B
<1>5. CASE Copier(j)
  <2>1. UNCHANGED <<pc, sent, tar, src, untar>>
    BY <1>5 DEF Copier, UntarFrame, source, FeedUntar, FeedBreaks, FeedEnds
  <2>2. \/ feed[j] = "holding" /\ feed'[j] \in {"reading", "broken"}
        \/ feed[j] = "reading" /\ feed'[j] = "eof"
    BY <1>5 DEF Copier, FeedUntar, FeedBreaks, FeedEnds
  <2> HIDE DEF TypeOK
  <2> QED BY <2>1, <2>2, LeftParts, StepsTable DEF Left
<1>6. CASE Untar(j) \/ UntarFails(j)
  <2>1. UNCHANGED <<pc, sent, tar, src, feed>>
    BY <1>6 DEF Untar, UntarFails, UntarFrame, source, UntarEnds, UntarBreaks
  <2>2. untar[j] = "running" /\ untar'[j] \in {"ok", "failed"}
    BY <1>6 DEF Untar, UntarFails, UntarEnds, UntarBreaks
  <2> HIDE DEF TypeOK
  <2> QED BY <2>1, <2>2, LeftParts, StepsTable DEF Left
<1> QED BY <1>1, <1>2, <1>3, <1>4, <1>5, <1>6 DEF Works, Create, Fails

\* A death of the daemon leaves nobody more to do.
LEMMA CrashFalls ==
  ASSUME IInv, Crash, NEW j \in Job
  PROVE  Left(j)' =< Left(j)
<1>1. /\ pc'[j] = (IF pc[j] = "idle" THEN "idle" ELSE "done")
      /\ tar'[j] = "off" /\ untar'[j] = "off" /\ UNCHANGED <<src, sent, feed>>
  BY DEF Crash, command
<1>2. TypeOK
  BY DEF IInv
<1>3. Steps(pc'[j]) =< Steps(pc[j])
  BY <1>1, <1>2, LeftParts, StepsTable
<1>4. B(tar'[j] = "running") = 0
  BY <1>1 DEF B
<1> QED BY <1>1, <1>2, <1>3, <1>4, LeftParts, StepsTable DEF Left

\* Each step of a create, or of a process or goroutine beside it, failures
\* included, leaves it fewer steps to take, and nothing that another create
\* does, or the daemon's death, gives it more.  So a create that can always go
\* on, as CreateIsNeverLeft says, comes to an end.
THEOREM CreateRunsDown == Spec => [][StepsFall]_vars
<1>1. ASSUME IInv, TypeOK', Next PROVE StepsFall
  <2> SUFFICES ASSUME NEW j \in Job
               PROVE  Left(j)' =< Left(j) /\ (Works(j) => Left(j)' < Left(j))
    BY DEF StepsFall
  <2>1. Left(j) \in Nat /\ Left(j)' \in Nat
    <3>1. TypeOK /\ sent'[j] \in Nat /\ Members - sent'[j] \in Nat
      BY <1>1, ImagesAssumption DEF IInv, TypeOK, ImagesAssumption
    <3> QED BY <3>1, LeftParts DEF Left
  <2>2. CASE Works(j)
    BY <1>1, <2>1, <2>2, WorkerFalls
  <2>3. CASE \E k \in Job \ {j} : Works(k)
    <3>1. Left(j)' = Left(j)
      BY <1>1, <2>3, WorksAlone DEF Left
    <3> QED BY <2>1, <2>2, <3>1
  <2>4. CASE \E i \in Image, n \in Name : CmdCp(i, n)
    <3>1. UNCHANGED <<pc, tar, src, sent, feed, untar>>
      BY <2>4 DEF CmdCp, source, unpack
    <3> QED BY <2>1, <2>2, <3>1 DEF Left
  <2>5. CASE Crash
    BY <1>1, <2>2, <2>5, CrashFalls
  <2> QED BY <1>1, <2>2, <2>3, <2>4, <2>5 DEF Next, Works
<1>2. IInv => TypeOK
  BY DEF IInv
<1> QED BY <1>1, <1>2, ImagesInv, PTL DEF Spec
=============================================================================
