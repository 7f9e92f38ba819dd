----------------------------- MODULE FilesProofs -----------------------------
(***************************************************************************)
(* Proofs that the listing kept of a job that has ended is complete, and   *)
(* that the cache holds only what successful workflows wrote, for any      *)
(* number of jobs that share it and of files.                              *)
(***************************************************************************)
EXTENDS FilesProperties, TLAPS

-----------------------------------------------------------------------------
(* Types.                                                                  *)

LEMMA FileTypes ==
    /\ None \in File
    /\ \A x, y \in Jobs : <<x, y>> \in File
    /\ \A file \in File : file # None => file[1] \in Jobs /\ file[2] \in Jobs
<1>1. \A p \in Jobs \X Jobs : p[1] \in Jobs /\ p[2] \in Jobs
    OBVIOUS
<1>. QED  BY <1>1 DEF File

Statuses == {"SETUP", "RUNNING", "COMPLETED", "FAILED", "CANCELLED"}

LEMMA ListingTypes == None \in Listing /\ \A l \in SUBSET Files : l \in Listing
    BY DEF Listing

LEMMA RecordTypes ==
    ASSUME NEW r \in [Jobs -> Record], NEW j \in Jobs
    PROVE  /\ \A s \in Statuses : [r EXCEPT ![j].status = s] \in [Jobs -> Record]
           /\ \A l \in Listing : [r EXCEPT ![j].files = l] \in [Jobs -> Record]
<1>1. r[j] \in Record
    OBVIOUS
<1>2. ASSUME NEW s \in Statuses PROVE [r[j] EXCEPT !.status = s] \in Record
    BY <1>1 DEF Record, Statuses
<1>3. ASSUME NEW l \in Listing PROVE [r[j] EXCEPT !.files = l] \in Record
    BY <1>1 DEF Record
<1>4. \A e \in Record : [r EXCEPT ![j] = e] \in [Jobs -> Record]
    OBVIOUS
<1>5. ASSUME NEW s \in Statuses PROVE [r EXCEPT ![j].status = s] \in [Jobs -> Record]
    BY <1>2, <1>4
<1>6. ASSUME NEW l \in Listing PROVE [r EXCEPT ![j].files = l] \in [Jobs -> Record]
    BY <1>3, <1>4
<1>. QED  BY <1>5, <1>6

LEMMA WorkTypes ==
    ASSUME NEW w \in [Jobs -> [Files -> File]], NEW j \in Jobs, NEW f \in Files,
           NEW file \in File
    PROVE  [w EXCEPT ![j][f] = file] \in [Jobs -> [Files -> File]]
<1>1. [w[j] EXCEPT ![f] = file] \in [Files -> File]
    OBVIOUS
<1>. QED  BY <1>1

(* A copy writes one file of its job, or one of the cache.                 *)
LEMMA PutTypes ==
    ASSUME cache \in [Files -> File], work \in [Jobs -> [Files -> File]],
           NEW j \in Jobs, NEW f \in Files, NEW file \in File, Put(j, f, file)
    PROVE  cache' \in [Files -> File] /\ work' \in [Jobs -> [Files -> File]]
<1>1. CASE copy[j] = "restore"
    BY <1>1, WorkTypes DEF Put
<1>2. CASE copy[j] # "restore"
    BY <1>2 DEF Put
<1>. QED  BY <1>1, <1>2

LEMMA DiskTypes ==
    ASSUME NEW d \in [Jobs -> Record \cup {None}], NEW r \in [Jobs -> Record], NEW j \in Jobs
    PROVE  [d EXCEPT ![j] = r[j]] \in [Jobs -> Record \cup {None}]
    OBVIOUS

(* A copy opens files that are there, and a task that lists has begun to.  *)
Lists(j) == taskList[j] \in [code : Over, files : SUBSET Files]

Begun ==
    \A j \in Jobs : /\ copying[j] # None => copying[j].read # None
                    /\ task[j] = "list" => Lists(j)

LEMMA TypeSteps == TypeOK /\ Begun /\ [Next]_vars => TypeOK'
<1>. SUFFICES ASSUME TypeOK, Begun, [Next]_vars PROVE TypeOK'
    OBVIOUS
<1>lists. /\ Present(cache) \in SUBSET Files
          /\ \A j \in Jobs : Present(work[j]) \in SUBSET Files
    BY DEF Present
<1>. USE DEF TypeOK, hostVars, recordVars, copyVars, listVars
<1>1. ASSUME NEW j \in Jobs, CopyOpens(j) PROVE TypeOK'
  <2>1. PICK f \in todo[j] :
          /\ todo' = [todo EXCEPT ![j] = @ \ {f}]
          /\ IF Source(j)[f] = None THEN UNCHANGED <<cache, work, copying>>
             ELSE IF backend = "slurm_ssh"
             THEN Put(j, f, Source(j)[f]) /\ UNCHANGED copying
             ELSE /\ Put(j, f, <<Source(j)[f][1], Source(j)[f][1]>>)
                  /\ copying' = [copying EXCEPT ![j] = [name |-> f, read |-> Source(j)[f]]]
    BY <1>1 DEF CopyOpens
  <2>2. f \in Files /\ Source(j)[f] \in File
    BY DEF Source
  <2>3. <<Source(j)[f][1], Source(j)[f][1]>> \in File \/ Source(j)[f] = None
    BY <2>2, FileTypes
  <2>4. cache' \in [Files -> File] /\ work' \in [Jobs -> [Files -> File]]
    BY <2>1, <2>2, <2>3, PutTypes
  <2>5. copying' \in [Jobs -> [name : Files, read : File] \cup {None}]
    <3>1. [name |-> f, read |-> Source(j)[f]] \in [name : Files, read : File]
        BY <2>2
    <3>. HIDE DEF Source, Put
    <3>. QED  BY <2>1, <3>1
  <2>6. todo' \in [Jobs -> SUBSET Files]
    BY <2>1
  <2>. QED  BY <1>1, <2>4, <2>5, <2>6 DEF CopyOpens
<1>2. ASSUME NEW j \in Jobs, CopyCloses(j) PROVE TypeOK'
  <2>. DEFINE f    == copying[j].name
              file == IF Source(j)[f] = None THEN copying[j].read ELSE Source(j)[f]
              into == IF copy[j] = "restore" THEN work[j][f] ELSE cache[f]
              half == IF into = None THEN None ELSE <<into[1], file[2]>>
  <2>1. f \in Files /\ copying[j].read \in File
    BY <1>2 DEF CopyCloses
  <2>2. file \in File /\ into \in File /\ (into # None => file # None)
    <3>1. file \in File /\ into \in File
        BY <2>1 DEF Source
    <3>2. file # None
        BY <1>2 DEF CopyCloses, Begun
    <3>. QED  BY <3>1, <3>2
  <2>3. half \in File
    <3>. HIDE DEF file, into
    <3>. QED  BY <2>2, FileTypes
  <2>4. Put(j, f, half)
    BY <1>2 DEF CopyCloses
  <2>5. cache' \in [Files -> File] /\ work' \in [Jobs -> [Files -> File]]
    <3>. HIDE DEF half, f
    <3>. QED  BY <2>1, <2>3, <2>4, PutTypes
  <2>. QED  BY <1>2, <2>5 DEF CopyCloses
<1>3. ASSUME NEW j \in Jobs, CopyEnds(j) PROVE TypeOK'
    BY <1>3 DEF CopyEnds
<1>4. ASSUME NEW j \in Jobs, Restores(j) PROVE TypeOK'
    BY <1>4, <1>lists DEF Restores, At, CopyBegins
<1>5. ASSUME NEW j \in Jobs, Launches(j) PROVE TypeOK'
  <2>1. record' \in [Jobs -> Record]
    BY <1>5, RecordTypes DEF Launches, Statuses
  <2>. QED  BY <1>5, <2>1 DEF Launches, At, Persist
<1>6. ASSUME NEW j \in Jobs, MonitorReturns(j) PROVE TypeOK'
  <2>1. PICK code \in Found(j) \cap Over :
            taskList' = [taskList EXCEPT ![j] = [code |-> code, files |-> Present(work[j])]]
    BY <1>6 DEF MonitorReturns, Found, Over
  <2>2. taskList' \in [Jobs -> [code : Over, files : SUBSET Files] \cup {None}]
    BY <2>1, <1>lists
  <2>. QED  BY <1>6, <2>2 DEF MonitorReturns, At
<1>7. ASSUME NEW j \in Jobs, Collects(j) PROVE TypeOK'
  <2>1. PICK files \in Scans(j, taskList[j].files) \cup {None} :
            /\ record' = [record EXCEPT ![j] = [status |-> Finished(taskList[j].code),
                                                files  |-> Cached(j, files)]]
            /\ spoiled' \in {spoiled, spoiled \cup {j}}
    BY <1>7 DEF Collects, Spoils
  <2>2. Cached(j, files) \in Listing
    <3>1. files = None \/ files \in SUBSET Files
        BY <1>7, <2>1, <1>lists DEF Collects, Scans, Begun, Lists
    <3>. QED  BY <3>1, ListingTypes DEF Cached, Record
  <2>3. record' \in [Jobs -> Record]
    BY <2>1, <2>2 DEF Record, Finished
  <2>4. copy' \in [Jobs -> {"none", "restore", "save"}] /\ todo' \in [Jobs -> SUBSET Files]
    <3>1. \/ CopyBegins(j, "save", Present(work[j]))
          \/ UNCHANGED <<copy, todo>>
        BY <1>7 DEF Collects
    <3>2. /\ copy \in [Jobs -> {"none", "restore", "save"}] /\ todo \in [Jobs -> SUBSET Files]
          /\ Present(work[j]) \in SUBSET Files
        BY <1>lists
    <3>. HIDE DEF TypeOK
    <3>. QED  BY <3>1, <3>2 DEF CopyBegins
  <2>. QED  BY <1>7, <2>1, <2>3, <2>4 DEF Collects
<1>8. ASSUME NEW j \in Jobs, Finalizes(j) PROVE TypeOK'
    BY <1>8, DiskTypes DEF Finalizes, At
<1>9. ASSUME NEW j \in Jobs, Exits(j) \/ PidWritten(j) \/ Spawns(j) \/ LaunchReturns(j)
      PROVE  TypeOK'
    BY <1>9 DEF Exits, PidWritten, Spawns, LaunchReturns, At, Over
<1>10. ASSUME NEW j \in Jobs, NEW code, Concludes(j, code) PROVE TypeOK'
  <2>1. record' \in [Jobs -> Record]
    BY <1>10, RecordTypes DEF Concludes, Finished, Statuses
  <2>2. disk' \in [Jobs -> Record \cup {None}]
    BY <1>10, <2>1 DEF Concludes, Persist
  <2>. QED  BY <1>10, <2>1, <2>2 DEF Concludes, CutsTask, Spoils
<1>11. ASSUME NEW j \in Jobs, Errs(j) \/ Cancel(j) \/ Delete(j) PROVE TypeOK'
  <2>1. record' \in [Jobs -> Record]
    <3>1. \/ record' = [record EXCEPT ![j].status = "CANCELLED"]
          \/ record' = [record EXCEPT ![j].status = record[j].status]
        BY <1>11 DEF Errs, Cancel, Delete
    <3>2. record[j].status \in Statuses
        BY DEF Record, Statuses
    <3>3. \A s \in Statuses : [record EXCEPT ![j].status = s] \in [Jobs -> Record]
        BY RecordTypes
    <3>. HIDE DEF TypeOK
    <3>. QED  BY <3>1, <3>2, <3>3 DEF Statuses
  <2>2. disk' \in [Jobs -> Record \cup {None}] /\ known' \subseteq Jobs
    BY <1>11 DEF Errs, Cancel, Delete
  <2>3. /\ task' \in [Jobs -> {"setup", "restore", "launch", "monitor", "list",
                               "save", "final", "none"}]
        /\ taskList' \in [Jobs -> [code : Over, files : SUBSET Files] \cup {None}]
    BY <1>11 DEF Errs, Cancel, Delete, CutsTask
  <2>. QED  BY <1>11, <2>1, <2>2, <2>3 DEF Errs, Cancel, Delete
<1>12. ASSUME NEW j \in Jobs, NEW f \in Files,
              Writes(j, f) \/ Removes(j, f) \/ CleanupRemoves(j, f)
       PROVE  TypeOK'
  <2>1. PICK file \in File : work' = [work EXCEPT ![j][f] = file]
    BY <1>12, FileTypes DEF Writes, Removes, CleanupRemoves
  <2>2. work' \in [Jobs -> [Files -> File]]
    BY <2>1, WorkTypes
  <2>. QED  BY <1>12, <2>2 DEF Writes, Removes, CleanupRemoves
<1>13. ASSUME NEW j \in Jobs, RequestBegins(j) PROVE TypeOK'
    BY <1>13, <1>lists, ListingTypes DEF RequestBegins
<1>14. ASSUME NEW j \in Jobs, RequestEnds(j) PROVE TypeOK'
  <2>1. record' \in [Jobs -> Record]
    <3>1. CASE UNCHANGED record
        BY <3>1
    <3>2. ASSUME NEW files \in Scans(j, request[j]), record' = [record EXCEPT ![j].files = files]
          PROVE  record' \in [Jobs -> Record]
      <4>1. files \in Listing
        BY <1>14, <3>2, <1>lists DEF RequestEnds, Scans, Listing
      <4>. QED  BY <3>2, <4>1, RecordTypes
    <3>. QED  BY <1>14, <3>1, <3>2 DEF RequestEnds
  <2>. QED  BY <1>14, <2>1, ListingTypes DEF RequestEnds
<1>15. CASE Restart
  <2>1. record' \in [Jobs -> Record]
    <3>1. [status |-> "CANCELLED", files |-> None] \in Record
        BY ListingTypes DEF Record
    <3>. QED  BY <1>15, <3>1 DEF Restart
  <2>. QED  BY <1>15, <2>1, ListingTypes DEF Restart
<1>16. CASE VisitSees
  <2>1. PICK saw \in Over : visit' = [visit EXCEPT !.saw = saw]
    BY <1>16 DEF VisitSees
  <2>2. visit' \in [job : Jobs, saw : {"asked"} \cup Over]
    BY <1>16, <2>1 DEF VisitSees
  <2>. QED  BY <1>16, <2>2 DEF VisitSees
<1>17. CASE VisitReturns
  <2>1. CASE /\ visit' = None
             /\ UNCHANGED <<hostVars, recordVars, task, copyVars, taskList, request, spoiled>>
    BY <2>1
  <2>. QED  BY <1>10, <1>17, <2>1 DEF VisitReturns, Concludes
<1>18. ASSUME NEW j \in Jobs, VisitBegins(j) \/ CleanupStarts(j) PROVE TypeOK'
    BY <1>18 DEF VisitBegins, CleanupStarts, Over
<1>19. ASSUME NEW j \in Jobs, LocalVisit(j) PROVE TypeOK'
    BY <1>10, <1>19 DEF LocalVisit, Concludes
<1>20. CASE UNCHANGED vars
    BY <1>20 DEF vars
<1>. QED
  <2>. HIDE DEF TypeOK
  <2>. QED  BY <1>1, <1>2, <1>3, <1>4, <1>5, <1>6, <1>7, <1>8, <1>9, <1>11, <1>12, <1>13, <1>14,
               <1>15, <1>16, <1>17, <1>18, <1>19, <1>20, FilesAssumption DEF Next

-----------------------------------------------------------------------------
(* The cache.  What a copy reads is clean: the cache is, and so is what a  *)
(* job has once its workflow has succeeded.  What a job has before that is *)
(* clean or its own.                                                       *)

Clean(file) == file # None => \A i \in {1, 2} : wrapper[file[i]] = "zero"

OwnOrClean(j, file) == file # None => \A i \in {1, 2} : file[i] = j \/ wrapper[file[i]] = "zero"

CopyOK(j) ==
    /\ copy[j] = "none" => todo[j] = {} /\ copying[j] = None
    /\ copy[j] = "save" => wrapper[j] = "zero"
    /\ copying[j] # None => Clean(copying[j].read)
    /\ task[j] \in {"setup", "restore"} => wrapper[j] = "none"
    /\ task[j] = "list" /\ taskList[j].code = "zero" => wrapper[j] = "zero"

CacheInv ==
    /\ \A f \in Files : Clean(cache[f])
    /\ \A j \in Jobs : CopyOK(j) /\ \A f \in Files : OwnOrClean(j, work[j][f])

LEMMA SourceIsClean ==
    ASSUME TypeOK, CacheInv, NEW j \in Jobs, copy[j] # "none", NEW f \in Files
    PROVE  Clean(Source(j)[f])
<1>1. CASE copy[j] = "restore"
    BY <1>1 DEF CacheInv, Source
<1>2. CASE copy[j] = "save"
    BY <1>2 DEF CacheInv, CopyOK, Source, OwnOrClean, Clean
<1>. QED  BY <1>1, <1>2 DEF TypeOK

(* Putting a clean file keeps the cache clean.                             *)
LEMMA PutKeepsClean ==
    ASSUME TypeOK, CacheInv, NEW j \in Jobs, NEW f \in Files, NEW file,
           Put(j, f, file), UNCHANGED wrapper,
           IF copy[j] = "restore" THEN OwnOrClean(j, file) ELSE Clean(file)
    PROVE  /\ \A g \in Files : Clean(cache[g])'
           /\ \A k \in Jobs, g \in Files : OwnOrClean(k, work[k][g])'
<1>1. CASE copy[j] = "restore"
  <2>1. \A k \in Jobs, g \in Files : work'[k][g] = IF k = j /\ g = f THEN file ELSE work[k][g]
    BY <1>1 DEF Put, TypeOK
  <2>. QED  BY <1>1, <2>1 DEF Put, CacheInv, OwnOrClean, Clean
<1>2. CASE copy[j] # "restore"
  <2>1. \A g \in Files : cache'[g] = IF g = f THEN file ELSE cache[g]
    BY <1>2 DEF Put, TypeOK
  <2>. QED  BY <1>2, <2>1 DEF Put, CacheInv, OwnOrClean, Clean
<1>. QED  BY <1>1, <1>2

(* Other steps change no cache, and remove files or write a job's own.     *)
LEMMA OthersKeepClean ==
    ASSUME CacheInv, UNCHANGED cache,
           \A k \in Jobs : wrapper[k] = "zero" => wrapper'[k] = "zero",
           \A k \in Jobs, f \in Files : work'[k][f] \in {None, <<k, k>>, work[k][f]},
           TypeOK
    PROVE  /\ \A f \in Files : Clean(cache[f])'
           /\ \A k \in Jobs, f \in Files : OwnOrClean(k, work[k][f])'
           /\ \A file \in File : Clean(file) => Clean(file)'
<1>1. \A file \in File : Clean(file) => Clean(file)'
    BY FileTypes DEF Clean
<1>2. \A k \in Jobs, file \in File : OwnOrClean(k, file) => OwnOrClean(k, file)'
    BY FileTypes DEF OwnOrClean
<1>3. \A f \in Files : Clean(cache[f])'
    BY <1>1 DEF CacheInv, TypeOK
<1>4. ASSUME NEW k \in Jobs, NEW f \in Files PROVE OwnOrClean(k, work[k][f])'
  <2>1. CASE work'[k][f] = work[k][f]
    <3>1. work[k][f] \in File /\ OwnOrClean(k, work[k][f])
        BY DEF CacheInv, TypeOK
    <3>. QED  BY <2>1, <3>1, FileTypes DEF OwnOrClean
  <2>2. CASE work'[k][f] \in {None, <<k, k>>}
    BY <2>2 DEF OwnOrClean
  <2>. QED  BY <2>1, <2>2
<1>. QED  BY <1>1, <1>3, <1>4

(* Nor do they change what a copy has read.                                *)
LEMMA OthersKeepCache ==
    ASSUME TypeOK, Begun, CacheInv, UNCHANGED <<cache, copying>>,
           \A k \in Jobs :
              /\ wrapper[k] = "zero" => wrapper'[k] = "zero"
              /\ \A f \in Files : work'[k][f] \in {None, <<k, k>>, work[k][f]}
              /\ \/ copy'[k] = copy[k] /\ todo'[k] = todo[k]
                 \/ copy'[k] = "restore"
                 \/ copy'[k] = "save" /\ wrapper[k] = "zero"
              /\ task'[k] \in {"setup", "restore"} => wrapper'[k] = "none"
              /\ task'[k] = "list" =>
                    /\ Lists(k)'
                    /\ taskList'[k].code = "zero" => wrapper'[k] = "zero"
    PROVE  (Begun /\ CacheInv)'
<1>1. /\ \A f \in Files : Clean(cache[f])'
      /\ \A k \in Jobs, f \in Files : OwnOrClean(k, work[k][f])'
      /\ \A file \in File : Clean(file) => Clean(file)'
    BY OthersKeepClean
<1>2. ASSUME NEW k \in Jobs, copying[k] # None PROVE Clean(copying[k].read)'
  <2>1. copying[k].read \in File /\ Clean(copying[k].read)
    BY <1>2 DEF CacheInv, CopyOK, TypeOK
  <2>. QED  BY <1>1, <2>1 DEF Clean
<1>3. ASSUME NEW k \in Jobs PROVE CopyOK(k)'
    BY <1>2 DEF CacheInv, CopyOK
<1>. QED  BY <1>1, <1>3 DEF Begun, CacheInv

LEMMA CacheSteps == TypeOK /\ Begun /\ CacheInv /\ [Next]_vars => (Begun /\ CacheInv)'
<1>. SUFFICES ASSUME TypeOK, Begun, CacheInv, [Next]_vars PROVE (Begun /\ CacheInv)'
    OBVIOUS
<1>. DEFINE Rest  == Begun' /\ \A k \in Jobs : CopyOK(k)'
            FilesClean == /\ \A g \in Files : Clean(cache[g])'
                      /\ \A k \in Jobs, g \in Files : OwnOrClean(k, work[k][g])'
<1>. USE DEF hostVars, recordVars, copyVars, listVars
<1>1. ASSUME NEW j \in Jobs, CopyOpens(j) PROVE (Begun /\ CacheInv)'
  <2>1. PICK f \in todo[j] :
          /\ todo' = [todo EXCEPT ![j] = @ \ {f}]
          /\ IF Source(j)[f] = None THEN UNCHANGED <<cache, work, copying>>
             ELSE IF backend = "slurm_ssh"
             THEN Put(j, f, Source(j)[f]) /\ UNCHANGED copying
             ELSE /\ Put(j, f, <<Source(j)[f][1], Source(j)[f][1]>>)
                  /\ copying' = [copying EXCEPT ![j] = [name |-> f, read |-> Source(j)[f]]]
    BY <1>1 DEF CopyOpens
  <2>2. f \in Files /\ copy[j] # "none" /\ Clean(Source(j)[f])
    <3>1. f \in Files /\ copy[j] # "none"
        BY DEF TypeOK, CacheInv, CopyOK
    <3>. QED  BY <3>1, SourceIsClean
  <2>3. UNCHANGED <<wrapper, task, copy, taskList>>
    BY <1>1 DEF CopyOpens
  <2>. DEFINE file == Source(j)[f]
  <2>4. CASE file = None
    <3>1. UNCHANGED <<cache, work, copying>>
        BY <2>1, <2>4
    <3>. QED
        BY <2>1, <2>2, <2>3, <3>1 DEF Begun, CacheInv, CopyOK, Clean, OwnOrClean, TypeOK, Lists
  <2>5. CASE file # None
    <3>. HIDE DEF file
    <3>1. /\ Clean(file) /\ Clean(<<file[1], file[1]>>)
          /\ OwnOrClean(j, file) /\ OwnOrClean(j, <<file[1], file[1]>>)
        BY <2>2, <2>5 DEF Clean, OwnOrClean, file
    <3>2. Put(j, f, file) \/ Put(j, f, <<file[1], file[1]>>)
        BY <2>1, <2>5 DEF file
    <3>3. FilesClean
        BY <2>2, <2>3, <3>1, <3>2, PutKeepsClean
    <3>4. copying' = copying \/ copying' = [copying EXCEPT ![j] = [name |-> f, read |-> file]]
        BY <2>1, <2>5 DEF file
    <3>5. \A k \in Jobs : copying'[k] # None =>
                \/ copying'[k] = copying[k]
                \/ k = j /\ copying'[k] = [name |-> f, read |-> file]
        BY <3>4 DEF TypeOK
    <3>6. \A k \in Jobs : todo'[k] \subseteq todo[k] /\ (k # j => copying'[k] = copying[k])
        BY <2>1, <3>4 DEF TypeOK
    <3>7. Begun'
        BY <2>3, <2>5, <3>5 DEF Begun, Lists
    <3>8. \A k \in Jobs : CopyOK(k)'
        BY <2>2, <2>3, <3>1, <3>5, <3>6 DEF CacheInv, CopyOK, Clean
    <3>. QED  BY <3>3, <3>7, <3>8 DEF CacheInv
  <2>. QED  BY <2>4, <2>5
<1>2. ASSUME NEW j \in Jobs, CopyCloses(j) PROVE (Begun /\ CacheInv)'
  <2>. DEFINE f    == copying[j].name
              file == IF Source(j)[f] = None THEN copying[j].read ELSE Source(j)[f]
              into == IF copy[j] = "restore" THEN work[j][f] ELSE cache[f]
              half == IF into = None THEN None ELSE <<into[1], file[2]>>
  <2>1. f \in Files /\ copy[j] # "none" /\ Clean(copying[j].read) /\ copying[j].read # None
    BY <1>2 DEF CopyCloses, TypeOK, CacheInv, CopyOK, Begun
  <2>2. Clean(file) /\ file # None
    BY <2>1, SourceIsClean
  <2>3. IF copy[j] = "restore" THEN OwnOrClean(j, into) ELSE Clean(into)
    BY <2>1 DEF CacheInv
  <2>4. IF copy[j] = "restore" THEN OwnOrClean(j, half) ELSE Clean(half)
    <3>. HIDE DEF file, into
    <3>. QED  BY <2>2, <2>3 DEF Clean, OwnOrClean
  <2>5. Put(j, f, half) /\ UNCHANGED wrapper
    BY <1>2 DEF CopyCloses
  <2>6. FilesClean
    <3>. HIDE DEF half, f
    <3>. QED  BY <2>1, <2>4, <2>5, PutKeepsClean
  <2>7. Rest
    BY <1>2 DEF CopyCloses, Begun, CacheInv, CopyOK, Clean, TypeOK, Lists
  <2>. QED  BY <2>6, <2>7 DEF CacheInv
<1>4. ASSUME NEW j \in Jobs, CopyEnds(j) PROVE (Begun /\ CacheInv)'
    BY <1>4 DEF CopyEnds, Begun, CacheInv, CopyOK, Clean, OwnOrClean, TypeOK, Lists
<1>. DEFINE Others ==
              \A k \in Jobs :
                 /\ wrapper[k] = "zero" => wrapper'[k] = "zero"
                 /\ \A f \in Files : work'[k][f] \in {None, <<k, k>>, work[k][f]}
                 /\ \/ copy'[k] = copy[k] /\ todo'[k] = todo[k]
                    \/ copy'[k] = "restore"
                    \/ copy'[k] = "save" /\ wrapper[k] = "zero"
                 /\ task'[k] \in {"setup", "restore"} => wrapper'[k] = "none"
                 /\ task'[k] = "list" =>
                       /\ Lists(k)'
                       /\ taskList'[k].code = "zero" => wrapper'[k] = "zero"
<1>5. ASSUME Others, UNCHANGED <<cache, copying>> PROVE (Begun /\ CacheInv)'
    BY <1>5, OthersKeepCache
<1>6. \A k \in Jobs : /\ task[k] \in {"setup", "restore"} => wrapper[k] = "none"
                      /\ task[k] = "list" =>
                            /\ Lists(k)
                            /\ taskList[k].code = "zero" => wrapper[k] = "zero"
    BY DEF CacheInv, CopyOK, Begun
<1>. USE DEF TypeOK, Lists
<1>7. ASSUME NEW j \in Jobs, Restores(j) PROVE Others /\ UNCHANGED <<cache, copying>>
    BY <1>6, <1>7 DEF Restores, At, CopyBegins
<1>8. ASSUME NEW j \in Jobs, Launches(j) \/ Spawns(j) \/ LaunchReturns(j)
      PROVE  Others /\ UNCHANGED <<cache, copying>>
    BY <1>6, <1>8 DEF Launches, Spawns, LaunchReturns, At
<1>9. ASSUME NEW j \in Jobs, MonitorReturns(j) PROVE Others /\ UNCHANGED <<cache, copying>>
  <2>1. PICK code \in Found(j) :
            taskList' = [taskList EXCEPT ![j] = [code |-> code, files |-> Present(work[j])]]
    BY <1>9 DEF MonitorReturns, Found
  <2>2. taskList'[j] = [code |-> code, files |-> Present(work[j])]
        /\ \A k \in Jobs \ {j} : taskList'[k] = taskList[k]
    BY <2>1
  <2>3. Lists(j)'
    <3>1. code \in Over
        BY <2>1, <1>9 DEF MonitorReturns, Found, Over
    <3>. QED  BY <2>2, <3>1 DEF Present
  <2>4. taskList'[j].code = "zero" => wrapper[j] = "zero"
    BY <2>2 DEF Found
  <2>. QED  BY <1>6, <1>9, <2>2, <2>3, <2>4 DEF MonitorReturns, At
<1>10. ASSUME NEW j \in Jobs, Collects(j) PROVE Others /\ UNCHANGED <<cache, copying>>
    BY <1>6, <1>10 DEF Collects, CopyBegins, Saves
<1>11. ASSUME NEW j \in Jobs, Finalizes(j) \/ Errs(j) PROVE Others /\ UNCHANGED <<cache, copying>>
    BY <1>6, <1>11 DEF Finalizes, Errs, At
<1>12. ASSUME NEW j \in Jobs, Exits(j) \/ PidWritten(j) \/ CleanupStarts(j)
       PROVE  Others /\ UNCHANGED <<cache, copying>>
    BY <1>6, <1>12 DEF Exits, PidWritten, CleanupStarts
<1>13. ASSUME NEW j \in Jobs, NEW code, Concludes(j, code)
       PROVE  Others /\ UNCHANGED <<cache, copying>>
    BY <1>6, <1>13 DEF Concludes, CutsTask
<1>14. ASSUME NEW j \in Jobs, Cancel(j) \/ Delete(j)
       PROVE  Others /\ UNCHANGED <<cache, copying>>
    BY <1>6, <1>14 DEF Cancel, Delete, CutsTask
<1>15. ASSUME NEW j \in Jobs, NEW f \in Files,
              Writes(j, f) \/ Removes(j, f) \/ CleanupRemoves(j, f)
       PROVE  Others /\ UNCHANGED <<cache, copying>>
    BY <1>6, <1>15 DEF Writes, Removes, CleanupRemoves
<1>16. ASSUME NEW j \in Jobs, RequestBegins(j) \/ RequestEnds(j) \/ VisitBegins(j)
       PROVE  Others /\ UNCHANGED <<cache, copying>>
    BY <1>6, <1>16 DEF RequestBegins, RequestEnds, VisitBegins
<1>17. CASE Restart \/ VisitSees \/ UNCHANGED vars
  <2>. Others /\ UNCHANGED <<cache, copying>>
    BY <1>6, <1>17 DEF Restart, VisitSees, vars
  <2>. QED  BY <1>5
<1>18. CASE VisitReturns
  <2>1. CASE UNCHANGED <<hostVars, recordVars, task, copyVars, taskList>>
    <3>. Others /\ UNCHANGED <<cache, copying>>
        BY <1>6, <2>1
    <3>. QED  BY <1>5
  <2>2. ASSUME Concludes(visit.job, visit.saw), visit # None PROVE (Begun /\ CacheInv)'
    <3>1. visit.job \in Jobs
        BY <2>2
    <3>. HIDE DEF Others
    <3>. QED  BY <1>5, <1>13, <2>2, <3>1
  <2>. QED  BY <1>18, <2>1, <2>2 DEF VisitReturns
<1>19. ASSUME NEW j \in Jobs, LocalVisit(j) PROVE Others /\ UNCHANGED <<cache, copying>>
  <2>. HIDE DEF Others
  <2>. QED  BY <1>13, <1>19 DEF LocalVisit
<1>. QED
  <2>. HIDE DEF Others, TypeOK, Lists
  <2>. QED
    BY <1>1, <1>2, <1>4, <1>5, <1>7, <1>8, <1>9, <1>10, <1>11, <1>12, <1>14, <1>15,
       <1>16, <1>17, <1>18, <1>19, FilesAssumption DEF Next

-----------------------------------------------------------------------------
(* The listings.  A wrapper that is over, or that no task will start, is   *)
(* quiet: nothing writes the work directory of its job any more, and until *)
(* it is removed what is listed there is complete.  A job that has ended   *)
(* has a quiet wrapper, and what was listed before is replaced, or it is   *)
(* spoiled.                                                                *)

Quiet(j) ==
    \/ wrapper[j] \in Over
    \/ wrapper[j] = "none" /\ task[j] \notin {"setup", "restore", "launch"}

Visited(j) == visit # None /\ visit.job = j

Restoring == {"SETUP", "CANCELLED"}

ListedOK(j, r) ==
    r.status \in {"COMPLETED", "FAILED"} /\ j \notin spoiled =>
        /\ Quiet(j)
        /\ j \notin wiped /\ r.files # None => r.files = Present(work[j])

ListOK(j) ==
    /\ task[j] \in {"setup", "restore"} =>
          record[j].status = "SETUP" /\ disk[j].status = "SETUP"
    /\ copy[j] = "restore" =>
          /\ record[j].status \in Restoring
          /\ disk[j] # None => disk[j].status \in Restoring
          /\ task[j] \notin {"launch", "monitor", "list", "save"}
    /\ Visited(j) => copy[j] # "restore" /\ task[j] \notin {"setup", "restore"}
    /\ task[j] = "monitor" => wrapper[j] \notin {"none", "starting"}
    /\ task[j] \in {"list", "save"} => wrapper[j] \in Over
    /\ task[j] = "list" /\ j \notin wiped => taskList[j].files = Present(work[j])
    /\ ListedOK(j, record[j]) /\ (disk[j] # None => ListedOK(j, disk[j]))
    /\ Ended(j) /\ j \notin spoiled \cup wiped /\ request[j] # None =>
          request[j] = Present(work[j])

ListInv == \A j \in Jobs : ListOK(j)

(* A listing that begins and ends with the same files finds those.         *)
LEMMA ScansExactly ==
    ASSUME NEW j \in Jobs, NEW s \in Scans(j, Present(work[j]))
    PROVE  s = Present(work[j])
    BY DEF Scans

(* Nothing about j is changed, but that a visit to it may be over.         *)
Unmoved(j) ==
    /\ wrapper'[j] = wrapper[j] /\ work'[j] = work[j] /\ (j \in wiped' <=> j \in wiped)
    /\ record'[j] = record[j] /\ disk'[j] = disk[j] /\ task'[j] = task[j]
    /\ copy'[j] = copy[j] /\ taskList'[j] = taskList[j] /\ request'[j] = request[j]
    /\ (j \in spoiled' <=> j \in spoiled) /\ (Visited(j)' => Visited(j))

LEMMA UnmovedKeepsList ==
    ASSUME NEW j \in Jobs, ListOK(j), Unmoved(j) PROVE ListOK(j)'
    BY DEF ListOK, ListedOK, Unmoved, Present, Ended, Quiet

(* A copy that does not restore leaves the job alone, and one that         *)
(* restores belongs to a job that has not been launched.                   *)
LEMMA PutKeepsList ==
    ASSUME TypeOK, ListInv, NEW j \in Jobs, NEW f, NEW file,
           Put(j, f, file) \/ UNCHANGED <<cache, work>>,
           UNCHANGED <<wrapper, wiped, recordVars, task, copy, listVars>>
    PROVE  ListInv'
<1>1. ASSUME NEW k \in Jobs \ {j} PROVE Unmoved(k)
    BY DEF Put, TypeOK, Unmoved, Visited, recordVars, listVars
<1>2. CASE copy[j] # "restore"
  <2>1. Unmoved(j)
    BY <1>2 DEF Put, Unmoved, Visited, recordVars, listVars
  <2>. QED  BY <1>1, <2>1, UnmovedKeepsList DEF ListInv
<1>3. CASE copy[j] = "restore"
  <2>1. ListOK(j)'
    BY <1>3 DEF ListInv, ListOK, ListedOK, Restoring, Visited, Ended, recordVars, listVars
  <2>. QED  BY <1>1, <2>1, UnmovedKeepsList DEF ListInv
<1>. QED  BY <1>2, <1>3

LEMMA ListSteps == TypeOK /\ Begun /\ CacheInv /\ ListInv /\ [Next]_vars => ListInv'
<1>. SUFFICES ASSUME TypeOK, Begun, CacheInv, ListInv, [Next]_vars PROVE ListInv'
    OBVIOUS
<1>. DEFINE Only(j) == \A k \in Jobs \ {j} : Unmoved(k)
<1>0. ASSUME NEW j \in Jobs, Only(j), ListOK(j)' PROVE ListInv'
    BY <1>0, UnmovedKeepsList DEF ListInv
<1>. USE DEF hostVars, recordVars, copyVars, listVars
<1>1. ASSUME NEW j \in Jobs, CopyOpens(j) PROVE ListInv'
    BY <1>1, PutKeepsList DEF CopyOpens
<1>2. ASSUME NEW j \in Jobs, CopyCloses(j) PROVE ListInv'
    BY <1>2, PutKeepsList DEF CopyCloses
<1>3. ASSUME NEW j \in Jobs, CopyEnds(j) PROVE ListInv'
  <2>1. Only(j)
    BY <1>3 DEF TypeOK, Unmoved, Visited, CopyEnds
  <2>2. ListOK(j)'
    BY <1>3 DEF TypeOK, Record, ListInv, ListOK, ListedOK, Quiet, Ended, Present, Over,
       CopyEnds, Visited
  <2>. QED  BY <1>0, <2>1, <2>2
<1>4. ASSUME NEW j \in Jobs, Restores(j) PROVE ListInv'
  <2>1. Only(j)
    BY <1>4 DEF TypeOK, Unmoved, Visited, Restores, At, CopyBegins
  <2>2. ListOK(j)'
    BY <1>4 DEF TypeOK, Record, ListInv, ListOK, ListedOK, Quiet, Ended, Present, Over,
       Restores, At, CopyBegins, Restoring, Visited
  <2>. QED  BY <1>0, <2>1, <2>2
<1>5. ASSUME NEW j \in Jobs, Launches(j) PROVE ListInv'
  <2>1. Only(j)
    BY <1>5 DEF TypeOK, Unmoved, Visited, Launches, At, Persist
  <2>2. ListOK(j)'
    BY <1>5 DEF TypeOK, Record, ListInv, ListOK, ListedOK, Quiet, Ended, Present, Over,
       Launches, At, Persist, Visited
  <2>. QED  BY <1>0, <2>1, <2>2
<1>6. ASSUME NEW j \in Jobs, Spawns(j) \/ LaunchReturns(j) PROVE ListInv'
  <2>1. Only(j)
    BY <1>6 DEF TypeOK, Unmoved, Visited, Spawns, LaunchReturns, At
  <2>2. CASE Spawns(j)
    <3>. ListOK(j)'
        BY <2>2 DEF TypeOK, ListInv, ListOK, ListedOK, Quiet, Ended, Over, Spawns, Visited
    <3>. QED  BY <1>0, <2>1
  <2>3. CASE LaunchReturns(j)
    <3>. ListOK(j)'
        BY <2>3 DEF TypeOK, ListInv, ListOK, ListedOK, Quiet, Ended, Over, LaunchReturns, At,
           Visited
    <3>. QED  BY <1>0, <2>1
  <2>. QED  BY <1>6, <2>2, <2>3
<1>7. ASSUME NEW j \in Jobs, Errs(j) PROVE ListInv'
  <2>1. Only(j)
    BY <1>7 DEF TypeOK, Unmoved, Visited, Errs
  <2>2. ListOK(j)'
    BY <1>7 DEF TypeOK, Record, ListInv, ListOK, ListedOK, Quiet, Ended, Present, Over, Errs,
       Restoring, Visited
  <2>. QED  BY <1>0, <2>1, <2>2
<1>8. ASSUME NEW j \in Jobs, MonitorReturns(j) PROVE ListInv'
  <2>1. PICK code \in Found(j) :
            taskList' = [taskList EXCEPT ![j] = [code |-> code, files |-> Present(work[j])]]
    BY <1>8 DEF MonitorReturns, Found
  <2>2. taskList'[j].files = Present(work[j]) /\ \A k \in Jobs \ {j} : taskList'[k] = taskList[k]
    BY <2>1 DEF TypeOK
  <2>3. Only(j)
    BY <1>8, <2>2 DEF TypeOK, Unmoved, Visited, MonitorReturns, At
  <2>4. ListOK(j)'
    BY <1>8, <2>2 DEF TypeOK, ListInv, ListOK, ListedOK, Quiet, Ended, Present, Visited,
       MonitorReturns, At
  <2>. QED  BY <1>0, <2>3, <2>4
<1>9. ASSUME NEW j \in Jobs, Collects(j) PROVE ListInv'
  <2>1. Only(j)
    BY <1>9 DEF TypeOK, Unmoved, Visited, Collects, CopyBegins, Spoils, Cached, Saves
  <2>2. ListOK(j)'
    <3>1. /\ UNCHANGED <<wrapper, work, wiped, disk, request, visit>>
          /\ task[j] = "list" /\ task'[j] \in {"save", "final"} /\ copy'[j] \in {copy[j], "save"}
        BY <1>9 DEF Collects, CopyBegins, TypeOK
    <3>2. /\ ListOK(j) /\ wrapper[j] \in Over /\ copy[j] # "restore"
          /\ j \notin wiped => taskList[j].files = Present(work[j])
        BY <3>1 DEF ListInv, ListOK
    <3>3. PICK files \in Scans(j, taskList[j].files) \cup {None} :
              /\ record' = [record EXCEPT ![j] = [status |-> Finished(taskList[j].code),
                                                  files  |-> Cached(j, files)]]
              /\ Spoils(j, request[j] # None \/ (files = None /\ record[j].files # None))
        BY <1>9 DEF Collects
    <3>4. j \notin wiped => files \in {None, Present(work[j])}
        BY <3>2, <3>3, ScansExactly
    <3>5. record'[j].files = Cached(j, files)
        BY <3>3 DEF TypeOK
    <3>6. j \notin spoiled' => request[j] = None /\ j \notin spoiled
        BY <3>3 DEF Spoils
    <3>7. j \notin spoiled' \cup wiped => record'[j].files \in {None, Present(work[j])}
        BY <3>3, <3>4, <3>5 DEF Cached, Spoils
    <3>8. ListedOK(j, record[j])'
        BY <3>1, <3>2, <3>7 DEF ListedOK, Quiet
    <3>9. disk'[j] # None => ListedOK(j, disk[j])'
        BY <3>1, <3>2, <3>6 DEF ListOK, ListedOK, Quiet
    <3>. QED  BY <3>1, <3>2, <3>6, <3>8, <3>9 DEF ListOK, Visited
  <2>. QED  BY <1>0, <2>1, <2>2
<1>10. ASSUME NEW j \in Jobs, Finalizes(j) PROVE ListInv'
  <2>1. Only(j)
    BY <1>10 DEF TypeOK, Unmoved, Visited, Finalizes, At
  <2>2. ListOK(j)'
    BY <1>10 DEF TypeOK, Record, ListInv, ListOK, ListedOK, Quiet, Ended, Present, Over,
       Finalizes, At, Visited
  <2>. QED  BY <1>0, <2>1, <2>2
<1>11. ASSUME NEW j \in Jobs, Exits(j) \/ PidWritten(j) PROVE ListInv'
  <2>1. Only(j)
    BY <1>11 DEF TypeOK, Unmoved, Visited, Exits, PidWritten
  <2>2. ListOK(j)'
    BY <1>11 DEF TypeOK, Record, ListInv, ListOK, ListedOK, Quiet, Ended, Present, Over,
       Exits, PidWritten, Visited
  <2>. QED  BY <1>0, <2>1, <2>2
<1>12. ASSUME NEW j \in Jobs, NEW code, Concludes(j, code), copy[j] # "restore" PROVE ListInv'
  <2>1. Only(j)
    BY <1>12 DEF TypeOK, Unmoved, Visited, Concludes, CutsTask, Persist, Spoils
  <2>2. ListOK(j)'
    <3>1. /\ UNCHANGED <<wrapper, work, wiped, copy, request>> /\ visit' = None
          /\ task'[j] \in {"final", "none"} /\ disk'[j] = record'[j]
        BY <1>12 DEF Concludes, CutsTask, Persist, TypeOK
    <3>2. /\ record'[j].files = record[j].files
          /\ record'[j].status \in {record[j].status, "COMPLETED", "FAILED"}
        BY <1>12 DEF Concludes, Finished, TypeOK, Record
    <3>3. j \notin spoiled' =>
              /\ j \notin spoiled
              /\ \/ Ended(j)
                 \/ /\ wrapper[j] \notin {"starting", "running"}
                    /\ record[j].files = None /\ request[j] = None
        BY <1>12 DEF Concludes, Spoils
    <3>4. ListOK(j)
        BY DEF ListInv
    <3>5. j \notin spoiled' /\ Ended(j) => Quiet(j)
        BY <3>3, <3>4 DEF ListOK, ListedOK, Ended
    <3>6. j \notin spoiled' => Quiet(j)'
        BY <3>1, <3>3, <3>5 DEF Quiet, TypeOK, Over
    <3>7. ListedOK(j, record[j])'
        BY <3>1, <3>2, <3>3, <3>4, <3>6 DEF ListOK, ListedOK, Ended
    <3>8. Ended(j)' /\ j \notin (spoiled \cup wiped)' /\ request[j]' # None
                => request[j]' = Present(work[j])'
        BY <3>1, <3>2, <3>3, <3>4 DEF ListOK, Ended
    <3>. QED  BY <1>12, <3>1, <3>7, <3>8 DEF ListOK, Visited
  <2>. QED  BY <1>0, <2>1, <2>2
<1>13. ASSUME NEW j \in Jobs, Cancel(j) \/ Delete(j) PROVE ListInv'
  <2>1. Only(j)
    BY <1>13 DEF TypeOK, Unmoved, Visited, Cancel, Delete, CutsTask
  <2>2. ListOK(j)'
    BY <1>13 DEF TypeOK, Record, ListInv, ListOK, ListedOK, Quiet, Ended, Present, Over,
       Cancel, Delete, CutsTask, Restoring, Visited
  <2>. QED  BY <1>0, <2>1, <2>2
<1>14. ASSUME NEW j \in Jobs, NEW f \in Files, Writes(j, f) PROVE ListInv'
  <2>1. Only(j)
    BY <1>14 DEF TypeOK, Unmoved, Visited, Writes
  <2>2. ListOK(j)'
    BY <1>14 DEF TypeOK, Record, ListInv, ListOK, ListedOK, Quiet, Ended, Present, Over,
       Writes, Visited
  <2>. QED  BY <1>0, <2>1, <2>2
<1>15. ASSUME NEW j \in Jobs, NEW f \in Files, Removes(j, f) PROVE ListInv'
  <2>1. Only(j)
    BY <1>15 DEF TypeOK, Unmoved, Visited, Removes
  <2>2. ListOK(j)'
    BY <1>15 DEF TypeOK, Record, ListInv, ListOK, ListedOK, Quiet, Ended, Present, Over,
       Removes, Visited
  <2>. QED  BY <1>0, <2>1, <2>2
<1>16. ASSUME NEW j \in Jobs, NEW f \in Files, CleanupRemoves(j, f) PROVE ListInv'
  <2>1. Only(j)
    BY <1>16 DEF TypeOK, Unmoved, Visited, CleanupRemoves
  <2>2. ListOK(j)'
    BY <1>16 DEF TypeOK, Record, ListInv, ListOK, ListedOK, Quiet, Ended, Present, Over,
       CleanupRemoves, Visited
  <2>. QED  BY <1>0, <2>1, <2>2
<1>17. ASSUME NEW j \in Jobs, CleanupStarts(j) PROVE ListInv'
  <2>1. Only(j)
    BY <1>17 DEF TypeOK, Unmoved, Visited, CleanupStarts
  <2>2. ListOK(j)'
    BY <1>17 DEF TypeOK, Record, ListInv, ListOK, ListedOK, Quiet, Ended, Present, Over,
       CleanupStarts, Visited
  <2>. QED  BY <1>0, <2>1, <2>2
<1>18. ASSUME NEW j \in Jobs, RequestBegins(j) PROVE ListInv'
  <2>1. Only(j)
    BY <1>18 DEF TypeOK, Unmoved, Visited, RequestBegins
  <2>2. ListOK(j)'
    BY <1>18 DEF TypeOK, Record, ListInv, ListOK, ListedOK, Quiet, Ended, Present, Over,
       RequestBegins, Visited
  <2>. QED  BY <1>0, <2>1, <2>2
<1>19. ASSUME NEW j \in Jobs, RequestEnds(j) PROVE ListInv'
  <2>1. Only(j)
    BY <1>19 DEF TypeOK, Unmoved, Visited, RequestEnds
  <2>2. ListOK(j)'
    <3>1. /\ UNCHANGED <<wrapper, work, wiped, disk, task, copy, taskList, visit, spoiled>>
          /\ record'[j].status = record[j].status /\ request'[j] = None
        BY <1>19 DEF RequestEnds, TypeOK, Record
    <3>2. record'[j].files = record[j].files \/ record'[j].files \in Scans(j, request[j])
        BY <1>19 DEF RequestEnds, TypeOK, Record
    <3>3. request[j] = Present(work[j]) => record'[j].files \in {record[j].files, Present(work[j])}
        BY <3>2, ScansExactly
    <3>4. request[j] # None
        BY <1>19 DEF RequestEnds
    <3>5. ListOK(j)
        BY DEF ListInv
    <3>6. ListedOK(j, record[j])'
        BY <3>1, <3>3, <3>4, <3>5 DEF ListOK, ListedOK, Quiet, Ended
    <3>. QED  BY <3>1, <3>5, <3>6 DEF ListOK, ListedOK, Quiet, Ended, Visited
  <2>. QED  BY <1>0, <2>1, <2>2
<1>20. ASSUME NEW j \in Jobs, VisitBegins(j) PROVE ListInv'
  <2>1. /\ record[j].status = "RUNNING"
        /\ UNCHANGED <<hostVars, recordVars, task, copy, taskList, request, spoiled>>
        /\ visit' = [job |-> j, saw |-> "asked"]
    BY <1>20 DEF VisitBegins
  <2>2. \A k \in Jobs : Visited(k)' => k = j
    BY <2>1 DEF Visited
  <2>3. copy[j] # "restore" /\ task[j] \notin {"setup", "restore"}
    BY <2>1 DEF ListInv, ListOK, Restoring
  <2>. QED
    BY <2>1, <2>2, <2>3 DEF ListInv, ListOK, ListedOK, Quiet, Ended, Present
<1>21. CASE VisitSees
  <2>1. \A k \in Jobs : Visited(k)' => Visited(k)
    BY <1>21 DEF VisitSees, Visited, TypeOK
  <2>. QED
    BY <1>21, <2>1 DEF VisitSees, ListInv, ListOK, ListedOK, Quiet, Ended, Present
<1>22. CASE VisitReturns
  <2>1. CASE /\ visit' = None
             /\ UNCHANGED <<hostVars, recordVars, task, copyVars, taskList, request, spoiled>>
    BY <2>1 DEF ListInv, ListOK, ListedOK, Quiet, Ended, Present, Visited
  <2>2. ASSUME Concludes(visit.job, visit.saw), visit # None PROVE ListInv'
    <3>1. visit.job \in Jobs /\ Visited(visit.job)
        BY <2>2 DEF Visited, TypeOK
    <3>2. copy[visit.job] # "restore"
        BY <3>1 DEF ListInv, ListOK
    <3>. QED  BY <1>12, <2>2, <3>1, <3>2
  <2>. QED  BY <1>22, <2>1, <2>2 DEF VisitReturns
<1>23. ASSUME NEW j \in Jobs, LocalVisit(j) PROVE ListInv'
  <2>1. copy[j] # "restore"
    BY <1>23 DEF LocalVisit, ListInv, ListOK, Restoring
  <2>. QED  BY <1>12, <1>23, <2>1 DEF LocalVisit
<1>24. CASE Restart
  <2>1. ASSUME NEW j \in Jobs PROVE ListOK(j)'
    <3>1. /\ UNCHANGED <<hostVars, disk, copy>> /\ task'[j] = "none" /\ request'[j] = None
          /\ visit' = None
          /\ record'[j] = (IF disk[j] # None THEN disk[j]
                           ELSE [status |-> "CANCELLED", files |-> None])
          /\ j \notin spoiled' =>
                j \notin spoiled \/ (record'[j].files = None /\ wrapper[j] \in Over)
        BY <1>24 DEF Restart
    <3>2. ListOK(j)
        BY DEF ListInv
    <3>3. disk[j] # None => ListedOK(j, disk[j])'
        BY <3>1, <3>2 DEF ListOK, ListedOK, Quiet
    <3>4. ListedOK(j, record[j])'
        BY <3>1, <3>3 DEF ListedOK
    <3>. QED  BY <3>1, <3>2, <3>3, <3>4 DEF ListOK, Visited, Restoring
  <2>. QED  BY <2>1 DEF ListInv
<1>25. CASE UNCHANGED vars
    BY <1>25 DEF vars, ListInv, ListOK, ListedOK, Quiet, Ended, Present, Visited
<1>. QED
    BY <1>1, <1>2, <1>3, <1>4, <1>5, <1>6, <1>7, <1>8, <1>9, <1>10, <1>11, <1>13, <1>14,
       <1>15, <1>16, <1>17, <1>18, <1>19, <1>20, <1>21, <1>22, <1>23, <1>24, <1>25,
       FilesAssumption DEF Next

-----------------------------------------------------------------------------

FilesInv == TypeOK /\ Begun /\ CacheInv /\ ListInv

LEMMA FilesStart == Init => FilesInv
<1>. SUFFICES ASSUME Init PROVE FilesInv
    OBVIOUS
<1>1. TypeOK
    BY FileTypes, ListingTypes DEF Init, TypeOK, Record
<1>2. Begun /\ CacheInv
    BY DEF Init, Begun, CacheInv, CopyOK, Clean, OwnOrClean
<1>3. ListInv
    BY FilesAssumption DEF Init, ListInv, ListOK, ListedOK, Ended, Visited
<1>. QED  BY <1>1, <1>2, <1>3 DEF FilesInv

LEMMA FilesInductive == Spec => []FilesInv
<1>1. FilesInv /\ [Next]_vars => FilesInv'
    BY TypeSteps, CacheSteps, ListSteps DEF FilesInv
<1>. QED  BY FilesStart, <1>1, PTL DEF Spec

(* The records, the files and the copies under way have their types, for   *)
(* every set of jobs and of files.                                         *)
THEOREM TypeCorrect == Spec => []TypeOK
<1>1. FilesInv => TypeOK
    BY DEF FilesInv
<1>. QED  BY FilesInductive, <1>1, PTL

(* However many jobs restore from, run, are cancelled and save to one      *)
(* cache at once: no half of a file in it is of a workflow that failed.    *)
THEOREM CacheIsFromSuccess == Spec => []CacheFromSuccess
<1>1. FilesInv => CacheFromSuccess
    BY DEF FilesInv, CacheInv, Clean, CacheFromSuccess, Present
<1>. QED  BY FilesInductive, <1>1, PTL

(* The listing kept of a job that has ended is complete until its files    *)
(* are removed, for any number of clients' listings, stale visits of the   *)
(* sync loop, retirements and restarts that come between, but for the ways *)
(* the property names in which an early listing stays.                     *)
THEOREM FinalListing == Spec => []FinalListingIsComplete
<1>1. FilesInv => FinalListingIsComplete
    BY DEF FilesInv, TypeOK, ListInv, ListOK, ListedOK, Ended, FinalListingIsComplete
<1>. QED  BY FilesInductive, <1>1, PTL

=============================================================================
