---------------------------- MODULE PromiseProofs -----------------------------
(***************************************************************************)
(* Proof that a server with local workflows implements JobPromise, for any *)
(* number of jobs: every step of Dispatch is a step of JobPromise, or      *)
(* changes nothing a client or the next server process could see.          *)
(***************************************************************************)
EXTENDS OutcomeProofs

(* The refinement mapping, for one job.                                    *)
Shown(j) == IF life[j] = "deleted" THEN "GONE" ELSE record[j].status

Kept(j) == IF life[j] = "deleted" THEN "GONE" ELSE disk[j].status

(* A job clients have submitted and not deleted is in the store, in memory *)
(* and in DATA_DIR, which is what a restart starts from.                   *)
Known(j) ==
    life[j] = "born" =>
        j \in jobs /\ Status(j) \in JobStatus /\ disk[j].status \in JobStatus

PromiseInv == OutcomeInv /\ \A j \in Jobs : Known(j)

(* What a step of JobPromise does to job j: Report, Keep or nothing, or    *)
(* Withdraw.                                                               *)
Moves(j) ==
    \/ /\ Shown(j)' \in Promise!Successors(Shown(j))
       /\ Kept(j)' \in {Kept(j), Shown(j)'}
    \/ Shown(j)' = Shown(j) /\ Kept(j)' \in {Kept(j), Shown(j)}
    \/ Shown(j) \in JobStatus /\ Shown(j)' = "GONE" /\ Kept(j)' = "GONE"

Unseen(j) ==
    /\ record'[j] = record[j] /\ disk'[j] = disk[j] /\ life'[j] = life[j]
    /\ j \in jobs' <=> j \in jobs

(* The step is about job j, keeps the promise to it and changes no other.  *)
MovesOnly(j) ==
    /\ Moves(j) /\ Known(j)'
    /\ \A i \in Jobs \ {j} : Unseen(i)

(* What JobPromise sees of the server.                                     *)
seen == [j \in Jobs |-> IF life[j] = "deleted" THEN "GONE" ELSE record[j].status]

kept == [j \in Jobs |-> IF life[j] = "deleted" THEN "GONE" ELSE disk[j].status]

(* Such a step is one of JobPromise.                                       *)
LEMMA MovesArePromised ==
    ASSUME NEW j \in Jobs, MovesOnly(j)
    PROVE  [Promise!PromiseNext]_<<seen, kept>>
<1>. DEFINE s == Shown(j)'
<1>1. \A i \in Jobs : seen[i] = Shown(i) /\ kept[i] = Kept(i)
    BY DEF seen, kept, Shown, Kept
<1>2. \A i \in Jobs \ {j} : seen'[i] = seen[i] /\ kept'[i] = kept[i]
    BY DEF MovesOnly, Unseen, seen, kept
<1>3. seen' = [seen EXCEPT ![j] = s]
    BY <1>2 DEF seen, Shown
<1>4. kept' = [kept EXCEPT ![j] = Kept(j)']
    BY <1>2 DEF kept, Kept
<1>5. (s = seen[j] => seen' = seen) /\ (Kept(j)' = kept[j] => kept' = kept)
    BY <1>3, <1>4 DEF seen, kept
<1>. HIDE DEF s
<1>6. CASE s \in Promise!Successors(Shown(j)) /\ Kept(j)' \in {Kept(j), s}
  <2>1. s \in Promise!Successors(seen[j]) /\ kept' \in {kept, [kept EXCEPT ![j] = s]}
    BY <1>1, <1>4, <1>5, <1>6
  <2>. QED  BY <1>3, <2>1 DEF Promise!PromiseNext, Promise!Report, seen, kept
<1>7. CASE s = Shown(j) /\ Kept(j)' \in {Kept(j), Shown(j)}
  <2>1. seen' = seen /\ kept' \in {kept, [kept EXCEPT ![j] = seen[j]]}
    BY <1>1, <1>4, <1>5, <1>7
  <2>. QED  BY <2>1 DEF Promise!PromiseNext, Promise!Keep, seen, kept
<1>8. CASE Shown(j) \in JobStatus /\ s = "GONE" /\ Kept(j)' = "GONE"
  <2>1. seen[j] \in JobStatus /\ seen' = [seen EXCEPT ![j] = "GONE"]
        /\ kept' = [kept EXCEPT ![j] = "GONE"]
    BY <1>1, <1>3, <1>4, <1>8
  <2>. QED  BY <2>1 DEF Promise!PromiseNext, Promise!Withdraw, seen, kept,
                Promise!JobStatus, JobStatus
<1>. QED  BY <1>6, <1>7, <1>8 DEF MovesOnly, Moves, s

-----------------------------------------------------------------------------
(* The order of the statuses, as the marks go through them.                *)
LEMMA Follows ==
    ASSUME NEW r \in Record, r.status \in JobStatus
    PROVE  /\ "PENDING" \in Promise!Successors("NONE")
           /\ r.status = "PENDING" => SetupMark(r).status \in Promise!Successors(r.status)
           /\ r.status = "SETUP" => RunningMark(r).status \in Promise!Successors(r.status)
           /\ r.status = "RUNNING" =>
                 \A c \in ExitCode :
                     FinishedMark(r, c).status \in Promise!Successors(r.status)
           /\ ~Terminal(r) => ErrorMark(r).status \in Promise!Successors(r.status)
           /\ \/ CancelledMark(r) = r
              \/ CancelledMark(r).status \in Promise!Successors(r.status)
<1>. USE DEF Promise!Successors, Promise!GivenUp, Promise!TERMINAL_STATUSES
<1>1. /\ SetupMark(r).status = "SETUP" /\ RunningMark(r).status = "RUNNING"
      /\ ErrorMark(r).status = "ERROR"
      /\ ~Terminal(r) => CancelledMark(r).status = "CANCELLED"
      /\ Terminal(r) => CancelledMark(r) = r
      /\ \A c \in ExitCode : FinishedMark(r, c).status \in {"COMPLETED", "FAILED"}
    BY DEF SetupMark, RunningMark, ErrorMark, CancelledMark, FinishedMark, Record
<1>2. ~Terminal(r) <=> r.status \in {"PENDING", "SETUP", "RUNNING"}
    BY DEF Terminal, TERMINAL_STATUSES, JobStatus
<1>. QED  BY <1>1, <1>2

(* A step that marks job j with r, and may persist that.                   *)
LEMMA MarkMoves ==
    ASSUME PromiseInv, NEW j \in Jobs, NEW r \in Record,
           record' = [record EXCEPT ![j] = MarkIn(j, r)],
           disk' \in {disk, [disk EXCEPT ![j] = MarkIn(j, r)]},
           jobs' = jobs, life' = life, life[j] # "unborn",
           life[j] = "born" =>
               \/ r.status = Status(j)
               \/ r.status \in Promise!Successors(Status(j)) \cap JobStatus
    PROVE  MovesOnly(j)
<1>1. /\ record \in [Jobs -> Record] /\ disk \in [Jobs -> Record] /\ life \in [Jobs -> Life]
      /\ Known(j)
    BY DEF PromiseInv, OutcomeInv, SafetyInv, TypeInv, TypeOK
<1>2. \A i \in Jobs \ {j} : Unseen(i)
    BY <1>1 DEF Unseen
<1>3. record'[j] = MarkIn(j, r) /\ disk'[j] \in {disk[j], MarkIn(j, r)}
    BY <1>1
<1>4. CASE life[j] = "deleted"
    BY <1>2, <1>4 DEF MovesOnly, Moves, Known, Shown, Kept
<1>5. CASE life[j] = "born"
  <2>1. j \in jobs /\ MarkIn(j, r) = r
    BY <1>1, <1>5 DEF Known, MarkIn
  <2>2. Moves(j)
    BY <1>3, <1>5, <2>1 DEF Moves, Shown, Kept, Status
  <2>3. Known(j)'
    BY <1>1, <1>3, <1>5, <2>1 DEF Known, Status
  <2>. QED  BY <1>2, <2>2, <2>3 DEF MovesOnly
<1>. QED  BY <1>1, <1>4, <1>5 DEF Life

(* The finally clause.                                                     *)
LEMMA FinalizeMoves ==
    ASSUME PromiseInv, NEW j \in Jobs, NEW r \in Record, Finalize(j, r),
           UNCHANGED <<hostVars, restVars>>, life[j] # "unborn",
           life[j] = "born" =>
               \/ r.status = Status(j)
               \/ r.status \in Promise!Successors(Status(j)) \cap JobStatus
    PROVE  MovesOnly(j)
<1>1. /\ record' = [record EXCEPT ![j] = MarkIn(j, r)]
      /\ disk' \in {disk, [disk EXCEPT ![j] = MarkIn(j, r)]}
      /\ jobs' = jobs /\ life' = life
    BY DEF Finalize, Mark, Persist, restVars, serverVars
<1>. QED  BY <1>1, MarkMoves

(* A step that touches no record.                                          *)
LEMMA StillMoves ==
    ASSUME PromiseInv, NEW j \in Jobs, UNCHANGED <<record, jobs, disk, life>>
    PROVE  MovesOnly(j)
    BY DEF PromiseInv, MovesOnly, Moves, Unseen, Known, Shown, Kept, Status

(* A step of execute_job keeps the promise: it marks a job it may still    *)
(* decide about, or persists what is decided.                              *)
LEMMA TaskMoves ==
    ASSUME PromiseInv, NEW j \in Jobs, ExecuteJob(j) \/ BackendRaises(j)
    PROVE  MovesOnly(j)
<1>t. /\ TypeInv /\ TypeOK /\ ~full /\ RecordOK(j) /\ OutcomeOK(j) /\ Known(j)
      /\ record[j] \in Record /\ code[j] \in ExitCode
    BY DEF PromiseInv, OutcomeInv, SafetyInv, TypeInv, TypeOK
<1>r. /\ SetupMark(record[j]) \in Record /\ RunningMark(record[j]) \in Record
      /\ ErrorMark(record[j]) \in Record /\ CancelledMark(record[j]) \in Record
      /\ FinishedMark(record[j], code[j]) \in Record
    BY <1>t, MarkTypes
<1>s. /\ SetupMark(record[j]).status \in JobStatus
      /\ RunningMark(record[j]).status \in JobStatus
      /\ ErrorMark(record[j]).status \in JobStatus
      /\ FinishedMark(record[j], code[j]).status \in JobStatus
      /\ CancelledMark(record[j]) = record[j] \/ CancelledMark(record[j]).status \in JobStatus
    BY <1>t DEF Record, JobStatus, SetupMark, RunningMark, ErrorMark, FinishedMark,
       CancelledMark
<1>u. ASSUME NEW pc \in TaskState \ {"none", "done", "save", "final"}, Resumes(j, pc)
      PROVE  /\ life[j] # "unborn" /\ j \in jobs /\ ~Terminal(record[j])
             /\ Status(j) \in JobStatus
  <2>1. j \in jobs /\ ~Terminal(record[j])
    BY <1>u, Undecided DEF PromiseInv
  <2>2. life[j] # "unborn"
    BY <2>1, <1>t DEF RecordOK
  <2>3. Status(j) # "NONE"
    BY <1>t, <1>u, <2>1 DEF RecordOK, OutcomeOK, Wanted, Resumes, Terminal, Status, TaskState,
       TERMINAL_STATUSES
  <2>. QED  BY <1>t, <2>1, <2>2, <2>3 DEF Record, Status
<1>1. CASE PidTimeout(j) \/ BackendRaises(j)
  <2>1. PICK pc \in TaskState \ {"none", "done", "save", "final"} :
           Resumes(j, pc) /\ Fails(j)
    BY <1>1 DEF PidTimeout, BackendRaises, TaskState
  <2>2. ErrorMark(record[j]).status \in Promise!Successors(Status(j))
    BY <1>t, <1>u, <2>1, Follows DEF Status
  <2>. QED  BY <1>r, <1>s, <1>u, <2>1, <2>2, FinalizeMoves DEF Fails
<1>2. CASE Collect(j)
  <2>1. Resumes(j, "collect") /\ "collect" \in TaskState \ {"none", "done", "save", "final"}
    BY <1>2 DEF Collect, TaskState
  <2>2. Status(j) = "RUNNING"
    BY <1>t, <1>u, <2>1 DEF OutcomeOK, Wanted, Resumes, Terminal, Status
  <2>3. FinishedMark(record[j], code[j]).status \in Promise!Successors(Status(j))
    BY <1>t, <2>2, Follows DEF Status, JobStatus
  <2>4. CASE Finalize(j, FinishedMark(record[j], code[j]))
    BY <1>2, <1>r, <1>s, <1>u, <2>1, <2>3, <2>4, FinalizeMoves DEF Collect
  <2>5. CASE Mark(j, FinishedMark(record[j], code[j])) /\ UNCHANGED <<jobs, disk>>
    BY <1>2, <1>r, <1>s, <1>u, <2>1, <2>3, <2>5, MarkMoves
       DEF Collect, Mark, restVars, serverVars
  <2>. QED  BY <1>2, <2>4, <2>5 DEF Collect
<1>3. CASE SaveReturns(j)
  <2>1. life[j] # "unborn"
    BY <1>3, <1>t DEF SaveReturns, Resumes, TypeInv, HostOK
  <2>. QED  BY <1>3, <1>t, <2>1, FinalizeMoves DEF SaveReturns, Status
<1>4. CASE CancelDelivered(j) /\ task[j] # "final"
  <2>1. life[j] # "unborn"
    BY <1>4, <1>t DEF CancelDelivered, TypeInv, HostOK
  <2>2. Finalize(j, CancelledMark(record[j])) /\ UNCHANGED <<hostVars, restVars>>
    BY <1>4 DEF CancelDelivered
  <2>3. life[j] = "born" =>
           \/ CancelledMark(record[j]).status = Status(j)
           \/ CancelledMark(record[j]).status \in Promise!Successors(Status(j)) \cap JobStatus
    BY <1>t, <1>s, Follows DEF Status, Known
  <2>. QED  BY <1>r, <2>1, <2>2, <2>3, FinalizeMoves
<1>5. CASE PrepareReturns(j) \/ SetupReturns(j)
  <2>1. PICK pc \in {"checkout", "setup"}, r \in Record, to \in TaskState :
           /\ Resumes(j, pc) /\ MarkAndPersist(j, r, to) /\ UNCHANGED <<hostVars, restVars>>
           /\ r = IF pc = "checkout" THEN SetupMark(record[j]) ELSE RunningMark(record[j])
    BY <1>5, <1>r DEF PrepareReturns, SetupReturns, TaskState
  <2>2. /\ life[j] # "unborn" /\ j \in jobs /\ ~Terminal(record[j])
        /\ Status(j) \in JobStatus
    BY <1>u, <2>1 DEF TaskState
  <2>3. Status(j) = IF pc = "checkout" THEN "PENDING" ELSE "SETUP"
    BY <1>t, <2>1, <2>2 DEF RecordOK, Resumes, Terminal, Status, TERMINAL_STATUSES
  <2>4. r.status \in Promise!Successors(Status(j)) \cap JobStatus
    BY <1>t, <1>s, <2>1, <2>2, <2>3, Follows DEF Status
  <2>5. /\ record' = [record EXCEPT ![j] = MarkIn(j, r)]
        /\ disk' = [disk EXCEPT ![j] = MarkIn(j, r)] /\ jobs' = jobs /\ life' = life
    BY <1>t, <2>1, <2>2 DEF MarkAndPersist, Mark, MarkIn, restVars, serverVars
  <2>. QED  BY <2>2, <2>4, <2>5, MarkMoves
<1>6. CASE FinalSync(j)
  <2>1. life[j] # "unborn"
    BY <1>6, <1>t DEF FinalSync, Resumes, TypeInv, HostOK
  <2>2. /\ record' = [record EXCEPT ![j] = MarkIn(j, record[j])]
        /\ disk' = [disk EXCEPT ![j] = MarkIn(j, record[j])]
        /\ jobs' = jobs /\ life' = life
    BY <1>6, <1>t DEF FinalSync, Persist, MarkIn, TypeOK, restVars, serverVars
  <2>. QED  BY <1>t, <2>1, <2>2, MarkMoves DEF Status
<1>7. CASE \/ Checkout(j) \/ Spawn(j) \/ PidFound(j) \/ MonitorReadsExitCode(j)
           \/ MonitorFindsNoFile(j) \/ MonitorProbesPid(j)
           \/ CancelDelivered(j) /\ task[j] = "final"
  <2>1. UNCHANGED <<record, jobs, disk, life>>
    BY <1>7 DEF Checkout, Spawn, PidFound, MonitorReadsExitCode, MonitorFindsNoFile,
       MonitorProbesPid, MonitorReturns, CancelDelivered, storeVars, restVars, serverVars
  <2>. QED  BY <2>1, StillMoves
<1>. QED  BY <1>1, <1>2, <1>3, <1>4, <1>5, <1>6, <1>7 DEF ExecuteJob

(* So do the sync loop and the handlers of the routes, with local          *)
(* workflows.                                                              *)
LEMMA OtherMoves ==
    ASSUME Backend = "local", PromiseInv, NEW j \in Jobs,
           Submit(j) \/ SyncRecovers(j) \/ Cancel(j) \/ Delete(j) \/ GcDeletes(j)
    PROVE  MovesOnly(j)
<1>t. /\ TypeOK /\ ~full /\ RecordOK(j) /\ OutcomeOK(j) /\ Known(j)
      /\ record[j] \in Record /\ record \in [Jobs -> Record] /\ disk \in [Jobs -> Record]
      /\ life \in [Jobs -> Life] /\ sync[j] \in SyncState
    BY DEF PromiseInv, OutcomeInv, SafetyInv, TypeInv, TypeOK
<1>c. /\ CancelledMark(record[j]) \in Record
      /\ CancelledMark(record[j]) = record[j] \/ CancelledMark(record[j]).status \in JobStatus
    BY <1>t, MarkTypes DEF CancelledMark, Record, JobStatus
<1>1. CASE Submit(j)
  <2>1. /\ record' = [record EXCEPT ![j] = NewRecord] /\ jobs' = jobs \cup {j}
        /\ disk' = [disk EXCEPT ![j] = NewRecord] /\ life' = [life EXCEPT ![j] = "born"]
        /\ life[j] = "unborn"
    BY <1>1, <1>t DEF Submit, Persist
  <2>2. record[j].status = "NONE" /\ disk[j].status = "NONE"
    BY <1>t, <2>1 DEF RecordOK, NoRecord
  <2>3. /\ record'[j].status = "PENDING" /\ disk'[j].status = "PENDING" /\ life'[j] = "born"
        /\ j \in jobs' /\ \A i \in Jobs \ {j} : Unseen(i)
    BY <1>t, <2>1 DEF NewRecord, Unseen
  <2>4. Shown(j) = "NONE" /\ Shown(j)' = "PENDING" /\ Kept(j)' = "PENDING"
    BY <2>1, <2>2, <2>3 DEF Shown, Kept
  <2>5. "PENDING" \in Promise!Successors("NONE") /\ "PENDING" \in JobStatus
    BY DEF Promise!Successors, JobStatus
  <2>. QED  BY <2>3, <2>4, <2>5 DEF MovesOnly, Moves, Known, Status
<1>2. CASE SyncRecovers(j)
  <2>. DEFINE r == FinishedMark(record[j], sync[j])
  <2>1. Status(j) = "RUNNING" /\ life[j] # "unborn" /\ sync[j] \in ExitCode
    BY <1>2, <1>t DEF SyncRecovers, OutcomeOK, Visited, RecordOK, NoRecord, Status, ExitCode
  <2>2. r \in Record /\ r.status \in Promise!Successors(Status(j))
    BY <1>t, <2>1, MarkTypes, Follows DEF Status, JobStatus
  <2>3. r.status \in JobStatus
    BY <1>t DEF FinishedMark, Record, JobStatus
  <2>4. /\ record' = [record EXCEPT ![j] = MarkIn(j, r)]
        /\ disk' = [disk EXCEPT ![j] = MarkIn(j, r)] /\ jobs' = jobs /\ life' = life
    BY <1>2, <1>t DEF SyncRecovers, Persist, loopRest, serverVars
  <2>. HIDE DEF r
  <2>. QED  BY <2>1, <2>2, <2>3, <2>4, MarkMoves
<1>3. CASE Cancel(j)
  <2>1. /\ record' = [record EXCEPT ![j] = MarkIn(j, CancelledMark(record[j]))]
        /\ disk' = disk /\ jobs' = jobs /\ life' = life /\ life[j] # "unborn"
    BY <1>3, <1>t DEF Cancel, MarkIn, RecordOK, serverVars
  <2>2. life[j] = "born" =>
           \/ CancelledMark(record[j]).status = Status(j)
           \/ CancelledMark(record[j]).status \in Promise!Successors(Status(j)) \cap JobStatus
    BY <1>t, <1>c, Follows DEF Known, Status
  <2>. QED  BY <1>c, <2>1, <2>2, MarkMoves
<1>4. CASE Delete(j) \/ GcDeletes(j)
  <2>1. /\ record' \in {record, [record EXCEPT ![j] = CancelledMark(record[j])]}
        /\ disk' = [disk EXCEPT ![j] = NoRecord] /\ jobs' = jobs \ {j}
        /\ life' = [life EXCEPT ![j] = "deleted"]
    BY <1>4 DEF Delete, GcDeletes, StoreDelete
  <2>2. life[j] # "unborn"
    BY <1>4, <1>t DEF Delete, GcDeletes, RecordOK, Terminal, NoRecord, TERMINAL_STATUSES
  <2>3. Shown(j) \in JobStatus \cup {"GONE"} /\ Kept(j) \in JobStatus \cup {"GONE"}
        /\ (Shown(j) = "GONE" => life[j] = "deleted")
    BY <1>t, <2>2 DEF Known, Shown, Kept, Status, Life, JobStatus
  <2>4. Shown(j)' = "GONE" /\ Kept(j)' = "GONE" /\ Known(j)'
    BY <1>t, <2>1 DEF Shown, Kept, Known
  <2>5. \A i \in Jobs \ {j} : Unseen(i)
    BY <1>t, <2>1 DEF Unseen
  <2>6. life[j] = "deleted" => Shown(j) = "GONE" /\ Kept(j) = "GONE"
    BY DEF Shown, Kept
  <2>. QED  BY <2>3, <2>4, <2>5, <2>6 DEF MovesOnly, Moves
<1>. QED  BY <1>1, <1>2, <1>3, <1>4

(* What a step of Dispatch is to JobPromise.                               *)
LEMMA PromisedStep ==
    ASSUME "full" \notin Environment, Backend = "local", PromiseInv, Next
    PROVE  /\ [Promise!PromiseNext]_<<seen, kept>>
           /\ \A i \in Jobs : Known(i)'
<1>1. ASSUME NEW j \in Jobs, MovesOnly(j)
      PROVE  /\ [Promise!PromiseNext]_<<seen, kept>>
             /\ \A i \in Jobs : Known(i)'
  <2>1. \A i \in Jobs \ {j} : Known(i)'
    BY <1>1 DEF MovesOnly, Unseen, PromiseInv, Known, Status
  <2>. QED  BY <1>1, <2>1, MovesArePromised DEF MovesOnly
<1>2. ASSUME NEW j \in Jobs,
             \/ ExecuteJob(j) \/ BackendRaises(j)
             \/ Submit(j) \/ SyncRecovers(j) \/ Cancel(j) \/ Delete(j) \/ GcDeletes(j)
      PROVE  MovesOnly(j)
    BY <1>2, TaskMoves, OtherMoves
<1>3. ASSUME NEW j \in Jobs,
             \/ SyncSkips(j) \/ SyncVisits(j) \/ SyncTestsExitCode(j)
             \/ SyncProbesPid(j) \/ SyncPassesOn(j)
             \/ GcSkips(j) \/ GcCleans(j)
             \/ \E owner \in Owner : \/ CleanupTerminates(j, owner)
                                     \/ CleanupRemoves(j, owner) \/ CleanupFails(j, owner)
             \/ Host(j) \/ WrapperKilled(j) \/ WrapperCannotWrite(j)
      PROVE  UNCHANGED <<record, jobs, disk, life>>
    BY <1>3 DEF SyncSkips, SyncVisits, SyncTestsExitCode, SyncProbesPid, SyncPassesOn,
       GcSkips, GcCleans, CleanupTerminates, CleanupRemoves, CleanupFails, CleanupGoes,
       Host, WrapperStarts, WrapperOpensExitCode, WrapperEnds, WrapperKilled,
       WrapperCannotWrite, storeVars, serverVars, loopRest
<1>4. CASE SyncWakes \/ GcWakes \/ Crash \/ Interrupt \/ DiskFills
  <2>1. UNCHANGED <<record, jobs, disk, life>>
    BY <1>4 DEF SyncWakes, GcWakes, Crash, Interrupt, DiskFills, storeVars, serverVars, loopRest
  <2>. QED  BY <2>1 DEF seen, kept, PromiseInv, Known, Status
<1>5. CASE Restart
  <2>1. /\ record' = disk /\ disk' = disk /\ life' = life
        /\ jobs' = {j \in Jobs : disk[j] # NoRecord}
    BY <1>5 DEF Restart
  <2>2. seen' = kept /\ kept' = kept
    BY <2>1 DEF seen, kept
  <2>3. \A i \in Jobs : Known(i)'
    BY <2>1 DEF PromiseInv, Known, Status, NoRecord, JobStatus
  <2>. QED  BY <2>2, <2>3 DEF Promise!PromiseNext, Promise!Crash, seen, kept
<1>6. ASSUME UNCHANGED <<record, jobs, disk, life>>
      PROVE  /\ [Promise!PromiseNext]_<<seen, kept>>
             /\ \A i \in Jobs : Known(i)'
    BY <1>6 DEF seen, kept, PromiseInv, Known, Status
<1>. QED
    BY <1>1, <1>2, <1>3, <1>4, <1>5, <1>6 DEF Next, SyncVisit, Retire

(* Seen from its clients, a server with local workflows keeps the promise  *)
(* of JobPromise to every job, for any number of jobs, crashes, restarts,  *)
(* cancellations, deletions and failures of the backend.                   *)
THEOREM LocalKeepsPromise ==
    ASSUME "full" \notin Environment, Backend = "local"
    PROVE  Spec => KeepsPromise
<1>1. Init => Promise!PromiseInit /\ \A j \in Jobs : Known(j)
    BY DEF Init, Promise!PromiseInit, Known, NoRecord
<1>2. PromiseInv /\ [Next]_vars =>
         /\ [Promise!PromiseNext]_<<seen, kept>>
         /\ \A j \in Jobs : Known(j)'
  <2>. SUFFICES ASSUME PromiseInv, [Next]_vars
                PROVE  /\ [Promise!PromiseNext]_<<seen, kept>>
                       /\ \A j \in Jobs : Known(j)'
    OBVIOUS
  <2>1. CASE Next
    BY <2>1, PromisedStep
  <2>2. CASE UNCHANGED vars
    BY <2>2 DEF vars, storeVars, serverVars, seen, kept, PromiseInv, Known, Status
  <2>. QED  BY <2>1, <2>2
<1>3. OutcomeInv /\ (\A j \in Jobs : Known(j)) => PromiseInv
    BY DEF PromiseInv
<1>4. OutcomeInv' /\ (\A j \in Jobs : Known(j)') => PromiseInv'
    BY DEF PromiseInv
<1>. QED
    BY <1>1, <1>2, <1>3, <1>4, OutcomeInvariant, PTL
       DEF Spec, KeepsPromise, Promise!PromiseSpec, seen, kept

=============================================================================
