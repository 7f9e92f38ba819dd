---------------------------- MODULE OutcomeProofs -----------------------------
(***************************************************************************)
(* Proofs of what DispatchProperties says of a server whose DATA_DIR takes *)
(* writes, for every set of jobs and every other environment: how a job    *)
(* that is decided winds up, and what stays of it.                         *)
(***************************************************************************)
EXTENDS DispatchProofs

(* The invariant behind these properties.  A task whose job is decided is  *)
(* on its way out; one that runs the job has it RUNNING, unless it is      *)
(* decided; when it is over, or will be at its next step, job.json has the *)
(* outcome; and the local sync loop finds a job as it saw it.              *)

WindsUp(j) ==
    Live(j) /\ (j \notin jobs \/ Terminal(record[j])) =>
        j \in cancelling \/ task[j] \in {"save", "final"}

Wanted(j) ==
    task[j] \in {"launch", "pidwait", "monitor", "probe", "collect"} =>
        Status(j) \in {"RUNNING"} \cup TERMINAL_STATUSES

Durable(j) ==
    /\ j \in jobs /\ ~stopping
    /\ task[j] = "done" \/ (task[j] = "final" /\ j \in cancelling)
    => disk[j] = record[j]

Visited(j) ==
    Backend = "local" /\ sync[j] \notin {"out", "todo"} => Status(j) = "RUNNING"

OutcomeOK(j) == WindsUp(j) /\ Wanted(j) /\ Durable(j) /\ Visited(j)

OutcomeInv == SafetyInv /\ ~full /\ \A j \in Jobs : OutcomeOK(j)

(* A step that does nothing to job i keeps its part of it.                 *)
LEMMA OtherOutcome ==
    ASSUME OutcomeInv, NEW i \in Jobs, Untouched(i), stopping' = stopping
    PROVE  OutcomeOK(i)'
    BY DEF OutcomeInv, Untouched, OutcomeOK, WindsUp, Wanted, Durable, Visited, Status, Live

(* The finally clause, wherever it is entered: the coroutine ends with its *)
(* record persisted, or awaits its last sync.                              *)
LEMMA FinalizeOutcome ==
    ASSUME OutcomeInv, LoopFree, NEW j \in Jobs, NEW r \in Record, Finalize(j, r),
           UNCHANGED <<hostVars, restVars>>, NEW i \in Jobs
    PROVE  OutcomeOK(i)'
<1>1. TypeOK /\ ~full
    BY DEF OutcomeInv, SafetyInv, TypeInv
<1>2. /\ j \notin cancelling' /\ task'[j] \in {"done", "final"}
      /\ \A k \in Jobs \ {j} :
            /\ record'[k] = record[k] /\ disk'[k] = disk[k]
            /\ task'[k] = task[k] /\ code'[k] = code[k]
            /\ k \in cancelling' <=> k \in cancelling
    BY <1>1, FinalizeEffect
<1>3. task'[j] = "done" => disk'[j] = record'[j]
    BY <1>1 DEF Finalize, Mark, Persist, TypeOK
<1>4. /\ jobs' = jobs /\ stopping' = stopping /\ sync' = sync /\ gc' = gc
      /\ wrapper' = wrapper /\ life' = life
    BY DEF Finalize, hostVars, restVars, loopVars, serverVars
<1>5. CASE i # j
    BY <1>2, <1>4, <1>5, OtherOutcome DEF Untouched
<1>6. Backend = "local" => sync[j] \in {"out", "todo"}
    BY DEF LoopFree
<1>7. CASE i = j
    BY <1>2, <1>3, <1>4, <1>6, <1>7 DEF OutcomeOK, WindsUp, Wanted, Durable, Visited, Live
<1>. QED  BY <1>5, <1>7

(* A task that goes on in spite of no cancellation has a job that is not   *)
(* decided.                                                                *)
LEMMA Undecided ==
    ASSUME OutcomeInv, NEW j \in Jobs, NEW pc \in TaskState \ {"none", "done", "save", "final"},
           Resumes(j, pc)
    PROVE  j \in jobs /\ ~Terminal(record[j])
    BY DEF OutcomeInv, OutcomeOK, WindsUp, Resumes, Live, TaskState

(* The steps that mark a record and go on.                                 *)
LEMMA MarkingOutcome ==
    ASSUME OutcomeInv, NEW j \in Jobs,
           \/ PrepareReturns(j) \/ SetupReturns(j)
           \/ Collect(j) /\ code[j] = "zero" /\ j \in CacheJobs,
           NEW i \in Jobs
    PROVE  OutcomeOK(i)'
<1>r. /\ record \in [Jobs -> Record] /\ disk \in [Jobs -> Record]
      /\ task \in [Jobs -> TaskState] /\ ~full
    BY DEF OutcomeInv, SafetyInv, TypeInv, TypeOK
<1>u. /\ jobs' = jobs /\ cancelling' = cancelling /\ code' = code /\ stopping' = stopping
      /\ wrapper' = wrapper /\ sync' = sync /\ gc' = gc /\ life' = life
      /\ LoopFree /\ j \notin cancelling
    BY <1>r DEF PrepareReturns, SetupReturns, Collect, Resumes, MarkAndPersist, hostVars,
           restVars, loopVars, serverVars
<1>v. Backend = "local" => sync[j] \in {"out", "todo"}
    BY <1>u DEF LoopFree
<1>1. CASE PrepareReturns(j)
  <2>1. j \in jobs
    BY <1>1, Undecided DEF PrepareReturns, TaskState
  <2>2. /\ record' = [record EXCEPT ![j] = SetupMark(record[j])]
        /\ disk' = [disk EXCEPT ![j] = SetupMark(record[j])]
        /\ task' = [task EXCEPT ![j] = "setup"]
    BY <1>1, <1>r, <2>1 DEF PrepareReturns, MarkAndPersist, Mark, MarkIn
  <2>3. record'[j].status = "SETUP" /\ task'[j] = "setup" /\ (i # j => Untouched(i))
    BY <1>r, <1>u, <2>2 DEF SetupMark, Untouched
  <2>4. OutcomeOK(j)'
    BY <1>u, <1>v, <2>1, <2>3 DEF OutcomeOK, WindsUp, Wanted, Durable, Visited, Terminal,
       TERMINAL_STATUSES
  <2>. QED  BY <1>u, <2>3, <2>4, OtherOutcome
<1>2. CASE SetupReturns(j)
  <2>1. j \in jobs
    BY <1>2, Undecided DEF SetupReturns, TaskState
  <2>2. /\ record' = [record EXCEPT ![j] = RunningMark(record[j])]
        /\ disk' = [disk EXCEPT ![j] = RunningMark(record[j])]
        /\ task' = [task EXCEPT ![j] = "launch"]
    BY <1>2, <1>r, <2>1 DEF SetupReturns, MarkAndPersist, Mark, MarkIn
  <2>3. record'[j] = RunningMark(record[j]) /\ RunningMark(record[j]).status = "RUNNING"
    BY <1>r, <2>2 DEF RunningMark, Record
  <2>4. task'[j] = "launch" /\ (i # j => Untouched(i))
    BY <1>r, <1>u, <2>2 DEF Untouched
  <2>5. OutcomeOK(j)'
    BY <1>u, <1>v, <2>1, <2>3, <2>4 DEF OutcomeOK, WindsUp, Wanted, Durable, Visited, Status,
       Terminal, TERMINAL_STATUSES
  <2>. QED  BY <1>u, <2>4, <2>5, OtherOutcome
<1>3. CASE Collect(j) /\ code[j] = "zero" /\ j \in CacheJobs
  <2>1. /\ record' = [record EXCEPT ![j] = MarkIn(j, FinishedMark(record[j], code[j]))]
        /\ disk' = disk /\ task' = [task EXCEPT ![j] = "save"]
    BY <1>3 DEF Collect, Mark, Goto
  <2>2. task'[j] = "save" /\ (i # j => Untouched(i))
    BY <1>r, <1>u, <2>1 DEF Untouched
  <2>3. OutcomeOK(j)'
    BY <1>u, <1>v, <2>2 DEF OutcomeOK, WindsUp, Wanted, Durable, Visited
  <2>. QED  BY <1>u, <2>2, <2>3, OtherOutcome
<1>. QED  BY <1>1, <1>2, <1>3

(* A recovery persists the record and cancels the task.                    *)
LEMMA RecoveringOutcome ==
    ASSUME OutcomeInv, NEW j \in Jobs, SyncRecovers(j), NEW i \in Jobs
    PROVE  OutcomeOK(i)'
<1>. DEFINE r == MarkIn(j, FinishedMark(record[j], sync[j]))
<1>r. /\ record \in [Jobs -> Record] /\ disk \in [Jobs -> Record]
      /\ sync \in [Jobs -> SyncState] /\ ~full /\ RecordOK(j) /\ OutcomeOK(j)
    BY DEF OutcomeInv, SafetyInv, TypeInv, TypeOK
<1>1. /\ record' = [record EXCEPT ![j] = r] /\ disk' = [disk EXCEPT ![j] = r]
      /\ sync' = [sync EXCEPT ![j] = "out"]
      /\ cancelling' = IF Live(j) THEN cancelling \cup {j} ELSE cancelling
      /\ wrapper' = wrapper /\ gc' = gc /\ life' = life /\ stopping' = stopping
      /\ jobs' = jobs /\ code' = code /\ task' = task
    BY <1>r DEF SyncRecovers, Visit, Persist, CancelTask, loopRest, hostVars, serverVars
<1>. HIDE DEF r
<1>2. record'[j] = r /\ disk'[j] = r /\ sync'[j] = "out" /\ (i # j => Untouched(i))
    BY <1>r, <1>1 DEF Untouched
<1>3. task[j] \in {"launch", "pidwait", "monitor", "probe", "collect"} =>
         r.status \in {"RUNNING"} \cup TERMINAL_STATUSES
    BY <1>r DEF r, MarkIn, FinishedMark, Record, OutcomeOK, Wanted, Status, TERMINAL_STATUSES
<1>4. OutcomeOK(j)'
    BY <1>1, <1>2, <1>3 DEF OutcomeOK, WindsUp, Wanted, Durable, Visited, Status, Live
<1>. QED  BY <1>1, <1>2, <1>4, OtherOutcome

(* No action but DiskFills touches full.                                   *)
LEMMA StaysWritable ==
    ASSUME "full" \notin Environment, ~full, [Next]_vars
    PROVE  ~full'
<1>. USE DEF serverVars, restVars, loopRest
<1>1. ASSUME NEW j \in Jobs, ExecuteJob(j) \/ BackendRaises(j) PROVE full' = full
    BY <1>1 DEF ExecuteJob, Checkout, PrepareReturns, SetupReturns, Spawn, PidFound,
       PidTimeout, CancelDelivered, MonitorReadsExitCode, MonitorFindsNoFile,
       MonitorProbesPid, MonitorReturns, Collect, SaveReturns, FinalSync, BackendRaises, Fails
<1>2. ASSUME NEW j \in Jobs, SyncVisit(j) PROVE full' = full
    BY <1>2 DEF SyncVisit, SyncSkips, SyncVisits, SyncTestsExitCode, SyncProbesPid,
       SyncPassesOn, SyncRecovers
<1>3. ASSUME NEW j \in Jobs, Retire(j) PROVE full' = full
    BY <1>3 DEF Retire, Cancel, Delete, GcSkips, GcCleans, GcDeletes, CleanupTerminates,
       CleanupRemoves, CleanupFails, CleanupGoes
<1>4. ASSUME NEW j \in Jobs, Host(j) \/ WrapperKilled(j) \/ WrapperCannotWrite(j)
      PROVE  full' = full
    BY <1>4 DEF Host, WrapperStarts, WrapperOpensExitCode, WrapperEnds, WrapperKilled,
       WrapperCannotWrite
<1>. QED
    BY <1>1, <1>2, <1>3, <1>4 DEF Next, Submit, SyncWakes, GcWakes, Crash, Restart, Interrupt,
       DiskFills, vars

(* Every action keeps it, while DATA_DIR takes writes.                     *)
LEMMA OutcomeStep ==
    ASSUME "full" \notin Environment, OutcomeInv, Next, NEW i \in Jobs
    PROVE  OutcomeOK(i)'
<1>t. /\ TypeOK /\ ~full /\ RecordOK(i) /\ HostOK(i) /\ OutcomeOK(i)
      /\ \A j \in Jobs : /\ record[j] \in Record /\ RecordOK(j)
                         /\ ErrorMark(record[j]) \in Record
                         /\ CancelledMark(record[j]) \in Record
                         /\ FinishedMark(record[j], code[j]) \in Record
    BY MarkTypes DEF OutcomeInv, SafetyInv, TypeInv, TypeOK
<1>1. ASSUME NEW j \in Jobs,
             \/ PidTimeout(j) \/ BackendRaises(j) \/ SaveReturns(j)
             \/ Collect(j) /\ ~(code[j] = "zero" /\ j \in CacheJobs)
             \/ CancelDelivered(j) /\ task[j] # "final"
      PROVE  OutcomeOK(i)'
    BY <1>1, <1>t, FinalizeOutcome
       DEF PidTimeout, BackendRaises, SaveReturns, Collect, CancelDelivered, Fails, Resumes
<1>2. ASSUME NEW j \in Jobs,
             \/ PrepareReturns(j) \/ SetupReturns(j) \/ SyncRecovers(j)
             \/ Collect(j) /\ code[j] = "zero" /\ j \in CacheJobs
      PROVE  OutcomeOK(i)'
    BY <1>2, MarkingOutcome, RecoveringOutcome
<1>. USE <1>t DEF OutcomeOK, WindsUp, Wanted, Durable, Visited, RecordOK, HostOK, Status,
         Live, Terminal, TERMINAL_STATUSES, TypeOK, storeVars, taskVars, loopVars, hostVars,
         serverVars, restVars, loopRest
<1>3. ASSUME NEW j \in Jobs, Submit(j)
      PROVE  OutcomeOK(i)'
    BY <1>3 DEF Submit, Persist, Goto, Serving, LoopFree, NewRecord
<1>4. ASSUME NEW j \in Jobs, Checkout(j) \/ PidFound(j)
      PROVE  OutcomeOK(i)'
    BY <1>4 DEF Checkout, PidFound, Resumes, Goto, TaskState
<1>5. ASSUME NEW j \in Jobs, Spawn(j)
      PROVE  OutcomeOK(i)'
    BY <1>5 DEF Spawn, Resumes, Goto, TaskState
<1>6. ASSUME NEW j \in Jobs,
             MonitorReadsExitCode(j) \/ MonitorFindsNoFile(j) \/ MonitorProbesPid(j)
      PROVE  OutcomeOK(i)'
  <2>1. \/ \E pc \in {"probe", "collect", "monitor"} : task' = [task EXCEPT ![j] = pc]
    BY <1>6 DEF MonitorReadsExitCode, MonitorFindsNoFile, MonitorProbesPid, MonitorReturns, Goto
  <2>2. /\ task[j] \in {"monitor", "probe"} /\ j \notin cancelling
        /\ UNCHANGED <<record, jobs, disk, cancelling, sync, stopping>>
    BY <1>6 DEF MonitorReadsExitCode, MonitorFindsNoFile, MonitorProbesPid, MonitorReturns,
       Resumes
  <2>. QED  BY <2>1, <2>2
<1>7. ASSUME NEW j \in Jobs, FinalSync(j)
      PROVE  OutcomeOK(i)'
    BY <1>7 DEF FinalSync, Resumes, Persist, Goto
<1>8. ASSUME NEW j \in Jobs, CancelDelivered(j) /\ task[j] = "final"
      PROVE  OutcomeOK(i)'
    BY <1>8 DEF CancelDelivered, Goto
<1>9. ASSUME NEW j \in Jobs,
             \/ SyncSkips(j) \/ SyncVisits(j) \/ SyncTestsExitCode(j)
             \/ SyncProbesPid(j) \/ SyncPassesOn(j)
      PROVE  OutcomeOK(i)'
  <2>1. /\ UNCHANGED <<record, jobs, disk, task, cancelling, stopping>>
        /\ \E s : sync' = [sync EXCEPT ![j] = s]
        /\ \/ sync'[j] \in {"out", "todo"}
           \/ sync[j] \notin {"out", "todo"} \/ record[j].status = "RUNNING"
    BY <1>9 DEF SyncSkips, SyncVisits, SyncTestsExitCode, SyncProbesPid, SyncPassesOn, Visit
  <2>. QED  BY <2>1
<1>10. ASSUME NEW j \in Jobs, Cancel(j)
      PROVE  OutcomeOK(i)'
    BY <1>10 DEF Cancel, CancelTask, CancelledMark, Serving, LoopFree, Record
<1>11. ASSUME NEW j \in Jobs, Delete(j)
      PROVE  OutcomeOK(i)'
    BY <1>11 DEF Delete, StoreDelete, CancelTask, CancelledMark, Serving, LoopFree, Record
<1>12. ASSUME NEW j \in Jobs, GcSkips(j) \/ GcCleans(j)
      PROVE  OutcomeOK(i)'
    BY <1>12 DEF GcSkips, GcCleans
<1>13. ASSUME NEW j \in Jobs, GcDeletes(j)
      PROVE  OutcomeOK(i)'
    BY <1>13 DEF GcDeletes, StoreDelete, CancelTask
<1>14. ASSUME NEW j \in Jobs,
             Host(j) \/ WrapperKilled(j) \/ WrapperCannotWrite(j)
             \/ \E owner \in Owner : \/ CleanupTerminates(j, owner)
                                     \/ CleanupRemoves(j, owner) \/ CleanupFails(j, owner)
      PROVE  OutcomeOK(i)'
    BY <1>14 DEF Host, WrapperStarts, WrapperOpensExitCode, WrapperEnds, WrapperKilled,
       WrapperCannotWrite, CleanupTerminates, CleanupRemoves, CleanupFails, CleanupGoes
<1>15. CASE SyncWakes
    BY <1>15 DEF SyncWakes
<1>16. CASE GcWakes
    BY <1>16 DEF GcWakes
<1>17. CASE Crash \/ Restart
    BY <1>17 DEF Crash, Restart, Forget
<1>18. CASE Interrupt
    BY <1>18 DEF Interrupt
<1>19. CASE DiskFills
    BY <1>19 DEF DiskFills
<1>. QED
    BY <1>1, <1>2, <1>3, <1>4, <1>5, <1>6, <1>7, <1>8, <1>9, <1>10, <1>11, <1>12,
       <1>13, <1>14, <1>15, <1>16, <1>17, <1>18, <1>19
       DEF Next, ExecuteJob, SyncVisit, Retire

(* The invariant holds in every reachable state.                           *)
LEMMA OutcomeInvariant ==
    ASSUME "full" \notin Environment
    PROVE  Spec => []OutcomeInv
<1>1. Init => ~full /\ \A j \in Jobs : OutcomeOK(j)
    BY DEF Init, OutcomeOK, WindsUp, Wanted, Durable, Visited, Live
<1>2. OutcomeInv /\ [Next]_vars => ~full' /\ \A j \in Jobs : OutcomeOK(j)'
  <2>. SUFFICES ASSUME OutcomeInv, [Next]_vars
                PROVE  ~full' /\ \A j \in Jobs : OutcomeOK(j)'
    OBVIOUS
  <2>1. CASE Next
    BY <2>1, OutcomeStep, StaysWritable DEF OutcomeInv
  <2>2. CASE UNCHANGED vars
    BY <2>2, OtherOutcome DEF vars, Untouched, OutcomeInv, storeVars, taskVars, loopVars,
       hostVars, serverVars
  <2>. QED  BY <2>1, <2>2
<1>3. SafetyInv' /\ ~full' /\ (\A j \in Jobs : OutcomeOK(j)') => OutcomeInv'
    BY DEF OutcomeInv
<1>4. SafetyInv /\ ~full /\ (\A j \in Jobs : OutcomeOK(j)) => OutcomeInv
    BY DEF OutcomeInv
<1>. QED  BY <1>1, <1>2, <1>3, <1>4, SafetyInvariant, PTL DEF Spec

-----------------------------------------------------------------------------
(* A task that outlives the decision about its job is on its way out.      *)
THEOREM RetiredWindsUp ==
    ASSUME "full" \notin Environment
    PROVE  Spec => []RetiredTaskWindsUp
<1>1. OutcomeInv => RetiredTaskWindsUp
    BY DEF OutcomeInv, OutcomeOK, WindsUp, RetiredTaskWindsUp
<1>. QED  BY <1>1, OutcomeInvariant, PTL

(* When execute_job is over, DATA_DIR has the outcome clients are shown,   *)
(* also when it was cancelled inside its finally clause.                   *)
THEOREM OutcomeIsDurable ==
    ASSUME "full" \notin Environment
    PROVE  Spec => []DurableOutcome
<1>1. OutcomeInv => DurableOutcome
    BY DEF OutcomeInv, OutcomeOK, Durable, DurableOutcome
<1>. QED  BY <1>1, OutcomeInvariant, PTL

(* Nothing but launch starts a wrapper.                                    *)
LEMMA OnlySpawnStarts ==
    ASSUME TypeOK, [Next]_vars, NEW i \in Jobs, wrapper[i] = "none", wrapper'[i] = "started"
    PROVE  Spawn(i)
<1>. USE DEF TypeOK, hostVars, restVars, loopRest
<1>1. ASSUME NEW j \in Jobs, ExecuteJob(j) \/ BackendRaises(j) PROVE Spawn(i)
  <2>1. CASE Spawn(j)
    BY <2>1 DEF Spawn
  <2>2. CASE ~Spawn(j)
    BY <1>1, <2>2 DEF ExecuteJob, Checkout, PrepareReturns, SetupReturns, PidFound,
       PidTimeout, CancelDelivered, MonitorReadsExitCode, MonitorFindsNoFile,
       MonitorProbesPid, MonitorReturns, Collect, SaveReturns, FinalSync, BackendRaises, Fails
  <2>. QED  BY <2>1, <2>2
<1>2. ASSUME NEW j \in Jobs, SyncVisit(j) PROVE FALSE
    BY <1>2 DEF SyncVisit, SyncSkips, SyncVisits, SyncTestsExitCode, SyncProbesPid,
       SyncPassesOn, SyncRecovers
<1>3. ASSUME NEW j \in Jobs, Retire(j) PROVE FALSE
    BY <1>3 DEF Retire, Cancel, Delete, GcSkips, GcCleans, GcDeletes, CleanupTerminates,
       CleanupRemoves, CleanupFails, KillByPid, Alive
<1>4. ASSUME NEW j \in Jobs, Host(j) \/ WrapperKilled(j) \/ WrapperCannotWrite(j)
      PROVE  FALSE
    BY <1>4 DEF Host, WrapperStarts, WrapperOpensExitCode, WrapperEnds, WrapperKilled,
       WrapperCannotWrite
<1>. QED
    BY <1>1, <1>2, <1>3, <1>4 DEF Next, Submit, SyncWakes, GcWakes, Crash, Restart, Interrupt,
       DiskFills, vars

(* No wrapper is started for a job that is decided while launch is under   *)
(* way.                                                                    *)
THEOREM OnlyWantedSpawn ==
    ASSUME "full" \notin Environment
    PROVE  Spec => SpawnsOnlyWanted
<1>1. OutcomeInv /\ [Next]_vars =>
         [\A j \in Jobs : wrapper[j] = "none" /\ wrapper'[j] = "started" =>
             j \in jobs /\ Status(j) = "RUNNING"]_vars
  <2>. SUFFICES ASSUME OutcomeInv, [Next]_vars, NEW j \in Jobs,
                       wrapper[j] = "none", wrapper'[j] = "started"
                PROVE  j \in jobs /\ Status(j) = "RUNNING"
    OBVIOUS
  <2>1. Spawn(j)
    BY OnlySpawnStarts DEF OutcomeInv, SafetyInv, TypeInv
  <2>2. j \in jobs /\ ~Terminal(record[j]) /\ task[j] = "launch"
    BY <2>1, Undecided DEF Spawn, Resumes, TaskState
  <2>. QED  BY <2>2 DEF OutcomeInv, OutcomeOK, Wanted, Status, Terminal
<1>. QED  BY <1>1, OutcomeInvariant, PTL DEF Spec, SpawnsOnlyWanted

-----------------------------------------------------------------------------
(* Outcomes stay.                                                          *)

(* The finally clause of an undecided job, or of one that is decided and   *)
(* stays as it is.                                                         *)
LEMMA FinalizeKeeps ==
    ASSUME TypeOK, NEW j \in Jobs, NEW r \in Record, Finalize(j, r), NEW i \in Jobs,
           Terminal(record[i]), i = j => ~Terminal(record[j]) \/ r = record[j]
    PROVE  record'[i] = record[i]
    BY DEF TypeOK, Finalize, Mark, MarkIn

(* Nothing replaces an outcome but the end of a visit of the sync loop.    *)
LEMMA OutcomeReplaced ==
    ASSUME OutcomeInv, Next, ~Restart, NEW i \in Jobs, Terminal(record[i])
    PROVE  record'[i] = record[i] \/ SyncRecovers(i)
<1>t. /\ TypeOK
      /\ \A j \in Jobs : /\ record[j] \in Record
                         /\ ErrorMark(record[j]) \in Record
                         /\ CancelledMark(record[j]) \in Record
                         /\ FinishedMark(record[j], code[j]) \in Record
    BY MarkTypes DEF OutcomeInv, SafetyInv, TypeInv, TypeOK
<1>b. life[i] # "unborn"
    BY DEF OutcomeInv, SafetyInv, RecordOK, Terminal, NoRecord, TERMINAL_STATUSES
<1>u. \A pc \in TaskState \ {"none", "done", "save", "final"} : ~Resumes(i, pc)
    BY Undecided
<1>1. ASSUME NEW j \in Jobs, PidTimeout(j) \/ BackendRaises(j) PROVE record'[i] = record[i]
    BY <1>1, <1>t, <1>u, FinalizeKeeps DEF PidTimeout, BackendRaises, Fails, TaskState
<1>2. ASSUME NEW j \in Jobs, SaveReturns(j) PROVE record'[i] = record[i]
    BY <1>2, <1>t, FinalizeKeeps DEF SaveReturns
<1>3. ASSUME NEW j \in Jobs, Collect(j) PROVE record'[i] = record[i]
  <2>1. i # j
    BY <1>3, <1>u DEF Collect, TaskState
  <2>2. \/ Mark(j, FinishedMark(record[j], code[j]))
        \/ Finalize(j, FinishedMark(record[j], code[j]))
    BY <1>3 DEF Collect
  <2>. QED  BY <1>t, <2>1, <2>2, FinalizeKeeps DEF Mark, TypeOK
<1>4. ASSUME NEW j \in Jobs, CancelDelivered(j) PROVE record'[i] = record[i]
    BY <1>4, <1>t, FinalizeKeeps DEF CancelDelivered, CancelledMark, storeVars
<1>5. ASSUME NEW j \in Jobs, PrepareReturns(j) \/ SetupReturns(j)
      PROVE  record'[i] = record[i]
  <2>1. i # j
    BY <1>5, <1>u DEF PrepareReturns, SetupReturns, TaskState
  <2>2. \E s \in Record : Mark(j, s)
    BY <1>5, <1>t, MarkTypes DEF PrepareReturns, SetupReturns, MarkAndPersist, OutcomeInv
  <2>. QED  BY <1>t, <2>1, <2>2 DEF Mark, TypeOK
<1>6. ASSUME NEW j \in Jobs, SyncRecovers(j), i # j PROVE record'[i] = record[i]
    BY <1>6 DEF SyncRecovers
<1>7. ASSUME NEW j \in Jobs, Submit(j) \/ Cancel(j) \/ Delete(j)
      PROVE  record'[i] = record[i]
    BY <1>7, <1>t, <1>b DEF Submit, Cancel, Delete, CancelledMark, TypeOK
<1>. USE DEF storeVars, restVars, loopRest
<1>8. ASSUME NEW j \in Jobs,
             \/ Checkout(j) \/ Spawn(j) \/ PidFound(j) \/ MonitorReadsExitCode(j)
             \/ MonitorFindsNoFile(j) \/ MonitorProbesPid(j) \/ FinalSync(j)
      PROVE  record' = record
    BY <1>8 DEF Checkout, Spawn, PidFound, MonitorReadsExitCode, MonitorFindsNoFile,
       MonitorProbesPid, MonitorReturns, FinalSync
<1>9. ASSUME NEW j \in Jobs,
             \/ SyncSkips(j) \/ SyncVisits(j) \/ SyncTestsExitCode(j)
             \/ SyncProbesPid(j) \/ SyncPassesOn(j)
      PROVE  record' = record
    BY <1>9 DEF SyncSkips, SyncVisits, SyncTestsExitCode, SyncProbesPid, SyncPassesOn
<1>10. ASSUME NEW j \in Jobs,
              \/ GcSkips(j) \/ GcCleans(j) \/ GcDeletes(j)
              \/ \E owner \in Owner : \/ CleanupTerminates(j, owner)
                                      \/ CleanupRemoves(j, owner) \/ CleanupFails(j, owner)
       PROVE  record' = record
    BY <1>10 DEF GcSkips, GcCleans, GcDeletes, CleanupTerminates, CleanupRemoves,
       CleanupFails, CleanupGoes
<1>11. ASSUME NEW j \in Jobs, Host(j) \/ WrapperKilled(j) \/ WrapperCannotWrite(j)
       PROVE  record' = record
    BY <1>11 DEF Host, WrapperStarts, WrapperOpensExitCode, WrapperEnds, WrapperKilled,
       WrapperCannotWrite
<1>12. CASE SyncWakes \/ GcWakes \/ Crash \/ Interrupt \/ DiskFills
    BY <1>12 DEF SyncWakes, GcWakes, Crash, Interrupt, DiskFills
<1>. QED
    BY <1>1, <1>2, <1>3, <1>4, <1>5, <1>6, <1>7, <1>8, <1>9, <1>10, <1>11, <1>12
       DEF Next, ExecuteJob, SyncVisit, Retire

(* A job is settled when it is decided and the sync loop is not about to   *)
(* conclude something of it.                                               *)
Settled(j) == Terminal(record[j]) /\ sync[j] \in {"out", "todo"}

(* The outcome of a settled job is its last, while the server runs.        *)
SettledForGood ==
    [][Restart \/ \A j \in Jobs : Settled(j) => record'[j] = record[j] /\ Settled(j)']_vars

(* Over SSH too an outcome can only be replaced by a visit of the sync     *)
(* loop that found the job RUNNING, and so at most once: no visit begins   *)
(* when a job is decided.                                                  *)
THEOREM OutcomeSettles ==
    ASSUME "full" \notin Environment
    PROVE  Spec => SettledForGood
<1>1. OutcomeInv /\ [Next]_vars =>
         [Restart \/ \A j \in Jobs : Settled(j) => record'[j] = record[j] /\ Settled(j)']_vars
  <2>. SUFFICES ASSUME OutcomeInv, Next, ~Restart, NEW i \in Jobs, Settled(i)
                PROVE  record'[i] = record[i] /\ sync'[i] \in {"out", "todo"}
    BY DEF Settled
  <2>1. record'[i] = record[i]
    BY OutcomeReplaced DEF Settled, SyncRecovers
  <2>2. record[i].status # "RUNNING"
    BY DEF Settled, Terminal, TERMINAL_STATUSES
  <2>3. sync \in [Jobs -> SyncState]
    BY DEF OutcomeInv, SafetyInv, TypeInv, TypeOK
  <2>4. ASSUME NEW j \in Jobs, SyncVisit(j) PROVE sync'[i] \in {"out", "todo"}
    <3>1. CASE j = i
        BY <2>2, <2>3, <2>4, <3>1 DEF Settled, SyncVisit, SyncSkips, SyncVisits,
           SyncTestsExitCode, SyncProbesPid, SyncPassesOn, SyncRecovers, Visit
    <3>2. CASE j # i
        <4>1. \E s : Visit(j, s)
            BY <2>4 DEF SyncVisit, SyncSkips, SyncVisits, SyncTestsExitCode, SyncProbesPid,
               SyncPassesOn, SyncRecovers
        <4>. QED  BY <2>3, <3>2, <4>1 DEF Settled, Visit
    <3>. QED  BY <3>1, <3>2
  <2>5. ASSUME SyncWakes \/ Crash \/ Interrupt PROVE sync'[i] \in {"out", "todo"}
    BY <2>5 DEF SyncWakes, Crash, Forget, Interrupt
  <2>. USE DEF loopVars, restVars, loopRest
  <2>6. ASSUME NEW j \in Jobs, ExecuteJob(j) \/ BackendRaises(j) PROVE sync' = sync
    BY <2>6 DEF ExecuteJob, Checkout, PrepareReturns, SetupReturns, Spawn, PidFound,
       PidTimeout, BackendRaises, Fails, CancelDelivered, MonitorReadsExitCode,
       MonitorFindsNoFile, MonitorProbesPid, MonitorReturns, Collect, SaveReturns, FinalSync
  <2>7. ASSUME NEW j \in Jobs, Retire(j) PROVE sync' = sync
    BY <2>7 DEF Retire, Cancel, Delete, GcSkips, GcCleans, GcDeletes, CleanupTerminates,
       CleanupRemoves, CleanupFails, CleanupGoes
  <2>8. ASSUME NEW j \in Jobs,
               Submit(j) \/ Host(j) \/ WrapperKilled(j) \/ WrapperCannotWrite(j)
        PROVE  sync' = sync
    BY <2>8 DEF Submit, Host, WrapperStarts, WrapperOpensExitCode, WrapperEnds,
       WrapperKilled, WrapperCannotWrite
  <2>9. ASSUME GcWakes \/ DiskFills PROVE sync' = sync
    BY <2>9 DEF GcWakes, DiskFills
  <2>. QED
    BY <2>1, <2>4, <2>5, <2>6, <2>7, <2>8, <2>9 DEF Next, Settled
<1>. QED  BY <1>1, OutcomeInvariant, PTL DEF Spec, SettledForGood

-----------------------------------------------------------------------------
(* The local backend.                                                      *)

(* The first terminal status of a job is its last, for either way a local  *)
(* job's end is noticed.  (Over SSH that is so once the job is settled.)   *)
THEOREM LocalTerminalStable ==
    ASSUME "full" \notin Environment, Backend = "local"
    PROVE  Spec => TerminalStable
<1>1. OutcomeInv /\ [Next]_vars =>
         [Restart \/ \A j \in Jobs : Terminal(record[j]) => record'[j] = record[j]]_vars
  <2>. SUFFICES ASSUME OutcomeInv, Next, ~Restart, NEW i \in Jobs, Terminal(record[i])
                PROVE  record'[i] = record[i]
    OBVIOUS
  <2>1. ~ SyncRecovers(i)
    BY DEF SyncRecovers, OutcomeInv, OutcomeOK, Visited, Status, Terminal, TERMINAL_STATUSES
  <2>. QED  BY <2>1, OutcomeReplaced
<1>. QED  BY <1>1, OutcomeInvariant, PTL DEF Spec, TerminalStable

(* What a local status check takes for the end of a wrapper is its end:    *)
(* nothing but a wrapper fills its directory, and it starts once.          *)
Over(j) == wrapper[j] \in {"zero", "nonzero", "dead"}

GivenUp(j) ==
    \/ "FAILED" \in {Status(j), disk[j].status}
    \/ code[j] \in {"nonzero", "dead"} \/ sync[j] \in {"nonzero", "dead"}

Ended(j) ==
    /\ GivenUp(j) => Over(j)
    /\ task[j] = "collect" => code[j] # "none"
    /\ files[j] \cap {"pid", "exit", "text"} # {} => wrapper[j] # "none"

EndedInv == SafetyInv /\ \A j \in Jobs : Ended(j)

(* The finally clause gives nothing up by itself.                          *)
LEMMA FinalizeEnded ==
    ASSUME EndedInv, NEW j \in Jobs, NEW r \in Record, Finalize(j, r),
           r.status = "FAILED" => GivenUp(j),
           UNCHANGED <<hostVars, restVars>>, NEW i \in Jobs
    PROVE  Ended(i)'
<1>1. /\ record'[j] = MarkIn(j, r) /\ code'[j] = "none" /\ task'[j] \in {"done", "final"}
      /\ disk'[j] \in {disk[j], MarkIn(j, r)}
      /\ \A k \in Jobs \ {j} :
            /\ record'[k] = record[k] /\ disk'[k] = disk[k]
            /\ task'[k] = task[k] /\ code'[k] = code[k]
    BY FinalizeEffect DEF EndedInv, SafetyInv, TypeInv
<1>2. sync' = sync /\ wrapper' = wrapper /\ files' = files
    BY DEF hostVars, restVars, loopVars
<1>3. CASE i # j
    BY <1>1, <1>2, <1>3 DEF EndedInv, Ended, GivenUp, Over, Status
<1>4. CASE i = j
    BY <1>1, <1>2, <1>4 DEF EndedInv, Ended, GivenUp, Over, Status, MarkIn
<1>. QED  BY <1>3, <1>4

(* Every action of a server with local workflows keeps it.                 *)
LEMMA EndedStep ==
    ASSUME Backend = "local", EndedInv, Next, NEW i \in Jobs
    PROVE  Ended(i)'
<1>t. /\ TypeOK /\ HostOK(i) /\ Ended(i)
      /\ \A j \in Jobs : /\ Ended(j) /\ HostOK(j)
                         /\ record[j] \in Record
                         /\ ErrorMark(record[j]) \in Record
                         /\ CancelledMark(record[j]) \in Record
                         /\ \A c \in ExitCode : FinishedMark(record[j], c) \in Record
                         /\ SetupMark(record[j]) \in Record
                         /\ RunningMark(record[j]) \in Record
                         /\ ErrorMark(SetupMark(record[j])) \in Record
                         /\ ErrorMark(RunningMark(record[j])) \in Record
    BY MarkTypes DEF EndedInv, SafetyInv, TypeInv, TypeOK
<1>e. \A r \in Record : /\ ErrorMark(r).status = "ERROR"
                        /\ CancelledMark(r).status = "FAILED" => r.status = "FAILED"
                        /\ SetupMark(r).status = "SETUP" /\ RunningMark(r).status = "RUNNING"
    BY DEF ErrorMark, CancelledMark, SetupMark, RunningMark, Record, Terminal,
       TERMINAL_STATUSES
<1>1. ASSUME NEW j \in Jobs,
             \/ PidTimeout(j) \/ BackendRaises(j) \/ SaveReturns(j)
             \/ CancelDelivered(j) /\ task[j] # "final"
      PROVE  Ended(i)'
  <2>1. \E r \in Record : /\ Finalize(j, r)
                          /\ r.status = "FAILED" => Status(j) = "FAILED"
                          /\ UNCHANGED <<hostVars, restVars>>
    BY <1>1, <1>t, <1>e DEF PidTimeout, BackendRaises, SaveReturns, CancelDelivered, Fails,
       Status
  <2>. QED  BY <2>1, FinalizeEnded DEF GivenUp
<1>2. ASSUME NEW j \in Jobs, Collect(j)
      PROVE  Ended(i)'
  <2>. DEFINE r == FinishedMark(record[j], code[j])
  <2>c. code[j] \in {"zero", "nonzero", "dead"}
    BY <1>2, <1>t DEF Collect, Resumes, Ended, TypeOK, ExitCode
  <2>1. r \in Record /\ (r.status = "FAILED" => GivenUp(j))
    BY <1>t, <2>c DEF FinishedMark, Record, GivenUp, ExitCode
  <2>2. CASE code[j] = "zero" /\ j \in CacheJobs
    <3>1. /\ record' = [record EXCEPT ![j] = MarkIn(j, r)] /\ disk' = disk
          /\ task' = [task EXCEPT ![j] = "save"] /\ code' = code
          /\ sync' = sync /\ files' = files /\ wrapper' = wrapper
      BY <1>2, <2>2 DEF Collect, Mark, Goto, hostVars, restVars, loopVars
    <3>. HIDE DEF r
    <3>. QED  BY <3>1, <2>1, <1>t DEF Ended, GivenUp, Over, Status, TypeOK, MarkIn
  <2>3. CASE ~(code[j] = "zero" /\ j \in CacheJobs)
    <3>1. Finalize(j, r) /\ UNCHANGED <<hostVars, restVars>>
      BY <1>2, <2>3 DEF Collect
    <3>. HIDE DEF r
    <3>. QED  BY <3>1, <2>1, FinalizeEnded
  <2>. QED  BY <2>2, <2>3
<1>3. ASSUME NEW j \in Jobs, PrepareReturns(j) \/ SetupReturns(j)
      PROVE  Ended(i)'
  <2>1. PICK r \in {SetupMark(record[j]), RunningMark(record[j])}, pc \in {"setup", "launch"} :
           MarkAndPersist(j, r, pc) /\ UNCHANGED <<hostVars, restVars>>
    BY <1>3 DEF PrepareReturns, SetupReturns
  <2>2. r.status # "FAILED" /\ r \in Record /\ ErrorMark(r) \in Record
        /\ ErrorMark(r).status = "ERROR"
    BY <1>t, <1>e
  <2>3. CASE full /\ j \in jobs
    BY <2>1, <2>2, <2>3, FinalizeEnded DEF MarkAndPersist
  <2>4. CASE ~(full /\ j \in jobs)
    <3>1. /\ record' = [record EXCEPT ![j] = MarkIn(j, r)]
          /\ disk' \in {disk, [disk EXCEPT ![j] = r]}
          /\ task' = [task EXCEPT ![j] = pc] /\ code' = code
          /\ sync' = sync /\ files' = files /\ wrapper' = wrapper
      BY <2>1, <2>4 DEF MarkAndPersist, Mark, hostVars, restVars, loopVars
    <3>. QED  BY <3>1, <2>2, <1>t DEF Ended, GivenUp, Over, Status, TypeOK, MarkIn
  <2>. QED  BY <2>3, <2>4
<1>4. ASSUME NEW j \in Jobs, SyncRecovers(j)
      PROVE  Ended(i)'
  <2>. DEFINE r == MarkIn(j, FinishedMark(record[j], sync[j]))
  <2>1. r.status = "FAILED" => GivenUp(j)
    BY <1>4, <1>t DEF SyncRecovers, MarkIn, FinishedMark, GivenUp, Status, Record
  <2>2. /\ record' = [record EXCEPT ![j] = r] /\ disk' \in {disk, [disk EXCEPT ![j] = r]}
        /\ sync' = [sync EXCEPT ![j] = "out"] /\ task' = task /\ code' = code
        /\ files' = files /\ wrapper' = wrapper
    BY <1>4 DEF SyncRecovers, Visit, Persist, loopRest, hostVars
  <2>. HIDE DEF r
  <2>. QED  BY <2>1, <2>2, <1>t DEF Ended, GivenUp, Over, Status, TypeOK
<1>. USE <1>t DEF Ended, GivenUp, Over, HostOK, HasExitCode, ExitCodeFile, Status, TypeOK,
         storeVars, taskVars, loopVars, hostVars, serverVars, restVars, loopRest
<1>5. ASSUME NEW j \in Jobs, Submit(j)
      PROVE  Ended(i)'
    BY <1>5 DEF Submit, Persist, Goto, NewRecord
<1>6. ASSUME NEW j \in Jobs, Checkout(j) \/ PidFound(j) \/ Spawn(j)
      PROVE  Ended(i)'
    BY <1>6 DEF Checkout, PidFound, Spawn, Resumes, Goto, BeforeLaunch
<1>7. ASSUME NEW j \in Jobs, FinalSync(j) \/ (CancelDelivered(j) /\ task[j] = "final")
      PROVE  Ended(i)'
    BY <1>7 DEF FinalSync, CancelDelivered, Persist, Goto
<1>8. ASSUME NEW j \in Jobs,
             MonitorReadsExitCode(j) \/ MonitorFindsNoFile(j) \/ MonitorProbesPid(j)
      PROVE  Ended(i)'
    BY <1>8 DEF MonitorReadsExitCode, MonitorFindsNoFile, MonitorProbesPid, MonitorReturns,
       Goto, PidProbe, Alive, WrapperState
<1>9. ASSUME NEW j \in Jobs,
             \/ SyncSkips(j) \/ SyncVisits(j) \/ SyncTestsExitCode(j)
             \/ SyncProbesPid(j) \/ SyncPassesOn(j)
      PROVE  Ended(i)'
    BY <1>9 DEF SyncSkips, SyncVisits, SyncTestsExitCode, SyncProbesPid, SyncPassesOn, Visit,
       PidProbe, Alive, WrapperState
<1>10. ASSUME NEW j \in Jobs, Cancel(j) \/ Delete(j)
      PROVE  Ended(i)'
  <2>1. /\ record' = [record EXCEPT ![j] = CancelledMark(@)]
        /\ disk' \in {disk, [disk EXCEPT ![j] = NoRecord]}
        /\ UNCHANGED <<task, code, sync, hostVars>>
    BY <1>10 DEF Cancel, Delete, StoreDelete
  <2>2. CancelledMark(record[j]).status = "FAILED" => record[j].status = "FAILED"
    BY <1>e
  <2>. QED  BY <2>1, <2>2 DEF NoRecord
<1>11. ASSUME NEW j \in Jobs, GcSkips(j) \/ GcCleans(j) \/ GcDeletes(j)
      PROVE  Ended(i)'
    BY <1>11 DEF GcSkips, GcCleans, GcDeletes, StoreDelete, NoRecord
<1>12. ASSUME NEW j \in Jobs, Host(j) \/ WrapperKilled(j) \/ WrapperCannotWrite(j)
      PROVE  Ended(i)'
    BY <1>12 DEF Host, WrapperStarts, WrapperOpensExitCode, WrapperEnds, WrapperKilled,
       WrapperCannotWrite, Write
<1>13. ASSUME NEW j \in Jobs,
              \E owner \in Owner : \/ CleanupTerminates(j, owner)
                                   \/ CleanupRemoves(j, owner) \/ CleanupFails(j, owner)
      PROVE  Ended(i)'
  <2>1. /\ UNCHANGED <<record, disk, task, code, sync>>
        /\ \/ files' = files
           \/ files' = [files EXCEPT ![j] = {}]
        /\ \/ wrapper' = wrapper
           \/ wrapper[j] # "none" /\ wrapper' = [wrapper EXCEPT ![j] = "dead"]
    <3>1. KillByPid(j) => \/ wrapper' = wrapper
                          \/ /\ wrapper[j] # "none"
                             /\ wrapper' = [wrapper EXCEPT ![j] = "dead"]
      BY DEF KillByPid, Alive
    <3>. QED
      BY <1>13, <3>1 DEF CleanupTerminates, CleanupRemoves, CleanupFails, CleanupGoes
  <2>. QED  BY <2>1
<1>14. CASE SyncWakes \/ GcWakes \/ Crash \/ Restart \/ Interrupt \/ DiskFills
    BY <1>14 DEF SyncWakes, GcWakes, Crash, Restart, Interrupt, DiskFills, Forget
<1>15. ASSUME NEW j \in Jobs, ExecuteJob(j) \/ BackendRaises(j)
       PROVE  Ended(i)'
    BY <1>1, <1>2, <1>3, <1>6, <1>7, <1>8, <1>15 DEF ExecuteJob
<1>16. ASSUME NEW j \in Jobs, SyncVisit(j)
       PROVE  Ended(i)'
    BY <1>4, <1>9, <1>16 DEF SyncVisit
<1>17. ASSUME NEW j \in Jobs, Retire(j)
       PROVE  Ended(i)'
    BY <1>10, <1>11, <1>13, <1>17 DEF Retire
<1>. QED
    BY <1>5, <1>12, <1>14, <1>15, <1>16, <1>17 DEF Next

(* FAILED is never said of a wrapper that is alive or not started yet, for *)
(* any local jobs, restarts, kills and full disks.  (Over SSH it is.)      *)
THEOREM LocalFailureIsReal ==
    ASSUME Backend = "local"
    PROVE  Spec => []FailedHasEnded
<1>1. Init => EndedInv
  <2>1. Init => SafetyInv
    BY TypeInvInit DEF Init, SafetyInv, RecordOK, LogOK, SuccessOK, Status, Live, Terminal,
       NoRecord, Early, HasWorkDir, TaskState, TERMINAL_STATUSES
  <2>2. Init => \A j \in Jobs : Ended(j)
    BY DEF Init, Ended, GivenUp, Status, NoRecord
  <2>. QED  BY <2>1, <2>2 DEF EndedInv
<1>2. EndedInv /\ [Next]_vars => \A j \in Jobs : Ended(j)'
  <2>. SUFFICES ASSUME EndedInv, [Next]_vars, NEW i \in Jobs
                PROVE  Ended(i)'
    OBVIOUS
  <2>1. CASE Next
    BY <2>1, EndedStep
  <2>2. CASE UNCHANGED vars
    BY <2>2 DEF vars, EndedInv, Ended, GivenUp, Over, Status, storeVars, taskVars, loopVars,
       hostVars
  <2>. QED  BY <2>1, <2>2
<1>3. EndedInv => FailedHasEnded
    BY DEF EndedInv, Ended, GivenUp, Over, Alive, FailedHasEnded
<1>4. SafetyInv' /\ (\A j \in Jobs : Ended(j)') => EndedInv'
    BY DEF EndedInv
<1>. QED  BY <1>1, <1>2, <1>3, <1>4, SafetyInvariant, PTL DEF Spec

=============================================================================
