--------------------------- MODULE DispatchProofs ----------------------------
(***************************************************************************)
(* Proofs that the properties of DispatchProperties hold for every set of  *)
(* jobs, both backends and every environment.                              *)
(***************************************************************************)
EXTENDS DispatchProperties, TLAPS

(* Every mark leaves a JobRecord.                                          *)
LEMMA MarkTypes ==
    ASSUME NEW r \in Record
    PROVE  /\ NewRecord \in Record /\ NoRecord \in Record
           /\ SetupMark(r) \in Record /\ RunningMark(r) \in Record
           /\ \A c \in ExitCode : FinishedMark(r, c) \in Record
           /\ ErrorMark(r) \in Record /\ CancelledMark(r) \in Record
    BY DEF Record, JobStatus, NewRecord, NoRecord, SetupMark, RunningMark,
           FinishedMark, ErrorMark, CancelledMark, Terminal

(* What the finally clause of execute_job may change.                      *)
TaskPartOK ==
    /\ record' \in [Jobs -> Record] /\ jobs' \subseteq Jobs
    /\ disk' \in [Jobs -> Record] /\ task' \in [Jobs -> TaskState]
    /\ code' \in [Jobs -> ExitCode] /\ cancelling' \subseteq cancelling

(* The finally clause keeps the types, and goes to "final" or "done".      *)
LEMMA FinalizeTypes ==
    ASSUME TypeOK, NEW j \in Jobs, NEW r \in Record, Finalize(j, r)
    PROVE  /\ TaskPartOK
           /\ \E pc \in {"done", "final"} : task' = [task EXCEPT ![j] = pc]
    BY DEF TypeOK, TaskPartOK, Finalize, Mark, MarkIn, Persist, TaskState, ExitCode

(* So does a mark that persists, unless it goes on to pc.                  *)
LEMMA MarkAndPersistTypes ==
    ASSUME TypeOK, NEW j \in Jobs, NEW r \in Record, NEW pc \in TaskState,
           MarkAndPersist(j, r, pc)
    PROVE  /\ TaskPartOK
           /\ \E to \in {pc, "done", "final"} : task' = [task EXCEPT ![j] = to]
<1>1. ErrorMark(r) \in Record
    BY MarkTypes
<1>2. CASE full /\ j \in jobs
    BY <1>1, <1>2, FinalizeTypes DEF MarkAndPersist
<1>3. CASE ~(full /\ j \in jobs)
    BY <1>3 DEF MarkAndPersist, TypeOK, TaskPartOK, Mark, MarkIn
<1>. QED  BY <1>2, <1>3

-----------------------------------------------------------------------------
(* The type invariant is not inductive alone: that execute_job's exit_code *)
(* is an exit code rests on .exitcode having content only once the wrapper *)
(* has ended, and on a job never starting a second wrapper.                *)

BeforeLaunch == {"prepare", "checkout", "setup", "launch"}

HostOK(j) ==
    /\ HasExitCode(j) => wrapper[j] \in {"zero", "nonzero"}
    /\ life[j] = "unborn" =>
          task[j] = "none" /\ j \notin cancelling /\ wrapper[j] = "none"
    /\ task[j] \in BeforeLaunch => wrapper[j] = "none"

TypeInv == TypeOK /\ \A j \in Jobs : HostOK(j)

(* The server starts with no jobs.                                         *)
LEMMA TypeInvInit == Init => TypeInv
<1>1. NoRecord \in Record
    BY DEF NoRecord, Record
<1>2. Init => TypeOK
  <2>1. [o \in Owner |-> "idle"] \in [Owner -> CleanupState]
    BY DEF CleanupState
  <2>2. /\ "none" \in TaskState /\ "none" \in ExitCode /\ "out" \in SyncState
        /\ "out" \in GcState /\ "none" \in WrapperState /\ "unborn" \in Life
    BY DEF TaskState, ExitCode, SyncState, GcState, WrapperState, Life
  <2>3. Init => cleanup \in [Jobs -> [Owner -> CleanupState]]
    BY <2>1 DEF Init
  <2>4. Init => files \in [Jobs -> SUBSET WorkDirFile]
    BY DEF Init
  <2>5. Init => /\ record \in [Jobs -> Record] /\ disk \in [Jobs -> Record]
    BY <1>1 DEF Init
  <2>6. Init => /\ task \in [Jobs -> TaskState] /\ code \in [Jobs -> ExitCode]
                /\ sync \in [Jobs -> SyncState] /\ gc \in [Jobs -> GcState]
                /\ wrapper \in [Jobs -> WrapperState] /\ life \in [Jobs -> Life]
    BY <2>2 DEF Init
  <2>7. Init => /\ full \in BOOLEAN /\ stopping \in BOOLEAN
                /\ jobs \subseteq Jobs /\ cancelling \subseteq Jobs
    BY DEF Init
  <2>. QED  BY <2>3, <2>4, <2>5, <2>6, <2>7 DEF TypeOK
<1>3. Init => \A j \in Jobs : HostOK(j)
    BY DEF Init, HostOK, HasExitCode, BeforeLaunch
<1>. QED  BY <1>2, <1>3 DEF TypeInv

(* A step of execute_job that leaves the host alone only has to keep the   *)
(* types of what it changes, and not to go back before launch.             *)
LEMMA TaskStep ==
    ASSUME TypeInv, NEW j \in Jobs, NEW pc \in TaskState,
           TaskPartOK, task' = [task EXCEPT ![j] = pc],
           life[j] # "unborn",
           pc \in BeforeLaunch => task[j] \in BeforeLaunch,
           UNCHANGED <<hostVars, restVars>>
    PROVE  TypeInv'
<1>. USE DEF TypeInv, hostVars, restVars, loopVars, serverVars
<1>1. TypeOK'
    BY DEF TypeOK, TaskPartOK
<1>2. ASSUME NEW i \in Jobs
      PROVE  HostOK(i)'
    BY DEF TypeOK, TaskPartOK, HostOK, HasExitCode
<1>. QED  BY <1>1, <1>2

(* The finally clause of execute_job, wherever it is entered.              *)
LEMMA FinalizeStep ==
    ASSUME TypeInv, NEW j \in Jobs, NEW r \in Record, Finalize(j, r),
           life[j] # "unborn", UNCHANGED <<hostVars, restVars>>
    PROVE  TypeInv'
<1>1. PICK pc \in {"done", "final"} : TaskPartOK /\ task' = [task EXCEPT ![j] = pc]
    BY FinalizeTypes DEF TypeInv
<1>2. pc \in TaskState /\ pc \notin BeforeLaunch
    BY DEF TaskState, BeforeLaunch
<1>. QED  BY <1>1, <1>2, TaskStep

(* mark_setup and mark_running, each with its persist.                     *)
LEMMA MarkAndPersistStep ==
    ASSUME TypeInv, NEW j \in Jobs, NEW r \in Record, NEW pc \in BeforeLaunch,
           MarkAndPersist(j, r, pc), task[j] \in BeforeLaunch,
           life[j] # "unborn", UNCHANGED <<hostVars, restVars>>
    PROVE  TypeInv'
<1>1. pc \in TaskState
    BY DEF TaskState, BeforeLaunch
<1>2. PICK to \in {pc, "done", "final"} :
         TaskPartOK /\ task' = [task EXCEPT ![j] = to]
    BY <1>1, MarkAndPersistTypes DEF TypeInv
<1>3. to \in TaskState
    BY <1>1, <1>2 DEF TaskState
<1>. QED  BY <1>2, <1>3, TaskStep

(* Only a job that was submitted has a coroutine.                          *)
LEMMA RunningIsBorn ==
    ASSUME TypeInv, NEW j \in Jobs,
           j \in cancelling \/ \E pc \in TaskState \ {"none"} : Resumes(j, pc)
    PROVE  life[j] # "unborn"
    BY DEF TypeInv, HostOK, Resumes

(* Every action keeps it.                                                  *)
LEMMA TypeInvNext == TypeInv /\ [Next]_vars => TypeInv'
<1>. SUFFICES ASSUME TypeInv, [Next]_vars
             PROVE  TypeInv'
    OBVIOUS
<1>m. ASSUME NEW j \in Jobs
      PROVE  /\ record[j] \in Record /\ NoRecord \in Record
             /\ NewRecord \in Record /\ SetupMark(record[j]) \in Record
             /\ RunningMark(record[j]) \in Record
             /\ \A c \in ExitCode : FinishedMark(record[j], c) \in Record
             /\ ErrorMark(record[j]) \in Record
             /\ CancelledMark(record[j]) \in Record
    BY MarkTypes DEF TypeInv, TypeOK
<1>b. ASSUME NEW j \in Jobs
      PROVE  /\ j \in cancelling => life[j] # "unborn"
             /\ \A pc \in TaskState \ {"none"} : Resumes(j, pc) => life[j] # "unborn"
    BY RunningIsBorn
<1>. USE DEF TypeInv, BeforeLaunch, TaskState, ExitCode
<1>1. ASSUME NEW j \in Jobs, PrepareReturns(j) \/ SetupReturns(j)
      PROVE  TypeInv'
  <2>1. life[j] # "unborn" /\ task[j] \in BeforeLaunch
    BY <1>1, <1>b DEF PrepareReturns, SetupReturns, Resumes
  <2>. QED
    BY <1>1, <1>m, <2>1, MarkAndPersistStep DEF PrepareReturns, SetupReturns
<1>2. ASSUME NEW j \in Jobs, PidTimeout(j) \/ BackendRaises(j) \/ SaveReturns(j)
      PROVE  TypeInv'
  <2>1. life[j] # "unborn"
    BY <1>2, <1>b DEF PidTimeout, BackendRaises, SaveReturns
  <2>. QED
    BY <1>2, <1>m, <2>1, FinalizeStep DEF PidTimeout, BackendRaises, SaveReturns, Fails
<1>3. ASSUME NEW j \in Jobs, Collect(j)
      PROVE  TypeInv'
  <2>1. life[j] # "unborn" /\ FinishedMark(record[j], code[j]) \in Record
    BY <1>3, <1>b, <1>m DEF Collect, TypeOK
  <2>2. CASE Finalize(j, FinishedMark(record[j], code[j]))
    BY <1>3, <2>1, <2>2, FinalizeStep DEF Collect
  <2>3. CASE /\ Mark(j, FinishedMark(record[j], code[j])) /\ Goto(j, "save")
             /\ UNCHANGED <<jobs, disk, code, cancelling>>
    <3>1. TaskPartOK
      BY <2>1, <2>3 DEF TaskPartOK, TypeOK, Mark, MarkIn, Goto
    <3>. QED  BY <1>3, <2>1, <2>3, <3>1, TaskStep DEF Collect, Goto
  <2>. QED  BY <1>3, <2>2, <2>3 DEF Collect
<1>4. ASSUME NEW j \in Jobs, CancelDelivered(j)
      PROVE  TypeInv'
  <2>1. life[j] # "unborn" /\ UNCHANGED <<hostVars, restVars>>
    BY <1>4, <1>b DEF CancelDelivered
  <2>2. CASE task[j] = "final"
    <3>1. TaskPartOK
      BY <1>4, <2>2 DEF CancelDelivered, TaskPartOK, TypeOK, Goto, storeVars
    <3>. QED  BY <1>4, <2>1, <2>2, <3>1, TaskStep DEF CancelDelivered, Goto
  <2>3. CASE task[j] # "final"
    BY <1>4, <1>m, <2>1, <2>3, FinalizeStep DEF CancelDelivered
  <2>. QED  BY <2>2, <2>3
<1>5. ASSUME NEW j \in Jobs,
             \/ PidFound(j) \/ MonitorReadsExitCode(j) \/ MonitorFindsNoFile(j)
             \/ MonitorProbesPid(j) \/ FinalSync(j)
      PROVE  TypeInv'
  <2>. USE DEF PidFound, MonitorReadsExitCode, MonitorFindsNoFile, MonitorProbesPid,
               FinalSync, Goto, MonitorReturns
  <2>1. life[j] # "unborn" /\ UNCHANGED <<hostVars, restVars>>
    BY <1>5, <1>b
  <2>2. HasExitCode(j) => wrapper[j] \in ExitCode
    BY DEF HostOK
  <2>3. TaskPartOK
    BY <1>5, <2>2 DEF TypeOK, TaskPartOK, Persist, storeVars
  <2>4. \E pc \in {"monitor", "probe", "collect", "done"} :
           task' = [task EXCEPT ![j] = pc]
    BY <1>5
  <2>. QED  BY <2>1, <2>3, <2>4, TaskStep
<1>. USE DEF TypeOK, HostOK, HasExitCode, SyncState, GcState, Owner, CleanupState,
             WrapperState, WorkDirFile, Life, storeVars, taskVars, loopVars,
             hostVars, serverVars, restVars, loopRest
<1>6. ASSUME NEW j \in Jobs, Submit(j)
      PROVE  TypeInv'
    BY <1>6, <1>m DEF Submit, Persist, Goto
<1>7. ASSUME NEW j \in Jobs, Checkout(j)
      PROVE  TypeInv'
    BY <1>7 DEF Checkout, Resumes, Goto
<1>8. ASSUME NEW j \in Jobs, Spawn(j)
      PROVE  TypeInv'
    BY <1>8 DEF Spawn, Resumes, Goto
<1>9. ASSUME NEW j \in Jobs, SyncSkips(j)
      PROVE  TypeInv'
    BY <1>9 DEF SyncSkips, Visit
<1>10. ASSUME NEW j \in Jobs, SyncVisits(j)
      PROVE  TypeInv'
    BY <1>10 DEF SyncVisits, Visit
<1>11. ASSUME NEW j \in Jobs, SyncTestsExitCode(j)
      PROVE  TypeInv'
    BY <1>11 DEF SyncTestsExitCode, Visit
<1>12. ASSUME NEW j \in Jobs, SyncProbesPid(j)
      PROVE  TypeInv'
    BY <1>12 DEF SyncProbesPid, Visit, PidProbe
<1>13. ASSUME NEW j \in Jobs, SyncPassesOn(j)
      PROVE  TypeInv'
    BY <1>13 DEF SyncPassesOn, Visit
<1>14. ASSUME NEW j \in Jobs, SyncRecovers(j)
      PROVE  TypeInv'
    BY <1>14, <1>m DEF SyncRecovers, Visit, MarkIn, Persist, CancelTask, Live
<1>15. ASSUME NEW j \in Jobs, Cancel(j)
      PROVE  TypeInv'
    BY <1>15, <1>m DEF Cancel, CancelTask, Live, StartCleanup
<1>16. ASSUME NEW j \in Jobs, Delete(j)
      PROVE  TypeInv'
    BY <1>16, <1>m DEF Delete, StoreDelete, CancelTask, Live, StartCleanup
<1>17. ASSUME NEW j \in Jobs, GcSkips(j)
      PROVE  TypeInv'
    BY <1>17 DEF GcSkips, GcVisit
<1>18. ASSUME NEW j \in Jobs, GcCleans(j)
      PROVE  TypeInv'
    BY <1>18 DEF GcCleans, GcVisit, StartCleanup
<1>19. ASSUME NEW j \in Jobs, GcDeletes(j)
      PROVE  TypeInv'
    BY <1>19, <1>m DEF GcDeletes, GcVisit, StoreDelete, CancelTask, Live
<1>20. ASSUME NEW j \in Jobs, WrapperStarts(j)
      PROVE  TypeInv'
  <2>1. TypeOK'
    BY <1>20 DEF WrapperStarts, Write
  <2>2. ASSUME NEW i \in Jobs
        PROVE  HostOK(i)'
    BY <1>20 DEF WrapperStarts, Write
  <2>. QED  BY <2>1, <2>2
<1>21. ASSUME NEW j \in Jobs, WrapperOpensExitCode(j)
      PROVE  TypeInv'
    BY <1>21 DEF WrapperOpensExitCode, Write
<1>22. ASSUME NEW j \in Jobs, WrapperEnds(j)
      PROVE  TypeInv'
    BY <1>22 DEF WrapperEnds, ExitCodeFile
<1>23. ASSUME NEW j \in Jobs, WrapperKilled(j)
      PROVE  TypeInv'
    BY <1>23 DEF WrapperKilled
<1>24. ASSUME NEW j \in Jobs, WrapperCannotWrite(j)
      PROVE  TypeInv'
    BY <1>24 DEF WrapperCannotWrite
<1>25. ASSUME NEW j \in Jobs, NEW owner \in Owner, CleanupTerminates(j, owner)
      PROVE  TypeInv'
    BY <1>25 DEF CleanupTerminates, CleanupGoes, KillByPid, Alive
<1>26. ASSUME NEW j \in Jobs, NEW owner \in Owner, CleanupRemoves(j, owner)
      PROVE  TypeInv'
    BY <1>26 DEF CleanupRemoves, CleanupGoes, KillByPid, Alive
<1>27. ASSUME NEW j \in Jobs, NEW owner \in Owner, CleanupFails(j, owner)
      PROVE  TypeInv'
    BY <1>27 DEF CleanupFails, CleanupGoes
<1>28. ASSUME SyncWakes
      PROVE  TypeInv'
    BY <1>28 DEF SyncWakes
<1>29. ASSUME GcWakes
      PROVE  TypeInv'
    BY <1>29 DEF GcWakes
<1>30. ASSUME Restart
      PROVE  TypeInv'
    BY <1>30 DEF Restart, Forget
<1>31. ASSUME Interrupt
      PROVE  TypeInv'
    BY <1>31 DEF Interrupt, Live
<1>32. ASSUME DiskFills
      PROVE  TypeInv'
    BY <1>32 DEF DiskFills
<1>33. ASSUME Crash
      PROVE  TypeInv'
    BY <1>33 DEF Crash, Forget
<1>34. CASE UNCHANGED vars
    BY <1>34 DEF vars
<1>. QED
    BY <1>1, <1>2, <1>3, <1>4, <1>5, <1>6, <1>7, <1>8, <1>9, <1>10, <1>11,
        <1>12, <1>13, <1>14, <1>15, <1>16, <1>17, <1>18, <1>19, <1>20, <1>21,
        <1>22, <1>23, <1>24, <1>25, <1>26, <1>27, <1>28, <1>29, <1>30, <1>31,
        <1>32, <1>33, <1>34
    DEF Next, ExecuteJob, SyncVisit, Retire, Host

(* Every variable keeps its type, in every reachable state.                *)
THEOREM TypeCorrect == Spec => []TypeOK
<1>1. TypeInv => TypeOK
    BY DEF TypeInv
<1>. QED  BY <1>1, TypeInvInit, TypeInvNext, PTL DEF Spec

-----------------------------------------------------------------------------
(* The invariant behind the safety properties.  Its first part relates the *)
(* record to whoever is about to act on it: the coroutine, the visit of    *)
(* the sync loop, the gc loop.  A loop that has looked at a record before  *)
(* an await finds it changed only in ways that leave its decision sound.   *)

Early == {"prepare", "checkout", "setup"}

HasWorkDir == TaskState \ {"none", "prepare", "checkout", "done"}

RecordOK(j) ==
    /\ life[j] = "unborn" =>
          j \notin jobs /\ record[j] = NoRecord /\ disk[j] = NoRecord
    /\ task[j] \in {"save", "final", "done"} => Terminal(record[j])
    /\ j \in cancelling => Live(j)
    /\ Live(j) /\ j \notin jobs => Terminal(record[j]) /\ life[j] = "deleted"
    /\ task[j] \in {"prepare", "checkout"} => Status(j) \in {"PENDING", "CANCELLED"}
    /\ task[j] = "setup" => Status(j) \in {"SETUP", "CANCELLED"}
    /\ task[j] \in Early /\ j \notin cancelling => ~Terminal(record[j])
    /\ task[j] \in HasWorkDir => record[j].work_dir
    /\ sync[j] \notin {"out", "todo"} =>
          /\ record[j].work_dir
          /\ Status(j) \in {"RUNNING"} \cup TERMINAL_STATUSES
          /\ task[j] \notin Early
    /\ gc[j] = "clean" => Terminal(record[j])

(* job.json is as LaunchIsLogged wants it.                                 *)
LoggedRecord(r) == r.work_dir /\ r.status \in {"RUNNING"} \cup TERMINAL_STATUSES

(* It is so from mark_running on, before there is a wrapper.               *)
LogOK(j) ==
    \/ wrapper[j] = "none" /\ task[j] \in Early \cup {"none", "done"}
    \/ life[j] = "deleted"
    \/ LoggedRecord(disk[j])

(* The news of a success travels through .exitcode, execute_job's          *)
(* exit_code, the answer to the sync loop, the record and job.json.        *)
SuccessOK(j) ==
    \/ Status(j) = "COMPLETED" \/ disk[j].status = "COMPLETED"
    \/ code[j] = "zero" \/ sync[j] = "zero"
    => wrapper[j] = "zero"

SafetyInv == TypeInv /\ \A j \in Jobs : RecordOK(j) /\ LogOK(j) /\ SuccessOK(j)

-----------------------------------------------------------------------------
(* What the finally clause does to job j, and to no other.                 *)
LEMMA FinalizeEffect ==
    ASSUME TypeOK, NEW j \in Jobs, NEW r \in Record, Finalize(j, r)
    PROVE  /\ jobs' = jobs
           /\ record'[j] = MarkIn(j, r) /\ j \notin cancelling' /\ code'[j] = "none"
           /\ \/ task'[j] = "done" /\ disk'[j] \in {disk[j], MarkIn(j, r)}
              \/ /\ task'[j] = "final" /\ disk'[j] = disk[j]
                 /\ MarkIn(j, r).work_dir
                 /\ MarkIn(j, r).status \notin {"CANCELLED", "ERROR"}
           /\ \A i \in Jobs \ {j} :
                 /\ record'[i] = record[i] /\ disk'[i] = disk[i]
                 /\ task'[i] = task[i] /\ code'[i] = code[i]
                 /\ i \in cancelling' <=> i \in cancelling
<1>1. \A i \in Jobs \ {j} :
         /\ record'[i] = record[i] /\ disk'[i] = disk[i]
         /\ task'[i] = task[i] /\ code'[i] = code[i]
         /\ i \in cancelling' <=> i \in cancelling
    BY DEF Finalize, TypeOK, Mark, Persist
<1>2. /\ jobs' = jobs
      /\ record'[j] = MarkIn(j, r) /\ j \notin cancelling' /\ code'[j] = "none"
    BY DEF Finalize, TypeOK, Mark
<1>3. CASE MarkIn(j, r).status \in {"CANCELLED", "ERROR"} \/ ~MarkIn(j, r).work_dir
    BY <1>1, <1>2, <1>3 DEF Finalize, TypeOK, Persist
<1>4. CASE ~(MarkIn(j, r).status \in {"CANCELLED", "ERROR"} \/ ~MarkIn(j, r).work_dir)
    BY <1>1, <1>2, <1>4 DEF Finalize, TypeOK
<1>. QED  BY <1>3, <1>4

(* The finally clause keeps the invariant when the mark is an end the job  *)
(* may come to: terminal, no success but a real one, and given up if the   *)
(* job has not got to mark_running.                                        *)
LEMMA FinalizeSafe ==
    ASSUME SafetyInv, NEW j \in Jobs, NEW r \in Record, Live(j),
           Finalize(j, r), UNCHANGED <<hostVars, restVars>>,
           Terminal(MarkIn(j, r)),
           record[j].work_dir => MarkIn(j, r).work_dir,
           task[j] \in Early => MarkIn(j, r).status \in {"CANCELLED", "ERROR"},
           MarkIn(j, r).status = "COMPLETED" => wrapper[j] = "zero",
           NEW i \in Jobs
    PROVE  RecordOK(i)' /\ LogOK(i)' /\ SuccessOK(i)'
<1>e. /\ jobs' = jobs
      /\ record'[j] = MarkIn(j, r) /\ j \notin cancelling' /\ code'[j] = "none"
      /\ \/ task'[j] = "done" /\ disk'[j] \in {disk[j], MarkIn(j, r)}
         \/ /\ task'[j] = "final" /\ disk'[j] = disk[j]
            /\ MarkIn(j, r).work_dir
            /\ MarkIn(j, r).status \notin {"CANCELLED", "ERROR"}
      /\ \A k \in Jobs \ {j} :
            /\ record'[k] = record[k] /\ disk'[k] = disk[k]
            /\ task'[k] = task[k] /\ code'[k] = code[k]
            /\ k \in cancelling' <=> k \in cancelling
    BY FinalizeEffect DEF SafetyInv, TypeInv
<1>u. /\ wrapper' = wrapper /\ files' = files /\ sync' = sync /\ gc' = gc
      /\ life' = life
    BY DEF hostVars, restVars, loopVars, serverVars
<1>j. HostOK(j) /\ RecordOK(j) /\ LogOK(j) /\ SuccessOK(j) /\ task[j] \in TaskState
    BY DEF SafetyInv, TypeInv, TypeOK
<1>1. CASE i # j
    BY <1>1, <1>e, <1>u DEF SafetyInv, RecordOK, LogOK, SuccessOK, Status, Live
<1>2. RecordOK(j)'
    BY <1>e, <1>u, <1>j DEF RecordOK, HostOK, Status, Live, Terminal, Early, HasWorkDir
<1>3. LogOK(j)'
  <2>1. CASE wrapper[j] = "none" /\ task[j] \in Early
    BY <2>1, <1>e, <1>u DEF LogOK
  <2>2. CASE life[j] = "deleted"
    BY <2>2, <1>u DEF LogOK
  <2>3. CASE LoggedRecord(disk[j])
    <3>1. CASE wrapper[j] = "none" /\ task'[j] = "done"
      BY <3>1, <1>u DEF LogOK
    <3>2. CASE wrapper[j] # "none"
      <4>1. task[j] \in HasWorkDir
        BY <3>2, <1>j DEF HostOK, Live, HasWorkDir, BeforeLaunch, TaskState
      <4>2. MarkIn(j, r).work_dir
        BY <4>1, <1>j DEF RecordOK
      <4>. QED  BY <4>2, <2>3, <1>e DEF LogOK, LoggedRecord, Terminal
    <3>3. CASE task'[j] = "final"
      BY <3>3, <2>3, <1>e DEF LogOK
    <3>. QED  BY <3>1, <3>2, <3>3, <1>e
  <2>. QED  BY <2>1, <2>2, <2>3, <1>j DEF LogOK, Live
<1>4. SuccessOK(j)'
    BY <1>e, <1>u, <1>j DEF SuccessOK, Status
<1>. QED  BY <1>1, <1>2, <1>3, <1>4

(* The steps of execute_job that enter its finally clause.                 *)
LEMMA FinalizingSteps ==
    ASSUME SafetyInv, NEW j \in Jobs,
           \/ PidTimeout(j) \/ BackendRaises(j) \/ SaveReturns(j)
           \/ PrepareReturns(j) /\ full /\ j \in jobs
           \/ SetupReturns(j) /\ full /\ j \in jobs
           \/ Collect(j) /\ ~(code[j] = "zero" /\ j \in CacheJobs)
           \/ CancelDelivered(j) /\ task[j] # "final",
           NEW i \in Jobs
    PROVE  RecordOK(i)' /\ LogOK(i)' /\ SuccessOK(i)'
<1>r. /\ record[j] \in Record
      /\ SetupMark(record[j]) \in Record /\ RunningMark(record[j]) \in Record
      /\ FinishedMark(record[j], code[j]) \in Record
      /\ CancelledMark(record[j]) \in Record
      /\ \A r \in Record : ErrorMark(r) \in Record
    BY MarkTypes DEF SafetyInv, TypeInv, TypeOK
<1>j. HostOK(j) /\ RecordOK(j) /\ SuccessOK(j) /\ task[j] \in TaskState
    BY DEF SafetyInv, TypeInv, TypeOK
<1>. USE DEF Resumes, Live, Early
<1>1. ASSUME NEW r \in Record, Finalize(j, ErrorMark(r)),
             UNCHANGED <<hostVars, restVars>>,
             Live(j), j \notin cancelling, record[j].work_dir => r.work_dir
      PROVE  RecordOK(i)' /\ LogOK(i)' /\ SuccessOK(i)'
  <2>1. ErrorMark(r).status = "ERROR" /\ ErrorMark(r).work_dir = r.work_dir
    BY DEF ErrorMark, Record
  <2>2. j \notin jobs => Terminal(record[j]) /\ task[j] \notin Early
    BY <1>1, <1>j DEF RecordOK
  <2>3. /\ Terminal(MarkIn(j, ErrorMark(r)))
        /\ record[j].work_dir => MarkIn(j, ErrorMark(r)).work_dir
        /\ task[j] \in Early => MarkIn(j, ErrorMark(r)).status = "ERROR"
        /\ MarkIn(j, ErrorMark(r)).status = "COMPLETED" => wrapper[j] = "zero"
    BY <1>1, <1>j, <2>1, <2>2 DEF MarkIn, Terminal, TERMINAL_STATUSES, SuccessOK, Status
  <2>. QED  BY <1>1, <1>r, <2>3, FinalizeSafe
<1>2. CASE PidTimeout(j) \/ BackendRaises(j)
    BY <1>1, <1>2, <1>r DEF PidTimeout, BackendRaises, Fails
<1>3. CASE PrepareReturns(j) /\ full /\ j \in jobs
    BY <1>1, <1>3, <1>r DEF PrepareReturns, MarkAndPersist, SetupMark
<1>4. CASE SetupReturns(j) /\ full /\ j \in jobs
  <2>1. RunningMark(record[j]).work_dir = record[j].work_dir
    BY <1>r DEF RunningMark, Record
  <2>. QED  BY <1>1, <1>4, <1>r, <2>1 DEF SetupReturns, MarkAndPersist
<1>5. CASE SaveReturns(j)
  <2>1. MarkIn(j, record[j]) = record[j] /\ Terminal(record[j])
    BY <1>5, <1>j DEF SaveReturns, MarkIn, RecordOK
  <2>. QED
    BY <1>5, <1>j, <1>r, <2>1, FinalizeSafe DEF SaveReturns, SuccessOK, Status
<1>6. CASE Collect(j) /\ ~(code[j] = "zero" /\ j \in CacheJobs)
  <2>. DEFINE r == FinishedMark(record[j], code[j])
  <2>1. /\ r.status \in {"COMPLETED", "FAILED"} /\ r.work_dir = record[j].work_dir
        /\ r.status = "COMPLETED" => wrapper[j] = "zero"
    BY <1>j, <1>r DEF FinishedMark, Record, SuccessOK
  <2>2. j \notin jobs => Terminal(record[j])
    BY <1>6, <1>j DEF Collect, RecordOK
  <2>3. /\ Terminal(MarkIn(j, r)) /\ MarkIn(j, r).work_dir = record[j].work_dir
        /\ MarkIn(j, r).status = "COMPLETED" => wrapper[j] = "zero"
    BY <1>j, <2>1, <2>2 DEF MarkIn, Terminal, TERMINAL_STATUSES, SuccessOK, Status
  <2>4. Finalize(j, r) /\ UNCHANGED <<hostVars, restVars>> /\ task[j] = "collect"
    BY <1>6 DEF Collect
  <2>. QED  BY <1>r, <2>3, <2>4, FinalizeSafe
<1>7. CASE CancelDelivered(j) /\ task[j] # "final"
  <2>. DEFINE r == CancelledMark(record[j])
  <2>1. Live(j)
    BY <1>7, <1>j DEF CancelDelivered, RecordOK
  <2>2. /\ ~Terminal(record[j]) => r.status = "CANCELLED"
        /\ Terminal(record[j]) => r = record[j]
        /\ r.work_dir = record[j].work_dir
    BY <1>r DEF CancelledMark, Record
  <2>3. task[j] \in Early /\ Terminal(record[j]) => Status(j) = "CANCELLED"
    BY <1>j DEF RecordOK, Status, Terminal, TERMINAL_STATUSES
  <2>4. j \notin jobs => Terminal(record[j])
    BY <2>1, <1>j DEF RecordOK
  <2>5. /\ Terminal(MarkIn(j, r)) /\ MarkIn(j, r).work_dir = record[j].work_dir
        /\ task[j] \in Early => MarkIn(j, r).status = "CANCELLED"
        /\ MarkIn(j, r).status = "COMPLETED" => wrapper[j] = "zero"
    BY <1>j, <2>2, <2>3, <2>4
       DEF MarkIn, Terminal, TERMINAL_STATUSES, SuccessOK, Status
  <2>6. Finalize(j, r) /\ UNCHANGED <<hostVars, restVars>>
    BY <1>7 DEF CancelDelivered
  <2>. QED  BY <1>r, <2>1, <2>5, <2>6, FinalizeSafe
<1>. QED  BY <1>2, <1>3, <1>4, <1>5, <1>6, <1>7

(* A step that does nothing to job i keeps its part of the invariant.      *)
Untouched(i) ==
    /\ record'[i] = record[i] /\ disk'[i] = disk[i] /\ (i \in jobs' <=> i \in jobs)
    /\ task'[i] = task[i] /\ code'[i] = code[i]
    /\ (i \in cancelling' <=> i \in cancelling)
    /\ sync'[i] = sync[i] /\ gc'[i] = gc[i]
    /\ wrapper'[i] = wrapper[i] /\ life'[i] = life[i]

(* What one job's coroutines do is no concern of another job's.            *)
LEMMA OtherJob ==
    ASSUME SafetyInv, NEW i \in Jobs, Untouched(i)
    PROVE  RecordOK(i)' /\ LogOK(i)' /\ SuccessOK(i)'
    BY DEF SafetyInv, Untouched, RecordOK, LogOK, SuccessOK, Status, Live

(* The steps that mark a record and go on: PENDING to SETUP to RUNNING,    *)
(* and to COMPLETED when there is a cache to save.                         *)
LEMMA MarkingSteps ==
    ASSUME SafetyInv, NEW j \in Jobs,
           \/ PrepareReturns(j) /\ ~(full /\ j \in jobs)
           \/ SetupReturns(j) /\ ~(full /\ j \in jobs)
           \/ Collect(j) /\ code[j] = "zero" /\ j \in CacheJobs,
           NEW i \in Jobs
    PROVE  RecordOK(i)' /\ LogOK(i)' /\ SuccessOK(i)'
<1>r. /\ record \in [Jobs -> Record] /\ disk \in [Jobs -> Record]
      /\ task \in [Jobs -> TaskState]
    BY DEF SafetyInv, TypeInv, TypeOK
<1>j. HostOK(j) /\ RecordOK(j) /\ LogOK(j) /\ SuccessOK(j)
    BY DEF SafetyInv, TypeInv
<1>t. task[j] \in {"checkout", "setup", "collect"} /\ j \notin cancelling
    BY DEF PrepareReturns, SetupReturns, Collect, Resumes
<1>i. task[j] \in Early => j \in jobs
    BY <1>j, <1>t DEF RecordOK, Live, Early
<1>u. /\ wrapper' = wrapper /\ sync' = sync /\ gc' = gc /\ life' = life
      /\ jobs' = jobs /\ code' = code /\ cancelling' = cancelling
    BY <1>i, <1>t DEF PrepareReturns, SetupReturns, Collect, Resumes, Early,
           MarkAndPersist, hostVars, restVars, loopVars, serverVars
<1>1. CASE PrepareReturns(j)
  <2>1. /\ record' = [record EXCEPT ![j] = SetupMark(record[j])]
        /\ disk' = [disk EXCEPT ![j] = SetupMark(record[j])]
        /\ task' = [task EXCEPT ![j] = "setup"] /\ task[j] = "checkout"
    BY <1>1, <1>i
       DEF PrepareReturns, SetupReturns, Collect, Resumes, Early, MarkAndPersist, Mark, MarkIn
  <2>2. /\ record'[j] = SetupMark(record[j]) /\ disk'[j] = SetupMark(record[j])
        /\ task'[j] = "setup"
        /\ i # j => Untouched(i)
    BY <1>r, <1>u, <2>1 DEF Untouched
  <2>3. RecordOK(j)'
    BY <1>u, <1>j, <1>t, <1>i, <2>1, <2>2 DEF RecordOK, SetupMark, Status, Live, Terminal,
       TERMINAL_STATUSES, Early, HasWorkDir, HostOK
  <2>4. LogOK(j)' /\ SuccessOK(j)'
    BY <1>u, <1>j, <2>1, <2>2 DEF LogOK, SuccessOK, SetupMark, Status, Early, HostOK,
       BeforeLaunch
  <2>. QED  BY <2>2, <2>3, <2>4, OtherJob
<1>2. CASE SetupReturns(j)
  <2>1. /\ record' = [record EXCEPT ![j] = RunningMark(record[j])]
        /\ disk' = [disk EXCEPT ![j] = RunningMark(record[j])]
        /\ task' = [task EXCEPT ![j] = "launch"] /\ task[j] = "setup"
    BY <1>2, <1>i
       DEF PrepareReturns, SetupReturns, Collect, Resumes, Early, MarkAndPersist, Mark, MarkIn
  <2>2. /\ record'[j] = RunningMark(record[j]) /\ disk'[j] = RunningMark(record[j])
        /\ task'[j] = "launch"
        /\ i # j => Untouched(i)
    BY <1>r, <1>u, <2>1 DEF Untouched
  <2>3. /\ RunningMark(record[j]).status = "RUNNING"
        /\ RunningMark(record[j]).work_dir
    BY <1>r, <1>j, <2>1 DEF RunningMark, Record, RecordOK, HasWorkDir, TaskState
  <2>4. RecordOK(j)'
    BY <1>u, <1>j, <1>t, <1>i, <2>1, <2>2, <2>3 DEF RecordOK, Status, Live, Terminal,
       TERMINAL_STATUSES, Early, HasWorkDir, HostOK
  <2>5. LogOK(j)' /\ SuccessOK(j)'
    BY <1>u, <1>j, <2>1, <2>2, <2>3 DEF LogOK, LoggedRecord, SuccessOK, Status, Early
  <2>. QED  BY <2>2, <2>4, <2>5, OtherJob
<1>3. CASE Collect(j) /\ code[j] = "zero" /\ j \in CacheJobs
  <2>. DEFINE r == MarkIn(j, FinishedMark(record[j], code[j]))
  <2>1. /\ record' = [record EXCEPT ![j] = r] /\ disk' = disk
        /\ task' = [task EXCEPT ![j] = "save"] /\ task[j] = "collect"
    BY <1>3 DEF Collect, Resumes, Mark, Goto
  <2>2. /\ record'[j] = r /\ disk'[j] = disk[j] /\ task'[j] = "save"
        /\ i # j => Untouched(i)
    BY <1>r, <1>u, <2>1 DEF Untouched
  <2>3. /\ Terminal(r) /\ r.work_dir = record[j].work_dir /\ wrapper[j] = "zero"
    BY <1>3, <1>r, <1>j, <2>1 DEF MarkIn, FinishedMark, Record, RecordOK, SuccessOK,
       Terminal, TERMINAL_STATUSES, Live
  <2>4. RecordOK(j)'
    BY <1>u, <1>j, <2>1, <2>2, <2>3 DEF RecordOK, Status, Live, Terminal, Early,
       HasWorkDir, HostOK, TaskState
  <2>5. LogOK(j)' /\ SuccessOK(j)'
    BY <1>u, <1>j, <2>1, <2>2, <2>3 DEF LogOK, SuccessOK, Status, Early
  <2>. QED  BY <2>2, <2>4, <2>5, OtherJob
<1>. QED  BY <1>1, <1>2, <1>3

(* A recovery marks a record the sync loop saw RUNNING.                    *)
LEMMA RecoveringStep ==
    ASSUME SafetyInv, NEW j \in Jobs, SyncRecovers(j), NEW i \in Jobs
    PROVE  RecordOK(i)' /\ LogOK(i)' /\ SuccessOK(i)'
<1>. DEFINE r == MarkIn(j, FinishedMark(record[j], sync[j]))
<1>r. /\ record \in [Jobs -> Record] /\ disk \in [Jobs -> Record]
      /\ sync \in [Jobs -> SyncState]
    BY DEF SafetyInv, TypeInv, TypeOK
<1>j. HostOK(j) /\ RecordOK(j) /\ LogOK(j) /\ SuccessOK(j)
    BY DEF SafetyInv, TypeInv
<1>1. sync[j] \in {"zero", "nonzero", "dead"}
    BY DEF SyncRecovers
<1>2. /\ record[j].work_dir /\ record[j].status \in {"RUNNING"} \cup TERMINAL_STATUSES
      /\ task[j] \notin Early /\ life[j] # "unborn"
    BY <1>1, <1>j DEF RecordOK, Status, NoRecord
<1>3. /\ r.work_dir /\ r.status \in {"RUNNING"} \cup TERMINAL_STATUSES
      /\ Terminal(record[j]) \/ j \in jobs => Terminal(r)
      /\ r.status = "COMPLETED" => wrapper[j] = "zero"
    BY <1>1, <1>2, <1>r, <1>j DEF MarkIn, FinishedMark, Record, SuccessOK, Status, Terminal,
       TERMINAL_STATUSES
<1>4. /\ record' = [record EXCEPT ![j] = r]
      /\ disk' = disk \/ disk' = [disk EXCEPT ![j] = r]
      /\ sync' = [sync EXCEPT ![j] = "out"]
      /\ \/ cancelling' = cancelling
         \/ cancelling' = cancelling \cup {j} /\ Live(j)
      /\ wrapper' = wrapper /\ gc' = gc /\ life' = life
      /\ jobs' = jobs /\ code' = code /\ task' = task
    BY DEF SyncRecovers, Visit, Persist, CancelTask, loopRest, hostVars, serverVars
<1>5. /\ record'[j] = r /\ disk'[j] \in {disk[j], r} /\ sync'[j] = "out"
      /\ i # j => Untouched(i)
    BY <1>r, <1>4 DEF Untouched
<1>. HIDE DEF r
<1>6. RecordOK(j)'
    BY <1>2, <1>3, <1>4, <1>5, <1>j DEF RecordOK, Status, Live, Early
<1>7. LogOK(j)' /\ SuccessOK(j)'
    BY <1>3, <1>4, <1>5, <1>j DEF LogOK, LoggedRecord, SuccessOK, Status
<1>. QED  BY <1>5, <1>6, <1>7, OtherJob

-----------------------------------------------------------------------------
(* Every action of the server and of the world keeps the invariant.        *)
LEMMA SafetyInvStep ==
    ASSUME SafetyInv, Next, NEW i \in Jobs
    PROVE  RecordOK(i)' /\ LogOK(i)' /\ SuccessOK(i)'
<1>1. ASSUME NEW j \in Jobs,
             \/ PrepareReturns(j) \/ SetupReturns(j) \/ PidTimeout(j)
             \/ BackendRaises(j) \/ Collect(j) \/ SaveReturns(j) \/ SyncRecovers(j)
             \/ CancelDelivered(j) /\ task[j] # "final"
      PROVE  RecordOK(i)' /\ LogOK(i)' /\ SuccessOK(i)'
    BY <1>1, FinalizingSteps, MarkingSteps, RecoveringStep
<1>. USE DEF SafetyInv, TypeInv, TypeOK, HostOK, HasExitCode, RecordOK, LogOK,
             SuccessOK, LoggedRecord, Status, Early, HasWorkDir, BeforeLaunch, Live,
             Terminal, NewRecord, NoRecord, CancelledMark, TaskState, ExitCode,
             SyncState, GcState, Life, WrapperState, TERMINAL_STATUSES,
             storeVars, taskVars, loopVars, hostVars, serverVars, restVars, loopRest
<1>2. ASSUME NEW j \in Jobs, Submit(j)
      PROVE  RecordOK(i)' /\ LogOK(i)' /\ SuccessOK(i)'
    BY <1>2 DEF Submit, Persist, Goto
<1>3. ASSUME NEW j \in Jobs, Checkout(j)
      PROVE  RecordOK(i)' /\ LogOK(i)' /\ SuccessOK(i)'
    BY <1>3 DEF Checkout, Resumes, Goto
<1>4. ASSUME NEW j \in Jobs, Spawn(j)
      PROVE  RecordOK(i)' /\ LogOK(i)' /\ SuccessOK(i)'
    BY <1>4 DEF Spawn, Resumes, Goto
<1>5. ASSUME NEW j \in Jobs, PidFound(j)
      PROVE  RecordOK(i)' /\ LogOK(i)' /\ SuccessOK(i)'
    BY <1>5 DEF PidFound, Resumes, Goto
<1>6. ASSUME NEW j \in Jobs, MonitorReadsExitCode(j)
      PROVE  RecordOK(i)' /\ LogOK(i)' /\ SuccessOK(i)'
    BY <1>6 DEF MonitorReadsExitCode, Resumes, MonitorReturns, Goto
<1>7. ASSUME NEW j \in Jobs, MonitorFindsNoFile(j)
      PROVE  RecordOK(i)' /\ LogOK(i)' /\ SuccessOK(i)'
    BY <1>7 DEF MonitorFindsNoFile, Resumes, Goto
<1>8. ASSUME NEW j \in Jobs, MonitorProbesPid(j)
      PROVE  RecordOK(i)' /\ LogOK(i)' /\ SuccessOK(i)'
  <2>1. CASE PidProbe(j) = "dead"
    BY <1>8, <2>1 DEF MonitorProbesPid, Resumes, MonitorReturns, Goto
  <2>2. CASE PidProbe(j) # "dead"
    BY <1>8, <2>2 DEF MonitorProbesPid, Resumes, Goto
  <2>. QED  BY <2>1, <2>2
<1>9. ASSUME NEW j \in Jobs, FinalSync(j)
      PROVE  RecordOK(i)' /\ LogOK(i)' /\ SuccessOK(i)'
  <2>1. /\ Terminal(record[j]) /\ record[j].work_dir /\ life[j] # "unborn"
        /\ j \notin cancelling
    BY <1>9 DEF FinalSync, Resumes
  <2>2. /\ disk' = disk \/ disk' = [disk EXCEPT ![j] = record[j]]
        /\ task' = [task EXCEPT ![j] = "done"]
        /\ UNCHANGED <<record, jobs, code, cancelling, hostVars, restVars>>
    BY <1>9 DEF FinalSync, Persist, Goto
  <2>3. task'[j] = "done" /\ disk'[j] \in {disk[j], record[j]}
    BY <2>2
  <2>4. i # j => Untouched(i)
    BY <2>2 DEF Untouched
  <2>5. RecordOK(j)' /\ LogOK(j)' /\ SuccessOK(j)'
    BY <2>1, <2>2, <2>3
  <2>. QED  BY <2>4, <2>5, OtherJob
<1>10. ASSUME NEW j \in Jobs, CancelDelivered(j) /\ task[j] = "final"
      PROVE  RecordOK(i)' /\ LogOK(i)' /\ SuccessOK(i)'
    BY <1>10 DEF CancelDelivered, Goto
<1>11. ASSUME NEW j \in Jobs, SyncSkips(j)
      PROVE  RecordOK(i)' /\ LogOK(i)' /\ SuccessOK(i)'
    BY <1>11 DEF SyncSkips, Visit
<1>12. ASSUME NEW j \in Jobs, SyncVisits(j)
      PROVE  RecordOK(i)' /\ LogOK(i)' /\ SuccessOK(i)'
    BY <1>12 DEF SyncVisits, Visit
<1>13. ASSUME NEW j \in Jobs, SyncTestsExitCode(j)
      PROVE  RecordOK(i)' /\ LogOK(i)' /\ SuccessOK(i)'
    BY <1>13 DEF SyncTestsExitCode, Visit
<1>14. ASSUME NEW j \in Jobs, SyncProbesPid(j)
      PROVE  RecordOK(i)' /\ LogOK(i)' /\ SuccessOK(i)'
    BY <1>14 DEF SyncProbesPid, Visit, PidProbe
<1>15. ASSUME NEW j \in Jobs, SyncPassesOn(j)
      PROVE  RecordOK(i)' /\ LogOK(i)' /\ SuccessOK(i)'
    BY <1>15 DEF SyncPassesOn, Visit
<1>16. ASSUME NEW j \in Jobs, Cancel(j)
      PROVE  RecordOK(i)' /\ LogOK(i)' /\ SuccessOK(i)'
  <2>1. /\ record' = [record EXCEPT ![j] = CancelledMark(record[j])]
        /\ \/ cancelling' = cancelling \cup {j} /\ Live(j)
           \/ cancelling' = cancelling /\ ~Live(j)
        /\ j \in jobs /\ ~Terminal(record[j])
        /\ UNCHANGED <<jobs, disk, task, code, loopVars, hostVars, serverVars>>
    BY <1>16 DEF Cancel, CancelTask
  <2>2. record'[j].status = "CANCELLED" /\ record'[j].work_dir = record[j].work_dir
    BY <2>1 DEF Record
  <2>3. i # j => Untouched(i)
    BY <2>1 DEF Untouched
  <2>4. RecordOK(j)'
    BY <2>1, <2>2
  <2>5. LogOK(j)' /\ SuccessOK(j)'
    BY <2>1, <2>2
  <2>. QED  BY <2>3, <2>4, <2>5, OtherJob
<1>17. ASSUME NEW j \in Jobs, Delete(j)
      PROVE  RecordOK(i)' /\ LogOK(i)' /\ SuccessOK(i)'
    BY <1>17 DEF Delete, StoreDelete, CancelTask
<1>18. ASSUME NEW j \in Jobs, GcSkips(j)
      PROVE  RecordOK(i)' /\ LogOK(i)' /\ SuccessOK(i)'
    BY <1>18 DEF GcSkips, GcVisit
<1>19. ASSUME NEW j \in Jobs, GcCleans(j)
      PROVE  RecordOK(i)' /\ LogOK(i)' /\ SuccessOK(i)'
    BY <1>19 DEF GcCleans, GcVisit
<1>20. ASSUME NEW j \in Jobs, GcDeletes(j)
      PROVE  RecordOK(i)' /\ LogOK(i)' /\ SuccessOK(i)'
    BY <1>20 DEF GcDeletes, GcVisit, StoreDelete, CancelTask
<1>21. ASSUME NEW j \in Jobs, WrapperStarts(j)
      PROVE  RecordOK(i)' /\ LogOK(i)' /\ SuccessOK(i)'
    BY <1>21 DEF WrapperStarts
<1>22. ASSUME NEW j \in Jobs, WrapperOpensExitCode(j)
      PROVE  RecordOK(i)' /\ LogOK(i)' /\ SuccessOK(i)'
    BY <1>22 DEF WrapperOpensExitCode
<1>23. ASSUME NEW j \in Jobs, WrapperEnds(j)
      PROVE  RecordOK(i)' /\ LogOK(i)' /\ SuccessOK(i)'
    BY <1>23 DEF WrapperEnds
<1>24. ASSUME NEW j \in Jobs, WrapperKilled(j)
      PROVE  RecordOK(i)' /\ LogOK(i)' /\ SuccessOK(i)'
    BY <1>24 DEF WrapperKilled
<1>25. ASSUME NEW j \in Jobs, WrapperCannotWrite(j)
      PROVE  RecordOK(i)' /\ LogOK(i)' /\ SuccessOK(i)'
    BY <1>25 DEF WrapperCannotWrite
<1>26. ASSUME NEW j \in Jobs, NEW owner \in Owner, CleanupTerminates(j, owner)
      PROVE  RecordOK(i)' /\ LogOK(i)' /\ SuccessOK(i)'
    BY <1>26 DEF CleanupTerminates, CleanupGoes, KillByPid, Alive
<1>27. ASSUME NEW j \in Jobs, NEW owner \in Owner, CleanupRemoves(j, owner)
      PROVE  RecordOK(i)' /\ LogOK(i)' /\ SuccessOK(i)'
    BY <1>27 DEF CleanupRemoves, CleanupGoes, KillByPid, Alive
<1>28. ASSUME NEW j \in Jobs, NEW owner \in Owner, CleanupFails(j, owner)
      PROVE  RecordOK(i)' /\ LogOK(i)' /\ SuccessOK(i)'
    BY <1>28 DEF CleanupFails, CleanupGoes
<1>29. CASE SyncWakes
    BY <1>29 DEF SyncWakes
<1>30. CASE GcWakes
    BY <1>30 DEF GcWakes
<1>31. CASE Restart
    BY <1>31 DEF Restart, Forget
<1>32. CASE Interrupt
    BY <1>32 DEF Interrupt
<1>33. CASE DiskFills
    BY <1>33 DEF DiskFills
<1>34. CASE Crash
    BY <1>34 DEF Crash, Forget
<1>. QED
    BY <1>1, <1>2, <1>3, <1>4, <1>5, <1>6, <1>7, <1>8, <1>9, <1>10, <1>11,
        <1>12, <1>13, <1>14, <1>15, <1>16, <1>17, <1>18, <1>19, <1>20, <1>21,
        <1>22, <1>23, <1>24, <1>25, <1>26, <1>27, <1>28, <1>29, <1>30, <1>31,
        <1>32, <1>33, <1>34
    DEF Next, ExecuteJob, SyncVisit, Retire, Host

(* The invariant holds in every reachable state.                           *)
LEMMA SafetyInvariant == Spec => []SafetyInv
<1>1. Init => SafetyInv
  <2>1. Init => \A j \in Jobs : RecordOK(j) /\ LogOK(j) /\ SuccessOK(j)
    BY DEF Init, RecordOK, LogOK, SuccessOK, Status, Live, Terminal, NoRecord, Early,
           HasWorkDir, TaskState, TERMINAL_STATUSES
  <2>. QED  BY <2>1, TypeInvInit DEF SafetyInv
<1>2. SafetyInv /\ [Next]_vars => SafetyInv'
  <2>. SUFFICES ASSUME SafetyInv, [Next]_vars
                PROVE  SafetyInv'
    OBVIOUS
  <2>1. TypeInv'
    BY TypeInvNext DEF SafetyInv
  <2>2. CASE Next
    BY <2>1, <2>2, SafetyInvStep DEF SafetyInv
  <2>3. CASE UNCHANGED vars
    <3>1. ASSUME NEW i \in Jobs
          PROVE  RecordOK(i)' /\ LogOK(i)' /\ SuccessOK(i)'
      BY <2>3, OtherJob DEF vars, Untouched, storeVars, taskVars, loopVars, hostVars,
                            serverVars
    <3>. QED  BY <2>1, <3>1 DEF SafetyInv
  <2>. QED  BY <2>2, <2>3
<1>. QED  BY <1>1, <1>2, PTL DEF Spec

-----------------------------------------------------------------------------
(* execute_job never ends and leaves its job PENDING, SETUP or RUNNING.    *)
THEOREM TaskEnds == Spec => []TaskEndsTerminal
<1>1. SafetyInv => TaskEndsTerminal
    BY DEF SafetyInv, RecordOK, TaskEndsTerminal
<1>. QED  BY <1>1, SafetyInvariant, PTL

(* No interleaving, restart or failure makes up a success.                 *)
THEOREM NoFalseSuccess == Spec => []CompletedIsReal
<1>1. SafetyInv => CompletedIsReal
    BY DEF SafetyInv, SuccessOK, CompletedIsReal
<1>. QED  BY <1>1, SafetyInvariant, PTL

(* Whenever the server dies, the next one will know of every wrapper.      *)
THEOREM NoUnloggedLaunch == Spec => []LaunchIsLogged
<1>1. SafetyInv => LaunchIsLogged
    BY DEF SafetyInv, LogOK, LoggedRecord, LaunchIsLogged
<1>. QED  BY <1>1, SafetyInvariant, PTL

=============================================================================
