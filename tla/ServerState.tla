----------------------------- MODULE ServerState -----------------------------
(***************************************************************************)
(* The state the coroutines of one snakedispatch server share, and the     *)
(* operations of app.store.JobStore on it.  Everything runs on one event   *)
(* loop: an action of the modules that extend this one is what a coroutine *)
(* does between two awaits.                                                *)
(***************************************************************************)
EXTENDS JobRecord

CONSTANTS
    Jobs,         \* the uuids of the jobs clients submit
    Backend,      \* where the workflows run: LocalBackend or SlurmSSHBackend
    CacheJobs,    \* the jobs submitted with both cache_key and cache_dirs
    Environment   \* what clients and the world may do in this instance

ASSUME BackendAssumption == Backend \in {"local", "slurm_ssh"}

ASSUME CacheAssumption == CacheJobs \subseteq Jobs

ASSUME EnvironmentAssumption ==
    Environment \subseteq
        {"cancel", "delete", "gc",   \* POST /cancel, DELETE, a short max_age_hours
         "restart", "interrupt",     \* the server is killed; Ctrl-C
         "full",                     \* DATA_DIR may stop taking writes
         "kill",                     \* a wrapper may be SIGKILLed (OOM, reboot)
         "quota",                    \* work directories may run out of space
         "backend"}                  \* calls on the backend may raise

VARIABLES
    record,      \* [Jobs -> Record], the JobRecord objects
    jobs,        \* the keys of JobStore._jobs
    disk,        \* [Jobs -> Record], DATA_DIR/jobs/<job_id>/job.json
    full,        \* TRUE while a write to DATA_DIR raises OSError
    task,        \* [Jobs -> TaskState], where execute_job awaits
    code,        \* [Jobs -> ExitCode], execute_job's exit_code
    cancelling,  \* the tasks with a CancelledError still to be delivered
    sync,        \* [Jobs -> SyncState], the job in a pass of the sync loop
    gc,          \* [Jobs -> GcState], the job in a pass of the gc loop
    cleanup,     \* [Jobs -> [Owner -> CleanupState]], calls of backend.cleanup
    stopping,    \* TRUE while the server shuts down or is down
    wrapper,     \* [Jobs -> WrapperState], the process nohup bash .run.sh
    files,       \* [Jobs -> SUBSET WorkDirFile], the work directory
    life         \* [Jobs -> Life], what clients asked (history variable)

storeVars   == <<record, jobs, disk>>
taskVars    == <<task, code, cancelling>>
loopVars    == <<sync, gc>>
hostVars    == <<wrapper, files>>
serverVars  == <<full, stopping, life>>
vars        == <<storeVars, taskVars, loopVars, cleanup, hostVars, serverVars>>

(* "monitor" is the sleep between two polls, "probe" a poll over SSH whose *)
(* shell has not found .exitcode and has yet to try the pid.               *)
TaskState ==
    {"none", "prepare", "checkout", "setup", "launch", "pidwait", "monitor",
     "probe", "collect", "save", "final", "done"}

(* An answer of check_job_status is a state of the visit until the loop    *)
(* acts on it.                                                             *)
SyncState == {"out", "todo", "exit", "pid"} \cup ExitCode

GcState == {"out", "todo", "clean"}

Owner == {"cancel", "delete", "gc"}

CleanupState == {"idle", "term", "remove"}

(* "exiting" is a wrapper that has created .exitcode and not filled it.    *)
WrapperState ==
    {"none", "started", "running", "exiting", "zero", "nonzero", "dead"}

(* "text" is the content of .exitcode.                                     *)
WorkDirFile == {"dir", "pid", "exit", "text"}

Life == {"unborn", "born", "deleted"}

TypeOK ==
    /\ record \in [Jobs -> Record]
    /\ jobs \subseteq Jobs
    /\ disk \in [Jobs -> Record]
    /\ full \in BOOLEAN
    /\ task \in [Jobs -> TaskState]
    /\ code \in [Jobs -> ExitCode]
    /\ cancelling \subseteq Jobs
    /\ sync \in [Jobs -> SyncState]
    /\ gc \in [Jobs -> GcState]
    /\ cleanup \in [Jobs -> [Owner -> CleanupState]]
    /\ stopping \in BOOLEAN
    /\ wrapper \in [Jobs -> WrapperState]
    /\ files \in [Jobs -> SUBSET WorkDirFile]
    /\ life \in [Jobs -> Life]

-----------------------------------------------------------------------------

(* Faulty: the local status check awaits between its steps.                *)
LoopFreeAlways == TRUE

(* check_job_status of the local backend has no await: while it looks at   *)
(* the files, the event loop runs nothing else.                            *)
LoopFree ==
    Backend = "slurm_ssh" \/ \A j \in Jobs : sync[j] \in {"out", "todo"}

Live(j) == task[j] \notin {"none", "done"}

(* Faulty: the task is not told.                                           *)
CancelTaskForgotten(j) == UNCHANGED cancelling

(* task.cancel(): the CancelledError reaches the coroutine when it is next *)
(* resumed, before anything else it would do.                              *)
CancelTask(j) ==
    cancelling' = IF Live(j) THEN cancelling \cup {j} ELSE cancelling

(* The mark_* methods ignore a job that is no longer in the store.         *)
MarkIn(j, r) == IF j \in jobs THEN r ELSE record[j]

Mark(j, r) == record' = [record EXCEPT ![j] = MarkIn(j, r)]

(* JobStore.persist replaces job.json whole, or raises and leaves it.      *)
Persist(j, r) == disk' = IF full THEN disk ELSE [disk EXCEPT ![j] = r]

(* Faulty: the record goes and the task stays.                             *)
StoreDeleteKeepsTask(j) ==
    jobs' = jobs \ {j} /\ UNCHANGED cancelling /\ disk' = [disk EXCEPT ![j] = NoRecord]

(* JobStore.delete_job: forget the record, cancel its task, remove its     *)
(* directory under DATA_DIR.                                               *)
StoreDelete(j) ==
    /\ jobs' = jobs \ {j}
    /\ CancelTask(j)
    /\ disk' = [disk EXCEPT ![j] = NoRecord]

-----------------------------------------------------------------------------

(* The finally clause of execute_job, for a record marked r: a job that    *)
(* ran awaits one more sync of its data before it is persisted, another    *)
(* is persisted at once.  Either way the coroutine ends when it is done,   *)
(* also when persist raises.                                               *)
Finalize(j, r) ==
    LET left == MarkIn(j, r) IN
    /\ Mark(j, r)
    /\ cancelling' = cancelling \ {j}
    /\ code' = [code EXCEPT ![j] = "none"]
    /\ IF left.status \in {"CANCELLED", "ERROR"} \/ ~left.work_dir
       THEN task' = [task EXCEPT ![j] = "done"] /\ Persist(j, left)
       ELSE task' = [task EXCEPT ![j] = "final"] /\ UNCHANGED disk
    /\ UNCHANGED jobs

(* Faulty: mark_setup and mark_running do not persist.                     *)
MarkWithoutPersist(j, r, pc) ==
    Mark(j, r) /\ task' = [task EXCEPT ![j] = pc] /\ UNCHANGED <<jobs, disk, code, cancelling>>

(* A mark_* method that persists: it returns and execute_job goes on to    *)
(* pc, or its persist raises and the job ends in ERROR, which is not       *)
(* persisted either.                                                       *)
MarkAndPersist(j, r, pc) ==
    IF full /\ j \in jobs
    THEN Finalize(j, ErrorMark(r))
    ELSE /\ Mark(j, r)
         /\ disk' = IF j \in jobs THEN [disk EXCEPT ![j] = r] ELSE disk
         /\ task' = [task EXCEPT ![j] = pc]
         /\ UNCHANGED <<jobs, code, cancelling>>

=============================================================================
