----------------------------- MODULE ExecuteJob ------------------------------
(***************************************************************************)
(* app.tasks.execute_job, the coroutine that takes one job through         *)
(* prepare, setup, launch and monitor, with the parts of the backends it   *)
(* awaits.  One action per stretch between two awaits that changes state.  *)
(***************************************************************************)
EXTENDS WorkDir

(* The coroutine of j may be resumed, and nothing has cancelled it.        *)
Resumes(j, pc) == LoopFree /\ j \notin cancelling /\ task[j] = pc

Goto(j, pc) == task' = [task EXCEPT ![j] = pc]

restVars == <<loopVars, cleanup, serverVars>>

(* backend.prepare has made the work directory ...                         *)
Checkout(j) ==
    /\ Resumes(j, "prepare")
    /\ Goto(j, "checkout")
    /\ files' = [files EXCEPT ![j] = {"dir"}]
    /\ UNCHANGED <<storeVars, code, cancelling, wrapper, restVars>>

(* ... and returns: only now does the record learn of it.                  *)
PrepareReturns(j) ==
    /\ Resumes(j, "checkout")
    /\ MarkAndPersist(j, SetupMark(record[j]), "setup")
    /\ UNCHANGED <<hostVars, restVars>>

(* Extra files are written and the cache is restored: mark_running.        *)
SetupReturns(j) ==
    /\ Resumes(j, "setup")
    /\ MarkAndPersist(j, RunningMark(record[j]), "launch")
    /\ UNCHANGED <<hostVars, restVars>>

(* launch writes .run.sh and starts it, detached.                          *)
Spawn(j) ==
    /\ Resumes(j, "launch")
    /\ wrapper' = [wrapper EXCEPT ![j] = "started"]
    /\ Goto(j, "pidwait")
    /\ UNCHANGED <<storeVars, code, cancelling, files, restVars>>

PidFound(j) ==
    /\ Resumes(j, "pidwait")
    /\ "pid" \in files[j]
    /\ Goto(j, "monitor")
    /\ UNCHANGED <<storeVars, code, cancelling, hostVars, restVars>>

(* except Exception: mark_error, and the finally clause.                   *)
Fails(j) ==
    /\ Finalize(j, ErrorMark(record[j]))
    /\ UNCHANGED <<hostVars, restVars>>

(* Faulty: the poll for .pid only gives up on a process it has seen.       *)
PidTimeoutNever(j) == Resumes(j, "pidwait") /\ "pid" \in files[j] /\ Fails(j)

(* _poll_until_pid_file gives up after its attempts.                       *)
PidTimeout(j) ==
    /\ Resumes(j, "pidwait")
    /\ "pid" \notin files[j]
    /\ Fails(j)

(* Any other call on the backend may raise; for monitor it is the tenth    *)
(* consecutive error that does.                                            *)
BackendRaises(j) ==
    /\ "backend" \in Environment
    /\ \E pc \in {"prepare", "checkout", "setup", "launch", "pidwait",
                  "monitor", "probe"} : Resumes(j, pc)
    /\ Fails(j)

-----------------------------------------------------------------------------

(* monitor has its exit code and returns it, after a last drain of the log *)
(* (local); _collect_results then awaits list_workflow_files.              *)
MonitorReturns(j, exit_code) ==
    /\ code' = [code EXCEPT ![j] = exit_code]
    /\ Goto(j, "collect")
    /\ UNCHANGED <<storeVars, cancelling, hostVars, restVars>>

MonitorReadsExitCode(j) ==
    /\ Resumes(j, "monitor")
    /\ HasExitCode(j)
    /\ MonitorReturns(j, wrapper[j])

(* test -f .exitcode fails in the remote shell of _build_status_check_cmd. *)
MonitorFindsNoFile(j) ==
    /\ Resumes(j, "monitor")
    /\ Backend = "slurm_ssh"
    /\ ~ExitCodeFile(j)
    /\ Goto(j, "probe")
    /\ UNCHANGED <<storeVars, code, cancelling, hostVars, restVars>>

MonitorProbesPid(j) ==
    /\ Resumes(j, "probe")
    /\ IF PidProbe(j) = "dead"
       THEN MonitorReturns(j, "dead")
       ELSE /\ Goto(j, "monitor")
            /\ UNCHANGED <<storeVars, code, cancelling, hostVars, restVars>>

(* mark_finished, which does not persist.  A job that succeeded saves its  *)
(* cache before the finally clause.                                        *)
Collect(j) ==
    LET r == FinishedMark(record[j], code[j]) IN
    /\ Resumes(j, "collect")
    /\ IF code[j] = "zero" /\ j \in CacheJobs
       THEN /\ Mark(j, r)
            /\ Goto(j, "save")
            /\ UNCHANGED <<jobs, disk, code, cancelling>>
       ELSE Finalize(j, r)
    /\ UNCHANGED <<hostVars, restVars>>

(* save_cache returned, or raised: _try_save_cache swallows that.          *)
SaveReturns(j) ==
    /\ Resumes(j, "save")
    /\ Finalize(j, record[j])
    /\ UNCHANGED <<hostVars, restVars>>

(* Faulty: the finally clause does not persist after its sync.             *)
FinalSyncForgets(j) ==
    Resumes(j, "final") /\ Goto(j, "done")
    /\ UNCHANGED <<storeVars, code, cancelling, hostVars, restVars>>

(* The last _flush_and_sync returned; persist ends the coroutine.          *)
FinalSync(j) ==
    /\ Resumes(j, "final")
    /\ Persist(j, record[j])
    /\ Goto(j, "done")
    /\ UNCHANGED <<record, jobs, code, cancelling, hostVars, restVars>>

(* CancelledError.  Inside the finally clause it skips the persist; before *)
(* it, the job is marked cancelled unless it is terminal already.          *)
CancelDelivered(j) ==
    /\ LoopFree
    /\ j \in cancelling
    /\ IF task[j] = "final"
       THEN /\ Goto(j, "done")
            /\ cancelling' = cancelling \ {j}
            /\ UNCHANGED <<storeVars, code>>
       ELSE Finalize(j, CancelledMark(record[j]))
    /\ UNCHANGED <<hostVars, restVars>>

ExecuteJob(j) ==
    \/ Checkout(j) \/ PrepareReturns(j) \/ SetupReturns(j) \/ Spawn(j)
    \/ PidFound(j) \/ PidTimeout(j) \/ CancelDelivered(j)
    \/ MonitorReadsExitCode(j) \/ MonitorFindsNoFile(j) \/ MonitorProbesPid(j)
    \/ Collect(j) \/ SaveReturns(j) \/ FinalSync(j)

=============================================================================
