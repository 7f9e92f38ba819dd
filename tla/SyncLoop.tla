------------------------------ MODULE SyncLoop -------------------------------
(***************************************************************************)
(* app.tasks.sync_job_data_loop.  Each pass takes a copy of the job table  *)
(* and visits its jobs one by one; a visit looks at the record, asks the   *)
(* backend for the wrapper, and acts on the answer.  The log and snkmt     *)
(* data a visit copies are outside this model.                             *)
(***************************************************************************)
EXTENDS WorkDir

Visit(j, s) == sync' = [sync EXCEPT ![j] = s]

Visiting == \E j \in Jobs : sync[j] \notin {"out", "todo"}

loopRest == <<gc, cleanup, hostVars, serverVars>>

(* The sleep is over: store.all_jobs()                                     *)
SyncWakes ==
    /\ ~stopping
    /\ \A j \in Jobs : sync[j] = "out"
    /\ sync' = [j \in Jobs |-> IF j \in jobs THEN "todo" ELSE "out"]
    /\ UNCHANGED <<storeVars, taskVars, loopRest>>

(* The loop passes over the jobs that are not RUNNING ...                  *)
SyncSkips(j) ==
    /\ sync[j] = "todo" /\ ~Visiting
    /\ record[j].status # "RUNNING" \/ ~record[j].work_dir
    /\ Visit(j, "out")
    /\ UNCHANGED <<storeVars, taskVars, loopRest>>

(* ... and asks check_job_status about the others.                         *)
SyncVisits(j) ==
    /\ sync[j] = "todo" /\ ~Visiting
    /\ record[j].status = "RUNNING" /\ record[j].work_dir
    /\ Visit(j, "exit")
    /\ UNCHANGED <<storeVars, taskVars, loopRest>>

(* Faulty: a finished wrapper is taken for one that is still writing.      *)
SyncIgnoresExitCode(j) ==
    /\ sync[j] = "exit"
    /\ Visit(j, IF ExitCodeFile(j) THEN "none" ELSE "pid")
    /\ UNCHANGED <<storeVars, taskVars, loopRest>>

(* check_job_status looks for .exitcode; an empty one is no answer.        *)
SyncTestsExitCode(j) ==
    /\ sync[j] = "exit"
    /\ Visit(j, IF HasExitCode(j) THEN wrapper[j]
                ELSE IF ExitCodeFile(j) THEN "none" ELSE "pid")
    /\ UNCHANGED <<storeVars, taskVars, loopRest>>

(* Without .exitcode, it tries the process.                                *)
SyncProbesPid(j) ==
    /\ sync[j] = "pid"
    /\ Visit(j, PidProbe(j))
    /\ UNCHANGED <<storeVars, taskVars, loopRest>>

(* No exit code, or the check raised: the visit ends with a flush.         *)
SyncPassesOn(j) ==
    /\ \/ sync[j] = "none"
       \/ /\ sync[j] \in {"exit", "pid"}
          /\ Backend = "slurm_ssh"
          /\ "backend" \in Environment
    /\ Visit(j, "out")
    /\ UNCHANGED <<storeVars, taskVars, loopRest>>

(* Faulty: a recovered job is not persisted.                               *)
SyncRecoversInMemory(j) ==
    /\ sync[j] \in {"zero", "nonzero", "dead"}
    /\ Visit(j, "out")
    /\ Mark(j, FinishedMark(record[j], sync[j]))
    /\ CancelTask(j)
    /\ UNCHANGED <<jobs, disk, task, code, loopRest>>

(* "Recovering stuck job": mark_finished, persist the record at hand, and  *)
(* cancel the task; a persist that raises leaves the task alone.           *)
SyncRecovers(j) ==
    LET r == MarkIn(j, FinishedMark(record[j], sync[j])) IN
    /\ sync[j] \in {"zero", "nonzero", "dead"}
    /\ Visit(j, "out")
    /\ record' = [record EXCEPT ![j] = r]
    /\ Persist(j, r)
    /\ IF full THEN UNCHANGED cancelling ELSE CancelTask(j)
    /\ UNCHANGED <<jobs, task, code, loopRest>>

SyncVisit(j) ==
    \/ SyncSkips(j) \/ SyncVisits(j) \/ SyncTestsExitCode(j)
    \/ SyncProbesPid(j) \/ SyncPassesOn(j) \/ SyncRecovers(j)

=============================================================================
