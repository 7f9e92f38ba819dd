------------------------------- MODULE Retire --------------------------------
(***************************************************************************)
(* How jobs are given up: the cancel and delete handlers of                *)
(* app.routes.jobs, app.tasks.gc_loop, and ComputeBackend.cleanup, which   *)
(* the handlers start as a background task and the gc loop awaits.         *)
(***************************************************************************)
EXTENDS WorkDir

StartCleanup(j, owner) ==
    cleanup' = [cleanup EXCEPT ![j][owner] =
                  IF record[j].work_dir THEN "term" ELSE @]

Serving == LoopFree /\ ~stopping

(* POST /jobs/{job_id}/cancel; a terminal job is answered 409.             *)
Cancel(j) ==
    /\ Serving /\ "cancel" \in Environment
    /\ j \in jobs
    /\ ~Terminal(record[j])
    /\ record' = [record EXCEPT ![j] = CancelledMark(@)]
    /\ CancelTask(j)
    /\ StartCleanup(j, "cancel")
    /\ UNCHANGED <<jobs, disk, task, code, loopVars, hostVars, serverVars>>

(* DELETE /jobs/{job_id}                                                   *)
Delete(j) ==
    /\ Serving /\ "delete" \in Environment
    /\ j \in jobs
    /\ record' = [record EXCEPT ![j] = CancelledMark(@)]
    /\ StoreDelete(j)
    /\ StartCleanup(j, "delete")
    /\ life' = [life EXCEPT ![j] = "deleted"]
    /\ UNCHANGED <<task, code, loopVars, hostVars, full, stopping>>

-----------------------------------------------------------------------------

GcVisit(j, s) == gc' = [gc EXCEPT ![j] = s]

(* One pass of gc_loop over a copy of the job table.                       *)
GcWakes ==
    /\ Serving /\ "gc" \in Environment
    /\ \A j \in Jobs : gc[j] = "out"
    /\ gc' = [j \in Jobs |-> IF j \in jobs THEN "todo" ELSE "out"]
    /\ UNCHANGED <<storeVars, taskVars, sync, cleanup, hostVars, serverVars>>

GcBusy == \E j \in Jobs : gc[j] = "clean"

(* Not terminal, or completed too recently.                                *)
GcSkips(j) ==
    /\ LoopFree /\ gc[j] = "todo" /\ ~GcBusy
    /\ GcVisit(j, "out")
    /\ UNCHANGED <<storeVars, taskVars, sync, cleanup, hostVars, serverVars>>

(* A terminal job past max_age_hours: await try_cleanup_job first.         *)
GcCleans(j) ==
    /\ LoopFree /\ gc[j] = "todo" /\ ~GcBusy
    /\ Terminal(record[j])
    /\ GcVisit(j, "clean")
    /\ StartCleanup(j, "gc")
    /\ UNCHANGED <<storeVars, taskVars, sync, hostVars, serverVars>>

GcDeletes(j) ==
    /\ LoopFree /\ gc[j] = "clean"
    /\ cleanup[j]["gc"] = "idle"
    /\ GcVisit(j, "out")
    /\ StoreDelete(j)
    /\ life' = [life EXCEPT ![j] = "deleted"]
    /\ UNCHANGED <<record, task, code, sync, cleanup, hostVars, full, stopping>>

-----------------------------------------------------------------------------

CleanupGoes(j, owner, from, to) ==
    /\ LoopFree
    /\ cleanup[j][owner] = from
    /\ cleanup' = [cleanup EXCEPT ![j][owner] = to]
    /\ UNCHANGED <<storeVars, taskVars, loopVars, serverVars>>

(* cleanup signals the process .pid names; without a .pid it signals none. *)
CleanupTerminates(j, owner) ==
    /\ CleanupGoes(j, owner, "term", "remove")
    /\ KillByPid(j)
    /\ UNCHANGED files

(* Five seconds later the directory goes.  Over SSH, kill -9 reads .pid    *)
(* again just before.                                                      *)
CleanupRemoves(j, owner) ==
    /\ CleanupGoes(j, owner, "remove", "idle")
    /\ IF Backend = "slurm_ssh" THEN KillByPid(j) ELSE UNCHANGED wrapper
    /\ files' = [files EXCEPT ![j] = {}]

(* try_cleanup_job swallows what cleanup raises.                           *)
CleanupFails(j, owner) ==
    /\ "backend" \in Environment
    /\ \E s \in {"term", "remove"} : CleanupGoes(j, owner, s, "idle")
    /\ UNCHANGED hostVars

Retire(j) ==
    \/ Cancel(j) \/ Delete(j) \/ GcSkips(j) \/ GcCleans(j) \/ GcDeletes(j)
    \/ \E owner \in Owner :
          \/ CleanupTerminates(j, owner)
          \/ CleanupRemoves(j, owner)
          \/ CleanupFails(j, owner)

=============================================================================
