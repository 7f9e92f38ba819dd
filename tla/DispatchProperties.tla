------------------------- MODULE DispatchProperties --------------------------
(***************************************************************************)
(* What should be true of a snakedispatch server, stated over Dispatch.    *)
(* Which of these hold depends on Backend and Environment: the             *)
(* configurations and the README say for which.                            *)
(***************************************************************************)
EXTENDS Dispatch

Status(j) == record[j].status

-----------------------------------------------------------------------------
(* Safety, whatever the backend and the environment do.                    *)

(* execute_job never ends and leaves its job PENDING, SETUP or RUNNING,    *)
(* not when a persist raises, nor when the cancellation hits its finally   *)
(* clause.                                                                 *)
TaskEndsTerminal == \A j \in Jobs : task[j] = "done" => Terminal(record[j])

(* A job is COMPLETED only if its snakemake exited with status 0, whoever  *)
(* saw it first, the monitor or the sync loop, and across restarts.        *)
CompletedIsReal ==
    \A j \in Jobs : Status(j) = "COMPLETED" => wrapper[j] = "zero"

(* Write-ahead: before a wrapper exists, DATA_DIR knows its work directory *)
(* and that it may be running, so that a server restarted at any moment    *)
(* still finds the process.                                                *)
LaunchIsLogged ==
    \A j \in Jobs :
        wrapper[j] # "none" /\ life[j] # "deleted" =>
            /\ disk[j].work_dir
            /\ disk[j].status \in {"RUNNING"} \cup TERMINAL_STATUSES

-----------------------------------------------------------------------------
(* Safety while DATA_DIR takes writes.                                     *)

(* A task that outlives the decision about its job is on its way out: it   *)
(* will be cancelled at its next step, or it is past mark_finished.        *)
RetiredTaskWindsUp ==
    \A j \in Jobs :
        Live(j) /\ (j \notin jobs \/ Terminal(record[j])) =>
            j \in cancelling \/ task[j] \in {"save", "final"}

(* When execute_job is over, DATA_DIR has the outcome clients are shown.   *)
DurableOutcome ==
    \A j \in Jobs :
        task[j] = "done" /\ j \in jobs /\ ~stopping => disk[j] = record[j]

(* No wrapper is started for a job that was cancelled, deleted or given up *)
(* while launch was under way.                                             *)
SpawnsOnlyWanted ==
    [][\A j \in Jobs :
          wrapper[j] = "none" /\ wrapper'[j] = "started" =>
              j \in jobs /\ Status(j) = "RUNNING"]_vars

(* The first terminal status of a job is its last: while the server runs   *)
(* neither a late monitor, the sync loop nor a cancellation replaces it.   *)
TerminalStable ==
    [][Restart \/ \A j \in Jobs :
          Terminal(record[j]) => record'[j] = record[j]]_vars

(* FAILED means that the wrapper has ended: no status check gives up on a  *)
(* wrapper that is alive, or not started yet.                              *)
FailedHasEnded ==
    \A j \in Jobs : Status(j) = "FAILED" => wrapper[j] # "none" /\ ~Alive(j)

(* Seen from its clients, the server keeps the promise of JobPromise, to   *)
(* every job until it is deleted (see DeletedIsGone for what comes then).  *)
Promise ==
    INSTANCE JobPromise WITH
        seen <- [j \in Jobs |-> IF life[j] = "deleted" THEN "GONE"
                                ELSE record[j].status],
        kept <- [j \in Jobs |-> IF life[j] = "deleted" THEN "GONE"
                                ELSE disk[j].status]

KeepsPromise == Promise!PromiseSpec

-----------------------------------------------------------------------------
(* Liveness.  The event loop serves every ready callback in turn, also     *)
(* after the sync loop has held it (SF); the sync loop sleeps and comes    *)
(* back; bash and snakemake get on with their work and end.                *)

SyncLoop == SyncWakes \/ \E j \in Jobs : SyncVisit(j)

Fairness ==
    /\ \A j \in Jobs : SF_vars(ExecuteJob(j)) /\ WF_vars(Host(j))
    /\ WF_vars(SyncLoop)

FairSpec == Spec /\ Fairness

(* What no status check sees through: a wrapper that ended without writing *)
(* into its .exitcode, which is taken for a write in progress.             *)
Mute(j) == wrapper[j] = "dead" /\ ExitCodeFile(j)

(* Every execute_job comes to an end, and its job with it                  *)
(* (TaskEndsTerminal): also when the wrapper is killed, cancelled before   *)
(* it has a pid, or ends between two checks.                               *)
Settles == \A j \in Jobs : Live(j) ~> ~Live(j) \/ Mute(j)

(* A job whose wrapper wrote its .pid comes to an end even if the server   *)
(* crashes and is restarted, if it is up for good in the end: the sync     *)
(* loop stands in for the task that was lost.                              *)
SettlesAfterRestarts ==
    <>[]~stopping =>
        \A j \in Jobs :
            Status(j) = "RUNNING" /\ "pid" \in files[j] ~>
                Status(j) # "RUNNING" \/ Mute(j)

-----------------------------------------------------------------------------
(* A statement of the documentation that the code does not keep.           *)

(* DELETE removes a job entirely: it is never in the store again.          *)
DeletedIsGone == \A j \in Jobs : life[j] = "deleted" => j \notin jobs

=============================================================================
