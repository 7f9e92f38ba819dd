----------------------------- MODULE JobPromise ------------------------------
(***************************************************************************)
(* What a client of snakedispatch may rely on, without tasks, loops and    *)
(* hosts: for every job there is a status the API shows and a status       *)
(* DATA_DIR keeps.  The shown one moves forward only and stops at its      *)
(* first terminal status; the kept one may lag behind, but never shows     *)
(* what the job was not; a crash falls back to what is kept.  A job that   *)
(* is withdrawn is promised nothing any more.                              *)
(***************************************************************************)
EXTENDS JobRecord

CONSTANT Jobs

VARIABLES
    seen,  \* [Jobs -> status], what GET /jobs/{job_id} answers
    kept   \* [Jobs -> status], what the next server process will start from

Status == JobStatus \cup {"NONE", "GONE"}

PromiseTypeOK ==
    /\ seen \in [Jobs -> Status]
    /\ kept \in [Jobs -> Status]

GivenUp == {"ERROR", "CANCELLED"}

(* The statuses that may follow s.                                         *)
Successors(s) ==
    CASE s = "NONE"    -> {"PENDING"}
      [] s = "PENDING" -> {"SETUP"} \cup GivenUp
      [] s = "SETUP"   -> {"RUNNING"} \cup GivenUp
      [] s = "RUNNING" -> TERMINAL_STATUSES
      [] OTHER         -> {}

(* The job moves on; the new status may be kept in the same step.          *)
Report(j) ==
    \E s \in Successors(seen[j]) :
        /\ seen' = [seen EXCEPT ![j] = s]
        /\ kept' \in {kept, [kept EXCEPT ![j] = s]}

Keep(j) ==
    /\ kept' = [kept EXCEPT ![j] = seen[j]]
    /\ UNCHANGED seen

(* DELETE, or the retention time is over.                                  *)
Withdraw(j) ==
    /\ seen[j] \in JobStatus
    /\ seen' = [seen EXCEPT ![j] = "GONE"]
    /\ kept' = [kept EXCEPT ![j] = "GONE"]

Crash == seen' = kept /\ UNCHANGED kept

PromiseInit ==
    /\ seen = [j \in Jobs |-> "NONE"]
    /\ kept = [j \in Jobs |-> "NONE"]

PromiseNext == Crash \/ \E j \in Jobs : Report(j) \/ Keep(j) \/ Withdraw(j)

PromiseSpec == PromiseInit /\ [][PromiseNext]_<<seen, kept>>

=============================================================================
