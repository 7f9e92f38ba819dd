------------------------------ MODULE JobRecord ------------------------------
(***************************************************************************)
(* The part of app.store.JobRecord that drives the life of a job: its      *)
(* status, and whether prepare() has told the store where the job's work   *)
(* directory is.  Every mark_* method of app.store.JobStore is a function  *)
(* from the record it finds to the record it leaves.                       *)
(***************************************************************************)

JobStatus ==
    {"PENDING", "SETUP", "RUNNING", "COMPLETED", "FAILED", "ERROR", "CANCELLED"}

TERMINAL_STATUSES == {"COMPLETED", "FAILED", "ERROR", "CANCELLED"}

(* What a status check answers: the wrapper's exit status, "dead" for the  *)
(* -1 that stands for a process gone without one, "none" for None.         *)
ExitCode == {"none", "zero", "nonzero", "dead"}

(* "NONE" is the status of a job the store has no record of.               *)
Record == [status : JobStatus \cup {"NONE"}, work_dir : BOOLEAN]

NoRecord == [status |-> "NONE", work_dir |-> FALSE]

Terminal(r) == r.status \in TERMINAL_STATUSES

NewRecord == [status |-> "PENDING", work_dir |-> FALSE]

SetupMark(r) == [status |-> "SETUP", work_dir |-> TRUE]

RunningMark(r) == [r EXCEPT !.status = "RUNNING"]

(* Faulty: the exit code ends up in the status.                            *)
FinishedMarkStoresCode(r, exit_code) == [r EXCEPT !.status = exit_code]

(* Faulty: only the -1 of a dead wrapper is a failure.                     *)
FinishedMarkDeadOnly(r, exit_code) ==
    [r EXCEPT !.status = IF exit_code = "dead" THEN "FAILED" ELSE "COMPLETED"]

(* A code that is not 0, the -1 of a dead wrapper included, is a failure.  *)
FinishedMark(r, exit_code) ==
    [r EXCEPT !.status = IF exit_code = "zero" THEN "COMPLETED" ELSE "FAILED"]

ErrorMark(r) == [r EXCEPT !.status = "ERROR"]

(* Faulty: a running job is not marked.                                    *)
CancelledMarkNotRunning(r) ==
    IF Terminal(r) \/ r.status = "RUNNING" THEN r
    ELSE [r EXCEPT !.status = "CANCELLED"]

(* Faulty: without the test for a terminal status.                         *)
CancelledMarkAlways(r) == [r EXCEPT !.status = "CANCELLED"]

(* Unlike the other marks this one leaves a terminal record alone.         *)
CancelledMark(r) ==
    IF Terminal(r) THEN r ELSE [r EXCEPT !.status = "CANCELLED"]

=============================================================================
