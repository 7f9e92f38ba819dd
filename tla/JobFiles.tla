------------------------------ MODULE JobFiles -------------------------------
(***************************************************************************)
(* The files of jobs that share a cache_key: the work directory their      *)
(* workflows write, the cache they are restored from and saved to, and the *)
(* listing of them that is kept on the record for GET .../outputs.  A file *)
(* has two halves, each known by the job that wrote it, so that a copy     *)
(* made while its source or its target changes can be told.                *)
(***************************************************************************)
EXTENDS FiniteSets

CONSTANTS
    Jobs,     \* jobs with one cache_key and one cache_dirs
    Files,    \* the names in cache_dirs
    Shown,    \* bound: the jobs clients and the sync loop look at
    Backends, \* where the jobs may run
    None      \* no file, no listing, nothing under way

ASSUME FilesAssumption ==
    /\ Shown \subseteq Jobs
    /\ Backends \subseteq {"local", "slurm_ssh"}
    /\ None \notin Jobs /\ \A files \in SUBSET Files : None # files

VARIABLES
    backend,   \* LocalBackend or SlurmSSHBackend
    cache,     \* [Files -> file], scratch_dir/cache/<cache_key>
    work,      \* [Jobs -> [Files -> file]], the work directories
    wrapper,   \* [Jobs -> whether .run.sh runs, and its exit code]
    wiped,     \* the jobs backend.cleanup kills, and whose files it removes
    known,     \* the jobs in the store
    record,    \* [Jobs -> record.status and record.workflow_files]
    disk,      \* [Jobs -> what job.json has of them]
    task,      \* [Jobs -> where execute_job awaits]
    copy,      \* [Jobs -> the copy a thread or rsync makes for the job]
    todo,      \* [Jobs -> the files that copy has still to visit]
    copying,   \* [Jobs -> the file that copy has open, and what it read there]
    taskList,  \* [Jobs -> the exit code the task has, and the files there were
               \* when it began to list]
    request,   \* [Jobs -> the same files for the client that asks for outputs]
    visit,     \* the job sync_job_data_loop looks at, and what it sees
    spoiled    \* auxiliary: the jobs whose final listing may be an early one

hostVars   == <<backend, cache, work, wrapper, wiped>>
recordVars == <<known, record, disk>>
copyVars   == <<copy, todo, copying>>
listVars   == <<taskList, request, visit, spoiled>>
vars       == <<hostVars, recordVars, task, copyVars, listVars>>

File == (Jobs \X Jobs) \cup {None}

Listing == (SUBSET Files) \cup {None}

(* CANCELLED is also ERROR.                                                *)
Record == [status : {"SETUP", "RUNNING", "COMPLETED", "FAILED", "CANCELLED"},
           files  : Listing]

Over == {"zero", "failed"}

TypeOK ==
    /\ backend \in Backends
    /\ cache \in [Files -> File] /\ work \in [Jobs -> [Files -> File]]
    /\ wrapper \in [Jobs -> {"none", "starting", "running"} \cup Over]
    /\ wiped \subseteq Jobs /\ known \subseteq Jobs
    /\ record \in [Jobs -> Record] /\ disk \in [Jobs -> Record \cup {None}]
    /\ task \in [Jobs -> {"setup", "restore", "launch", "monitor", "list",
                          "save", "final", "none"}]
    /\ copy \in [Jobs -> {"none", "restore", "save"}]
    /\ todo \in [Jobs -> SUBSET Files]
    /\ copying \in [Jobs -> [name : Files, read : File] \cup {None}]
    /\ taskList \in [Jobs -> [code : Over, files : SUBSET Files] \cup {None}]
    /\ request \in [Jobs -> Listing]
    /\ visit \in [job : Jobs, saw : {"asked"} \cup Over] \cup {None}
    /\ spoiled \subseteq Jobs

Present(dir) == {f \in Files : dir[f] # None}

Ended(j) == record[j].status \in {"COMPLETED", "FAILED"}

Persist(j) == disk' = [disk EXCEPT ![j] = record'[j]]

-----------------------------------------------------------------------------
(* Copies: copytree in a thread, which writes files in place and which a   *)
(* cancelled task leaves behind, or rsync, which renames what it has read. *)

Source(j) == IF copy[j] = "restore" THEN cache ELSE work[j]

Put(j, f, file) ==
    IF copy[j] = "restore"
    THEN work' = [work EXCEPT ![j][f] = file] /\ UNCHANGED cache
    ELSE cache' = [cache EXCEPT ![f] = file] /\ UNCHANGED work

CopyBegins(j, kind, files) ==
    /\ copy' = [copy EXCEPT ![j] = kind]
    /\ todo' = [todo EXCEPT ![j] = files]

(* The first half of a file; one that is gone by now is passed over.       *)
CopyOpens(j) ==
    /\ copying[j] = None
    /\ \E f \in todo[j] :
          LET file == Source(j)[f] IN
          /\ todo' = [todo EXCEPT ![j] = @ \ {f}]
          /\ IF file = None THEN UNCHANGED <<cache, work, copying>>
             ELSE IF backend = "slurm_ssh" THEN Put(j, f, file) /\ UNCHANGED copying
             ELSE /\ Put(j, f, <<file[1], file[1]>>)
                  /\ copying' = [copying EXCEPT ![j] = [name |-> f, read |-> file]]
    /\ UNCHANGED <<backend, wrapper, wiped, recordVars, task, copy, listVars>>

(* The second half, of the file that was opened: it may have been written  *)
(* to since, or have been removed.                                         *)
CopyCloses(j) ==
    /\ copying[j] # None
    /\ LET f    == copying[j].name
           file == IF Source(j)[f] = None THEN copying[j].read ELSE Source(j)[f]
           into == IF copy[j] = "restore" THEN work[j][f] ELSE cache[f]
       IN  Put(j, f, IF into = None THEN None ELSE <<into[1], file[2]>>)
    /\ copying' = [copying EXCEPT ![j] = None]
    /\ UNCHANGED <<backend, wrapper, wiped, recordVars, task, copy, todo, listVars>>

(* Done, or cut short: a disk that is full, a process or a connection that *)
(* ends.  _try_save_cache swallows that, and the task goes on; a restore   *)
(* that raises is an error of the job (Errs).                              *)
CopyEnds(j) ==
    /\ copy[j] # "none"
    /\ task[j] # "restore" \/ (todo[j] = {} /\ copying[j] = None)
    /\ copy' = [copy EXCEPT ![j] = "none"]
    /\ todo' = [todo EXCEPT ![j] = {}] /\ copying' = [copying EXCEPT ![j] = None]
    /\ task' = [task EXCEPT ![j] = IF @ = "save" THEN "final" ELSE @]
    /\ UNCHANGED <<hostVars, recordVars, listVars>>

-----------------------------------------------------------------------------
(* execute_job, from backend.setup on.  A task that is not on its way out  *)
(* is of a job in the store: what removes that cancels it.                 *)

At(j, from, to) == task[j] = from /\ task' = [task EXCEPT ![j] = to]

Restores(j) ==
    /\ At(j, "setup", "restore")
    /\ CopyBegins(j, "restore", Present(cache))
    /\ UNCHANGED <<hostVars, recordVars, copying, listVars>>

(* mark_running, which persists; backend.launch is awaited.                *)
Launches(j) ==
    /\ copy[j] = "none"
    /\ At(j, "restore", "launch")
    /\ record' = [record EXCEPT ![j].status = "RUNNING"] /\ Persist(j)
    /\ UNCHANGED <<hostVars, known, copyVars, listVars>>

(* The command that starts the wrapper is on its way.                      *)
Spawns(j) ==
    /\ task[j] = "launch" /\ wrapper[j] = "none"
    /\ wrapper' = [wrapper EXCEPT ![j] = "starting"]
    /\ UNCHANGED <<backend, cache, work, wiped, recordVars, task, copyVars, listVars>>

(* _poll_until_pid_file has found it.                                      *)
LaunchReturns(j) ==
    /\ wrapper[j] \notin {"none", "starting"}
    /\ At(j, "launch", "monitor")
    /\ UNCHANGED <<hostVars, recordVars, copyVars, listVars>>

(* An await raises: mark_error.                                            *)
Errs(j) ==
    /\ task[j] \in {"setup", "restore", "launch", "monitor"}
    /\ task' = [task EXCEPT ![j] = "final"]
    /\ record' = [record EXCEPT ![j].status = "CANCELLED"]
    /\ UNCHANGED <<hostVars, known, disk, copyVars, listVars>>

(* What a look at .exitcode and then at .pid makes of a wrapper that is    *)
(* over: one that ends between the two counts as dead.                     *)
Found(j) == {wrapper[j], "failed"}

(* The monitor has an exit code; _try_cache_workflow_files begins.         *)
MonitorReturns(j) ==
    /\ wrapper[j] \in Over
    /\ At(j, "monitor", "list")
    /\ \E code \in (IF backend = "slurm_ssh" THEN Found(j) ELSE {wrapper[j]}) :
          taskList' = [taskList EXCEPT ![j] = [code |-> code, files |-> Present(work[j])]]
    /\ UNCHANGED <<hostVars, recordVars, copyVars, request, visit, spoiled>>

(* What a listing that began with these files may find: files come and go  *)
(* behind its back.                                                        *)
Scans(j, files) ==
    LET present == Present(work[j]) IN
    {s \in SUBSET (files \cup present) : files \cap present \subseteq s}

(* Faulty: a listing that is there is kept.                                *)
CachedFirst(j, files) == IF record[j].files = None THEN files ELSE record[j].files

(* Faulty: a listing that failed is kept like one that was made.           *)
CachedUnchecked(j, files) == IF files = None THEN {None} ELSE files

(* record.workflow_files once store.cache_workflow_files was called, which *)
(* _collect_results does not if the listing failed.                        *)
Cached(j, files) == IF files = None THEN record[j].files ELSE files

(* Faulty: a cache is made of whatever a job left.                         *)
SavesAlways(j) == TRUE

(* exit_code == 0 and cache_key and cache_dirs                             *)
Saves(j) == taskList[j].code = "zero"

Spoils(j, early) == spoiled' = IF early THEN spoiled \cup {j} ELSE spoiled

Finished(code) == IF code = "zero" THEN "COMPLETED" ELSE "FAILED"

(* _collect_results; None is a listing that failed.                        *)
Collects(j) ==
    /\ task[j] = "list"
    /\ \E files \in Scans(j, taskList[j].files) \cup {None} :
          /\ record' = [record EXCEPT ![j] = [status |-> Finished(taskList[j].code),
                                              files  |-> Cached(j, files)]]
          /\ Spoils(j, request[j] # None \/ (files = None /\ record[j].files # None))
    /\ taskList' = [taskList EXCEPT ![j] = None]
    /\ task' = [task EXCEPT ![j] = IF Saves(j) THEN "save" ELSE "final"]
    /\ IF Saves(j) THEN CopyBegins(j, "save", Present(work[j]))
                   ELSE UNCHANGED <<copy, todo>>
    /\ UNCHANGED <<hostVars, known, disk, copying, request, visit>>

(* _finalize_job persists the record, also of a job that was deleted.      *)
Finalizes(j) ==
    /\ At(j, "final", "none")
    /\ disk' = [disk EXCEPT ![j] = record[j]]
    /\ UNCHANGED <<hostVars, known, record, copyVars, listVars>>

(* record.task.cancel(): the task goes to its finally clause, or leaves    *)
(* it.  A copy that was begun goes on.                                     *)
CutsTask(j) ==
    /\ task' = [task EXCEPT ![j] = IF @ \in {"final", "none"} THEN "none" ELSE "final"]
    /\ taskList' = [taskList EXCEPT ![j] = None]

-----------------------------------------------------------------------------
(* The workflow, under its wrapper.                                        *)

PidWritten(j) ==
    /\ wrapper[j] = "starting"
    /\ wrapper' = [wrapper EXCEPT ![j] = "running"]
    /\ UNCHANGED <<backend, cache, work, wiped, recordVars, task, copyVars, listVars>>

Writes(j, f) ==
    /\ wrapper[j] = "running"
    /\ work' = [work EXCEPT ![j][f] = <<j, j>>]
    /\ UNCHANGED <<backend, cache, wrapper, wiped, recordVars, task, copyVars, listVars>>

Removes(j, f) ==
    /\ wrapper[j] = "running" /\ work[j][f] # None
    /\ work' = [work EXCEPT ![j][f] = None]
    /\ UNCHANGED <<backend, cache, wrapper, wiped, recordVars, task, copyVars, listVars>>

Exits(j) ==
    /\ wrapper[j] = "running"
    /\ \E code \in Over : wrapper' = [wrapper EXCEPT ![j] = code]
    /\ UNCHANGED <<backend, cache, work, wiped, recordVars, task, copyVars, listVars>>

-----------------------------------------------------------------------------
(* GET .../outputs: without a cached listing it awaits one and caches it.  *)

_OUTPUTS_AVAILABLE_STATUSES == {"COMPLETED", "FAILED", "RUNNING"}

Available(j) == j \in known /\ record[j].status \in _OUTPUTS_AVAILABLE_STATUSES

RequestBegins(j) ==
    /\ request[j] = None
    /\ Available(j) /\ record[j].files = None
    /\ request' = [request EXCEPT ![j] = Present(work[j])]
    /\ UNCHANGED <<hostVars, recordVars, task, copyVars, taskList, visit, spoiled>>

(* A listing that raises is answered 500.  The store ignores a listing of  *)
(* a job that was deleted.                                                 *)
RequestEnds(j) ==
    /\ request[j] # None
    /\ \/ UNCHANGED record
       \/ /\ j \in known
          /\ \E files \in Scans(j, request[j]) :
                record' = [record EXCEPT ![j].files = files]
    /\ request' = [request EXCEPT ![j] = None]
    /\ UNCHANGED <<hostVars, known, disk, task, copyVars, taskList, visit, spoiled>>

(* download_output answers 404 for a path a cached listing does not have.  *)
Downloads(j) ==
    IF ~Available(j) THEN {}
    ELSE IF record[j].files = None THEN Present(work[j])
    ELSE Present(work[j]) \cap record[j].files

-----------------------------------------------------------------------------
(* A visit of sync_job_data_loop, and its await between the look at the    *)
(* status and the conclusion.                                              *)

VisitBegins(j) ==
    /\ backend = "slurm_ssh" /\ visit = None
    /\ j \in known /\ record[j].status = "RUNNING"
    /\ visit' = [job |-> j, saw |-> "asked"]
    /\ UNCHANGED <<hostVars, recordVars, task, copyVars, taskList, request, spoiled>>

(* The command over SSH: without a .pid, a wrapper that is starting or     *)
(* whose directory is being removed is dead too.                           *)
VisitSees ==
    /\ visit # None /\ visit.saw = "asked"
    /\ \E saw \in Found(visit.job) \cap Over :
          /\ saw = "failed" => wrapper[visit.job] # "running" \/ visit.job \in wiped
          /\ visit' = [visit EXCEPT !.saw = saw]
    /\ UNCHANGED <<hostVars, recordVars, task, copyVars, taskList, request, spoiled>>

(* It runs, or the command failed; or it was seen over: mark_finished,     *)
(* which ignores a job that was deleted, and persist, which does not,      *)
(* whatever has happened since.  There will be no listing by the task.     *)
Concludes(j, code) ==
    /\ record' = IF j \in known THEN [record EXCEPT ![j].status = Finished(code)] ELSE record
    /\ Persist(j)
    /\ CutsTask(j)
    /\ Spoils(j, /\ ~Ended(j)
                 /\ \/ wrapper[j] \in {"starting", "running"}
                    \/ record[j].files # None \/ request[j] # None)
    /\ visit' = None
    /\ UNCHANGED <<hostVars, known, copyVars, request>>

VisitReturns ==
    /\ visit # None
    /\ \/ /\ visit.saw = "asked" /\ visit' = None
          /\ UNCHANGED <<hostVars, recordVars, task, copyVars, taskList, request, spoiled>>
       \/ visit.saw \in Over /\ Concludes(visit.job, visit.saw)

(* LocalBackend.check_job_status awaits nothing.                           *)
LocalVisit(j) ==
    /\ backend = "local"
    /\ j \in known /\ record[j].status = "RUNNING" /\ wrapper[j] \in Over
    /\ \E code \in Found(j) : Concludes(j, code)

-----------------------------------------------------------------------------
(* The routes and gc_loop; of the two steps of gc, the cleanup comes       *)
(* before the deletion.                                                    *)

(* store.cancel_job, which does not persist.                               *)
Cancel(j) ==
    /\ j \in known /\ record[j].status \in {"SETUP", "RUNNING"}
    /\ record' = [record EXCEPT ![j].status = "CANCELLED"]
    /\ CutsTask(j)
    /\ UNCHANGED <<hostVars, known, disk, copyVars, request, visit, spoiled>>

(* store.delete_job, after store.cancel_job.                               *)
Delete(j) ==
    /\ j \in known
    /\ known' = known \ {j}
    /\ record' = [record EXCEPT ![j].status = IF Ended(j) THEN @ ELSE "CANCELLED"]
    /\ disk' = [disk EXCEPT ![j] = None]
    /\ CutsTask(j)
    /\ UNCHANGED <<hostVars, copyVars, request, visit, spoiled>>

(* backend.cleanup kills what has a .pid; a wrapper that is still to come  *)
(* survives.                                                               *)
CleanupStarts(j) ==
    /\ j \notin known \/ record[j].status \notin {"SETUP", "RUNNING"}
    /\ wiped' = wiped \cup {j}
    /\ wrapper' = [wrapper EXCEPT ![j] = IF @ = "running" THEN "failed" ELSE @]
    /\ UNCHANGED <<backend, cache, work, recordVars, task, copyVars, listVars>>

(* Then it removes the files, one after the other, or not all of them.     *)
CleanupRemoves(j, f) ==
    /\ j \in wiped /\ work[j][f] # None
    /\ work' = [work EXCEPT ![j][f] = None]
    /\ UNCHANGED <<backend, cache, wrapper, wiped, recordVars, task, copyVars, listVars>>

(* A crash and a start.  No task is started again, and a job that was not  *)
(* finished is listed, if at all, by the clients that ask.                 *)
Restart ==
    /\ known' = {j \in Jobs : disk[j] # None}
    /\ record' = [j \in Jobs |-> IF disk[j] # None THEN disk[j]
                                 ELSE [status |-> "CANCELLED", files |-> None]]
    /\ task' = [j \in Jobs |-> "none"]
    /\ taskList' = [j \in Jobs |-> None] /\ request' = [j \in Jobs |-> None]
    /\ visit' = None
    /\ spoiled' = {j \in spoiled : record'[j].files # None \/ wrapper[j] \notin Over}
    /\ UNCHANGED <<hostVars, disk, copyVars>>

-----------------------------------------------------------------------------

Init ==
    /\ backend \in Backends
    /\ cache = [f \in Files |-> None]
    /\ work = [j \in Jobs |-> [f \in Files |-> None]]
    /\ wrapper = [j \in Jobs |-> "none"]
    /\ wiped = {} /\ known = Jobs
    /\ record = [j \in Jobs |-> [status |-> "SETUP", files |-> None]]
    /\ disk = record
    /\ task = [j \in Jobs |-> "setup"]
    /\ copy = [j \in Jobs |-> "none"]
    /\ todo = [j \in Jobs |-> {}] /\ copying = [j \in Jobs |-> None]
    /\ taskList = [j \in Jobs |-> None] /\ request = [j \in Jobs |-> None]
    /\ visit = None /\ spoiled = {}

Next ==
    \/ \E j \in Jobs :
          \/ CopyOpens(j) \/ CopyCloses(j) \/ CopyEnds(j)
          \/ Restores(j) \/ Launches(j) \/ Spawns(j) \/ LaunchReturns(j) \/ Errs(j)
          \/ MonitorReturns(j) \/ Collects(j) \/ Finalizes(j)
          \/ PidWritten(j) \/ Exits(j)
          \/ Cancel(j) \/ Delete(j) \/ CleanupStarts(j)
          \/ \E f \in Files : Writes(j, f) \/ Removes(j, f) \/ CleanupRemoves(j, f)
    \/ \E j \in Shown :
          RequestBegins(j) \/ RequestEnds(j) \/ VisitBegins(j) \/ LocalVisit(j)
    \/ VisitSees \/ VisitReturns
    \/ Restart

Spec == Init /\ [][Next]_vars

=============================================================================
