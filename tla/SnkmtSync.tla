------------------------------ MODULE SnkmtSync ------------------------------
(***************************************************************************)
(* The copies SlurmSSHBackend.sync_snkmt_db makes of a running job's       *)
(* snkmt.db: a snapshot on the remote host, its download, and the rename   *)
(* that shows it to readers.  Two coroutines of the server make them, the  *)
(* sync loop while the job is RUNNING and execute_job when it is finished. *)
(* The database is its version; a copy has two halves, so that one that is *)
(* made while its source or its target changes can be told.  A command     *)
(* runs at least once if _run_ssh returns; one that failed, was tried      *)
(* twice or is no longer waited for may have run, or run later.  The data  *)
(* directory takes writes.                                                 *)
(***************************************************************************)
EXTENDS Integers, Sequences

CONSTANTS
    MaxVersion,  \* bound: the versions of the remote database
    MaxFiles     \* bound: the files downloads create

ASSUME SnkmtAssumption == MaxVersion \in Nat \ {0} /\ MaxFiles \in Nat \ {0}

VARIABLES
    up,        \* the workflow: without .pid as yet, running, over, or its
               \* work directory removed
    db,        \* the version of the remote snkmt.db, 0 if there is none
    bak,       \* the version in the remote snkmt.db.bak, 0 if there is none
    stray,     \* the commands that may still run and nobody waits for
    pc,        \* [Syncer -> where it awaits]
    outcome,   \* [Syncer -> how its sync_snkmt_db is to end]
    held,      \* [Syncer -> version], the .bak it reads though it was removed
    reading,   \* the syncers that read the .bak that has the name
    fd,        \* [Syncer -> the file it writes]
    content,   \* the files on the server, each a pair of halves
    tmp,       \* the file named snkmt.tmp, 0 if there is none
    target,    \* the file named snkmt.db, 0 if there is none
    status,    \* record.status: FINISHED is COMPLETED or FAILED, and
               \* CANCELLED is also ERROR
    counts,    \* the version record.jobs_finished was read from
    known,     \* is the job in the store?
    saved,     \* job.json: is it there, its status and its counts
    overlapped, \* auxiliary: has a download met another copy of the job?
    left       \* auxiliary: may the snapshot be one a command that failed,
               \* or that nobody waited for, has left?

remoteVars == <<up, db, bak, stray>>
syncVars   == <<pc, outcome, held, reading, fd>>
fileVars   == <<content, tmp, target>>
recordVars == <<status, counts, known, saved>>
auxVars    == <<overlapped, left>>
vars       == <<remoteVars, syncVars, fileVars, recordVars, auxVars>>

Syncer == {"loop", "task"}

Version == 0..MaxVersion

Status == {"RUNNING", "FINISHED", "CANCELLED"}

TypeOK ==
    /\ up \in {"starting", "running", "over", "wiped"}
    /\ db \in Version /\ bak \in Version /\ stray \subseteq {"backup", "rm"}
    /\ pc \in [Syncer -> {"idle", "check", "recover", "backup", "conn", "open",
                          "read", "rename", "rm", "count", "gone"}]
    /\ outcome \in [Syncer -> {"fine", "raised", "cancelled"}]
    /\ held \in [Syncer -> Version]
    /\ reading \subseteq Syncer
    /\ fd \in [Syncer -> 0..Len(content)]
    /\ Len(content) <= MaxFiles
    /\ \A i \in DOMAIN content : content[i] \in Version \X Version
    /\ tmp \in 0..Len(content) /\ target \in 0..Len(content)
    /\ status \in Status /\ known \in BOOLEAN
    /\ saved \in [known : BOOLEAN, status : Status, counts : Version]
    /\ counts \in Version
    /\ overlapped \in BOOLEAN /\ left \in BOOLEAN

-----------------------------------------------------------------------------
(* The remote host.                                                        *)

Works == up \in {"starting", "running"}

SnakemakeWrites ==
    /\ up = "running" /\ db < MaxVersion
    /\ db' = db + 1
    /\ UNCHANGED <<up, bak, stray, syncVars, fileVars, recordVars, auxVars>>

(* .pid is written; or snakemake ends, or is killed.                       *)
SnakemakeMoves ==
    /\ \/ up = "starting" /\ up' = "running"
       \/ Works /\ up' = "over"
    /\ UNCHANGED <<db, bak, stray, syncVars, fileVars, recordVars, auxVars>>

Snapshot == db # 0 /\ up # "wiped"

(* Those who read the .bak keep what it held.                              *)
Unlinks ==
    /\ bak' = 0
    /\ held' = [x \in Syncer |-> IF x \in reading THEN bak ELSE held[x]]
    /\ reading' = {}

(* rm -rf of the work directory, for a job that is cancelled or deleted.   *)
Cleanup ==
    /\ status # "RUNNING" \/ ~known
    /\ up' = "wiped" /\ Unlinks
    /\ UNCHANGED <<db, stray, pc, outcome, fd, fileVars, recordVars, auxVars>>

StrayRuns ==
    /\ \/ /\ "backup" \in stray
          /\ stray' = stray \ {"backup"}
          /\ bak' = (IF Snapshot THEN db ELSE bak) /\ left' = (left \/ Snapshot)
          /\ UNCHANGED <<held, reading>>
       \/ /\ "rm" \in stray
          /\ stray' = stray \ {"rm"}
          /\ Unlinks /\ UNCHANGED left
    /\ UNCHANGED <<up, db, pc, outcome, fd, fileVars, recordVars, overlapped>>

(* The files a download had open are closed.                               *)
Closes(s) ==
    /\ reading' = reading \ {s}
    /\ held' = [held EXCEPT ![s] = 0] /\ fd' = [fd EXCEPT ![s] = 0]

MayStray(commands) == stray' \in {stray \cup more : more \in SUBSET commands}

-----------------------------------------------------------------------------
(* _sync_snkmt_counts, for the loop or the task.                           *)

At(s, from, to) == pc[s] = from /\ pc' = [pc EXCEPT ![s] = to]

(* What s does after its copy: the loop goes on to other jobs, and the     *)
(* task is over.                                                           *)
After(s) == IF s = "loop" THEN "idle" ELSE "gone"

Copying(s) == pc[s] \notin {"idle", "check", "recover", "gone"}

(* Faulty: job.json gets the counts alone.                                 *)
PersistsCountsOnly(s, number) ==
    saved' = IF s = "task" THEN [counts |-> number] ELSE saved

(* store.persist(record) by the task, also of a job that was deleted, but  *)
(* not by one that is cancelled meanwhile.                                 *)
Persists(s, number) ==
    saved' = IF s = "task" /\ outcome[s] # "cancelled"
             THEN [known |-> TRUE, status |-> status, counts |-> number] ELSE saved

(* sqlite3 snkmt.db ".backup snkmt.db.bak": it succeeds, it fails (there   *)
(* is no database, or it is locked) and there is no download, or _run_ssh  *)
(* raises.                                                                 *)
Backup(s) ==
    /\ bak' \in (IF Snapshot THEN {bak, db} ELSE {bak})
    /\ \/ At(s, "backup", "conn") /\ Snapshot /\ bak' = db
          /\ UNCHANGED <<left, saved>>
       \/ At(s, "backup", "count")
          /\ left' = (left \/ bak' # bak) /\ UNCHANGED saved
       \/ At(s, "backup", After(s))
          /\ left' = (left \/ bak' # bak) /\ Persists(s, counts)
    /\ MayStray({"backup"})
    /\ UNCHANGED <<up, db, outcome, held, reading, fd, fileVars, status, counts, known, overlapped>>

(* await self._get_conn(), before the try.                                 *)
Connects(s) ==
    /\ \/ At(s, "conn", "open") /\ UNCHANGED <<left, saved>>
       \/ At(s, "conn", After(s)) /\ left' = (left \/ bak # 0) /\ Persists(s, counts)
    /\ UNCHANGED <<remoteVars, outcome, held, reading, fd, fileVars, status, counts, known, overlapped>>

(* A copy by s begins, next to one of the other if that one is under way.  *)
Begins(s, other) ==
    /\ outcome' = [outcome EXCEPT ![s] = "fine"]
    /\ overlapped' = (overlapped \/ Copying(other))

Meets(s) == overlapped' = (overlapped \/ "backup" \in stray)

(* Faulty: the download goes to snkmt.db itself.                           *)
GetOpensTarget(s) ==
    /\ At(s, "open", "read") /\ bak # 0
    /\ LET file == IF target = 0 THEN Len(content) + 1 ELSE target
       IN  /\ content' = [i \in 1..(IF target = 0 THEN file ELSE Len(content)) |->
                             IF i = file THEN <<bak, 0>> ELSE content[i]]
           /\ fd' = [fd EXCEPT ![s] = file]
           /\ target' = file
    /\ reading' = reading \cup {s}
    /\ Meets(s)
    /\ UNCHANGED <<remoteVars, outcome, held, tmp, recordVars, left>>

(* sftp.get opens the .bak, opens snkmt.tmp, truncating it if it exists,   *)
(* and copies the first half.                                              *)
GetOpens(s) ==
    /\ bak # 0
    /\ At(s, "open", "read")
    /\ LET file == IF tmp = 0 THEN Len(content) + 1 ELSE tmp
       IN  /\ content' = IF tmp = 0 THEN Append(content, <<bak, 0>>)
                         ELSE [content EXCEPT ![file] = <<bak, 0>>]
           /\ fd' = [fd EXCEPT ![s] = file]
           /\ tmp' = file
    /\ reading' = reading \cup {s}
    /\ Meets(s)
    /\ UNCHANGED <<remoteVars, outcome, held, target, recordVars, left>>

(* The .bak is gone, or the connection fails: on to the finally clause.    *)
GetRaises(s) ==
    /\ At(s, "open", "rm") \/ At(s, "read", "rm")
    /\ outcome' = [outcome EXCEPT ![s] = "raised"]
    /\ Closes(s)
    /\ UNCHANGED <<remoteVars, fileVars, recordVars, auxVars>>

(* The second half.                                                        *)
GetReturns(s) ==
    /\ At(s, "read", "rename")
    /\ content' = [content EXCEPT ![fd[s]] =
                     <<@[1], IF s \in reading THEN bak ELSE held[s]>>]
    /\ Closes(s)
    /\ UNCHANGED <<remoteVars, outcome, tmp, target, recordVars, auxVars>>

(* rename_with_cleanup raises if another has renamed snkmt.tmp before.     *)
Renames(s) ==
    /\ At(s, "rename", "rm")
    /\ IF tmp = 0
       THEN outcome' = [outcome EXCEPT ![s] = "raised"] /\ UNCHANGED <<tmp, target>>
       ELSE target' = tmp /\ tmp' = 0 /\ UNCHANGED outcome
    /\ UNCHANGED <<remoteVars, held, reading, fd, content, recordVars, auxVars>>

(* What follows the rm: the counts, or the exception.                      *)
LeavesTry(s) ==
    IF outcome[s] = "fine" THEN At(s, "rm", "count") /\ UNCHANGED saved
    ELSE At(s, "rm", After(s)) /\ Persists(s, counts)

(* Faulty: the .bak is removed after a download that succeeded only.       *)
RemovesIfOk(s) ==
    /\ LeavesTry(s)
    /\ IF outcome[s] = "fine" THEN Unlinks /\ left' = FALSE
       ELSE UNCHANGED <<bak, held, reading, left>>
    /\ MayStray({"rm"})
    /\ UNCHANGED <<up, db, outcome, fd, fileVars, status, counts, known, overlapped>>

(* rm -f snkmt.db.bak.                                                     *)
Removes(s) ==
    /\ LeavesTry(s)
    /\ Unlinks /\ left' = FALSE
    /\ MayStray({"rm"})
    /\ UNCHANGED <<up, db, outcome, fd, fileVars, status, counts, known, overlapped>>

(* The rm raises, whether it has run or not.                               *)
RmRaises(s) ==
    /\ At(s, "rm", After(s)) /\ Persists(s, counts)
    /\ Unlinks \/ UNCHANGED <<bak, held, reading>>
    /\ left' = (left \/ bak' # 0)
    /\ MayStray({"rm"})
    /\ UNCHANGED <<up, db, outcome, fd, fileVars, status, counts, known, overlapped>>

Whole(i) == i # 0 /\ content[i][1] = content[i][2]

(* Faulty: a database that cannot be read counts as none done.             *)
CountsNothing(s) ==
    /\ At(s, "count", After(s))
    /\ counts' = IF Whole(target) THEN content[target][1] ELSE 0
    /\ Persists(s, counts')
    /\ UNCHANGED <<remoteVars, outcome, held, reading, fd, fileVars, status, known, auxVars>>

(* fetch_workflow_counts raises, and changes nothing, without a database.  *)
(* Of one that is torn it may read either half, or raise.                  *)
Counts(s) ==
    /\ At(s, "count", After(s))
    /\ IF target = 0 THEN UNCHANGED counts
       ELSE \/ counts' \in {content[target][1], content[target][2]} \ {0}
            \/ ~Whole(target) /\ UNCHANGED counts
    /\ Persists(s, counts')
    /\ UNCHANGED <<remoteVars, outcome, held, reading, fd, fileVars, status, known, auxVars>>

Sync(s) ==
    \/ Backup(s) \/ Connects(s) \/ GetOpens(s) \/ GetRaises(s) \/ GetReturns(s)
    \/ Renames(s) \/ Removes(s) \/ RmRaises(s) \/ Counts(s)

-----------------------------------------------------------------------------
(* execute_job and its cancellation.                                       *)

(* The exit code is there: mark_finished, before the cache is saved.       *)
TaskMarks ==
    /\ pc["task"] = "idle" /\ up \in {"over", "wiped"} /\ status = "RUNNING"
    /\ status' = "FINISHED"
    /\ UNCHANGED <<remoteVars, syncVars, fileVars, counts, known, saved, auxVars>>

(* The finally clause awaits a last copy.                                  *)
TaskCopies ==
    /\ status = "FINISHED"
    /\ At("task", "idle", "backup")
    /\ Begins("task", "loop")
    /\ UNCHANGED <<remoteVars, held, reading, fd, fileVars, recordVars, left>>

(* skip_snkmt_sync, of a job that is CANCELLED or ERROR.                   *)
TaskSkips ==
    /\ status = "CANCELLED"
    /\ At("task", "idle", "gone")
    /\ saved' = [known |-> TRUE, status |-> status, counts |-> counts]
    /\ UNCHANGED <<remoteVars, outcome, held, reading, fd, fileVars, status, counts, known, auxVars>>

(* Where a task goes that is cancelled: a download to the finally clause.  *)
Cut ==
    CASE pc["task"] = "idle" -> {"idle"}
      [] pc["task"] \in {"open", "read", "rename"} -> {"rm"}
      [] pc["task"] = "rm" -> {"rm", "gone"}
      [] OTHER -> {"gone"}

(* record.task.cancel(): a command it awaits may still run.                *)
CutsTask(loop) ==
    /\ \E next \in Cut : pc' = [pc EXCEPT !["task"] = next, !["loop"] = loop]
    /\ outcome' = [outcome EXCEPT !["task"] = IF Copying("task") THEN "cancelled" ELSE @]
    /\ Closes("task")
    /\ MayStray({pc["task"]} \cap {"backup", "rm"})
    /\ left' = (left \/ (pc["task"] \in {"conn", "rm"} /\ pc'["task"] = "gone" /\ bak # 0))

(* The status is CANCELLED, or ERROR as launch or monitor raised.          *)
Cancel ==
    /\ known /\ status = "RUNNING"
    /\ status' = "CANCELLED"
    /\ UNCHANGED <<remoteVars, syncVars, fileVars, counts, known, saved, auxVars>>

(* store.delete_job, after cancel_job if the job was running.              *)
Delete ==
    /\ known
    /\ known' = FALSE /\ status' = (IF status = "RUNNING" THEN "CANCELLED" ELSE status)
    /\ saved' = [known |-> FALSE, status |-> "CANCELLED", counts |-> 0]
    /\ tmp' = 0 /\ target' = 0
    /\ CutsTask(pc["loop"])
    /\ UNCHANGED <<up, db, bak, content, counts, overlapped>>

-----------------------------------------------------------------------------
(* A visit of sync_job_data_loop.                                          *)

LoopStarts ==
    /\ known /\ status = "RUNNING"
    /\ Len(content) + (IF pc["task"] = "gone" THEN 1 ELSE 2) <= MaxFiles
    /\ At("loop", "idle", "check")
    /\ UNCHANGED <<remoteVars, outcome, held, reading, fd, fileVars, recordVars, auxVars>>

(* The job was running when it was looked at, or that failed.              *)
LoopCopies ==
    /\ At("loop", "check", "backup")
    /\ Begins("loop", "task")
    /\ UNCHANGED <<remoteVars, held, reading, fd, fileVars, recordVars, left>>

(* It is over, or has no .pid as yet and is taken for dead.                *)
LoopFindsOver ==
    /\ up # "running"
    /\ At("loop", "check", "recover")
    /\ UNCHANGED <<remoteVars, outcome, held, reading, fd, fileVars, recordVars, auxVars>>

(* mark_finished, which only knows jobs in the store, persist, and the     *)
(* task's cancel, whatever has happened since.                             *)
LoopRecovers ==
    /\ pc["loop"] = "recover"
    /\ status' = (IF known THEN "FINISHED" ELSE status)
    /\ saved' = [known |-> TRUE, status |-> status', counts |-> counts]
    /\ CutsTask("idle")
    /\ UNCHANGED <<up, db, bak, fileVars, counts, known, overlapped>>

(* The server process is replaced; no task is left.                        *)
Restart ==
    /\ pc' = [s \in Syncer |-> IF s = "loop" THEN "idle" ELSE "gone"]
    /\ outcome' = [s \in Syncer |-> "fine"] /\ reading' = {}
    /\ held' = [s \in Syncer |-> 0] /\ fd' = [s \in Syncer |-> 0]
    /\ known' = saved.known /\ counts' = saved.counts
    /\ status' = IF saved.known THEN saved.status ELSE "CANCELLED"
    /\ MayStray({pc[s] : s \in Syncer} \cap {"backup", "rm"})
    /\ left' = (left \/ bak # 0)
    /\ UNCHANGED <<up, db, bak, fileVars, saved, overlapped>>

Init ==
    /\ up = "starting" /\ db = 0 /\ bak = 0 /\ stray = {}
    /\ pc = [s \in Syncer |-> "idle"]
    /\ outcome = [s \in Syncer |-> "fine"]
    /\ held = [s \in Syncer |-> 0]
    /\ reading = {}
    /\ fd = [s \in Syncer |-> 0]
    /\ content = <<>> /\ tmp = 0 /\ target = 0
    /\ status = "RUNNING" /\ counts = 0 /\ known = TRUE
    /\ saved = [known |-> TRUE, status |-> "RUNNING", counts |-> 0]
    /\ overlapped = FALSE /\ left = FALSE

Next ==
    \/ SnakemakeWrites \/ SnakemakeMoves \/ Cleanup \/ StrayRuns
    \/ \E s \in Syncer : Sync(s)
    \/ TaskMarks \/ TaskCopies \/ TaskSkips \/ Cancel \/ Delete
    \/ LoopStarts \/ LoopCopies \/ LoopFindsOver \/ LoopRecovers \/ Restart

Spec == Init /\ [][Next]_vars

=============================================================================
