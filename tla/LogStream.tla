------------------------------ MODULE LogStream ------------------------------
(***************************************************************************)
(* The way of a running job's log: from .stdout.log through the monitor of *)
(* the backend into the buffer, from there to output.log and to the        *)
(* clients that stream it (GET /jobs/{job_id}/logs).  One job, from the    *)
(* moment its wrapper runs.                                                *)
(***************************************************************************)
EXTENDS LogBuffer

CONSTANTS
    Clients,     \* the connections that stream the log
    Backends,    \* where the workflow may run: LocalBackend, SlurmSSHBackend
    Environment  \* what clients and the world may do in this instance

ASSUME StreamAssumption ==
    /\ Backends \subseteq {"local", "slurm_ssh"}
    /\ Environment \subseteq
          {"cancel", "delete", "restart", "full", "kill", "backend"}

VARIABLES
    backend,     \* where it does run
    wasFull,     \* auxiliary: has a write to DATA_DIR been refused so far?
    host,        \* the wrapper: running, exited with an .exitcode, or killed
    written,     \* the units in .stdout.log
    status,      \* record.status; "finished" is COMPLETED or FAILED, and
                 \* "given up" is CANCELLED or ERROR
    saved,       \* the status in job.json, "none" if there is no job.json
    monitor,     \* where execute_job awaits, from monitor on
    upto,        \* the units of .stdout.log the read under way has returned
    offset,      \* the units monitor has passed on
    cancelling,  \* a CancelledError is still to be delivered to the task
    asked,       \* the sync loop awaits check_job_status
    stream,      \* [Clients -> where its event_generator is]
    sent_index,  \* [Clients -> Nat]
    got          \* [Clients -> Seq(Line)], what the client has received

worldVars   == <<backend, full, wasFull>>
hostVars    == <<host, written>>
recordVars  == <<known, status, saved>>
monitorVars == <<monitor, upto, offset, cancelling>>
streamVars  == <<stream, sent_index, got>>
vars == <<worldVars, hostVars, recordVars, bufferVars, output, monitorVars,
          asked, streamVars>>

MonitorState ==
    {"poll", "read", "exit", "last", "collect", "save", "final", "none"}

Terminal == status \in {"finished", "given up"}

TypeOK ==
    /\ backend \in Backends /\ full \in BOOLEAN /\ wasFull \in BOOLEAN
    /\ known \in BOOLEAN
    /\ logs \in Seq(Line) /\ unflushed \in Seq(Line) /\ output \in Seq(Line)
    /\ total \in Nat /\ Len(logs) <= MAX_IN_MEMORY_LINES /\ Len(logs) <= total
    /\ host \in {"running", "exited", "killed"}
    /\ written \in 0..MaxUnits /\ upto \in 0..written /\ offset \in 0..upto
    /\ status \in {"RUNNING", "finished", "given up"}
    /\ saved \in {"RUNNING", "finished", "given up", "none"}
    /\ monitor \in MonitorState
    /\ cancelling \in BOOLEAN /\ asked \in BOOLEAN
    /\ stream \in [Clients -> {"off", "top", "check", "done"}]
    /\ sent_index \in [Clients -> Nat]
    /\ got \in [Clients -> Seq(Line)]

-----------------------------------------------------------------------------
(* The wrapper.                                                            *)

WrapperWrites ==
    /\ host = "running" /\ written < MaxUnits
    /\ written' = written + 1
    /\ UNCHANGED <<host, recordVars, bufferVars, output, worldVars, monitorVars, asked, streamVars>>

WrapperEnds ==
    /\ host = "running"
    /\ host' = "exited"
    /\ UNCHANGED <<written, recordVars, bufferVars, output, worldVars, monitorVars, asked, streamVars>>

WrapperKilled ==
    /\ "kill" \in Environment
    /\ host = "running"
    /\ host' = "killed"
    /\ UNCHANGED <<written, recordVars, bufferVars, output, worldVars, monitorVars, asked, streamVars>>

-----------------------------------------------------------------------------
(* The task of the job: monitor, _collect_results, _finalize_job.          *)

Resumes(pc) == ~cancelling /\ monitor = pc

Log(lines) == PushLog(lines) /\ unflushed' = Pushed(lines)

(* store.persist                                                           *)
Persist(s) == saved' = IF full THEN saved ELSE s

(* store.clear_job_logs, after a persist that did not raise.               *)
ClearJobLogs == known /\ ~full

(* The finally clause, for a task that leaves the job in status s after    *)
(* logging lines.  A job that ran flushes and awaits its last sync; one    *)
(* that was given up flushes, is persisted and cleared at once.            *)
Finalize(s, lines) ==
    /\ status' = IF known THEN s ELSE status
    /\ cancelling' = FALSE
    /\ IF status' = "given up"
       THEN /\ monitor' = "none"
            /\ Persist(status')
            /\ \E o \in FlushOutcomes(Pushed(lines)) :
                  /\ output' = o.disk
                  /\ unflushed' = IF ClearJobLogs THEN <<>> ELSE o.rest
            /\ IF ClearJobLogs
               THEN logs' = <<>> /\ total' = total + Len(lines)
               ELSE PushLog(lines)
       ELSE /\ monitor' = "final"
            /\ Flush(Pushed(lines))
            /\ PushLog(lines)
            /\ UNCHANGED saved
    /\ UNCHANGED known

(* Reading .stdout.log: tail in a remote shell, or in a thread.            *)
MonitorReads ==
    /\ \/ Resumes("poll") /\ monitor' = "read"
       \/ Resumes("exit") /\ monitor' = "last"
    /\ upto' = written
    /\ UNCHANGED <<hostVars, recordVars, bufferVars, output, worldVars, offset, cancelling, asked, streamVars>>

(* What was read is logged, and .exitcode is looked at.  The local backend *)
(* then reads once more; over SSH the answer came with the status, which   *)
(* is also DEAD when the wrapper was killed.                               *)
MonitorLogs ==
    /\ Resumes("read")
    /\ Log(Splitlines(offset, upto))
    /\ offset' = upto
    /\ monitor' = CASE host = "exited" /\ backend = "local"      -> "exit"
                    [] host # "running" /\ backend = "slurm_ssh" -> "collect"
                    [] OTHER                                     -> "poll"
    /\ UNCHANGED <<hostVars, recordVars, output, worldVars, upto, cancelling, asked, streamVars>>

(* Faulty: the exit code is returned without logging what was read last.   *)
MonitorSkipsLast ==
    /\ Resumes("last")
    /\ monitor' = "collect"
    /\ UNCHANGED <<hostVars, recordVars, bufferVars, output, worldVars, upto, offset,
                   cancelling, asked, streamVars>>

MonitorLogsLast ==
    /\ Resumes("last")
    /\ Log(Splitlines(offset, upto))
    /\ offset' = upto
    /\ monitor' = "collect"
    /\ UNCHANGED <<hostVars, recordVars, output, worldVars, upto, cancelling, asked, streamVars>>

(* The tenth error in a row: mark_error logs its message.                  *)
MonitorRaises ==
    /\ "backend" \in Environment
    /\ \E pc \in {"poll", "read", "exit", "last"} : Resumes(pc)
    /\ Finalize("given up", <<ErrorLine>>)
    /\ UNCHANGED <<hostVars, worldVars, upto, offset, asked, streamVars>>

(* mark_finished.  Some jobs save their cache before they are finalized.   *)
Collect ==
    /\ Resumes("collect")
    /\ \/ Finalize("finished", <<>>)
       \/ /\ status' = IF known THEN "finished" ELSE status
          /\ monitor' = "save"
          /\ UNCHANGED <<known, saved, bufferVars, output, cancelling>>
    /\ UNCHANGED <<hostVars, worldVars, upto, offset, asked, streamVars>>

SaveReturns ==
    /\ Resumes("save")
    /\ Finalize(status, <<>>)
    /\ UNCHANGED <<hostVars, worldVars, upto, offset, asked, streamVars>>

(* The last sync returned: persist, and clear the buffers.                 *)
FinalSync ==
    /\ Resumes("final")
    /\ monitor' = "none"
    /\ Persist(status)
    /\ IF ClearJobLogs
       THEN logs' = <<>> /\ unflushed' = <<>> /\ UNCHANGED total
       ELSE UNCHANGED bufferVars
    /\ UNCHANGED <<hostVars, known, status, output, worldVars, upto, offset, cancelling, asked, streamVars>>

CancelDelivered ==
    /\ cancelling
    /\ IF monitor = "final"
       THEN /\ monitor' = "none" /\ cancelling' = FALSE
            /\ UNCHANGED <<recordVars, bufferVars, output>>
       ELSE Finalize(IF Terminal THEN status ELSE "given up", <<>>)
    /\ UNCHANGED <<hostVars, worldVars, upto, offset, asked, streamVars>>

Task ==
    \/ MonitorReads \/ MonitorLogs \/ MonitorLogsLast \/ Collect \/ SaveReturns
    \/ FinalSync \/ CancelDelivered

-----------------------------------------------------------------------------
(* The sync loop, cancel, delete and restart.                              *)

(* The task is told, if there is one that is not done.                     *)
CancelTask == cancelling' = (cancelling \/ monitor # "none")

Running == known /\ status = "RUNNING"

(* The await of check_job_status; the local backend does not let go of the *)
(* event loop in it.                                                       *)
SyncAsks ==
    /\ backend = "slurm_ssh" /\ Running /\ ~asked
    /\ asked' = TRUE
    /\ UNCHANGED <<hostVars, recordVars, bufferVars, output, worldVars, monitorVars, streamVars>>

Answered == asked \/ (backend = "local" /\ Running)

(* The job is still running, or the call on the backend raised.            *)
SyncFlushes ==
    /\ Answered
    /\ host = "running" \/ (backend = "slurm_ssh" /\ "backend" \in Environment)
    /\ asked' = FALSE
    /\ Flush(unflushed)
    /\ UNCHANGED <<hostVars, recordVars, logs, total, worldVars, monitorVars, streamVars>>

(* An exit code: mark_finished, persist and task.cancel(), or a persist    *)
(* that raises and a flush.                                                *)
SyncRecovers ==
    /\ Answered
    /\ host # "running"
    /\ asked' = FALSE
    /\ status' = IF known THEN "finished" ELSE status
    /\ Persist(status')
    /\ IF full
       THEN Flush(unflushed) /\ UNCHANGED cancelling
       ELSE CancelTask /\ UNCHANGED <<unflushed, output>>
    /\ UNCHANGED <<hostVars, known, logs, total, worldVars, monitor, upto, offset, streamVars>>

Cancel ==
    /\ "cancel" \in Environment
    /\ known /\ ~Terminal
    /\ status' = "given up"
    /\ CancelTask
    /\ UNCHANGED <<hostVars, known, saved, bufferVars, output, worldVars, monitor, upto, offset, asked, streamVars>>

Delete ==
    /\ "delete" \in Environment
    /\ known
    /\ known' = FALSE
    /\ status' = IF Terminal THEN status ELSE "given up"
    /\ CancelTask
    /\ saved' = "none" /\ output' = <<>>
    /\ UNCHANGED <<hostVars, bufferVars, worldVars, monitor, upto, offset, asked, streamVars>>

(* The server process is replaced; connections and memory are gone.        *)
Restart ==
    /\ "restart" \in Environment
    /\ known' = (saved # "none")
    /\ status' = IF saved = "none" THEN status ELSE saved
    /\ logs' = <<>> /\ unflushed' = <<>> /\ total' = 0
    /\ monitor' = "none" /\ cancelling' = FALSE /\ asked' = FALSE
    /\ stream' = [c \in Clients |-> "off"]
    /\ sent_index' = [c \in Clients |-> 0]
    /\ got' = [c \in Clients |-> <<>>]
    /\ UNCHANGED <<hostVars, saved, output, worldVars, upto, offset>>

DiskFills ==
    /\ "full" \in Environment
    /\ full' = ~full /\ wasFull' = TRUE
    /\ UNCHANGED <<backend, hostVars, recordVars, bufferVars, output, monitorVars, asked, streamVars>>

-----------------------------------------------------------------------------
(* A client: GET /jobs/{job_id}/logs and its event_generator.              *)

Serve(c, pc, index, lines) ==
    /\ stream' = [stream EXCEPT ![c] = pc]
    /\ sent_index' = [sent_index EXCEPT ![c] = index]
    /\ got' = [got EXCEPT ![c] = lines]
    /\ UNCHANGED <<hostVars, recordVars, bufferVars, output, worldVars, monitorVars, asked>>

Connect(c) ==
    /\ stream[c] = "off" /\ known
    /\ Serve(c, "top", 0, <<>>)

Disconnect(c) ==
    /\ stream[c] # "off"
    /\ Serve(c, "off", 0, <<>>)

(* Faulty: a job that is over ends the stream at once.                     *)
FinishStreamAtOnce(c) ==
    IF ~known \/ Terminal THEN Serve(c, "done", sent_index[c], got[c])
    ELSE Serve(c, "top", sent_index[c], got[c])

(* Faulty: a job that was deleted does not end a stream.                   *)
FinishStreamKnownOnly(c) ==
    IF known /\ Terminal THEN Serve(c, "done", sent_index[c], got[c])
    ELSE Serve(c, "top", sent_index[c], got[c])

(* Is the job over?  Then the lines that are left are sent, and "done".    *)
FinishStream(c) ==
    LET final == GetLogsWithDiskFallback(sent_index[c]) IN
    IF ~known \/ Terminal
    THEN Serve(c, "done", final.next, got[c] \o final.lines)
    ELSE Serve(c, "top", sent_index[c], got[c])

(* New lines are yielded one by one, and each yield awaits the client.     *)
StreamPolls(c) ==
    LET new == GetLogs(sent_index[c]) IN
    /\ stream[c] = "top"
    /\ IF new.lines # <<>>
       THEN Serve(c, "check", new.next, got[c] \o new.lines)
       ELSE FinishStream(c)

StreamChecks(c) == stream[c] = "check" /\ FinishStream(c)

Stream(c) == StreamPolls(c) \/ StreamChecks(c)

-----------------------------------------------------------------------------

Init ==
    /\ backend \in Backends /\ full = FALSE /\ wasFull = FALSE
    /\ known = TRUE
    /\ logs = <<>> /\ unflushed = <<>> /\ total = 0 /\ output = <<>>
    /\ host = "running" /\ written = 0
    /\ status = "RUNNING" /\ saved = "RUNNING"
    /\ monitor = "poll" /\ upto = 0 /\ offset = 0
    /\ cancelling = FALSE /\ asked = FALSE
    /\ stream = [c \in Clients |-> "off"]
    /\ sent_index = [c \in Clients |-> 0]
    /\ got = [c \in Clients |-> <<>>]

Sync == SyncAsks \/ SyncFlushes \/ SyncRecovers

Next ==
    \/ WrapperWrites \/ WrapperEnds \/ WrapperKilled
    \/ Task \/ MonitorRaises
    \/ Sync \/ Cancel \/ Delete \/ Restart \/ DiskFills
    \/ \E c \in Clients : Connect(c) \/ Disconnect(c) \/ Stream(c)

Spec == Init /\ [][Next]_vars

=============================================================================
