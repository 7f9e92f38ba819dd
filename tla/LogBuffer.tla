------------------------------ MODULE LogBuffer ------------------------------
(***************************************************************************)
(* The log of one job in app.store.JobStore: the bounded buffer clients    *)
(* are streamed from, the lines not yet on disk, and output.log.  A log    *)
(* line is a piece of the wrapper's .stdout.log, given by where it begins  *)
(* and ends.  Two units of .stdout.log make one line of the workflow, so   *)
(* that a reader may find half a line.                                     *)
(***************************************************************************)
EXTENDS Integers, Sequences

CONSTANTS
    MAX_IN_MEMORY_LINES,  \* the maxlen of record.logs
    MaxUnits,             \* bound: what a wrapper writes to .stdout.log
    MaxOutput             \* bound: the lines of output.log a flush that
                          \* fails still adds to

ASSUME BoundAssumption ==
    MAX_IN_MEMORY_LINES \in Nat \ {0} /\ MaxUnits \in Nat /\ MaxOutput \in Nat

VARIABLES
    known,      \* is the job in JobStore._jobs?
    logs,       \* record.logs
    unflushed,  \* record._unflushed_logs
    total,      \* record.total_log_lines
    output,     \* DATA_DIR/jobs/<job_id>/output.log, line by line
    full        \* TRUE while a write to DATA_DIR raises OSError

bufferVars == <<logs, unflushed, total>>

Line == [from : 0..MaxUnits, to : 0..MaxUnits]

(* The message mark_error appends; it is not a piece of .stdout.log.       *)
ErrorLine == [from |-> 0, to |-> 0]

(* splitlines() of what .stdout.log holds between from and to: a line ends *)
(* with every other unit, the last one where the read does.                *)
Splitlines(from, to) ==
    LET count  == IF from < to THEN (to + 1) \div 2 - from \div 2 ELSE 0
        cut(i) == IF i = 0 THEN from ELSE IF i = count THEN to ELSE 2 * (from \div 2 + i)
    IN  [i \in 1..count |-> [from |-> cut(i - 1), to |-> cut(i)]]

(* Faulty: record.logs is a list.                                          *)
PushLogUnbounded(lines) ==
    IF known THEN logs' = logs \o lines /\ total' = total + Len(lines)
    ELSE UNCHANGED <<logs, total>>

(* push_log for each of lines; the deque drops its oldest lines.           *)
PushLog(lines) ==
    IF known
    THEN LET all     == logs \o lines
             evicted == Len(all) - MAX_IN_MEMORY_LINES IN
         /\ logs' = IF evicted > 0 THEN SubSeq(all, evicted + 1, Len(all)) ELSE all
         /\ total' = total + Len(lines)
    ELSE UNCHANGED <<logs, total>>

(* Faulty: the line goes to the deque only.                                *)
PushedForgets(lines) == unflushed

(* What _unflushed_logs holds after that.                                  *)
Pushed(lines) == IF known THEN unflushed \o lines ELSE unflushed

(* Faulty: a batch that was written stays in the list.                     *)
FlushOutcomesKeepBatch(lines) == {[disk |-> output \o lines, rest |-> lines]}

(* flush_logs_to_disk and _flush_logs around it: a write that raises may   *)
(* have written some of the batch, and keeps the whole batch for later.    *)
FlushOutcomes(lines) ==
    IF ~known \/ lines = <<>> THEN {[disk |-> output, rest |-> lines]}
    ELSE IF full
         THEN {[disk |-> output \o SubSeq(lines, 1, n), rest |-> lines] :
                  n \in {k \in 0..(Len(lines) - 1) :
                            k = 0 \/ Len(output) + k <= MaxOutput}}
         ELSE {[disk |-> output \o lines, rest |-> <<>>]}

Flush(lines) ==
    \E o \in FlushOutcomes(lines) : output' = o.disk /\ unflushed' = o.rest

-----------------------------------------------------------------------------

(* Faulty: after an eviction the reader starts again from the old offset.  *)
GetLogsKeepOffset(offset) ==
    LET first == total - Len(logs) IN
    IF ~known THEN [lines |-> <<>>, next |-> offset]
    ELSE IF offset < first THEN [lines |-> logs, next |-> offset + Len(logs)]
    ELSE [lines |-> SubSeq(logs, offset - first + 1, Len(logs)), next |-> total]

(* get_logs: the lines from offset on, and the offset to go on from.       *)
(* Lines that were evicted are skipped.                                    *)
GetLogs(offset) ==
    LET first == total - Len(logs)
        tail  == SubSeq(logs, offset - first + 1, Len(logs)) IN
    IF ~known THEN [lines |-> <<>>, next |-> offset]
    ELSE IF offset < first THEN [lines |-> logs, next |-> total]
    ELSE [lines |-> tail, next |-> offset + Len(tail)]

(* get_logs_with_disk_fallback: output.log if memory has nothing to add.   *)
GetLogsWithDiskFallback(offset) ==
    LET inMemory == GetLogs(offset) IN
    IF inMemory.lines = <<>> /\ output # <<>>
    THEN [lines |-> output, next |-> Len(output)]
    ELSE inMemory

=============================================================================
