---------------------------- MODULE LogProperties ----------------------------
(***************************************************************************)
(* What should be true of a job's log and of what its clients receive,     *)
(* stated over LogStream.                                                  *)
(***************************************************************************)
EXTENDS LogStream

(* The lines of s are a prefix of .stdout.log, piece after piece; the one  *)
(* line that is no piece comes last.                                       *)
Contiguous(s) ==
    \A i \in DOMAIN s :
        IF s[i] = ErrorLine THEN i = Len(s)
        ELSE s[i].from = IF i = 1 THEN 0 ELSE s[i - 1].to

(* No piece begins before those in front of it have ended.                 *)
Ascending(s) ==
    \A i, k \in DOMAIN s : i < k /\ s[k] # ErrorLine => s[i].to <= s[k].from

(* Where the pieces of s end, if they are contiguous.                      *)
End(s) ==
    LET n == IF s # <<>> /\ s[Len(s)] = ErrorLine THEN Len(s) - 1 ELSE Len(s)
    IN  IF n = 0 THEN 0 ELSE s[n].to

(* What was logged so far, on disk or still to be flushed.                 *)
Logged == output \o unflushed

-----------------------------------------------------------------------------

(* While DATA_DIR takes writes, output.log and the lines to be flushed are *)
(* the wrapper's output from its start, in order, once each, whoever       *)
(* flushes: the sync loop, the task, or neither because the server died.   *)
LogIsOutput == known /\ ~wasFull => Contiguous(Logged)

(* A task that monitors has logged what it has read, and while DATA_DIR    *)
(* takes writes nothing of it is lost on the way to output.log, also when  *)
(* the task is over and its buffers are cleared.  A server that has only   *)
(* restored the job knows what its predecessor flushed.                    *)
NothingReadIsLost ==
    known /\ ~wasFull /\ (monitor # "none" \/ total > 0) => End(Logged) = offset

(* The local monitor returns only when it has seen all of .stdout.log; the *)
(* one over SSH may not (README, section 4).                               *)
MonitorReadsAll ==
    backend = "local" /\ monitor = "collect" => offset = written

(* What a client has received and what it would be sent next are in order  *)
(* and without repetition while the job runs, however many lines are       *)
(* evicted while the client is slow.                                       *)
StreamAscends ==
    \A c \in Clients :
        stream[c] \in {"top", "check"} =>
            Ascending(got[c] \o GetLogs(sent_index[c]).lines)

(* A client that is told "done" has received all the log has, if no line   *)
(* was evicted and none was refused by DATA_DIR: lines logged between its  *)
(* last poll and the end of the job are not lost, whether they are still   *)
(* in memory or only in output.log.                                        *)
DoneMeansAll ==
    \A c \in Clients :
        stream[c] = "done" /\ known /\ ~wasFull /\ total <= MAX_IN_MEMORY_LINES =>
            \A i \in DOMAIN Logged : \E k \in DOMAIN got[c] : got[c][k] = Logged[i]

-----------------------------------------------------------------------------
(* The wrapper ends; the task, the sync loop and the generators go on, and *)
(* a status check that is made again and again is answered in the end.     *)
Fairness ==
    /\ WF_vars(WrapperEnds) /\ WF_vars(Task) /\ WF_vars(Sync) /\ SF_vars(SyncRecovers)
    /\ \A c \in Clients : WF_vars(Stream(c))

FairSpec == Spec /\ Fairness

(* No client waits for ever: each is told "done", or its connection ends,  *)
(* also when the server is restarted, the wrapper killed or the job        *)
(* deleted.                                                                *)
StreamEnds ==
    \A c \in Clients : stream[c] = "top" ~> stream[c] \in {"done", "off"}

-----------------------------------------------------------------------------
(* A statement of the documentation that the code does not keep.           *)

(* The lines sent at the end are those written between the last poll and   *)
(* the end of the job: no piece is sent twice.                             *)
SentOnce ==
    \A c \in Clients : \A i, k \in DOMAIN got[c] :
        i # k /\ got[c][i] # ErrorLine => got[c][i] # got[c][k]

=============================================================================
