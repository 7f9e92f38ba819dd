------------------------------- MODULE WorkDir -------------------------------
(***************************************************************************)
(* The host a job runs on: its work directory and the detached wrapper     *)
(* script app.utils.build_wrapper_script writes into it.  The wrapper      *)
(* knows nothing of the server; the two talk through the .pid and          *)
(* .exitcode files only.                                                   *)
(***************************************************************************)
EXTENDS ServerState

Alive(j) == wrapper[j] \in {"started", "running", "exiting"}

(* kill $(cat .pid), in the work directory                                 *)
KillByPid(j) ==
    wrapper' = [wrapper EXCEPT ![j] =
                  IF "pid" \in files[j] /\ Alive(j) THEN "dead" ELSE @]

(* A file the wrapper writes exists afterwards only if its directory does. *)
Write(j, f) ==
    files' = [files EXCEPT ![j] = IF "dir" \in @ THEN @ \cup {f} ELSE @]

(* .exitcode has a number in it.                                           *)
HasExitCode(j) == "text" \in files[j]

ExitCodeFile(j) == "exit" \in files[j]

(* Faulty: no .pid yet is taken for a dead process by either backend.      *)
PidProbeNoPidIsDead(j) == IF "pid" \in files[j] /\ Alive(j) THEN "none" ELSE "dead"

(* Faulty: a process that is gone is not noticed.                          *)
PidProbeNeverDead(j) == "none"

(* kill -0 $(cat .pid): without a .pid the local backend cannot tell, and  *)
(* the shell command of the SSH backend answers DEAD.                      *)
PidProbe(j) ==
    IF "pid" \in files[j]
    THEN IF Alive(j) THEN "none" ELSE "dead"
    ELSE IF Backend = "local" THEN "none" ELSE "dead"

-----------------------------------------------------------------------------

(* bash opens .run.sh and runs echo $$ > .pid.  Once the work directory is *)
(* gone there may be no script to open.                                    *)
WrapperStarts(j) ==
    /\ wrapper[j] = "started"
    /\ \/ wrapper' = [wrapper EXCEPT ![j] = "running"]
       \/ "dir" \notin files[j] /\ wrapper' = [wrapper EXCEPT ![j] = "dead"]
    /\ Write(j, "pid")
    /\ UNCHANGED <<storeVars, taskVars, loopVars, cleanup, serverVars>>

(* snakemake has returned; the shell opens .exitcode for echo $?           *)
WrapperOpensExitCode(j) ==
    /\ wrapper[j] = "running"
    /\ wrapper' = [wrapper EXCEPT ![j] = "exiting"]
    /\ Write(j, "exit")
    /\ UNCHANGED <<storeVars, taskVars, loopVars, cleanup, serverVars>>

(* echo $? writes the status of snakemake and the wrapper ends.            *)
WrapperEnds(j) ==
    /\ wrapper[j] = "exiting"
    /\ \E c \in {"zero", "nonzero"} : wrapper' = [wrapper EXCEPT ![j] = c]
    /\ files' = [files EXCEPT ![j] =
                   IF ExitCodeFile(j) THEN @ \cup {"text"} ELSE @]
    /\ UNCHANGED <<storeVars, taskVars, loopVars, cleanup, serverVars>>

(* The host kills the wrapper: out of memory, a reboot, an operator.       *)
WrapperKilled(j) ==
    /\ "kill" \in Environment
    /\ wrapper[j] \in {"started", "running"}
    /\ wrapper' = [wrapper EXCEPT ![j] = "dead"]
    /\ UNCHANGED <<storeVars, taskVars, loopVars, cleanup, files, serverVars>>

(* The file system has no room for the few bytes of echo $?, and .exitcode *)
(* stays empty.                                                            *)
WrapperCannotWrite(j) ==
    /\ "quota" \in Environment
    /\ wrapper[j] = "exiting"
    /\ wrapper' = [wrapper EXCEPT ![j] = "dead"]
    /\ UNCHANGED <<storeVars, taskVars, loopVars, cleanup, files, serverVars>>

Host(j) ==
    WrapperStarts(j) \/ WrapperOpensExitCode(j) \/ WrapperEnds(j)

=============================================================================
