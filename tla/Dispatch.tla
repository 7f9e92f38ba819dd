------------------------------ MODULE Dispatch -------------------------------
(***************************************************************************)
(* A snakedispatch server: the create handler, execute_job, the sync loop, *)
(* the gc loop, cancel and delete, the hosts the wrappers run on, and the  *)
(* end and restart of the server process.                                  *)
(***************************************************************************)
EXTENDS ExecuteJob, SyncLoop, Retire

(* POST /jobs.  A persist that raises answers 500 and starts no task, but  *)
(* the record is in the store by then.                                     *)
Submit(j) ==
    /\ Serving
    /\ life[j] = "unborn"
    /\ life' = [life EXCEPT ![j] = "born"]
    /\ jobs' = jobs \cup {j}
    /\ record' = [record EXCEPT ![j] = NewRecord]
    /\ Persist(j, NewRecord)
    /\ IF full THEN UNCHANGED task ELSE Goto(j, "prepare")
    /\ UNCHANGED <<code, cancelling, loopVars, cleanup, hostVars, full, stopping>>

(* What the process keeps in memory besides the store: tasks, the passes   *)
(* of the loops, and background cleanups.                                  *)
Forget ==
    /\ task' = [j \in Jobs |-> "none"]
    /\ code' = [j \in Jobs |-> "none"]
    /\ cancelling' = {}
    /\ sync' = [j \in Jobs |-> "out"]
    /\ gc' = [j \in Jobs |-> "out"]
    /\ cleanup' = [j \in Jobs |-> [o \in Owner |-> "idle"]]

(* The process dies.  Its wrappers do not.                                 *)
Crash ==
    /\ ~stopping /\ "restart" \in Environment
    /\ stopping' = TRUE
    /\ Forget
    /\ UNCHANGED <<storeVars, hostVars, full, life>>

(* lifespan of the next process runs restore_from_disk.                    *)
Restart ==
    /\ stopping /\ "restart" \in Environment
    /\ stopping' = FALSE
    /\ record' = disk
    /\ jobs' = {j \in Jobs : disk[j] # NoRecord}
    /\ Forget
    /\ UNCHANGED <<disk, hostVars, full, life>>

(* Ctrl-C: lifespan stops the loops, then asyncio.run cancels what is left.*)
Interrupt ==
    /\ Serving /\ "interrupt" \in Environment
    /\ stopping' = TRUE
    /\ cancelling' = {j \in Jobs : Live(j)}
    /\ sync' = [j \in Jobs |-> "out"]
    /\ gc' = [j \in Jobs |-> "out"]
    /\ cleanup' = [j \in Jobs |-> [o \in Owner |-> "idle"]]
    /\ UNCHANGED <<storeVars, task, code, hostVars, full, life>>

DiskFills ==
    /\ "full" \in Environment
    /\ full' = ~full
    /\ UNCHANGED <<storeVars, taskVars, loopVars, cleanup, hostVars, stopping, life>>

Init ==
    /\ record = [j \in Jobs |-> NoRecord]
    /\ jobs = {}
    /\ disk = [j \in Jobs |-> NoRecord]
    /\ full = FALSE
    /\ task = [j \in Jobs |-> "none"]
    /\ code = [j \in Jobs |-> "none"]
    /\ cancelling = {}
    /\ sync = [j \in Jobs |-> "out"]
    /\ gc = [j \in Jobs |-> "out"]
    /\ cleanup = [j \in Jobs |-> [o \in Owner |-> "idle"]]
    /\ stopping = FALSE
    /\ wrapper = [j \in Jobs |-> "none"]
    /\ files = [j \in Jobs |-> {}]
    /\ life = [j \in Jobs |-> "unborn"]

Next ==
    \/ \E j \in Jobs :
          \/ Submit(j) \/ ExecuteJob(j) \/ BackendRaises(j)
          \/ SyncVisit(j) \/ Retire(j) \/ Host(j) \/ WrapperKilled(j)
          \/ WrapperCannotWrite(j)
    \/ SyncWakes \/ GcWakes \/ Crash \/ Restart \/ Interrupt \/ DiskFills

Spec == Init /\ [][Next]_vars

=============================================================================
