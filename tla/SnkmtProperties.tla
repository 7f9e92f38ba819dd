--------------------------- MODULE SnkmtProperties ---------------------------
(***************************************************************************)
(* What should be true of the copies of snkmt.db, stated over SnkmtSync.   *)
(***************************************************************************)
EXTENDS SnkmtSync

(* What readers of snkmt.db are given is never older than what they had,   *)
(* and it is complete: after a crash in the middle of a download, after    *)
(* one that failed or was cancelled, and whatever commands were repeated.  *)
(* It may be torn, with a first half that is not older, after a download   *)
(* that met another copy of the job: one of the other coroutine, or a      *)
(* backup nobody waits for (README, section 4).                            *)
ReadersAdvance ==
    [][target' # 0 =>
          /\ ~overlapped' => Whole(target)'
          /\ target # 0 => content[target][1] <= content'[target'][1]]_vars

(* Will s, as it is, come to its finally clause?                           *)
WillRemove(s) == pc[s] \in {"conn", "open", "read", "rename", "rm"}

(* A snapshot on the remote host has a coroutine that is to remove it,     *)
(* also after a download that failed, was cancelled, or found the snapshot *)
(* removed by another.  Only a command or a connection that fails outside  *)
(* the try, a cancellation there, a crash, or a backup nobody waits for    *)
(* may leave one, and the next rm that succeeds removes that.              *)
BakIsRemoved == bak # 0 /\ ~left => \E s \in Syncer : WillRemove(s)

(* The progress clients are shown does not go back while the server runs,  *)
(* also when a copy of the loop ends after the task's last one, unless it  *)
(* is read from a torn copy.                                               *)
CountsAdvance ==
    [][Restart \/ counts' >= counts \/ (overlapped /\ ~Whole(target))]_vars

=============================================================================
