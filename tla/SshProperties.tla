---------------------------- MODULE SshProperties ----------------------------
(***************************************************************************)
(* What should be true of the shared connection and of the checkouts made  *)
(* over it, stated over GitCheckout.                                       *)
(***************************************************************************)
EXTENDS GitCheckout

(* No connection to the head node is left open and forgotten: the one that *)
(* is open is the one the next call will be given, whoever closes, opens   *)
(* or is cancelled meanwhile.                                              *)
LinkIsKept == \A i \in Links : link[i] \in {"open", "closing"} => i = _conn

(* One thing that goes wrong, for one caller or for all that use the       *)
(* connection, is forgiven: no call of _run_ssh raises for want of an      *)
(* answer.  In particular the close that belongs to one caller's error     *)
(* does not hit another's second try.  A worktree add that had run before  *)
(* its answer was lost is answered by its second try, but with an exit     *)
(* code that is not 0, which fails the checkout (pc "failed").             *)
OneFaultIsForgiven ==
    \A j \in Callers :
        pc[j] = "raised" => faults > 1 \/ Commands[step[j]] = "setup"

(* A checkout that succeeds has what was asked for: git_sha is the commit  *)
(* in the job's own worktree, and a commit of the job's own branch, though *)
(* another job works in the same bare clone, commands run twice, and some  *)
(* run when nobody waits for them any more.                                *)
ChecksOutItsOwn ==
    \A j \in Callers :
        pc[j] = "returned" =>
            /\ git_sha[j] = worktree[j]
            /\ git_sha[j] = resolved_ref[j]
            /\ git_ref[j] \in {NoRef, resolved_ref[j]}

-----------------------------------------------------------------------------
(* The event loop completes closes and serves callers; the network answers *)
(* in the end, or wait_for gives up on it.                                 *)
Work ==
    \/ \E c \in Callers : Progress(c)
    \/ EventLoop /\ UNCHANGED <<gitVars, jobVars, runVars>>

FairSpec == Spec /\ WF_vars(Work)

(* Nobody waits for ever, for an answer, for a close or for the lock: not  *)
(* when a handshake under way is refused or cancelled, and not when all    *)
(* callers close one connection.                                           *)
CallsEnd == <>[](\A c \in Callers : ~Calling(c))

=============================================================================
