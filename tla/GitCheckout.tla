----------------------------- MODULE GitCheckout -----------------------------
(***************************************************************************)
(* prepare and setup over SSH: jobs check workflows of one repository out  *)
(* of one bare clone, each with its own ref and its own worktree, and      *)
(* write files into it.  Every git command is a call of _run_ssh, so it    *)
(* may be run twice, and one whose answer was given up may still be        *)
(* running on the head node.  The callers are the jobs' coroutines.        *)
(***************************************************************************)
EXTENDS SshConnection, Sequences

CONSTANTS
    Defaulting, \* the jobs that were created without a git_ref
    Branches,   \* the branches of the repository, each with one commit
    NoRef       \* no branch, and no commit

ASSUME CheckoutAssumption ==
    /\ Defaulting \subseteq Callers
    /\ NoRef \notin Branches

VARIABLES
    ref,       \* [Callers -> the commit refs/snakedispatch/<job_id> is at]
    worktree,  \* [Callers -> the commit checked out in the job's work_dir]
    git_ref,   \* [Callers -> the branch that was asked for, NoRef for none]
    step,      \* [Callers -> the command prepare is at]
    answer,    \* [Callers -> how the command ended and what it could print,
               \*  Nothing before it has run]
    resolved_ref, git_sha,  \* [Callers -> those variables of prepare]
    stray      \* [Callers -> the commands that may run though nobody waits for them]

gitVars  == <<ref, worktree>>
jobVars  == <<git_ref, step, resolved_ref, git_sha>>
runVars  == <<answer, stray>>
vars     == <<sshVars, gitVars, jobVars, runVars>>

Reference == Branches \cup {NoRef}
Nothing   == [exit |-> -1, head |-> NoRef, commit |-> NoRef]

(* The git commands of prepare in their order, and the SFTP of setup.      *)
Commands == <<"init", "ls-remote", "fetch", "worktree add", "rev-parse",
              "update-ref", "setup">>

(* A call that holds the connection is at its last attempt at once.        *)
Attempts(command) == IF command = "setup" THEN 2 ELSE 1

TypeOK ==
    /\ SshTypeOK
    /\ \A f \in {ref, worktree, git_ref, resolved_ref, git_sha} : f \in [Callers -> Reference]
    /\ step \in [Callers -> 1..Len(Commands)]
    /\ answer \in [Callers -> [exit : -1..1, head : Reference, commit : Reference]]
    /\ stray \in [Callers -> SUBSET (1..Len(Commands))]

-----------------------------------------------------------------------------
(* The head node runs one of the commands for job j.                       *)

(* Faulty: all jobs fetch to one ref.                                      *)
JobRefShared(j) == CHOOSE x \in Callers : TRUE

(* refs/snakedispatch/{job_id}                                             *)
JobRef(j) == j

(* git worktree add wants a ref that exists and a directory that does not. *)
CanAdd(j) == worktree[j] = NoRef /\ ref[JobRef(j)] # NoRef

Succeeds(j, command) == command = "worktree add" => CanAdd(j)

Executes(j, command) ==
    /\ ref' = CASE command = "fetch" ->
                      [ref EXCEPT ![JobRef(j)] = resolved_ref[j]]
                [] command = "update-ref" -> [ref EXCEPT ![JobRef(j)] = NoRef]
                [] OTHER -> ref
    /\ worktree' = IF command = "worktree add" /\ CanAdd(j)
                   THEN [worktree EXCEPT ![j] = ref[JobRef(j)]] ELSE worktree

(* Faulty: the line of ls-remote is taken for the branch.                  *)
AnswersUnparsed(j, command) ==
    [exit   : {IF Succeeds(j, command) THEN 0 ELSE 1},
     head   : IF command = "ls-remote" THEN {"ref: refs/heads/main"} ELSE {NoRef},
     commit : {IF command = "rev-parse" THEN worktree[j] ELSE NoRef}]

(* ls-remote answers whatever is the default branch by now.                *)
Answers(j, command) ==
    [exit   : {IF Succeeds(j, command) THEN 0 ELSE 1},
     head   : IF command = "ls-remote" THEN Branches ELSE {NoRef},
     commit : {IF command = "rev-parse" THEN worktree[j] ELSE NoRef}]

Runs(j) ==
    /\ pc[j] = "run" /\ link[using[j]] = "open" /\ answer[j] = Nothing
    /\ LET command == Commands[step[j]] IN
       /\ Executes(j, command)
       /\ \E a \in Answers(j, command) : answer' = [answer EXCEPT ![j] = a]
    /\ UNCHANGED <<sshVars, jobVars, stray>>

StrayRuns(j) ==
    \E k \in stray[j] :
        /\ Executes(j, Commands[k])
        /\ stray' = [stray EXCEPT ![j] = @ \ {k}]
        /\ UNCHANGED <<sshVars, jobVars, answer>>

-----------------------------------------------------------------------------
(* prepare.                                                                *)

(* The command after the one job j is at: the default branch is asked for  *)
(* if no git_ref was given.                                                *)
NextStep(j) == IF step[j] = 1 /\ resolved_ref[j] # NoRef THEN 3 ELSE step[j] + 1

(* A command's answer: its output is used, and the next one is called.  An *)
(* exit code other than 0 is a RuntimeError, which is not retried.         *)
Answered(j) ==
    /\ answer[j] # Nothing
    /\ IF answer[j].exit = 0 /\ step[j] < Len(Commands)
       THEN /\ step' = [step EXCEPT ![j] = NextStep(j)]
            /\ Returns(j, "get", Attempts(Commands[NextStep(j)]))
       ELSE /\ Returns(j, IF answer[j].exit = 0 THEN "returned" ELSE "failed", 1)
            /\ UNCHANGED step
    /\ answer' = [answer EXCEPT ![j] = Nothing]
    /\ resolved_ref' = IF Commands[step[j]] = "ls-remote"
                 THEN [resolved_ref EXCEPT ![j] = answer[j].head] ELSE resolved_ref
    /\ git_sha' = IF Commands[step[j]] = "rev-parse"
                  THEN [git_sha EXCEPT ![j] = answer[j].commit] ELSE git_sha
    /\ UNCHANGED <<gitVars, git_ref, stray>>

(* Nobody waits for c's command any more.  If it has not run, it never     *)
(* will, or it will at any time, which matters if it changes something.    *)
LetsGo(c) ==
    /\ answer' = [j \in Callers |-> IF j = c THEN Nothing ELSE answer[j]]
    /\ stray' \in IF pc[c] = "run" /\ answer[c] = Nothing
                     /\ Commands[step[c]] \in {"fetch", "worktree add", "update-ref"}
                  THEN {stray, [stray EXCEPT ![c] = @ \cup {step[c]}]} ELSE {stray}
    /\ UNCHANGED <<gitVars, jobVars>>

-----------------------------------------------------------------------------

Init ==
    /\ SshInit
    /\ ref = [j \in Callers |-> NoRef] /\ worktree = [j \in Callers |-> NoRef]
    /\ git_ref \in {f \in [Callers -> Reference] :
                      \A j \in Callers : f[j] = NoRef <=> j \in Defaulting}
    /\ resolved_ref = git_ref
    /\ step = [j \in Callers |-> 1]
    /\ git_sha = [j \in Callers |-> NoRef]
    /\ answer = [j \in Callers |-> Nothing] /\ stray = [j \in Callers |-> {}]

(* What c does next, but for errors that need a fault.                     *)
Progress(c) ==
    \/ Connection(c) /\ UNCHANGED <<gitVars, jobVars, runVars>>
    \/ RunRaises(c) /\ LetsGo(c)
    \/ Runs(c) \/ Answered(c)

Network ==
    \/ \E i \in Links : Drops(i) /\ UNCHANGED <<gitVars, jobVars, runVars>>
    \/ \E c \in Callers :
          \/ ConnectFails(c) /\ UNCHANGED <<gitVars, jobVars, runVars>>
          \/ RunTimesOut(c) /\ LetsGo(c)
          \/ Cancelled(c) /\ LetsGo(c)

Next ==
    \/ \E c \in Callers : Progress(c)
    \/ EventLoop /\ UNCHANGED <<gitVars, jobVars, runVars>>
    \/ Network
    \/ \E j \in Callers : StrayRuns(j)

Spec == Init /\ [][Next]_vars

=============================================================================
