------------------------------ MODULE SshProofs ------------------------------
(***************************************************************************)
(* Proofs that the shared connection is never left open and forgotten, and *)
(* that one fault is forgiven, for any number of callers and of troubles,  *)
(* with and without a jump host.                                           *)
(***************************************************************************)
EXTENDS SshProperties, TLAPS

(* The state of the connection as the proofs see it: of what is run over   *)
(* it, only the command a caller is at.                                    *)
seen == <<sshVars, step>>

(* What a step of the specification is for the connection.                 *)
Seen ==
    \/ \E c \in Callers :
          /\ \/ Connection(c) \/ RunRaises(c) \/ ConnectFails(c)
             \/ RunTimesOut(c) \/ Cancelled(c)
          /\ UNCHANGED step
    \/ \E c \in Callers : Answered(c)
    \/ \E i \in Links : (LinkCloses(i) \/ TunnelCloses(i) \/ Drops(i)) /\ UNCHANGED step
    \/ UNCHANGED seen

LEMMA StepIsSeen == [Next]_vars => Seen
<1>1. ASSUME NEW c \in Callers, Progress(c) PROVE Seen
  <2>1. CASE Connection(c) /\ UNCHANGED <<gitVars, jobVars, runVars>>
    BY <2>1 DEF Seen, jobVars
  <2>2. CASE RunRaises(c) /\ LetsGo(c)
    BY <2>2 DEF Seen, LetsGo, jobVars
  <2>3. CASE Runs(c)
    BY <2>3 DEF Seen, Runs, seen, jobVars
  <2>4. CASE Answered(c)
    BY <2>4 DEF Seen
  <2>. QED  BY <1>1, <2>1, <2>2, <2>3, <2>4 DEF Progress
<1>2. CASE EventLoop /\ UNCHANGED <<gitVars, jobVars, runVars>>
    BY <1>2 DEF Seen, EventLoop, jobVars
<1>3. CASE Network
    BY <1>3 DEF Network, Seen, LetsGo, jobVars
<1>4. ASSUME NEW j \in Callers, StrayRuns(j) PROVE Seen
    BY <1>4 DEF Seen, StrayRuns, seen, jobVars
<1>5. CASE UNCHANGED vars
    BY <1>5 DEF Seen, seen, vars, jobVars
<1>. QED  BY <1>1, <1>2, <1>3, <1>4, <1>5 DEF Next

-----------------------------------------------------------------------------
(* Types.                                                                  *)

LinkState == {"none", "open", "closing", "closed"}

(* An error leaves everything in its type.                                 *)
LEMMA FailsTypes ==
    ASSUME SshTypeOK, NEW c \in Callers, NEW t \in [Links -> LinkState], Fails(c, t)
    PROVE  /\ link' \in [Links -> LinkState] /\ tunnel' \in [Links -> LinkState]
           /\ _conn' \in Links \cup {0} /\ _tunnel' \in Links \cup {0}
           /\ attempt' \in [Callers -> 1..2]
           /\ \E where \in {"get", "close", "untunnel", "raised"}, i \in Links \cup {0} :
                 Goto(c, where, i)
    BY DEF SshTypeOK, LinkState, Fails, ClosesConn, ClosesTunnel

LEMMA SshTypes == SshTypeOK /\ Seen => SshTypeOK'
<1>. SUFFICES ASSUME SshTypeOK, Seen PROVE SshTypeOK'
    OBVIOUS
<1>. USE SshAssumption DEF SshTypeOK, Goto, linkVars, selfVars, callVars, boundVars
<1>1. ASSUME NEW c \in Callers, Connection(c) PROVE SshTypeOK'
  <2>1. CASE Call(c)
    BY <2>1 DEF Call
  <2>2. CASE GetsConn(c)
    BY <2>2 DEF GetsConn
  <2>3. CASE OpensConn(c)
    BY <2>3 DEF OpensConn
  <2>4. CASE TunnelOpens(c)
    BY <2>4 DEF TunnelOpens
  <2>5. CASE Connects(c)
    BY <2>5 DEF Connects
  <2>6. CASE CloseReturns(c)
    BY <2>6 DEF CloseReturns, ClosesTunnel
  <2>7. CASE UntunnelReturns(c)
    BY <2>7 DEF UntunnelReturns
  <2>. QED  BY <1>1, <2>1, <2>2, <2>3, <2>4, <2>5, <2>6, <2>7 DEF Connection
<1>2. ASSUME NEW c \in Callers, RunRaises(c) PROVE SshTypeOK'
    BY <1>2, FailsTypes DEF RunRaises, LinkState
<1>3. ASSUME NEW c \in Callers, ConnectFails(c) PROVE SshTypeOK'
  <2>. DEFINE t == [tunnel EXCEPT ![using[c]] = IF @ = "open" THEN "closing" ELSE @]
  <2>1. t \in [Links -> LinkState]
    BY DEF LinkState
  <2>2. Fails(c, t)
    BY <1>3 DEF ConnectFails
  <2>3. /\ link' \in [Links -> LinkState] /\ tunnel' \in [Links -> LinkState]
        /\ _conn' \in Links \cup {0} /\ _tunnel' \in Links \cup {0}
        /\ attempt' \in [Callers -> 1..2]
        /\ \E where \in {"get", "close", "untunnel", "raised"}, i \in Links \cup {0} :
              Goto(c, where, i)
    <3>. HIDE DEF t, SshTypeOK
    <3>. QED  BY <2>1, <2>2, FailsTypes
  <2>. QED  BY <1>3, <2>3
            DEF ConnectFails, Fault, Trouble, LockAfterError, LinkState
<1>4. ASSUME NEW c \in Callers, RunTimesOut(c) PROVE SshTypeOK'
    BY <1>4, FailsTypes DEF RunTimesOut, Fault, Trouble, LinkState
<1>5. ASSUME NEW c \in Callers, Cancelled(c) PROVE SshTypeOK'
    BY <1>5 DEF Cancelled, Trouble, LockAfterError
<1>6. ASSUME NEW c \in Callers, Answered(c) PROVE SshTypeOK'
    BY <1>6 DEF Answered, Returns, Attempts
<1>7. ASSUME NEW i \in Links, LinkCloses(i) \/ TunnelCloses(i) PROVE SshTypeOK'
    BY <1>7 DEF LinkCloses, TunnelCloses
<1>8. ASSUME NEW i \in Links, Drops(i) PROVE SshTypeOK'
    BY <1>8 DEF Drops, Fault, Trouble
<1>9. CASE UNCHANGED seen
    BY <1>9 DEF seen, sshVars
<1>. QED  BY <1>1, <1>2, <1>3, <1>4, <1>5, <1>6, <1>7, <1>8, <1>9 DEF Seen

-----------------------------------------------------------------------------
(* The inductive invariant.  While someone opens a connection, under the   *)
(* lock, the last one is gone; whoever closes one is done with it before   *)
(* _conn is another; and a caller at its second try finds no connection, or *)
(* one that nobody has an error on.                                        *)

Opening(c) == pc[c] \in {"tunnel", "connect"}

OpeningHasLock ==
    \A c \in Callers : Opening(c) =>
        /\ lock = c
        /\ IsClosed(link, _conn)
        /\ using[c] \in Links /\ using[c] # _tunnel
        /\ tunnel[using[c]] # "closing"

ClosingKeepsConn ==
    \A c \in Callers :
        /\ pc[c] = "close" => using[c] = _conn \/ IsClosed(link, _conn)
        /\ pc[c] = "untunnel" => IsClosed(link, _conn)

UsedIsMade ==
    /\ _conn # 0 => link[_conn] # "none"
    /\ _tunnel # 0 => link[_tunnel] # "none"
    /\ \A c \in Callers : pc[c] = "run" => using[c] \in Links /\ link[using[c]] # "none"

(* At the second try of a call that has two.                               *)
Again(c) == attempt[c] = 2 /\ Commands[step[c]] # "setup"

QuietBeforeFaults ==
    faults = 0 =>
        /\ \A i \in Links : {link[i], tunnel[i]} \subseteq {"none", "open"}
        /\ \A c \in Callers : ~Again(c) /\ pc[c] \notin {"close", "untunnel"}

Settled ==
    /\ _conn # 0 /\ link[_conn] = "open" /\ tunnel[_conn] # "closing"
    /\ \A c \in Callers : ~Pending(c)

AgainIsSettled ==
    faults = 1 =>
        \A c \in Callers : Again(c) =>
            /\ IsClosed(link, _conn) \/ Settled
            /\ pc[c] = "run" => link[using[c]] = "open"

LinkParts == LinkIsKept /\ OpeningHasLock /\ ClosingKeepsConn /\ UsedIsMade

StepOK == step \in [Callers -> 1..Len(Commands)]

LinkInv == SshTypeOK /\ StepOK /\ LinkParts

FaultParts == QuietBeforeFaults /\ AgainIsSettled /\ OneFaultIsForgiven

SshInv == LinkInv /\ FaultParts

(* A command is followed by a command.                                     *)
LEMMA StepTypes == StepOK /\ Seen => StepOK'
<1>1. Len(Commands) = 7
    BY DEF Commands
<1>2. ASSUME StepOK, NEW c \in Callers, Answered(c) PROVE StepOK'
    BY <1>1, <1>2 DEF StepOK, Answered, NextStep
<1>. QED
    BY <1>2 DEF Seen, StepOK, seen

(* No step forgets a connection that is open.                              *)
LEMMA LinkSteps == LinkInv /\ Seen => LinkInv'
<1>. SUFFICES ASSUME LinkInv, Seen PROVE LinkInv'
    OBVIOUS
<1>types. SshTypeOK /\ SshTypeOK' /\ StepOK'
    BY SshTypes, StepTypes DEF LinkInv
<1>zero. 0 \notin Links
    BY DEF Links
<1>. USE SshAssumption, <1>zero DEF Goto, linkVars, selfVars, callVars, boundVars
<1>1. ASSUME NEW c \in Callers, Call(c) PROVE LinkParts'
    BY <1>types, <1>1 DEF LinkInv, LinkParts, SshTypeOK, LinkIsKept, OpeningHasLock, Opening,
                      ClosingKeepsConn, UsedIsMade, IsClosed, Call
<1>2. ASSUME NEW c \in Callers, GetsConn(c) PROVE LinkParts'
    BY <1>types, <1>2 DEF LinkInv, LinkParts, SshTypeOK, LinkIsKept, OpeningHasLock, Opening,
                      ClosingKeepsConn, UsedIsMade, IsClosed, GetsConn
<1>3. ASSUME NEW c \in Callers, OpensConn(c) PROVE LinkParts'
  <2>1. LinkIsKept'
    BY <1>types, <1>3 DEF LinkInv, LinkParts, SshTypeOK, LinkIsKept, OpeningHasLock, Opening,
       ClosingKeepsConn, UsedIsMade, IsClosed, OpensConn, MayOpen, Unused
  <2>2. OpeningHasLock'
    BY <1>types, <1>3 DEF LinkInv, LinkParts, SshTypeOK, LinkIsKept, OpeningHasLock, Opening,
       ClosingKeepsConn, UsedIsMade, IsClosed, OpensConn, MayOpen, Unused
  <2>3. ClosingKeepsConn'
    BY <1>types, <1>3 DEF LinkInv, LinkParts, SshTypeOK, LinkIsKept, OpeningHasLock, Opening,
       ClosingKeepsConn, UsedIsMade, IsClosed, OpensConn, MayOpen, Unused
  <2>4. UsedIsMade'
    BY <1>types, <1>3 DEF LinkInv, LinkParts, SshTypeOK, LinkIsKept, OpeningHasLock, Opening,
       ClosingKeepsConn, UsedIsMade, IsClosed, OpensConn, MayOpen, Unused
  <2>. QED  BY <2>1, <2>2, <2>3, <2>4 DEF LinkParts
<1>4. ASSUME NEW c \in Callers, TunnelOpens(c) PROVE LinkParts'
    BY <1>types, <1>4 DEF LinkInv, LinkParts, SshTypeOK, LinkIsKept, OpeningHasLock, Opening,
                      ClosingKeepsConn, UsedIsMade, IsClosed, TunnelOpens
<1>5. ASSUME NEW c \in Callers, Connects(c) PROVE LinkParts'
    BY <1>types, <1>5 DEF LinkInv, LinkParts, SshTypeOK, LinkIsKept, OpeningHasLock, Opening,
                      ClosingKeepsConn, UsedIsMade, IsClosed, Connects, Pending, Links
<1>6. ASSUME NEW c \in Callers, CloseReturns(c) PROVE LinkParts'
  <2>1. LinkIsKept'
    BY <1>types, <1>6 DEF LinkInv, LinkParts, SshTypeOK, LinkIsKept, OpeningHasLock, Opening,
       ClosingKeepsConn, UsedIsMade, IsClosed, CloseReturns, ClosesTunnel
  <2>2. OpeningHasLock'
    <3>. SUFFICES ASSUME NEW x \in Callers, Opening(x)'
         PROVE  /\ (lock = x /\ IsClosed(link, _conn))'
                /\ (using[x] \in Links /\ using[x] # _tunnel)'
                /\ (tunnel[using[x]] # "closing")'
        BY DEF OpeningHasLock
    <3>1. x # c /\ Opening(x) /\ using'[x] = using[x]
        BY <1>types, <1>6 DEF Opening, CloseReturns, ClosesTunnel, SshTypeOK
    <3>2. lock' = x /\ using'[x] \in Links /\ using'[x] # _tunnel /\ tunnel[using'[x]] # "closing"
        BY <1>6, <3>1 DEF LinkInv, LinkParts, OpeningHasLock, CloseReturns
    <3>3. IsClosed(link, _conn)'
        BY <1>6 DEF CloseReturns, IsClosed
    <3>4. CASE IsClosed(tunnel, _tunnel)
        BY <1>6, <3>2, <3>3, <3>4 DEF CloseReturns, ClosesTunnel
    <3>5. CASE ~IsClosed(tunnel, _tunnel)
        BY <1>types, <1>6, <3>2, <3>3, <3>5 DEF CloseReturns, ClosesTunnel, SshTypeOK
    <3>. QED  BY <3>4, <3>5
  <2>3. ClosingKeepsConn'
    BY <1>types, <1>6 DEF LinkInv, LinkParts, SshTypeOK, LinkIsKept, OpeningHasLock, Opening,
       ClosingKeepsConn, UsedIsMade, IsClosed, CloseReturns, ClosesTunnel
  <2>4. UsedIsMade'
    BY <1>types, <1>6 DEF LinkInv, LinkParts, SshTypeOK, LinkIsKept, OpeningHasLock, Opening,
       ClosingKeepsConn, UsedIsMade, IsClosed, CloseReturns, ClosesTunnel
  <2>. QED  BY <2>1, <2>2, <2>3, <2>4 DEF LinkParts
<1>7. ASSUME NEW c \in Callers, UntunnelReturns(c) PROVE LinkParts'
  <2>1. LinkIsKept'
    BY <1>types, <1>7 DEF LinkInv, LinkParts, SshTypeOK, LinkIsKept, OpeningHasLock, Opening,
       ClosingKeepsConn, UsedIsMade, IsClosed, UntunnelReturns
  <2>2. OpeningHasLock'
    BY <1>types, <1>7 DEF LinkInv, LinkParts, SshTypeOK, LinkIsKept, OpeningHasLock, Opening,
       ClosingKeepsConn, UsedIsMade, IsClosed, UntunnelReturns
  <2>3. ClosingKeepsConn'
    BY <1>types, <1>7 DEF LinkInv, LinkParts, SshTypeOK, LinkIsKept, OpeningHasLock, Opening,
       ClosingKeepsConn, UsedIsMade, IsClosed, UntunnelReturns
  <2>4. UsedIsMade'
    BY <1>types, <1>7 DEF LinkInv, LinkParts, SshTypeOK, LinkIsKept, OpeningHasLock, Opening,
       ClosingKeepsConn, UsedIsMade, IsClosed, UntunnelReturns
  <2>. QED  BY <2>1, <2>2, <2>3, <2>4 DEF LinkParts
<1>8. ASSUME NEW c \in Callers, RunRaises(c) PROVE LinkParts'
  <2>1. LinkIsKept'
    BY <1>types, <1>8 DEF LinkInv, LinkParts, SshTypeOK, LinkIsKept, OpeningHasLock, Opening,
       ClosingKeepsConn, UsedIsMade, IsClosed, RunRaises, Fails, ClosesConn, ClosesTunnel
  <2>2. OpeningHasLock'
    BY <1>types, <1>8 DEF LinkInv, LinkParts, SshTypeOK, LinkIsKept, OpeningHasLock, Opening,
       ClosingKeepsConn, UsedIsMade, IsClosed, RunRaises, Fails, ClosesConn, ClosesTunnel
  <2>3. ClosingKeepsConn'
    BY <1>types, <1>8 DEF LinkInv, LinkParts, SshTypeOK, LinkIsKept, OpeningHasLock, Opening,
       ClosingKeepsConn, UsedIsMade, IsClosed, RunRaises, Fails, ClosesConn, ClosesTunnel
  <2>4. UsedIsMade'
    BY <1>types, <1>8 DEF LinkInv, LinkParts, SshTypeOK, LinkIsKept, OpeningHasLock, Opening,
       ClosingKeepsConn, UsedIsMade, IsClosed, RunRaises, Fails, ClosesConn, ClosesTunnel
  <2>. QED  BY <2>1, <2>2, <2>3, <2>4 DEF LinkParts
<1>9. ASSUME NEW c \in Callers, ConnectFails(c) PROVE LinkParts'
    BY <1>types, <1>9 DEF LinkInv, LinkParts, SshTypeOK, LinkIsKept, OpeningHasLock, Opening,
       ClosingKeepsConn, UsedIsMade, IsClosed, ConnectFails, Fails, ClosesConn, ClosesTunnel,
       LockAfterError
<1>10. ASSUME NEW c \in Callers, RunTimesOut(c) PROVE LinkParts'
  <2>1. LinkIsKept'
    BY <1>types, <1>10 DEF LinkInv, LinkParts, SshTypeOK, LinkIsKept, OpeningHasLock, Opening,
       ClosingKeepsConn, UsedIsMade, IsClosed, RunTimesOut, Fails, ClosesConn, ClosesTunnel
  <2>2. OpeningHasLock'
    BY <1>types, <1>10 DEF LinkInv, LinkParts, SshTypeOK, LinkIsKept, OpeningHasLock, Opening,
       ClosingKeepsConn, UsedIsMade, IsClosed, RunTimesOut, Fails, ClosesConn, ClosesTunnel
  <2>3. ClosingKeepsConn'
    BY <1>types, <1>10 DEF LinkInv, LinkParts, SshTypeOK, LinkIsKept, OpeningHasLock, Opening,
       ClosingKeepsConn, UsedIsMade, IsClosed, RunTimesOut, Fails, ClosesConn, ClosesTunnel
  <2>4. UsedIsMade'
    BY <1>types, <1>10 DEF LinkInv, LinkParts, SshTypeOK, LinkIsKept, OpeningHasLock, Opening,
       ClosingKeepsConn, UsedIsMade, IsClosed, RunTimesOut, Fails, ClosesConn, ClosesTunnel
  <2>. QED  BY <2>1, <2>2, <2>3, <2>4 DEF LinkParts
<1>11. ASSUME NEW c \in Callers, Cancelled(c) PROVE LinkParts'
    BY <1>types, <1>11 DEF LinkInv, LinkParts, SshTypeOK, LinkIsKept, OpeningHasLock, Opening,
                      ClosingKeepsConn, UsedIsMade, IsClosed, Cancelled, LockAfterError
<1>12. ASSUME NEW c \in Callers, Answered(c) PROVE LinkParts'
    BY <1>types, <1>12 DEF LinkInv, LinkParts, SshTypeOK, LinkIsKept, OpeningHasLock, Opening,
                      ClosingKeepsConn, UsedIsMade, IsClosed, Answered, Returns
<1>13. ASSUME NEW i \in Links, LinkCloses(i) \/ TunnelCloses(i) PROVE LinkParts'
    BY <1>types, <1>13 DEF LinkInv, LinkParts, SshTypeOK, LinkIsKept, OpeningHasLock, Opening,
                      ClosingKeepsConn, UsedIsMade, IsClosed, LinkCloses, TunnelCloses
<1>14. ASSUME NEW i \in Links, Drops(i) PROVE LinkParts'
    BY <1>types, <1>14 DEF LinkInv, LinkParts, SshTypeOK, LinkIsKept, OpeningHasLock, Opening,
                      ClosingKeepsConn, UsedIsMade, IsClosed, Drops
<1>15. CASE UNCHANGED seen
    BY <1>types, <1>15 DEF LinkInv, LinkParts, SshTypeOK, LinkIsKept, OpeningHasLock, Opening,
                      ClosingKeepsConn, UsedIsMade, IsClosed, seen, sshVars
<1>. QED
    BY <1>types, <1>1, <1>2, <1>3, <1>4, <1>5, <1>6, <1>7, <1>8, <1>9, <1>10, <1>11,
       <1>12, <1>13, <1>14, <1>15 DEF Seen, Connection, LinkInv

(* Nor does one fault make a call raise.                                   *)
LEMMA FaultSteps == SshInv /\ Seen => FaultParts'
<1>. SUFFICES ASSUME SshInv, Seen PROVE FaultParts'
    OBVIOUS
<1>types. LinkInv /\ SshTypeOK' /\ StepOK' /\ FaultParts
    BY SshTypes, StepTypes DEF SshInv, LinkInv
<1>zero. 0 \notin Links
    BY DEF Links
<1>. USE SshAssumption, <1>types, <1>zero DEF Goto, linkVars, selfVars, callVars, boundVars,
         LinkInv, LinkParts, FaultParts, SshTypeOK, StepOK, LinkIsKept, OpeningHasLock,
         Opening, ClosingKeepsConn, UsedIsMade, IsClosed, QuietBeforeFaults, AgainIsSettled, Again, Settled,
         OneFaultIsForgiven, Pending
<1>1. ASSUME NEW c \in Callers, Call(c), UNCHANGED step PROVE FaultParts'
    BY <1>1 DEF Call
<1>2. ASSUME NEW c \in Callers, GetsConn(c), UNCHANGED step PROVE FaultParts'
    BY <1>2 DEF GetsConn
<1>3. ASSUME NEW c \in Callers, OpensConn(c), UNCHANGED step PROVE FaultParts'
    BY <1>3 DEF OpensConn, MayOpen, Unused
<1>4. ASSUME NEW c \in Callers, TunnelOpens(c), UNCHANGED step PROVE FaultParts'
    BY <1>4 DEF TunnelOpens
<1>5. ASSUME NEW c \in Callers, Connects(c), UNCHANGED step PROVE FaultParts'
    BY <1>5 DEF Connects, Links
<1>6. ASSUME NEW c \in Callers, CloseReturns(c), UNCHANGED step PROVE FaultParts'
    BY <1>6 DEF CloseReturns, ClosesTunnel
<1>7. ASSUME NEW c \in Callers, UntunnelReturns(c), UNCHANGED step PROVE FaultParts'
    BY <1>7 DEF UntunnelReturns
<1>8. ASSUME NEW c \in Callers, RunRaises(c), UNCHANGED step PROVE FaultParts'
    BY <1>8 DEF RunRaises, Fails, ClosesConn, ClosesTunnel
<1>9. ASSUME NEW c \in Callers, ConnectFails(c), UNCHANGED step PROVE FaultParts'
    BY <1>9 DEF ConnectFails, Fault, Fails, ClosesConn, ClosesTunnel, LockAfterError
<1>10. ASSUME NEW c \in Callers, RunTimesOut(c), UNCHANGED step PROVE FaultParts'
    BY <1>10 DEF RunTimesOut, Fault, Fails, ClosesConn, ClosesTunnel
<1>11. ASSUME NEW c \in Callers, Cancelled(c), UNCHANGED step PROVE FaultParts'
    BY <1>11 DEF Cancelled, LockAfterError
<1>12. ASSUME NEW c \in Callers, Answered(c) PROVE FaultParts'
  <2>1. pc'[c] \in {"get", "returned", "failed"} /\ ~Again(c)'
    <3>1. CASE answer[c].exit = 0 /\ step[c] < Len(Commands)
        BY <1>12, <3>1 DEF Answered, Returns, Attempts
    <3>2. CASE ~(answer[c].exit = 0 /\ step[c] < Len(Commands))
        BY <1>12, <3>2 DEF Answered, Returns
    <3>. QED  BY <3>1, <3>2
  <2>2. \A x \in Callers \ {c} :
            /\ pc'[x] = pc[x] /\ using'[x] = using[x]
            /\ attempt'[x] = attempt[x] /\ step'[x] = step[x]
        BY <1>12 DEF Answered, Returns
  <2>3. UNCHANGED <<link, tunnel, _conn, faults>>
        BY <1>12 DEF Answered, Returns
  <2>4. \A x \in Callers : /\ Pending(x)' => Pending(x)
                           /\ Again(x)' => Again(x) /\ x # c
        BY <2>1, <2>2, <2>3
  <2>. HIDE DEF Again, Pending
  <2>5. QuietBeforeFaults'
        BY <2>1, <2>2, <2>3, <2>4
  <2>6. AgainIsSettled'
        BY <2>2, <2>3, <2>4
  <2>7. OneFaultIsForgiven'
        BY <2>1, <2>2, <2>3
  <2>. QED  BY <2>5, <2>6, <2>7
<1>13. ASSUME NEW i \in Links, LinkCloses(i), UNCHANGED step PROVE FaultParts'
    BY <1>13 DEF LinkCloses
<1>14. ASSUME NEW i \in Links, TunnelCloses(i), UNCHANGED step PROVE FaultParts'
    BY <1>14 DEF TunnelCloses
<1>15. ASSUME NEW i \in Links, Drops(i), UNCHANGED step PROVE FaultParts'
    BY <1>15 DEF Drops, Fault
<1>16. CASE UNCHANGED seen
    BY <1>16 DEF seen, sshVars
<1>. QED
    BY <1>1, <1>2, <1>3, <1>4, <1>5, <1>6, <1>7, <1>8, <1>9, <1>10, <1>11,
       <1>12, <1>13, <1>14, <1>15, <1>16 DEF Seen, Connection

-----------------------------------------------------------------------------

LEMMA SshStart == Init => SshInv
    BY SshAssumption DEF Init, SshInit, SshInv, LinkInv, SshTypeOK, StepOK, Commands,
       LinkParts, LinkIsKept, OpeningHasLock, Opening, ClosingKeepsConn, UsedIsMade,
       FaultParts, QuietBeforeFaults, AgainIsSettled, OneFaultIsForgiven, Again, Links

LEMMA SshInductive == Spec => []SshInv
<1>1. SshInv /\ [Next]_vars => SshInv'
    BY StepIsSeen, LinkSteps, FaultSteps DEF SshInv
<1>. QED  BY SshStart, <1>1, PTL DEF Spec

(* The connection that is open is the one the next call will be given,     *)
(* for any number of callers that open, close, lose and share it, and are  *)
(* cancelled while they do.                                                *)
THEOREM LinkKept == Spec => []LinkIsKept
<1>1. SshInv => LinkIsKept
    BY DEF SshInv, LinkInv, LinkParts
<1>. QED  BY SshInductive, <1>1, PTL

(* The second try of _run_ssh is answered after one fault, however many    *)
(* callers it hits.  The answer to a worktree add that runs a second time  *)
(* is that it failed.                                                      *)
THEOREM OneFaultForgiven == Spec => []OneFaultIsForgiven
<1>1. SshInv => OneFaultIsForgiven
    BY DEF SshInv, FaultParts
<1>. QED  BY SshInductive, <1>1, PTL

-----------------------------------------------------------------------------
(* The checkouts.  What is run over the connection: c has its answer, goes *)
(* on, or is let go; its command changes its own ref and worktree only.    *)

Unreturned == {"get", "tunnel", "connect", "run", "close", "untunnel", "raised", "cancelled"}

CheckoutStep ==
    \/ UNCHANGED <<gitVars, jobVars, runVars, pc>>
    \/ \E c \in Callers :
          \/ /\ \E where \in Unreturned : pc' = [pc EXCEPT ![c] = where]
             /\ LetsGo(c) \/ UNCHANGED <<gitVars, jobVars, runVars>>
          \/ Runs(c) \/ Answered(c) \/ StrayRuns(c)

LEMMA StepIsCheckout == [Next]_vars => CheckoutStep
<1>. SUFFICES ASSUME [Next]_vars PROVE CheckoutStep
    OBVIOUS
<1>. DEFINE Moves(c) == \E where \in Unreturned : pc' = [pc EXCEPT ![c] = where]
<1>1. ASSUME NEW c \in Callers, Connection(c) PROVE Moves(c)
    BY <1>1 DEF Connection, Call, GetsConn, OpensConn, TunnelOpens, Connects,
                CloseReturns, UntunnelReturns, ClosesTunnel, Goto, Unreturned
<1>2. ASSUME NEW c \in Callers, NEW t, Fails(c, t) PROVE Moves(c)
    BY <1>2 DEF Fails, ClosesConn, ClosesTunnel, Goto, Unreturned
<1>3. ASSUME NEW c \in Callers, RunRaises(c) \/ ConnectFails(c) \/ RunTimesOut(c) PROVE Moves(c)
    BY <1>2, <1>3 DEF RunRaises, ConnectFails, RunTimesOut
<1>4. ASSUME NEW c \in Callers, Cancelled(c) PROVE Moves(c)
    BY <1>4 DEF Cancelled, Goto, Unreturned
<1>5. ASSUME NEW i \in Links, LinkCloses(i) \/ TunnelCloses(i) \/ Drops(i) PROVE UNCHANGED pc
    BY <1>5 DEF LinkCloses, TunnelCloses, Drops, callVars
<1>. HIDE DEF Moves
<1>6. ASSUME NEW c \in Callers, Progress(c) PROVE CheckoutStep
    BY <1>1, <1>3, <1>6 DEF Progress, CheckoutStep, Moves
<1>7. CASE Network
    BY <1>3, <1>4, <1>5, <1>7 DEF Network, CheckoutStep, Moves
<1>8. CASE EventLoop /\ UNCHANGED <<gitVars, jobVars, runVars>>
    BY <1>5, <1>8 DEF EventLoop, CheckoutStep
<1>9. CASE UNCHANGED vars
    BY <1>9 DEF vars, sshVars, callVars, CheckoutStep
<1>. QED  BY <1>6, <1>7, <1>8, <1>9 DEF Next, CheckoutStep

(* Which command is which.                                                 *)
LEMMA CommandNumbers ==
    /\ Len(Commands) = 7
    /\ \A k \in 1..7 : /\ Commands[k] = "ls-remote" <=> k = 2
                       /\ Commands[k] = "fetch" <=> k = 3
                       /\ Commands[k] = "worktree add" <=> k = 4
                       /\ Commands[k] = "rev-parse" <=> k = 5
                       /\ Commands[k] = "update-ref" <=> k = 6
    BY DEF Commands

GitTypeOK ==
    /\ pc \in [Callers -> Unreturned \cup {"idle", "returned", "failed"}]
    /\ ref \in [Callers -> Reference] /\ worktree \in [Callers -> Reference]
    /\ git_ref \in [Callers -> Reference]
    /\ resolved_ref \in [Callers -> Reference] /\ git_sha \in [Callers -> Reference]
    /\ step \in [Callers -> 1..7]
    /\ answer \in [Callers -> [exit : -1..1, head : Reference, commit : Reference]]
    /\ stray \in [Callers -> SUBSET (1..7)]

(* How far job j is, and what it, the head node and its strays have by     *)
(* now: there is a ref or a worktree only when the branch is resolved, and *)
(* then they are that branch's.                                            *)
OwnBranch(j) ==
    /\ git_ref[j] # NoRef => resolved_ref[j] = git_ref[j] /\ step[j] # 2
    /\ step[j] > 2 => resolved_ref[j] # NoRef
    /\ step[j] <= 2 => ref[j] = NoRef /\ worktree[j] = NoRef /\ stray[j] = {}
    /\ ref[j] \in {NoRef, resolved_ref[j]} /\ worktree[j] \in {NoRef, resolved_ref[j]}

AnswerIsKnown(j) ==
    /\ step[j] = 2 /\ answer[j] # Nothing => answer[j].head # NoRef
    /\ step[j] = 4 /\ answer[j].exit = 0 => worktree[j] # NoRef
    /\ step[j] = 5 /\ answer[j] # Nothing => answer[j].commit = worktree[j]
    /\ step[j] > 4 => worktree[j] # NoRef
    /\ step[j] > 5 => git_sha[j] = worktree[j]
    /\ pc[j] = "returned" => step[j] = 7

CheckoutInv == GitTypeOK /\ \A j \in Callers : OwnBranch(j) /\ AnswerIsKnown(j)

(* What the head node does for j, asked or not.                            *)
LEMMA ExecutesOwn ==
    ASSUME CheckoutInv, NEW j \in Callers, NEW k \in 1..7, Executes(j, Commands[k]),
           k = step[j] \/ k \in stray[j]
    PROVE  /\ ref' \in [Callers -> Reference] /\ worktree' \in [Callers -> Reference]
           /\ \A x \in Callers \ {j} : ref'[x] = ref[x] /\ worktree'[x] = worktree[x]
           /\ step[j] <= 2 => ref'[j] = NoRef /\ worktree'[j] = NoRef
           /\ {ref'[j], worktree'[j]} \subseteq {NoRef, resolved_ref[j]}
           /\ worktree[j] # NoRef => worktree'[j] = worktree[j]
           /\ k = 4 /\ CanAdd(j) => worktree'[j] # NoRef
           /\ k = 5 => worktree' = worktree
<1>1. step[j] <= 2 => k <= 2
    BY DEF CheckoutInv, OwnBranch, GitTypeOK
<1>2. NoRef \in Reference
    BY DEF Reference
<1>3. /\ k = 3 => ref' = [ref EXCEPT ![j] = resolved_ref[j]]
      /\ k = 6 => ref' = [ref EXCEPT ![j] = NoRef]
      /\ k \notin {3, 6} => ref' = ref
    BY CommandNumbers DEF Executes, JobRef
<1>4. IF k = 4 /\ CanAdd(j) THEN worktree' = [worktree EXCEPT ![j] = ref[j]]
                            ELSE worktree' = worktree
    BY CommandNumbers DEF Executes, JobRef
<1>. QED  BY <1>1, <1>2, <1>3, <1>4 DEF CheckoutInv, OwnBranch, GitTypeOK, CanAdd, JobRef

LEMMA CheckoutSteps == CheckoutInv /\ CheckoutStep => CheckoutInv'
<1>. SUFFICES ASSUME CheckoutInv, CheckoutStep PROVE CheckoutInv'
    OBVIOUS
<1>. USE DEF gitVars, jobVars, runVars
<1>1. CASE UNCHANGED <<gitVars, jobVars, runVars, pc>>
    BY <1>1 DEF CheckoutInv, GitTypeOK, OwnBranch, AnswerIsKnown
<1>2. ASSUME NEW c \in Callers, NEW where \in Unreturned,
             pc' = [pc EXCEPT ![c] = where], UNCHANGED <<gitVars, jobVars, runVars>>
      PROVE  CheckoutInv'
    BY <1>2 DEF CheckoutInv, GitTypeOK, OwnBranch, AnswerIsKnown, Unreturned
<1>3. ASSUME NEW c \in Callers, NEW where \in Unreturned,
             pc' = [pc EXCEPT ![c] = where], LetsGo(c)
      PROVE  CheckoutInv'
  <2>1. answer' = [answer EXCEPT ![c] = Nothing] /\ UNCHANGED <<gitVars, jobVars>>
    BY <1>3 DEF LetsGo, CheckoutInv, GitTypeOK
  <2>2. stray' = stray \/ (step[c] \in {3, 4, 6} /\ stray' = [stray EXCEPT ![c] = @ \cup {step[c]}])
    BY <1>3, CommandNumbers DEF LetsGo, CheckoutInv, GitTypeOK
  <2>3. GitTypeOK'
    BY <1>3, <2>1, <2>2 DEF CheckoutInv, GitTypeOK, Nothing, Reference, Unreturned
  <2>4. ASSUME NEW j \in Callers PROVE (OwnBranch(j) /\ AnswerIsKnown(j))'
    <3>1. OwnBranch(j)'
        BY <2>1, <2>2 DEF CheckoutInv, GitTypeOK, OwnBranch
    <3>2. AnswerIsKnown(j)'
        BY <1>3, <2>1 DEF CheckoutInv, GitTypeOK, AnswerIsKnown, Nothing, Unreturned
    <3>. QED  BY <3>1, <3>2
  <2>. QED  BY <2>3, <2>4 DEF CheckoutInv
<1>4. ASSUME NEW c \in Callers, Runs(c) PROVE CheckoutInv'
  <2>. DEFINE k == step[c]
  <2>1. Executes(c, Commands[k]) /\ UNCHANGED <<pc, jobVars, stray>>
    BY <1>4 DEF Runs, sshVars, callVars
  <2>2. PICK a \in Answers(c, Commands[k]) : answer' = [answer EXCEPT ![c] = a]
    BY <1>4 DEF Runs
  <2>3. k \in 1..7
    BY DEF CheckoutInv, GitTypeOK
  <2>4. /\ a \in [exit : -1..1, head : Reference, commit : Reference]
        /\ k = 2 => a.head # NoRef
        /\ k = 4 /\ a.exit = 0 => CanAdd(c)
        /\ k = 5 => a.commit = worktree[c]
    <3>1. PICK e \in {0, 1}, h \in Reference, m \in Reference :
              /\ a = [exit |-> e, head |-> h, commit |-> m]
              /\ Commands[k] = "ls-remote" => h \in Branches
              /\ Commands[k] = "rev-parse" => m = worktree[c]
              /\ e = 0 => Succeeds(c, Commands[k])
        <4>1. a.exit \in {0, 1} /\ (a.exit = 0 => Succeeds(c, Commands[k]))
            BY <2>2 DEF Answers
        <4>2. a.head \in Reference /\ (Commands[k] = "ls-remote" => a.head \in Branches)
            BY <2>2 DEF Answers, Reference
        <4>3. a.commit \in Reference /\ (Commands[k] = "rev-parse" => a.commit = worktree[c])
            BY <2>2 DEF Answers, CheckoutInv, GitTypeOK, Reference
        <4>4. a = [exit |-> a.exit, head |-> a.head, commit |-> a.commit]
            BY <2>2 DEF Answers
        <4>. QED  BY <4>1, <4>2, <4>3, <4>4
    <3>2. a \in [exit : -1..1, head : Reference, commit : Reference]
        BY <3>1
    <3>3. a.exit = e /\ a.head = h /\ a.commit = m
        BY <3>1
    <3>4. k = 2 => h # NoRef
        BY <2>3, <3>1, CommandNumbers, CheckoutAssumption
    <3>5. k = 4 /\ e = 0 => CanAdd(c)
        BY <2>3, <3>1, CommandNumbers DEF Succeeds
    <3>6. k = 5 => m = worktree[c]
        BY <2>3, <3>1, CommandNumbers
    <3>. QED  BY <3>2, <3>3, <3>4, <3>5, <3>6
  <2>. HIDE DEF k
  <2>5. /\ ref' \in [Callers -> Reference] /\ worktree' \in [Callers -> Reference]
        /\ \A x \in Callers \ {c} : ref'[x] = ref[x] /\ worktree'[x] = worktree[x]
        /\ step[c] <= 2 => ref'[c] = NoRef /\ worktree'[c] = NoRef
        /\ {ref'[c], worktree'[c]} \subseteq {NoRef, resolved_ref[c]}
        /\ worktree[c] # NoRef => worktree'[c] = worktree[c]
        /\ k = 4 /\ CanAdd(c) => worktree'[c] # NoRef
        /\ k = 5 => worktree' = worktree
    BY <2>1, <2>3, ExecutesOwn DEF k
  <2>6. GitTypeOK'
    BY <2>1, <2>2, <2>4, <2>5 DEF CheckoutInv, GitTypeOK
  <2>7. ASSUME NEW j \in Callers PROVE (OwnBranch(j) /\ AnswerIsKnown(j))'
    <3>1. OwnBranch(j)'
        BY <2>1, <2>5 DEF CheckoutInv, GitTypeOK, OwnBranch
    <3>2. AnswerIsKnown(j)'
        BY <2>1, <2>2, <2>4, <2>5 DEF CheckoutInv, GitTypeOK, AnswerIsKnown, k
    <3>. QED  BY <3>1, <3>2
  <2>. QED  BY <2>6, <2>7 DEF CheckoutInv
<1>5. ASSUME NEW c \in Callers, Answered(c) PROVE CheckoutInv'
  <2>1. /\ answer[c] # Nothing /\ answer' = [answer EXCEPT ![c] = Nothing]
        /\ resolved_ref' = IF step[c] = 2 THEN [resolved_ref EXCEPT ![c] = answer[c].head]
                                          ELSE resolved_ref
        /\ git_sha' = IF step[c] = 5 THEN [git_sha EXCEPT ![c] = answer[c].commit] ELSE git_sha
        /\ UNCHANGED <<ref, worktree, git_ref, stray>>
    BY <1>5, CommandNumbers DEF Answered, CheckoutInv, GitTypeOK
  <2>2. \/ /\ answer[c].exit = 0 /\ step[c] < 7
           /\ step' = [step EXCEPT ![c] = NextStep(c)] /\ pc' = [pc EXCEPT ![c] = "get"]
        \/ /\ answer[c].exit = 0 /\ step[c] = 7
           /\ step' = step /\ pc' = [pc EXCEPT ![c] = "returned"]
        \/ step' = step /\ pc' = [pc EXCEPT ![c] = "failed"]
    <3>1. CASE answer[c].exit = 0 /\ step[c] < Len(Commands)
        BY <1>5, <3>1, CommandNumbers DEF Answered, Returns, Goto
    <3>2. CASE answer[c].exit = 0 /\ ~(step[c] < Len(Commands))
        <4>1. step[c] \in 1..7
            BY DEF CheckoutInv, GitTypeOK
        <4>2. Len(Commands) = 7
            BY CommandNumbers
        <4>3. step[c] = 7
            BY <3>2, <4>1, <4>2
        <4>. QED  BY <1>5, <3>2, <4>3 DEF Answered, Returns, Goto
    <3>3. CASE answer[c].exit # 0
        BY <1>5, <3>3 DEF Answered, Returns, Goto
    <3>. QED  BY <3>1, <3>2, <3>3
  <2>3. GitTypeOK'
    <3>1. answer[c].head \in Reference /\ answer[c].commit \in Reference
          /\ Nothing \in [exit : -1..1, head : Reference, commit : Reference]
        BY DEF CheckoutInv, GitTypeOK, Nothing, Reference
    <3>2. (pc \in [Callers -> Unreturned \cup {"idle", "returned", "failed"}])'
        BY <2>2 DEF CheckoutInv, GitTypeOK, Unreturned
    <3>3. (step \in [Callers -> 1..7])'
        BY <2>2 DEF CheckoutInv, GitTypeOK, NextStep
    <3>. QED  BY <2>1, <3>1, <3>2, <3>3 DEF CheckoutInv, GitTypeOK
  <2>4. ASSUME NEW j \in Callers PROVE (OwnBranch(j) /\ AnswerIsKnown(j))'
    <3>1. OwnBranch(j)'
        BY <2>1, <2>2 DEF CheckoutInv, GitTypeOK, OwnBranch, AnswerIsKnown, NextStep
    <3>2. AnswerIsKnown(j)'
        BY <2>1, <2>2 DEF CheckoutInv, GitTypeOK, AnswerIsKnown, NextStep, Nothing
    <3>. QED  BY <3>1, <3>2
  <2>. QED  BY <2>3, <2>4 DEF CheckoutInv
<1>6. ASSUME NEW c \in Callers, StrayRuns(c) PROVE CheckoutInv'
    BY <1>6, ExecutesOwn DEF CheckoutInv, GitTypeOK, OwnBranch, AnswerIsKnown, StrayRuns, sshVars, callVars
<1>. QED  BY <1>1, <1>2, <1>3, <1>4, <1>5, <1>6 DEF CheckoutStep

LEMMA CheckoutStart == Init => CheckoutInv
    BY CheckoutAssumption DEF Init, SshInit, CheckoutInv, GitTypeOK, OwnBranch, AnswerIsKnown,
       Nothing, Reference, Unreturned

LEMMA CheckoutInductive == Spec => []CheckoutInv
<1>1. CheckoutInv /\ [Next]_vars => CheckoutInv'
    BY StepIsCheckout, CheckoutSteps
<1>. QED  BY CheckoutStart, <1>1, PTL DEF Spec

(* The types of the connection and of the checkouts, for every set of      *)
(* callers and of branches.                                                *)
THEOREM TypeCorrect == Spec => []TypeOK
<1>1. SshInv /\ CheckoutInv => TypeOK
    BY CommandNumbers DEF SshInv, LinkInv, CheckoutInv, GitTypeOK, TypeOK
<1>. QED  BY SshInductive, CheckoutInductive, <1>1, PTL

(* A checkout that succeeds is the job's own: the commit of its branch in  *)
(* its worktree, for any number of jobs on one bare clone, whatever was    *)
(* run twice or when nobody waited for it any more.                        *)
THEOREM CheckoutIsOwn == Spec => []ChecksOutItsOwn
<1>1. CheckoutInv => ChecksOutItsOwn
    BY DEF CheckoutInv, GitTypeOK, OwnBranch, AnswerIsKnown, ChecksOutItsOwn
<1>. QED  BY CheckoutInductive, <1>1, PTL

=============================================================================
