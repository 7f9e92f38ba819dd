---------------------------- MODULE SshConnection ----------------------------
(***************************************************************************)
(* The connection SlurmSSHBackend keeps to the head node.  All coroutines  *)
(* of the server share it: most run a command through _run_ssh, which      *)
(* connects on demand and, after a first error, closes the connection and  *)
(* tries once more; some take the connection in hand (uploads, SFTP, the   *)
(* tail of a log) and have no second try.                                  *)
(*                                                                         *)
(* asyncssh is modelled by what the backend relies on: close() begins a    *)
(* close that the event loop completes, is_closed() is true from then on,  *)
(* and a command raises when its connection is lost.                       *)
(***************************************************************************)
EXTENDS Integers, FiniteSets

CONSTANTS
    Callers,    \* the coroutines that use the connection
    Nobody,     \* not a caller
    ProxyJump,  \* is proxy_jump configured?
    MaxTroubles \* bound: faults of the network and cancelled callers

ASSUME SshAssumption ==
    Nobody \notin Callers /\ ProxyJump \in BOOLEAN /\ MaxTroubles \in Nat

VARIABLES
    link,     \* [Links -> state of the connection to the head node]
    tunnel,   \* [Links -> state of the one to the jump host it goes through]
    _conn,    \* SlurmSSHBackend._conn, 0 for None
    _tunnel,  \* SlurmSSHBackend._tunnel, 0 for None
    lock,     \* who holds SlurmSSHBackend._lock
    pc,       \* [Callers -> where the coroutine awaits]
    attempt,  \* [Callers -> 1, or 2 if an error is raised to the caller]
    using,    \* [Callers -> the link it uses, opens or waits for]
    faults,   \* how many times the network failed so far
    cancels   \* how many callers were cancelled so far

linkVars == <<link, tunnel>>
selfVars == <<_conn, _tunnel, lock>>
callVars == <<pc, attempt, using>>
boundVars == <<faults, cancels>>
sshVars  == <<linkVars, selfVars, callVars, boundVars>>

(* The first connection, and another after each trouble.                   *)
Links == 1..(MaxTroubles + 1)

SshTypeOK ==
    /\ link \in [Links -> {"none", "open", "closing", "closed"}]
    /\ tunnel \in [Links -> {"none", "open", "closing", "closed"}]
    /\ _conn \in Links \cup {0} /\ _tunnel \in Links \cup {0}
    /\ lock \in Callers \cup {Nobody}
    /\ pc \in [Callers -> {"idle", "get", "tunnel", "connect", "run", "close",
                           "untunnel", "returned", "raised", "failed", "cancelled"}]
    /\ attempt \in [Callers -> 1..2]
    /\ using \in [Callers -> Links \cup {0}]
    /\ faults \in Nat /\ cancels \in Nat /\ faults + cancels <= MaxTroubles

-----------------------------------------------------------------------------
(* _get_conn.                                                              *)

Goto(c, where, i) ==
    /\ pc' = [pc EXCEPT ![c] = where]
    /\ using' = [using EXCEPT ![c] = i]

(* A call of _run_ssh, or of _get_conn alone, which has no second attempt. *)
Call(c) ==
    /\ pc[c] = "idle"
    /\ Goto(c, "get", 0)
    /\ UNCHANGED <<linkVars, selfVars, attempt, boundVars>>

IsClosed(state, i) == i # 0 => state[i] = "closed"

(* Faulty: whoever finds no connection opens one, without the lock.        *)
MayOpenUnlocked(c) == TRUE

(* async with self._lock                                                   *)
MayOpen(c) == lock = Nobody

(* The connection is there: a link that is being closed counts as open.    *)
GetsConn(c) ==
    /\ pc[c] = "get" /\ lock = Nobody
    /\ ~IsClosed(link, _conn)
    /\ Goto(c, "run", _conn)
    /\ UNCHANGED <<linkVars, selfVars, attempt, boundVars>>

Unused(i) == link[i] = "none" /\ tunnel[i] = "none" /\ \A c \in Callers : using[c] # i

(* It is not, or no more: a new one is opened, under the lock.             *)
OpensConn(c) ==
    /\ pc[c] = "get" /\ MayOpen(c)
    /\ IsClosed(link, _conn)
    /\ lock' = c
    /\ \E i \in Links :
          /\ Unused(i) /\ \A k \in Links : Unused(k) => i <= k
          /\ Goto(c, IF ProxyJump THEN "tunnel" ELSE "connect", i)
    /\ UNCHANGED <<linkVars, _conn, _tunnel, attempt, boundVars>>

TunnelOpens(c) ==
    /\ pc[c] = "tunnel"
    /\ tunnel' = [tunnel EXCEPT ![using[c]] = "open"]
    /\ Goto(c, "connect", using[c])
    /\ UNCHANGED <<link, selfVars, attempt, boundVars>>

(* c has an error on the loop, or waits for a close the loop completes.    *)
Pending(c) ==
    \/ pc[c] \in {"close", "untunnel"}
    \/ pc[c] = "run" /\ link[using[c]] # "open"

(* A handshake takes several round trips.  Callers that have something     *)
(* pending had it when the handshake began (nobody can run a command while *)
(* there is no connection), and are served before it is over.              *)
Connects(c) ==
    /\ pc[c] = "connect"
    /\ \A x \in Callers : ~Pending(x)
    /\ link' = [link EXCEPT ![using[c]] = "open"]
    /\ _conn' = using[c]
    /\ _tunnel' = IF ProxyJump THEN using[c] ELSE 0
    /\ lock' = Nobody
    /\ Goto(c, "run", using[c])
    /\ UNCHANGED <<tunnel, attempt, boundVars>>

-----------------------------------------------------------------------------
(* The command, its errors, and _close_conn.                               *)

(* The second half of _close_conn: the tunnel, then on to the second try.  *)
(* Tunnels are in the states of t by now.                                  *)
ClosesTunnel(c, t) ==
    IF IsClosed(t, _tunnel)
    THEN /\ tunnel' = t /\ _tunnel' = 0
         /\ Goto(c, "get", 0)
         /\ attempt' = [attempt EXCEPT ![c] = 2]
    ELSE /\ tunnel' = [t EXCEPT ![_tunnel] = "closing"]
         /\ Goto(c, "untunnel", _tunnel)
         /\ UNCHANGED <<_tunnel, attempt>>

(* Faulty: close() is called and not waited for.                           *)
ClosesConnNoWait(c, t) ==
    /\ link' = IF IsClosed(link, _conn) THEN link
               ELSE [link EXCEPT ![_conn] = "closing"]
    /\ Goto(c, "get", 0)
    /\ attempt' = [attempt EXCEPT ![c] = 2]
    /\ tunnel' = t
    /\ UNCHANGED <<_conn, _tunnel>>

(* _close_conn closes what _conn is by now, whatever c has used.           *)
ClosesConn(c, t) ==
    IF IsClosed(link, _conn)
    THEN _conn' = 0 /\ ClosesTunnel(c, t) /\ UNCHANGED link
    ELSE /\ link' = [link EXCEPT ![_conn] = "closing"]
         /\ Goto(c, "close", _conn)
         /\ tunnel' = t
         /\ UNCHANGED <<_conn, _tunnel, attempt>>

(* A TimeoutError, OSError or asyncssh.Error.                              *)
Fails(c, t) ==
    IF attempt[c] = 1 THEN ClosesConn(c, t)
    ELSE Goto(c, "raised", 0) /\ tunnel' = t /\ UNCHANGED <<link, _conn, _tunnel, attempt>>

(* The command is answered; c goes on with whatever it does next.          *)
Returns(c, where, first) ==
    /\ pc[c] = "run" /\ link[using[c]] = "open"
    /\ Goto(c, where, 0)
    /\ attempt' = [attempt EXCEPT ![c] = first]
    /\ UNCHANGED <<linkVars, selfVars, boundVars>>

(* The connection is gone, or goes.                                        *)
RunRaises(c) ==
    /\ pc[c] = "run" /\ link[using[c]] # "open"
    /\ Fails(c, tunnel)
    /\ UNCHANGED <<lock, boundVars>>

CloseReturns(c) ==
    /\ pc[c] = "close" /\ link[using[c]] = "closed"
    /\ _conn' = 0
    /\ ClosesTunnel(c, tunnel)
    /\ UNCHANGED <<link, lock, boundVars>>

UntunnelReturns(c) ==
    /\ pc[c] = "untunnel" /\ tunnel[using[c]] = "closed"
    /\ _tunnel' = 0
    /\ Goto(c, "get", 0)
    /\ attempt' = [attempt EXCEPT ![c] = 2]
    /\ UNCHANGED <<linkVars, _conn, lock, boundVars>>

-----------------------------------------------------------------------------
(* The event loop and the network.                                         *)

LinkCloses(i) ==
    /\ link[i] = "closing"
    /\ link' = [link EXCEPT ![i] = "closed"]
    /\ UNCHANGED <<tunnel, selfVars, callVars, boundVars>>

(* The connection that went through the tunnel goes with it.               *)
TunnelCloses(i) ==
    /\ tunnel[i] = "closing"
    /\ tunnel' = [tunnel EXCEPT ![i] = "closed"]
    /\ link' = [link EXCEPT ![i] = IF @ = "none" THEN @ ELSE "closed"]
    /\ UNCHANGED <<selfVars, callVars, boundVars>>

Trouble == faults + cancels < MaxTroubles

Fault == Trouble /\ faults' = faults + 1 /\ UNCHANGED cancels

(* The head node or the jump host closes a connection, idle or not.        *)
Drops(i) ==
    /\ Fault
    /\ link[i] = "open"
    /\ link' = [link EXCEPT ![i] = "closed"]
    /\ tunnel' \in {tunnel, [tunnel EXCEPT ![i] = IF ProxyJump THEN "closed" ELSE @]}
    /\ UNCHANGED <<selfVars, callVars>>

(* asyncio.wait_for loses patience with a command.                         *)
RunTimesOut(c) ==
    /\ Fault
    /\ pc[c] = "run" /\ link[using[c]] = "open"
    /\ Fails(c, tunnel)
    /\ UNCHANGED lock

(* Faulty: the lock is released after a success only.                      *)
LockAfterErrorKept == lock

(* async with releases the lock whatever happens in it.                    *)
LockAfterError == Nobody

(* The jump host, or the head node, refuses or does not answer.  A tunnel  *)
(* that leads nowhere is closed.                                           *)
ConnectFails(c) ==
    /\ Fault
    /\ pc[c] \in {"tunnel", "connect"}
    /\ lock' = LockAfterError
    /\ Fails(c, [tunnel EXCEPT ![using[c]] = IF @ = "open" THEN "closing" ELSE @])

Calling(c) == pc[c] \in {"get", "tunnel", "connect", "run", "close", "untunnel"}

(* A CancelledError ends the call where it awaits; the lock is released,   *)
(* and nobody closes a tunnel that is not in _tunnel yet.                  *)
Cancelled(c) ==
    /\ Trouble /\ cancels' = cancels + 1
    /\ Calling(c)
    /\ Goto(c, "cancelled", 0)
    /\ lock' = IF lock = c THEN LockAfterError ELSE lock
    /\ UNCHANGED <<linkVars, _conn, _tunnel, attempt, faults>>

-----------------------------------------------------------------------------

SshInit ==
    /\ link = [i \in Links |-> "none"] /\ tunnel = [i \in Links |-> "none"]
    /\ _conn = 0 /\ _tunnel = 0 /\ lock = Nobody
    /\ pc = [c \in Callers |-> "idle"]
    /\ attempt = [c \in Callers |-> 1]
    /\ using = [c \in Callers |-> 0]
    /\ faults = 0 /\ cancels = 0

(* The steps of c that do not depend on what it runs.                      *)
Connection(c) ==
    \/ Call(c) \/ GetsConn(c) \/ OpensConn(c) \/ TunnelOpens(c) \/ Connects(c)
    \/ CloseReturns(c) \/ UntunnelReturns(c)

EventLoop == \E i \in Links : LinkCloses(i) \/ TunnelCloses(i)

=============================================================================
