------------------------------ MODULE Listener ------------------------------
(***************************************************************************)
(* The listener, main_noinetd, in both builds.                             *)
(*                                                                         *)
(* "fork": each connection gets a child process.  The parent keeps the     *)
(* read end of a pipe per child in childpipes until the child closes its   *)
(* end, which it does when its client has authenticated (svr-auth.c) or by *)
(* exiting; these slots limit the clients that are not authenticated.      *)
(*                                                                         *)
(* "serial", the PS4 build: fork() is denied, so main_noinetd runs one     *)
(* session at a time in its own process: it clears the session globals     *)
(* (ses, svr_ses), calls svr_session, and comes back by the longjmp at the *)
(* end of svr_dropbear_exit.  What a child process would have given back   *)
(* to the kernel by exiting, and what a signal would have done to a parent *)
(* and a child, is now shared by all sessions; the module follows the      *)
(* process-wide state across sessions: the descriptor table, exitflag,     *)
(* init_done, ps4_session_active and the session's allocated state.        *)
(*                                                                         *)
(* Sources: svr-main.c, svr-session.c, common-session.c                    *)
(***************************************************************************)
EXTENDS Integers, FiniteSets

CONSTANTS
    NListen,    \* listening sockets (the PS4 arguments give one)
    TotalFds,   \* descriptors the process has left once it listens
    Addrs,      \* addresses of clients
    MAX_UNAUTH_CLIENTS, MAX_UNAUTH_PER_IP,
    MaxConn,    \* bound: connections that arrive
    MaxSig      \* bound: SIGINT or SIGTERM deliveries

ASSUME ListenerAssumption ==
    /\ MAX_UNAUTH_CLIENTS \in Nat \ {0} /\ MAX_UNAUTH_PER_IP \in Nat \ {0}
    /\ NListen \in Nat \ {0} /\ TotalFds \in Nat
    /\ MaxConn \in Nat /\ MaxSig \in Nat

Listeners == 1..NListen
Slots == 1..MAX_UNAUTH_CLIENTS
Kids == 1..MaxConn                  \* child processes, in the order of forking
None == 0

VARIABLES
    build,      \* "fork" or "serial"
    \* the clients and the kernel
    pending,    \* pending[l]: connections waiting in the backlog of socket l
    free,       \* free descriptors
    stray,      \* connected sockets that are open but in no variable any more
    arrived, sigs, served,          \* history: connections, signals, sessions
    \* main_noinetd
    pc, i, ready, interrupted,
    childpipes, \* childpipes[k]: the child whose pipe is in slot k, or None
    \* the children
    kid,        \* kid[c]: "none", "unauth", or "closed" when its end of the pipe is
    addr,       \* addr[c]: the address of its client (preauth_addrs)
    forkfails,  \* history: times fork() failed
    \* the globals
    exitflag, init_done, ps4_session_active,
    live        \* the memory that session_cleanup frees is allocated

clientVars == <<arrived, sigs>>
fdVars == <<free, stray>>
loopVars == <<i, ready, interrupted>>
globalVars == <<exitflag, init_done, ps4_session_active, live>>
kidVars == <<childpipes, kid, addr, forkfails>>
vars == <<build, pending, fdVars, clientVars, served, pc, loopVars, globalVars, kidVars>>

Over == {"exited", "crashed"}
Pcs == {"loop", "select", "accept", "pipe", "init", "session"} \cup Over

\* Types; the descriptor table never goes below empty or above full.
TypeOK ==
    /\ pending \in [Listeners -> 0..MaxConn]
    /\ free \in 0..TotalFds /\ stray \in 0..MaxConn
    /\ arrived \in 0..MaxConn /\ sigs \in 0..MaxSig /\ served \in 0..MaxConn
    /\ pc \in Pcs /\ i \in Listeners /\ ready \subseteq Listeners
    /\ build \in {"fork", "serial"} /\ childpipes \in [Slots -> Kids \cup {None}]
    /\ kid \in [Kids -> {"none", "unauth", "closed"}]
    /\ addr \in [Kids -> Addrs \cup {None}] /\ forkfails \in 0..MaxConn
    /\ interrupted \in BOOLEAN /\ exitflag \in BOOLEAN /\ init_done \in BOOLEAN
    /\ ps4_session_active \in BOOLEAN /\ live \in BOOLEAN

Init ==
    /\ pending = [l \in Listeners |-> 0] /\ free = TotalFds /\ stray = 0
    /\ arrived = 0 /\ sigs = 0 /\ served = 0
    /\ pc = "loop" /\ i = 1 /\ ready = {} /\ interrupted = FALSE
    /\ exitflag = FALSE /\ init_done = FALSE
    /\ ps4_session_active = FALSE /\ live = FALSE
    /\ build \in {"fork", "serial"}
    /\ childpipes = [k \in Slots |-> None] /\ kid = [c \in Kids |-> "none"]
    /\ addr = [c \in Kids |-> None] /\ forkfails = 0

-----------------------------------------------------------------------------
Connect ==
    /\ arrived < MaxConn /\ arrived' = arrived + 1
    /\ \E l \in Listeners : pending' = [pending EXCEPT ![l] = @ + 1]
    /\ UNCHANGED <<fdVars, sigs, served, pc, loopVars, globalVars, build, kidVars>>

\* sigintterm_handler; only a select() already waiting returns EINTR.
Signal ==
    /\ pc \notin Over /\ sigs < MaxSig /\ sigs' = sigs + 1
    /\ exitflag' = TRUE
    /\ interrupted' = (interrupted \/ pc = "select")
    /\ UNCHANGED <<pending, fdVars, arrived, served, pc, i, ready, init_done,
                   ps4_session_active, live, build, kidVars>>

\* The next listening socket of this round, or the next round.
NextSocket ==
    IF i < NListen THEN pc' = "accept" /\ i' = i + 1
                   ELSE pc' = "loop" /\ UNCHANGED i

-----------------------------------------------------------------------------
(* svr_dropbear_exit: session_cleanup, then back to the listener if a      *)
(* session is active, else exit().                                         *)

\* session_cleanup does nothing before init_done; run on a state it already
\* freed, chancleanup walks the NULL channel table.
CleanupCrashes == init_done /\ ~live

ToListener_InitOnly == ps4_session_active /\ init_done
ToListener == ps4_session_active

svr_dropbear_exit ==
    /\ live' = IF init_done THEN FALSE ELSE live
    /\ ps4_session_active' = FALSE
    /\ IF CleanupCrashes THEN pc' = "crashed" /\ UNCHANGED i
       ELSE IF ToListener THEN NextSocket
       ELSE pc' = "exited" /\ UNCHANGED i

-----------------------------------------------------------------------------
(* main_noinetd *)

EnterSelect ==
    /\ pc = "loop"
    /\ pc' = "select" /\ interrupted' = FALSE
    /\ UNCHANGED <<pending, fdVars, clientVars, served, i, ready, globalVars, build, kidVars>>

\* What FD_ISSET tells of the listening sockets.
Readable_FirstOnly == {l \in {1} : pending[l] > 0}
Readable == {l \in Listeners : pending[l] > 0}

\* The slots whose child has closed its end of the pipe.
PipeClosed_NotLast ==
    {k \in Slots \ {MAX_UNAUTH_CLIENTS} : childpipes[k] # None /\ kid[childpipes[k]] = "closed"}
PipeClosed == {k \in Slots : childpipes[k] # None /\ kid[childpipes[k]] = "closed"}

\* The parent closes its end of the pipe of each of them.
Reclaimed_None == free
Reclaimed == free + Cardinality(PipeClosed)

\* select() returns and exitflag is set: "Terminated by signal".
SelectTerminated ==
    /\ pc = "select" /\ exitflag
    /\ interrupted \/ Readable # {} \/ PipeClosed # {}
    /\ svr_dropbear_exit
    /\ UNCHANGED <<pending, fdVars, clientVars, served, ready, interrupted,
                   exitflag, init_done, build, kidVars>>

\* The slots that select() reported are freed, then the sockets served.
SelectReady ==
    /\ pc = "select" /\ ~exitflag
    /\ Readable # {} \/ PipeClosed # {}
    /\ ready' = Readable
    /\ childpipes' = [k \in Slots |-> IF k \in PipeClosed THEN None ELSE childpipes[k]]
    /\ addr' = [c \in Kids |-> IF \E k \in PipeClosed : childpipes[k] = c THEN None ELSE addr[c]]
    /\ free' = Reclaimed
    /\ pc' = "accept" /\ i' = 1
    /\ UNCHANGED <<pending, stray, clientVars, served, interrupted, globalVars,
                   build, kid, forkfails>>

\* accept(): without a free descriptor it fails and the client keeps waiting.
Acceptable_NoLimit == i \in ready
Acceptable == i \in ready /\ free > 0

Accept ==
    /\ pc = "accept"
    /\ IF Acceptable
         THEN /\ pending' = [pending EXCEPT ![i] = @ - 1]
              /\ free' = free - 1 /\ pc' = "pipe" /\ UNCHANGED i
         ELSE NextSocket /\ UNCHANGED <<pending, free>>
    /\ UNCHANGED <<stray, clientVars, served, ready, interrupted, globalVars,
                   build, kidVars>>

\* The limits, from the slots that are taken; in the serial build none is.
Taken == {k \in Slots : childpipes[k] # None}
TooMany_OneMore(a) ==
    \/ Cardinality(Taken) >= MAX_UNAUTH_CLIENTS
    \/ Cardinality({k \in Taken : addr[childpipes[k]] = a}) > MAX_UNAUTH_PER_IP
TooMany(a) ==
    \/ Cardinality(Taken) >= MAX_UNAUTH_CLIENTS
    \/ Cardinality({k \in Taken : addr[childpipes[k]] = a}) >= MAX_UNAUTH_PER_IP

\* A client over a limit is dropped, and so is one for whom pipe() fails
\* (here: for want of two descriptors).
DropClient ==
    /\ pc = "pipe" /\ (free < 2 \/ \E a \in Addrs : TooMany(a))
    /\ free' = free + 1
    /\ NextSocket
    /\ UNCHANGED <<pending, stray, clientVars, served, ready, interrupted, globalVars,
                   build, kidVars>>

\* conn_idx: the last free slot.
ConnIdx == CHOOSE k \in Slots \ Taken : \A m \in Slots \ Taken : m <= k

\* The parent keeps one end of the pipe and closes the other and the socket.
ForkChild ==
    /\ pc = "pipe" /\ build = "fork" /\ free >= 2
    /\ \E a \in Addrs :
         /\ ~TooMany(a)
         /\ addr' = [addr EXCEPT ![served + 1] = a]
    /\ kid' = [kid EXCEPT ![served + 1] = "unauth"]
    /\ childpipes' = [childpipes EXCEPT ![ConnIdx] = served + 1]
    /\ served' = served + 1 /\ UNCHANGED free
    /\ NextSocket
    /\ UNCHANGED <<pending, stray, clientVars, ready, interrupted, globalVars,
                   build, forkfails>>

\* fork() fails: the socket is closed, both ends of the pipe stay open.
ForkFails ==
    /\ pc = "pipe" /\ build = "fork" /\ free >= 2 /\ \E a \in Addrs : ~TooMany(a)
    /\ free' = free - 1 /\ forkfails' = forkfails + 1
    /\ NextSocket
    /\ UNCHANGED <<pending, stray, clientVars, served, ready, interrupted, globalVars,
                   build, childpipes, kid, addr>>

\* The child closes its end of the pipe when its client has authenticated,
\* and by exiting; an unauthenticated one exits after AUTH_TIMEOUT.
KidCloses(c) ==
    /\ kid[c] = "unauth" /\ kid' = [kid EXCEPT ![c] = "closed"]
    /\ UNCHANGED <<build, pending, fdVars, clientVars, served, pc, loopVars, globalVars,
                   childpipes, addr, forkfails>>

\* Both ends of childpipe are closed again; memset of ses and svr_ses, setjmp.
StartSession ==
    /\ pc = "pipe" /\ build = "serial" /\ free >= 2
    /\ exitflag' = FALSE /\ init_done' = FALSE /\ live' = FALSE
    /\ ps4_session_active' = TRUE
    /\ served' = served + 1 /\ pc' = "init"
    /\ UNCHANGED <<pending, fdVars, clientVars, loopVars, build, kidVars>>

-----------------------------------------------------------------------------
(* svr_session *)

\* common_session_init fails at pipe(signal_pipe), which the system's table
\* can cause as well as the process's: dropbear_exit before init_done, and
\* nobody closes the socket.
InitFails ==
    /\ pc = "init"
    /\ stray' = stray + 1
    /\ svr_dropbear_exit
    /\ UNCHANGED <<pending, free, clientVars, served, ready, interrupted,
                   exitflag, init_done, build, kidVars>>

\* After the signal pipe and still before init_done: getpeername() fails when
\* the client is gone.  Nobody closes the pipe nor the socket.
InitFailsLate ==
    /\ pc = "init" /\ free >= 2
    /\ free' = free - 2 /\ stray' = stray + 1
    /\ svr_dropbear_exit
    /\ UNCHANGED <<pending, clientVars, served, ready, interrupted,
                   exitflag, init_done, build, kidVars>>

InitDone ==
    /\ pc = "init" /\ free >= 2
    /\ free' = free - 2 /\ init_done' = TRUE /\ live' = TRUE
    /\ pc' = "session"
    /\ UNCHANGED <<pending, stray, clientVars, served, loopVars, exitflag,
                   ps4_session_active, build, kidVars>>

\* svr_remoteclosed closes the socket, then dropbear_close.
RemoteClosed ==
    /\ pc = "session"
    /\ free' = free + 1
    /\ svr_dropbear_exit
    /\ UNCHANGED <<pending, stray, clientVars, served, ready, interrupted,
                   exitflag, init_done, build, kidVars>>

\* Any other end of a session (a signal, an SSH disconnect, a protocol, auth
\* or timeout error, a failed assertion) is a dropbear_exit.
SessionExit ==
    /\ pc = "session"
    /\ stray' = stray + 1
    /\ svr_dropbear_exit
    /\ UNCHANGED <<pending, free, clientVars, served, ready, interrupted,
                   exitflag, init_done, build, kidVars>>

-----------------------------------------------------------------------------
Server ==
    \/ EnterSelect \/ SelectTerminated \/ SelectReady \/ Accept \/ DropClient
    \/ ForkChild \/ ForkFails \/ StartSession \/ InitFails \/ InitFailsLate
    \/ InitDone

Next ==
    \/ Connect \/ Signal \/ Server \/ RemoteClosed \/ SessionExit
    \/ \E c \in Kids : KidCloses(c)

Spec == Init /\ [][Next]_vars

\* The process is scheduled, and a session does not last for ever: the
\* client leaves, times out, or the signal it was sent is seen by the
\* select() of session_loop, which always has a timeout.  A child is not
\* unauthenticated for ever.
FairSpec ==
    /\ Spec /\ WF_vars(Server) /\ WF_vars(RemoteClosed \/ SessionExit)
    /\ \A c \in Kids : WF_vars(KidCloses(c))

-----------------------------------------------------------------------------
\* No end of a session takes the listener with it, not even a failure before
\* init_done: the process only ends after SIGINT or SIGTERM.
ListenerSurvives == pc \in Over => sigs > 0

\* The forking parent keeps one descriptor for each slot that is taken and no
\* other, whichever way its clients come and go, but for the pipe that a failed
\* fork() leaves open.  (Of a serial session nothing as good can be said: its
\* signal pipe and, unless the client closed first, its socket stay open.)
InUse == IF pc \in {"pipe", "init"} THEN 1 ELSE 0
ParentFds ==
    build = "fork" => free + InUse = TotalFds - Cardinality(Taken) - 2 * forkfails

\* There are never more clients that have not authenticated, in total or from
\* one address, than the limits say, although the parent learns of a child's
\* progress only from the pipe in its slot.
Unauthed == {c \in Kids : kid[c] = "unauth"}
PreauthBounded ==
    /\ Cardinality(Unauthed) <= MAX_UNAUTH_CLIENTS
    /\ \A a \in Addrs : Cardinality({c \in Unauthed : addr[c] = a}) <= MAX_UNAUTH_PER_IP

\* A slot is given back once its client authenticates, leaves or times out:
\* clients in the past do not use up the limits.
SlotsRecovered ==
    \A k \in Slots : childpipes[k] # None ~> (childpipes[k] = None \/ pc \in Over)

\* While three descriptors are left, every waiting client gets its session:
\* no session, however it ends, stops the loop.
ServedWhileFdsLast ==
    \A l \in Listeners :
        pending[l] > 0 ~> (pending[l] = 0 \/ free < 3 \/ pc \in Over)
=============================================================================
