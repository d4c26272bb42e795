--------------------------- MODULE PreauthProofs ---------------------------
(***************************************************************************)
(* What stands between a client that connects and one that is logged in.   *)
(* The listener of either build survives its sessions, accounts for its    *)
(* descriptors and keeps the limits on clients that have not               *)
(* authenticated, for any number of sockets, slots, clients and signals.   *)
(* And no mixture of requests logs a client in without the credentials the *)
(* options require, nor lets a connection go on past the limits on wrong   *)
(* ones, for any set of users and any options.                             *)
(***************************************************************************)
EXTENDS Listener, Auth, FiniteSetTheorems, FunctionTheorems, WellFoundedInduction, TLAPS

-----------------------------------------------------------------------------
(* The listener: Listener *)

\* Where the globals stand: exitflag is raised by a signal only, and a session
\* runs with a way back to the listener and, once initialised, with memory
\* that its cleanup may free.
ProcInv ==
    /\ exitflag => sigs > 0
    /\ pc \in Over => sigs > 0
    /\ ps4_session_active <=> pc \in {"init", "session"}
    /\ pc \in {"init", "session"} => build = "serial"
    /\ pc = "init" => ~init_done
    /\ pc = "session" => live

\* accept() is called on a socket only while a client waits on it: between
\* select() and there nobody else takes one.
ReadyInv ==
    /\ pc = "accept" => \A l \in ready : l >= i => pending[l] > 0
    /\ pc \in {"pipe", "init", "session"} => \A l \in ready : l > i => pending[l] > 0

\* Each connection that arrived waits in at most one backlog or was accepted
\* once; a connection becomes at most one session, child or failed fork().
InPipe == IF pc = "pipe" THEN 1 ELSE 0
Accounted(q, done) ==
    /\ \A l \in Listeners : Cardinality(q[l]) = pending[l] /\ q[l] \cap done = {}
    /\ \A l, m \in Listeners : l # m => q[l] \cap q[m] = {}
    /\ served + forkfails + InPipe <= Cardinality(done)
ConnInv ==
    /\ \E q \in [Listeners -> SUBSET (1..arrived)], done \in SUBSET (1..arrived) :
         Accounted(q, done)
    /\ stray <= served
    /\ pc \in {"init", "session"} => stray < served

\* A child that may be unauthenticated has a slot, and a slot one child.
OfAddr(a) == {k \in Taken : addr[childpipes[k]] = a}
SlotInv ==
    /\ \A c \in Kids : kid[c] = "unauth" => \E k \in Slots : childpipes[k] = c
    /\ \A k, m \in Slots : childpipes[k] # None /\ childpipes[k] = childpipes[m] => k = m
    /\ \A k \in Slots : childpipes[k] <= served
    /\ build = "serial" => Taken = {}
    /\ \A a \in Addrs : Cardinality(OfAddr(a)) <= MAX_UNAUTH_PER_IP

\* A serial process never has more descriptors free than it began with.
FdInv ==
    /\ ParentFds
    /\ build = "serial" => free + InUse + (IF pc = "session" THEN 1 ELSE 0) <= TotalFds

Inv == TypeOK /\ ProcInv /\ ReadyInv /\ ConnInv /\ SlotInv /\ FdInv
-----------------------------------------------------------------------------
(* Lemmas about the operators *)

\* A non-empty set of numbers below a bound has a largest element.
LEMMA LargestBelow ==
    ASSUME NEW n \in Nat, NEW S \in SUBSET (1..n), S # {}
    PROVE  \E x \in S : \A y \in S : y <= x
<1> DEFINE T == {n - x : x \in S}
<1>1. T \in SUBSET Nat /\ T # {}
    <2>1. \A x \in S : x \in 1..n /\ n - x \in Nat
        OBVIOUS
    <2>2. QED
        BY <2>1
<1>2. \E t \in T : \A u \in T : ~(<<u, t>> \in OpToRel(<, Nat))
    BY <1>1, WFMin, NatLessThanWellFounded
<1>3. \A t, u \in T : ~(<<u, t>> \in OpToRel(<, Nat)) => t <= u
    BY <1>1 DEF OpToRel
<1>4. PICK t \in T : \A u \in T : t <= u
    BY <1>2, <1>3
<1>5. PICK x \in S : t = n - x
    OBVIOUS
<1>6. ASSUME NEW y \in S PROVE y <= x
    <2>1. t <= n - y
        BY <1>4
    <2>2. QED
        BY <1>5, <2>1
<1>7. QED
    BY <1>6

\* Sets of slots can be counted.
LEMMA SlotSets ==
    ASSUME NEW S \in SUBSET Slots
    PROVE  IsFiniteSet(S) /\ Cardinality(S) \in 0..MAX_UNAUTH_CLIENTS
<1>1. IsFiniteSet(Slots) /\ Cardinality(Slots) = MAX_UNAUTH_CLIENTS
    BY ListenerAssumption, FS_Interval DEF Slots
<1>2. QED
    BY <1>1, FS_Subset, FS_CardinalityType, ListenerAssumption

\* Freeing the slots of closed pipes gives that many back.
LEMMA FreedSlots ==
    ASSUME NEW S \in SUBSET Slots, NEW F \in SUBSET S
    PROVE  Cardinality(S \ F) = Cardinality(S) - Cardinality(F)
<1>1. IsFiniteSet(S) /\ S \cap F = F
    BY SlotSets
<1>2. QED
    BY <1>1, FS_Difference

\* Under the limit there is a free slot, and conn_idx is one.
LEMMA ConnIdxFree ==
    ASSUME Cardinality(Taken) < MAX_UNAUTH_CLIENTS
    PROVE  ConnIdx \in Slots \ Taken
<1>1. Taken \in SUBSET Slots
    BY DEF Taken
<1>2. Slots \ Taken # {}
    <2> SUFFICES ASSUME Slots = Taken PROVE FALSE
        BY <1>1
    <2>1. Cardinality(Slots) = MAX_UNAUTH_CLIENTS
        BY ListenerAssumption, FS_Interval DEF Slots
    <2>2. QED
        BY <2>1, ListenerAssumption
<1>3. \E k \in Slots \ Taken : \A m \in Slots \ Taken : m <= k
    BY <1>2, LargestBelow, ListenerAssumption DEF Slots
<1>4. QED
    BY <1>3 DEF ConnIdx

\* What the counts of connections bound.
LEMMA Bounds ==
    ASSUME TypeOK, ConnInv
    PROVE  /\ \A l \in Listeners : pending[l] <= arrived
           /\ served + forkfails + InPipe <= arrived
<1>1. PICK q \in [Listeners -> SUBSET (1..arrived)], done \in SUBSET (1..arrived) :
        Accounted(q, done)
    BY DEF ConnInv
<1>2. arrived \in Nat /\ IsFiniteSet(1..arrived) /\ Cardinality(1..arrived) = arrived
    BY FS_Interval DEF TypeOK
<1>3. \A S \in SUBSET (1..arrived) : Cardinality(S) \in Nat /\ Cardinality(S) <= arrived
    BY <1>2, FS_Subset, FS_CardinalityType
<1>4. \A l \in Listeners : pending[l] <= arrived
    BY <1>1, <1>3 DEF Accounted
<1>5. served + forkfails + InPipe \in Nat
    BY ListenerAssumption DEF TypeOK, InPipe
<1>6. QED
    BY <1>1, <1>2, <1>3, <1>4, <1>5 DEF Accounted

\* The next socket of this round is one, and else the round is over.
LEMMA NextSocketEffect ==
    ASSUME TypeOK, NextSocket
    PROVE  /\ pc' \in {"accept", "loop"} /\ i' \in Listeners
           /\ pc' = "accept" => i' = i + 1
BY ListenerAssumption DEF NextSocket, TypeOK, Listeners

\* svr_dropbear_exit comes back to the loop from every session; called from
\* the loop itself it may end the process.
LEMMA ExitEffect ==
    ASSUME TypeOK, ProcInv, svr_dropbear_exit
    PROVE  /\ pc' \in {"accept", "loop"} \cup Over /\ i' \in Listeners
           /\ pc' = "accept" => i' = i + 1
           /\ IF pc \in {"init", "session"} THEN pc' \in {"accept", "loop"}
                                            ELSE pc' \in Over
           /\ live' \in BOOLEAN /\ ps4_session_active' = FALSE
<1> USE DEF svr_dropbear_exit
<1>1. live' \in BOOLEAN /\ ps4_session_active' = FALSE
    BY DEF TypeOK
<1>2. CASE CleanupCrashes
    BY <1>1, <1>2 DEF CleanupCrashes, ProcInv, TypeOK, Over
<1>3. CASE ~CleanupCrashes /\ ToListener
    BY <1>1, <1>3, NextSocketEffect DEF ToListener, ProcInv
<1>4. CASE ~CleanupCrashes /\ ~ToListener
    BY <1>1, <1>4 DEF ToListener, ProcInv, TypeOK, Over
<1>5. QED
    BY <1>2, <1>3, <1>4
-----------------------------------------------------------------------------
(* The initial state *)

LEMMA InitInv == Init => Inv
<1> SUFFICES ASSUME Init PROVE Inv
    OBVIOUS
<1> USE ListenerAssumption DEF Init, None
<1>1. TypeOK
    <2>1. /\ pending \in [Listeners -> 0..MaxConn] /\ free \in 0..TotalFds
          /\ stray \in 0..MaxConn /\ arrived \in 0..MaxConn /\ sigs \in 0..MaxSig
          /\ served \in 0..MaxConn /\ forkfails \in 0..MaxConn /\ i \in Listeners
        BY DEF Listeners
    <2>2. /\ childpipes \in [Slots -> Kids \cup {None}]
          /\ kid \in [Kids -> {"none", "unauth", "closed"}]
          /\ addr \in [Kids -> Addrs \cup {None}]
        OBVIOUS
    <2>3. QED
        BY <2>1, <2>2 DEF TypeOK, Pcs
<1>2. ProcInv /\ ReadyInv
    BY DEF ProcInv, ReadyInv, Over
<1>3. ConnInv
    <2> DEFINE q == [l \in Listeners |-> {}]
    <2>1. Accounted(q, {})
        BY FS_EmptySet DEF Accounted, InPipe
    <2>2. q \in [Listeners -> SUBSET (1..arrived)]
        OBVIOUS
    <2>3. QED
        BY <2>1, <2>2 DEF ConnInv
<1>4. Taken = {} /\ \A a : OfAddr(a) = {}
    BY DEF Taken, OfAddr
<1>5. SlotInv
    BY <1>4, FS_EmptySet DEF SlotInv
<1>6. FdInv
    BY <1>4, FS_EmptySet DEF FdInv, ParentFds, InUse
<1>7. QED
    BY <1>1, <1>2, <1>3, <1>5, <1>6 DEF Inv

-----------------------------------------------------------------------------
(* The steps, one invariant at a time *)

LEMMA ProcStep == Inv /\ [Next]_vars => ProcInv'
<1> SUFFICES ASSUME Inv, [Next]_vars PROVE ProcInv'
    OBVIOUS
<1> USE DEF Inv
<1>s. sigs \in Nat
    BY DEF TypeOK
<1>1. CASE Connect \/ EnterSelect \/ StartSession \/ InitDone
    BY <1>1 DEF Connect, EnterSelect, StartSession, InitDone, ProcInv, globalVars,
                clientVars, Over
<1>2. CASE Signal
    BY <1>s, <1>2 DEF Signal, ProcInv
<1>3. CASE SelectTerminated
    BY <1>3, ExitEffect DEF SelectTerminated, ProcInv, clientVars, Over
<1>4. CASE SelectReady
    BY <1>4 DEF SelectReady, ProcInv, globalVars, clientVars, Over
<1>5. CASE Accept
    <2>1. pc' \in {"pipe", "accept", "loop"}
        BY <1>5, NextSocketEffect DEF Accept
    <2>2. QED
        BY <1>5, <2>1 DEF Accept, ProcInv, globalVars, clientVars, Over
<1>6. CASE DropClient \/ ForkChild \/ ForkFails
    <2>1. pc = "pipe" /\ pc' \in {"accept", "loop"}
        BY <1>6, NextSocketEffect DEF DropClient, ForkChild, ForkFails
    <2>2. UNCHANGED <<exitflag, sigs, ps4_session_active>>
        BY <1>6 DEF DropClient, ForkChild, ForkFails, globalVars, clientVars
    <2>3. QED
        BY <2>1, <2>2 DEF ProcInv, Over
<1>7. CASE InitFails \/ InitFailsLate \/ RemoteClosed \/ SessionExit
    <2>1. pc' \in {"accept", "loop"} /\ ps4_session_active' = FALSE
        BY <1>7, ExitEffect DEF InitFails, InitFailsLate, RemoteClosed, SessionExit
    <2>2. UNCHANGED <<exitflag, sigs>>
        BY <1>7 DEF InitFails, InitFailsLate, RemoteClosed, SessionExit, clientVars
    <2>3. QED
        BY <2>1, <2>2 DEF ProcInv, Over
<1>8. CASE (\E c \in Kids : KidCloses(c)) \/ UNCHANGED vars
    BY <1>8 DEF KidCloses, vars, ProcInv, globalVars, clientVars
<1>9. QED
    BY <1>1, <1>2, <1>3, <1>4, <1>5, <1>6, <1>7, <1>8 DEF Next, Server

LEMMA ReadyStep == Inv /\ [Next]_vars => ReadyInv'
<1> SUFFICES ASSUME Inv, [Next]_vars PROVE ReadyInv'
    OBVIOUS
<1> USE DEF Inv
<1>t. i \in Int /\ ready \subseteq Int /\ \A l \in Listeners : l \in Int /\ pending[l] \in Nat
    BY DEF TypeOK, Listeners
<1>1. CASE Connect
    <2>0. PICK k \in Listeners : pending' = [pending EXCEPT ![k] = pending[k] + 1]
        BY <1>1 DEF Connect
    <2>1. \A l \in Listeners : pending'[l] \in Int /\ pending'[l] >= pending[l]
        BY <1>t, <2>0 DEF TypeOK
    <2>2. UNCHANGED <<pc, i, ready>>
        BY <1>1 DEF Connect, loopVars
    <2>3. ready \subseteq Listeners
        BY DEF TypeOK
    <2>4. QED
        BY <1>t, <2>1, <2>2, <2>3 DEF ReadyInv
<1>2. CASE Signal \/ (\E c \in Kids : KidCloses(c)) \/ UNCHANGED vars
    BY <1>2 DEF Signal, KidCloses, vars, loopVars, ReadyInv
<1>3. CASE EnterSelect
    BY <1>3 DEF EnterSelect, ReadyInv
<1>4. CASE SelectReady
    BY <1>4 DEF SelectReady, Readable, ReadyInv
<1>5. CASE Accept
    <2>1. CASE Acceptable
        BY <1>t, <1>5, <2>1 DEF Accept, TypeOK, ReadyInv
    <2>2. CASE ~Acceptable
        <3>1. pc' \in {"accept", "loop"} /\ (pc' = "accept" => i' = i + 1)
            BY <1>5, <2>2, NextSocketEffect DEF Accept
        <3>2. UNCHANGED <<pending, ready>>
            BY <1>5, <2>2 DEF Accept
        <3>3. QED
            BY <1>t, <1>5, <3>1, <3>2 DEF Accept, ReadyInv
    <2>3. QED
        BY <2>1, <2>2
<1>6. CASE DropClient \/ ForkChild \/ ForkFails
    <2>1. pc = "pipe" /\ pc' \in {"accept", "loop"} /\ (pc' = "accept" => i' = i + 1)
        BY <1>6, NextSocketEffect DEF DropClient, ForkChild, ForkFails
    <2>2. UNCHANGED <<pending, ready>>
        BY <1>6 DEF DropClient, ForkChild, ForkFails
    <2>3. QED
        BY <1>t, <2>1, <2>2 DEF ReadyInv
<1>7. CASE SelectTerminated \/ InitFails \/ InitFailsLate \/ RemoteClosed \/ SessionExit
    <2>1. /\ pc' \in {"accept", "loop"} \cup Over
          /\ pc' = "accept" => i' = i + 1 /\ pc \in {"init", "session"}
        BY <1>7, ExitEffect DEF SelectTerminated, InitFails, InitFailsLate, RemoteClosed,
                                SessionExit, Over
    <2>2. UNCHANGED <<pending, ready>>
        BY <1>7 DEF SelectTerminated, InitFails, InitFailsLate, RemoteClosed, SessionExit
    <2>3. QED
        BY <1>t, <2>1, <2>2 DEF ReadyInv, Over
<1>8. CASE StartSession \/ InitDone
    BY <1>8 DEF StartSession, InitDone, loopVars, ReadyInv
<1>9. QED
    BY <1>1, <1>2, <1>3, <1>4, <1>5, <1>6, <1>7, <1>8 DEF Next, Server
\* A step that neither adds nor takes a connection, and whose own count of
\* sessions, children and failed forks does not grow, keeps the account.
LEMMA AccountKept ==
    ASSUME TypeOK, ConnInv, UNCHANGED <<pending, arrived>>,
           served' + forkfails' + InPipe' <= served + forkfails + InPipe,
           served' + forkfails' + InPipe' \in Nat
    PROVE  \E q \in [Listeners -> SUBSET (1..arrived')], done \in SUBSET (1..arrived') :
             Accounted(q, done)'
<1>1. PICK q \in [Listeners -> SUBSET (1..arrived)], done \in SUBSET (1..arrived) :
        Accounted(q, done)
    BY DEF ConnInv
<1>2. arrived \in Nat /\ IsFiniteSet(1..arrived)
    BY FS_Interval DEF TypeOK
<1>3. Cardinality(done) \in Nat
    BY <1>2, FS_Subset, FS_CardinalityType
<1>4. served + forkfails + InPipe \in Nat
    BY ListenerAssumption DEF TypeOK, InPipe
<1>5. Accounted(q, done)'
    BY <1>1, <1>3, <1>4 DEF Accounted
<1>6. QED
    BY <1>5

LEMMA ConnStep == Inv /\ [Next]_vars => ConnInv'
<1> SUFFICES ASSUME Inv, [Next]_vars PROVE ConnInv'
    OBVIOUS
<1> USE DEF Inv
<1>t. /\ served \in Nat /\ forkfails \in Nat /\ stray \in Nat /\ arrived \in Nat
      /\ InPipe \in {0, 1}
    BY ListenerAssumption DEF TypeOK, InPipe
<1>0. PICK q \in [Listeners -> SUBSET (1..arrived)], done \in SUBSET (1..arrived) :
        Accounted(q, done)
    BY DEF ConnInv
<1>f. /\ IsFiniteSet(1..arrived)
      /\ \A S \in SUBSET (1..arrived) : IsFiniteSet(S) /\ Cardinality(S) \in Nat
    <2>1. IsFiniteSet(1..arrived)
        BY <1>t, FS_Interval
    <2>2. QED
        BY <2>1, FS_Subset, FS_CardinalityType
<1>1. CASE Connect
    <2>1. PICK k \in Listeners : pending' = [pending EXCEPT ![k] = pending[k] + 1]
        BY <1>1 DEF Connect
    <2>2. arrived' = arrived + 1 /\ UNCHANGED <<served, forkfails, pc, stray>>
        BY <1>1 DEF Connect, kidVars, fdVars
    <2>r. PICK r : r = [q EXCEPT ![k] = q[k] \cup {arrived + 1}]
        OBVIOUS
    <2>3. arrived + 1 \notin 1..arrived /\ 1..arrived \subseteq 1..arrived'
          /\ arrived + 1 \in 1..arrived'
        BY <1>t, <2>2
    <2>4. r \in [Listeners -> SUBSET (1..arrived')] /\ done \in SUBSET (1..arrived')
        BY <2>3, <2>r
    <2>5. \A l \in Listeners : Cardinality(r[l]) = pending'[l] /\ r[l] \cap done = {}
        <3> SUFFICES ASSUME NEW l \in Listeners
                     PROVE  Cardinality(r[l]) = pending'[l] /\ r[l] \cap done = {}
            OBVIOUS
        <3>1. CASE l = k
            <4>1. Cardinality(q[k] \cup {arrived + 1}) = Cardinality(q[k]) + 1
                BY <1>f, <2>3, FS_AddElement
            <4>2. QED
                BY <1>0, <2>r, <2>1, <2>3, <3>1, <4>1 DEF Accounted, TypeOK
        <3>2. CASE l # k
            BY <1>0, <2>r, <2>1, <3>2 DEF Accounted, TypeOK
        <3>3. QED
            BY <3>1, <3>2
    <2>6. \A l, m \in Listeners : l # m => r[l] \cap r[m] = {}
        BY <1>0, <2>r, <2>3 DEF Accounted
    <2>7. Accounted(r, done)'
        BY <1>0, <2>2, <2>5, <2>6 DEF Accounted, InPipe
    <2>8. QED
        BY <2>2, <2>4, <2>7 DEF ConnInv
<1>2. CASE Accept /\ Acceptable
    <2>1. /\ pc = "accept" /\ pc' = "pipe" /\ i \in Listeners /\ pending[i] > 0
          /\ pending' = [pending EXCEPT ![i] = pending[i] - 1]
          /\ UNCHANGED <<served, forkfails, stray, arrived>>
        BY <1>2 DEF Accept, Acceptable, ReadyInv, TypeOK, Listeners, clientVars, kidVars
    <2>2. q[i] # {}
        <3>1. Cardinality(q[i]) > 0
            BY <1>0, <2>1 DEF Accounted
        <3>2. QED
            BY <3>1, FS_EmptySet
    <2>3. PICK x \in q[i] : TRUE
        BY <2>2
    <2>r. PICK r, d : r = [q EXCEPT ![i] = q[i] \ {x}] /\ d = done \cup {x}
        OBVIOUS
    <2>4. r \in [Listeners -> SUBSET (1..arrived')] /\ d \in SUBSET (1..arrived')
        BY <2>r, <2>1
    <2>5. \A l \in Listeners : Cardinality(r[l]) = pending'[l] /\ r[l] \cap d = {}
        <3> SUFFICES ASSUME NEW l \in Listeners
                     PROVE  Cardinality(r[l]) = pending'[l] /\ r[l] \cap d = {}
            OBVIOUS
        <3>1. CASE l = i
            <4>1. Cardinality(q[i] \ {x}) = Cardinality(q[i]) - 1
                BY <1>f, <2>1, FS_RemoveElement
            <4>2. QED
                BY <1>0, <2>r, <2>1, <3>1, <4>1 DEF Accounted, TypeOK
        <3>2. CASE l # i
            BY <1>0, <2>r, <2>1, <3>2 DEF Accounted, TypeOK
        <3>3. QED
            BY <3>1, <3>2
    <2>6. \A l, m \in Listeners : l # m => r[l] \cap r[m] = {}
        BY <1>0, <2>r, <2>1 DEF Accounted
    <2>7. Cardinality(d) = Cardinality(done) + 1
        <3>1. x \notin done
            BY <1>0, <2>1 DEF Accounted
        <3>2. QED
            BY <1>f, <2>r, <3>1, FS_AddElement
    <2>8. served' + forkfails' + InPipe' <= Cardinality(d)
        <3>1. InPipe = 0 /\ InPipe' = 1
            BY <2>1 DEF InPipe
        <3>2. QED
            BY <1>0, <1>t, <1>f, <2>1, <2>7, <3>1 DEF Accounted
    <2>9. Accounted(r, d)'
        BY <2>5, <2>6, <2>8 DEF Accounted
    <2>10. QED
        BY <2>1, <2>4, <2>9 DEF ConnInv
<1>3. CASE Signal \/ EnterSelect \/ SelectTerminated \/ SelectReady
           \/ (Accept /\ ~Acceptable) \/ InitDone
           \/ (\E c \in Kids : KidCloses(c)) \/ UNCHANGED vars
    <2>1. UNCHANGED <<pending, arrived, served, forkfails, stray>>
        BY <1>3 DEF Signal, EnterSelect, SelectTerminated, SelectReady, Accept, InitDone,
                    KidCloses, vars, fdVars, clientVars, kidVars
    <2>2. /\ pc' = "pipe" => pc = "pipe"
          /\ pc' \in {"init", "session"} => pc \in {"init", "session"}
        BY <1>3, ExitEffect, NextSocketEffect
           DEF Signal, EnterSelect, SelectTerminated, SelectReady, Accept, InitDone,
               KidCloses, vars, Over
    <2>3. QED
        BY <1>t, <2>1, <2>2, AccountKept DEF ConnInv, InPipe
<1>4. CASE DropClient \/ ForkChild \/ ForkFails
    <2>1. UNCHANGED <<pending, arrived, stray>> /\ pc = "pipe" /\ pc' \in {"accept", "loop"}
        BY <1>4, NextSocketEffect DEF DropClient, ForkChild, ForkFails, clientVars, kidVars
    <2>2. /\ served' \in {served, served + 1}
          /\ served' + forkfails' \in {served + forkfails, served + forkfails + 1}
        BY <1>4, <1>t DEF DropClient, ForkChild, ForkFails, kidVars
    <2>3. InPipe = 1 /\ InPipe' = 0
        BY <2>1 DEF InPipe
    <2>4. served' + forkfails' + InPipe' \in Nat
          /\ served' + forkfails' + InPipe' <= served + forkfails + InPipe
        BY <1>t, <2>2, <2>3
    <2>5. QED
        BY <1>t, <2>1, <2>2, <2>4, AccountKept DEF ConnInv
<1>5. CASE StartSession
    <2>1. /\ UNCHANGED <<pending, arrived, stray, forkfails>> /\ pc = "pipe"
          /\ pc' = "init" /\ served' = served + 1
        BY <1>5 DEF StartSession, clientVars, fdVars, kidVars
    <2>2. InPipe = 1 /\ InPipe' = 0
        BY <2>1 DEF InPipe
    <2>3. QED
        BY <1>t, <2>1, <2>2, AccountKept DEF ConnInv
<1>6. CASE InitFails \/ InitFailsLate \/ RemoteClosed \/ SessionExit
    <2>1. /\ UNCHANGED <<pending, arrived, served, forkfails>>
          /\ stray' \in {stray, stray + 1} /\ pc \in {"init", "session"}
          /\ pc' \in {"accept", "loop"}
        BY <1>6, ExitEffect DEF InitFails, InitFailsLate, RemoteClosed, SessionExit,
                                clientVars, kidVars
    <2>2. InPipe = 0 /\ InPipe' = 0
        BY <2>1 DEF InPipe
    <2>3. QED
        BY <1>t, <2>1, <2>2, AccountKept DEF ConnInv
<1>7. QED
    BY <1>1, <1>2, <1>3, <1>4, <1>5, <1>6 DEF Next, Server
\* The slots after select(): those whose pipe is still open keep their child
\* and its address.
LEMMA SelectEffect ==
    ASSUME Inv, SelectReady
    PROVE  /\ PipeClosed \subseteq Taken /\ Taken \subseteq Slots
           /\ Taken' = Taken \ PipeClosed
           /\ \A k \in Taken' : childpipes'[k] = childpipes[k]
                                /\ addr'[childpipes[k]] = addr[childpipes[k]]
<1> USE DEF Inv
<1>1. /\ childpipes' = [k \in Slots |-> IF k \in PipeClosed THEN None ELSE childpipes[k]]
      /\ addr' = [c \in Kids |-> IF \E k \in PipeClosed : childpipes[k] = c THEN None
                                                                           ELSE addr[c]]
    BY DEF SelectReady
<1>2. PipeClosed \subseteq Taken /\ Taken \subseteq Slots
    BY DEF PipeClosed, Taken
<1>3. Taken' = Taken \ PipeClosed
    BY <1>1, <1>2 DEF Taken
<1>4. ASSUME NEW k \in Taken'
      PROVE  childpipes'[k] = childpipes[k] /\ addr'[childpipes[k]] = addr[childpipes[k]]
    <2>1. k \in Slots /\ k \notin PipeClosed /\ childpipes[k] \in Kids
        BY <1>2, <1>3, <1>4 DEF Taken, TypeOK
    <2>2. ~\E m \in PipeClosed : childpipes[m] = childpipes[k]
        BY <1>2, <2>1 DEF SlotInv, Taken
    <2>3. QED
        BY <1>1, <2>1, <2>2
<1>5. QED
    BY <1>2, <1>3, <1>4

\* The slots after fork(): a free one has got the new child.
LEMMA ForkEffect ==
    ASSUME Inv, ForkChild
    PROVE  /\ served + 1 \in Kids /\ Taken \subseteq Slots
           /\ ConnIdx \in Slots \ Taken /\ Taken' = Taken \cup {ConnIdx}
           /\ childpipes' \in [Slots -> Kids \cup {None}]
           /\ childpipes'[ConnIdx] = served + 1
           /\ \A k \in Slots \ {ConnIdx} : childpipes'[k] = childpipes[k]
<1> USE DEF Inv
<1>1. served + 1 \in Kids
    <2>1. served \in Nat /\ forkfails \in Nat /\ arrived \in 0..MaxConn /\ InPipe = 1
        BY ListenerAssumption DEF TypeOK, InPipe, ForkChild
    <2>2. served + 1 <= arrived
        BY <2>1, Bounds
    <2>3. QED
        BY <2>1, <2>2, ListenerAssumption DEF Kids
<1>2. Taken \subseteq Slots
    BY DEF Taken
<1>3. ConnIdx \in Slots \ Taken
    <2>1. Cardinality(Taken) \in Nat
        BY <1>2, SlotSets
    <2>2. Cardinality(Taken) < MAX_UNAUTH_CLIENTS
        BY <2>1, ListenerAssumption DEF ForkChild, TooMany
    <2>3. QED
        BY <2>2, ConnIdxFree
<1>4. childpipes' = [childpipes EXCEPT ![ConnIdx] = served + 1]
    BY DEF ForkChild
<1>5. served + 1 # None
    BY <1>1 DEF Kids, None
<1>6. QED
    BY <1>1, <1>2, <1>3, <1>4, <1>5 DEF TypeOK, Taken

LEMMA SlotStep == Inv /\ [Next]_vars => SlotInv'
<1> SUFFICES ASSUME Inv, [Next]_vars PROVE SlotInv'
    OBVIOUS
<1> USE DEF Inv
<1>1. CASE SelectReady
    <2>1. /\ childpipes' = [k \in Slots |-> IF k \in PipeClosed THEN None ELSE childpipes[k]]
          /\ UNCHANGED <<kid, served, build>>
        BY <1>1 DEF SelectReady
    <2>2. /\ PipeClosed \subseteq Taken /\ Taken \subseteq Slots
          /\ Taken' = Taken \ PipeClosed
          /\ \A k \in Taken' : childpipes'[k] = childpipes[k]
                               /\ addr'[childpipes[k]] = addr[childpipes[k]]
        BY <1>1, SelectEffect
    <2>3. \A c \in Kids : kid'[c] = "unauth" => \E k \in Slots : childpipes'[k] = c
        BY <2>1 DEF SlotInv, PipeClosed
    <2>4. /\ \A k, m \in Slots :
               childpipes'[k] # None /\ childpipes'[k] = childpipes'[m] => k = m
          /\ build' = "serial" => Taken' = {}
        BY <2>1, <2>2 DEF SlotInv
    <2>5. \A k \in Slots : childpipes'[k] <= served'
        BY <2>1 DEF SlotInv, TypeOK, None
    <2>6. ASSUME NEW a \in Addrs PROVE Cardinality(OfAddr(a)') <= MAX_UNAUTH_PER_IP
        <3>1. OfAddr(a)' \subseteq OfAddr(a) /\ OfAddr(a) \subseteq Slots
            BY <2>2 DEF OfAddr
        <3>2. /\ Cardinality(OfAddr(a)') <= Cardinality(OfAddr(a))
              /\ Cardinality(OfAddr(a)') \in Nat /\ Cardinality(OfAddr(a)) \in Nat
            BY <3>1, SlotSets, FS_Subset
        <3>3. Cardinality(OfAddr(a)) <= MAX_UNAUTH_PER_IP
            BY DEF SlotInv
        <3>4. QED
            BY <3>2, <3>3, ListenerAssumption
    <2>7. QED
        BY <2>3, <2>4, <2>5, <2>6 DEF SlotInv
<1>2. CASE ForkChild
    <2> DEFINE c == served + 1
    <2>1. PICK a \in Addrs : ~TooMany(a) /\ addr' = [addr EXCEPT ![c] = a]
        BY <1>2 DEF ForkChild
    <2>2. /\ kid' = [kid EXCEPT ![c] = "unauth"] /\ served' = c
          /\ build' = "fork"
        BY <1>2 DEF ForkChild
    <2>3. /\ c \in Kids /\ Taken \subseteq Slots
          /\ ConnIdx \in Slots \ Taken /\ Taken' = Taken \cup {ConnIdx}
          /\ childpipes'[ConnIdx] = c
          /\ \A k \in Slots \ {ConnIdx} : childpipes'[k] = childpipes[k]
        BY <1>2, ForkEffect
    <2>s. served \in Nat /\ c \in Nat /\ c > served /\ c # None
        BY DEF TypeOK, None
    <2>o. \A k \in Slots : childpipes[k] \in Nat /\ childpipes[k] <= served /\ childpipes[k] # c
        BY <2>s DEF SlotInv, TypeOK, Kids, None
    <2> HIDE DEF c
    <2>n. childpipes[ConnIdx] = None
        BY <2>3 DEF Taken
    <2>4. ASSUME NEW d \in Kids, kid'[d] = "unauth"
          PROVE  \E k \in Slots : childpipes'[k] = d
        <3>1. CASE d = c
            BY <2>3, <3>1
        <3>2. CASE d # c
            <4>1. kid[d] = "unauth" /\ d # None
                BY <2>2, <2>4, <3>2 DEF TypeOK, Kids, None
            <4>2. PICK k \in Slots : childpipes[k] = d
                BY <4>1 DEF SlotInv
            <4>3. QED
                BY <2>3, <2>n, <4>1, <4>2
        <3>3. QED
            BY <3>1, <3>2
    <2>5. \A k, m \in Slots :
            childpipes'[k] # None /\ childpipes'[k] = childpipes'[m] => k = m
        BY <2>3, <2>o DEF SlotInv
    <2>6. \A k \in Slots : childpipes'[k] <= served'
        <3> SUFFICES ASSUME NEW k \in Slots PROVE childpipes'[k] <= c
            BY <2>2
        <3>1. CASE k = ConnIdx
            BY <2>s, <2>3, <3>1
        <3>2. CASE k # ConnIdx
            BY <2>s, <2>o, <2>3, <3>2
        <3>3. QED
            BY <3>1, <3>2
    <2>7. ASSUME NEW b \in Addrs PROVE Cardinality(OfAddr(b)') <= MAX_UNAUTH_PER_IP
        <3>0. OfAddr(b) \subseteq Slots
            BY <2>3 DEF OfAddr
        <3>1. IsFiniteSet(OfAddr(b)) /\ Cardinality(OfAddr(b)) \in Nat
            BY <3>0, SlotSets
        <3>2. \A k \in Taken : childpipes'[k] = childpipes[k] /\ childpipes[k] \in Kids
                               /\ addr'[childpipes[k]] = addr[childpipes[k]]
            BY <2>1, <2>3, <2>o DEF TypeOK, Taken
        <3>3. addr'[childpipes'[ConnIdx]] = a
            BY <2>1, <2>3 DEF TypeOK
        <3>4. CASE b = a
            <4>1. OfAddr(b)' = OfAddr(b) \cup {ConnIdx} /\ ConnIdx \notin OfAddr(b)
                BY <2>3, <3>2, <3>3, <3>4 DEF OfAddr
            <4>2. Cardinality(OfAddr(b)') = Cardinality(OfAddr(b)) + 1
                BY <3>1, <4>1, FS_AddElement
            <4>3. Cardinality(OfAddr(b)) < MAX_UNAUTH_PER_IP
                BY <2>1, <3>1, <3>4, ListenerAssumption DEF TooMany, OfAddr
            <4>4. QED
                BY <3>1, <4>2, <4>3, ListenerAssumption
        <3>5. CASE b # a
            <4>1. OfAddr(b)' = OfAddr(b)
                BY <2>3, <3>2, <3>3, <3>5 DEF OfAddr
            <4>2. QED
                BY <4>1 DEF SlotInv
        <3>6. QED
            BY <3>4, <3>5
    <2>8. QED
        BY <2>2, <2>4, <2>5, <2>6, <2>7 DEF SlotInv
<1>3. ASSUME NEW c \in Kids, KidCloses(c) PROVE SlotInv'
    <2>1. \A d \in Kids : kid'[d] = "unauth" => kid[d] = "unauth"
        BY <1>3 DEF KidCloses, TypeOK
    <2>2. UNCHANGED <<childpipes, served, build, addr>>
        BY <1>3 DEF KidCloses
    <2>3. QED
        BY <2>1, <2>2 DEF SlotInv, Taken, OfAddr
<1>4. CASE StartSession
    <2>1. UNCHANGED <<childpipes, build, addr, kid>> /\ served' = served + 1
        BY <1>4 DEF StartSession, kidVars
    <2>2. \A k \in Slots : childpipes[k] <= served + 1
        BY DEF SlotInv, TypeOK, Kids, None
    <2>3. QED
        BY <2>1, <2>2 DEF SlotInv, Taken, OfAddr
<1>5. CASE Connect \/ Signal \/ EnterSelect \/ SelectTerminated \/ Accept \/ DropClient
           \/ ForkFails \/ InitFails \/ InitFailsLate \/ InitDone \/ RemoteClosed \/ SessionExit
           \/ UNCHANGED vars
    <2>1. UNCHANGED <<childpipes, served, build, addr, kid>>
        BY <1>5 DEF Connect, Signal, EnterSelect, SelectTerminated, Accept, DropClient,
            ForkFails, InitFails, InitFailsLate, InitDone, RemoteClosed, SessionExit, vars, kidVars
    <2>2. QED
        BY <2>1 DEF SlotInv, Taken, OfAddr
<1>6. QED
    BY <1>1, <1>2, <1>3, <1>4, <1>5 DEF Next, Server
LEMMA FdStep == Inv /\ [Next]_vars => FdInv'
<1> SUFFICES ASSUME Inv, [Next]_vars PROVE FdInv'
    OBVIOUS
<1> USE DEF Inv
<1>t. /\ free \in Nat /\ served \in Nat /\ forkfails \in Nat /\ TotalFds \in Nat
      /\ Taken \subseteq Slots /\ Cardinality(Taken) \in Nat
      /\ build \in {"fork", "serial"}
    BY SlotSets, ListenerAssumption DEF TypeOK, Taken
<1>1. CASE SelectReady
    <2>1. /\ free' = free + Cardinality(PipeClosed) /\ pc = "select" /\ pc' = "accept"
          /\ UNCHANGED <<served, build, forkfails>>
        BY <1>1 DEF SelectReady, Reclaimed
    <2>2. /\ PipeClosed \subseteq Taken /\ Taken' = Taken \ PipeClosed
        BY <1>1, SelectEffect
    <2>3. Cardinality(Taken') = Cardinality(Taken) - Cardinality(PipeClosed)
          /\ Cardinality(PipeClosed) \in Nat
        BY <1>t, <2>2, FreedSlots, SlotSets
    <2>4. build = "serial" => Cardinality(PipeClosed) = 0
        BY <2>2, FS_EmptySet DEF SlotInv
    <2>5. InUse = 0 /\ InUse' = 0
        BY <2>1 DEF InUse
    <2>6. QED
        BY <1>t, <2>1, <2>3, <2>4, <2>5 DEF FdInv, ParentFds
<1>2. CASE ForkChild
    <2>1. /\ UNCHANGED <<free, build, forkfails>> /\ pc = "pipe" /\ build = "fork"
          /\ pc' \in {"accept", "loop"}
        BY <1>2, NextSocketEffect DEF ForkChild
    <2>2. ConnIdx \notin Taken /\ Taken' = Taken \cup {ConnIdx}
        BY <1>2, ForkEffect
    <2>3. Cardinality(Taken') = Cardinality(Taken) + 1
        BY <1>t, <2>2, SlotSets, FS_AddElement
    <2>4. InUse = 1 /\ InUse' = 0
        BY <2>1 DEF InUse
    <2>5. QED
        BY <1>t, <2>1, <2>3, <2>4 DEF FdInv, ParentFds
<1>3. CASE ~SelectReady /\ ~ForkChild
    <2>k. UNCHANGED childpipes /\ Taken' = Taken /\ build' = build
        BY <1>3 DEF Next, Server, Connect, Signal, EnterSelect, SelectTerminated, Accept,
            DropClient, ForkFails, StartSession, InitFails, InitFailsLate, InitDone, RemoteClosed,
            SessionExit, KidCloses, vars, kidVars, Taken
    <2>1. CASE Connect \/ Signal \/ (\E c \in Kids : KidCloses(c)) \/ UNCHANGED vars
        <3>1. UNCHANGED <<free, served, forkfails, pc>>
            BY <2>1 DEF Connect, Signal, KidCloses, vars, fdVars, kidVars
        <3>2. QED
            BY <2>k, <3>1 DEF FdInv, ParentFds, InUse
    <2>2. CASE EnterSelect \/ SelectTerminated
        <3>1. UNCHANGED <<free, served, forkfails>>
            BY <2>2 DEF EnterSelect, SelectTerminated, fdVars, kidVars
        <3>2. pc \in {"loop", "select"} /\ pc' \in {"select"} \cup Over
            BY <2>2, ExitEffect DEF EnterSelect, SelectTerminated
        <3>3. InUse = 0 /\ InUse' = 0
            BY <3>2 DEF InUse, Over
        <3>4. QED
            BY <1>t, <2>k, <3>1, <3>2, <3>3 DEF FdInv, ParentFds, Over
    <2>3. CASE Accept
        <3>1. UNCHANGED <<served, forkfails>> /\ pc = "accept" /\ InUse = 0
            BY <2>3 DEF Accept, kidVars, InUse
        <3>2. CASE Acceptable
            BY <1>t, <2>k, <2>3, <3>1, <3>2 DEF Accept, FdInv, ParentFds, InUse
        <3>3. CASE ~Acceptable
            <4>1. pc' \in {"accept", "loop"} /\ free' = free
                BY <2>3, <3>3, NextSocketEffect DEF Accept
            <4>2. QED
                BY <1>t, <2>k, <3>1, <4>1 DEF FdInv, ParentFds, InUse
        <3>4. QED
            BY <3>2, <3>3
    <2>4. CASE DropClient \/ ForkFails
        <3>1. pc = "pipe" /\ pc' \in {"accept", "loop"} /\ served' = served
            BY <2>4, NextSocketEffect DEF DropClient, ForkFails
        <3>2. \/ free' = free + 1 /\ forkfails' = forkfails
              \/ free' = free - 1 /\ forkfails' = forkfails + 1 /\ build = "fork"
            BY <2>4 DEF DropClient, ForkFails, kidVars
        <3>3. InUse = 1 /\ InUse' = 0
            BY <3>1 DEF InUse
        <3>4. QED
            BY <1>t, <2>k, <3>1, <3>2, <3>3 DEF FdInv, ParentFds
    <2>5. CASE StartSession
        <3>1. /\ pc = "pipe" /\ pc' = "init" /\ served' = served + 1 /\ free' = free
              /\ build = "serial"
            BY <2>5 DEF StartSession, fdVars
        <3>2. InUse = 1 /\ InUse' = 1
            BY <3>1 DEF InUse
        <3>3. QED
            BY <1>t, <2>k, <3>1, <3>2 DEF FdInv, ParentFds
    <2>6. CASE InitDone
        <3>1. /\ pc = "init" /\ pc' = "session" /\ served' = served /\ free' = free - 2
              /\ build = "serial"
            BY <2>6 DEF InitDone, ProcInv
        <3>2. InUse = 1 /\ InUse' = 0
            BY <3>1 DEF InUse
        <3>3. QED
            BY <1>t, <2>k, <3>1, <3>2 DEF FdInv, ParentFds
    <2>7. CASE InitFails \/ InitFailsLate \/ RemoteClosed \/ SessionExit
        <3>1. /\ pc' \in {"accept", "loop"} /\ served' = served /\ build = "serial"
              /\ \/ pc = "init" /\ free' \in {free, free - 2}
                 \/ pc = "session" /\ free' \in {free, free + 1}
            BY <2>7, ExitEffect DEF InitFails, InitFailsLate, RemoteClosed, SessionExit, ProcInv
        <3>2. InUse = (IF pc = "init" THEN 1 ELSE 0) /\ InUse' = 0
            BY <3>1 DEF InUse
        <3>3. QED
            BY <1>t, <2>k, <3>1, <3>2 DEF FdInv, ParentFds
    <2>8. QED
        BY <1>3, <2>1, <2>2, <2>3, <2>4, <2>5, <2>6, <2>7 DEF Next, Server
<1>4. QED
    BY <1>1, <1>2, <1>3

LEMMA TypeStep == Inv /\ [Next]_vars => TypeOK'
<1> SUFFICES ASSUME Inv, [Next]_vars PROVE TypeOK'
    OBVIOUS
<1> USE ListenerAssumption DEF Inv
<1>i. ProcInv' /\ ConnInv' /\ SlotInv' /\ FdInv'
    BY ProcStep, ConnStep, SlotStep, FdStep
<1>t. /\ arrived \in 0..MaxConn /\ served \in Nat /\ forkfails \in Nat /\ stray \in Nat
      /\ free \in Nat /\ pending \in [Listeners -> Nat] /\ InPipe \in {0, 1}
      /\ sigs \in 0..MaxSig
    BY DEF TypeOK, InPipe
<1>1. arrived' \in 0..MaxConn /\ sigs' \in 0..MaxSig
    BY <1>t DEF Next, Server, Connect, Signal, EnterSelect, SelectTerminated, SelectReady,
        Accept, DropClient, ForkChild, ForkFails, StartSession, InitFails, InitFailsLate, InitDone,
        RemoteClosed, SessionExit, KidCloses, vars, clientVars
<1>2. /\ pending' \in [Listeners -> 0..MaxConn] /\ served' \in 0..MaxConn
      /\ forkfails' \in 0..MaxConn /\ stray' \in 0..MaxConn
    <2>b. /\ \A l \in Listeners : pending[l] \in Nat /\ pending[l] <= arrived
          /\ served + forkfails + InPipe <= arrived
          /\ stray <= served /\ (pc \in {"init", "session"} => stray < served)
        BY <1>t, Bounds DEF ConnInv
    <2>1. CASE Connect
        <3>1. PICK k \in Listeners : pending' = [pending EXCEPT ![k] = pending[k] + 1]
            BY <2>1 DEF Connect
        <3>2. pending[k] + 1 \in 0..MaxConn
            BY <1>t, <2>b, <2>1 DEF Connect
        <3>3. UNCHANGED <<served, forkfails, stray>>
            BY <2>1 DEF Connect, fdVars, kidVars
        <3>4. QED
            BY <3>1, <3>2, <3>3 DEF TypeOK
    <2>2. CASE Accept
        <3>1. UNCHANGED <<served, forkfails, stray>>
            BY <2>2 DEF Accept, kidVars
        <3>2. CASE Acceptable
            <4>1. i \in Listeners /\ pending[i] > 0
                  /\ pending' = [pending EXCEPT ![i] = pending[i] - 1]
                BY <2>2, <3>2 DEF Accept, Acceptable, ReadyInv, TypeOK, Listeners
            <4>2. pending[i] - 1 \in 0..MaxConn
                BY <1>t, <2>b, <4>1
            <4>3. QED
                BY <3>1, <4>1, <4>2 DEF TypeOK
        <3>3. CASE ~Acceptable
            BY <2>2, <3>1, <3>3 DEF Accept, TypeOK
        <3>4. QED
            BY <3>2, <3>3
    <2>3. CASE DropClient \/ ForkChild \/ ForkFails \/ StartSession
        <3>1. /\ UNCHANGED <<pending, stray>> /\ InPipe = 1
              /\ served' \in {served, served + 1}
              /\ forkfails' \in {forkfails, forkfails + 1}
            BY <2>3 DEF DropClient, ForkChild, ForkFails, StartSession, fdVars, kidVars, InPipe
        <3>2. QED
            BY <1>t, <2>b, <3>1 DEF TypeOK
    <2>4. CASE InitFails \/ InitFailsLate \/ RemoteClosed \/ SessionExit
        <3>1. /\ UNCHANGED <<pending, served, forkfails>> /\ pc \in {"init", "session"}
              /\ stray' \in {stray, stray + 1}
            BY <2>4 DEF InitFails, InitFailsLate, RemoteClosed, SessionExit, kidVars
        <3>2. QED
            BY <1>t, <2>b, <3>1 DEF TypeOK
    <2>5. CASE Signal \/ EnterSelect \/ SelectTerminated \/ SelectReady \/ InitDone
               \/ (\E c \in Kids : KidCloses(c)) \/ UNCHANGED vars
        <3>1. UNCHANGED <<pending, stray, served, forkfails>>
            BY <2>5 DEF Signal, EnterSelect, SelectTerminated, SelectReady, InitDone,
                        KidCloses, vars, fdVars, kidVars
        <3>2. QED
            BY <3>1 DEF TypeOK
    <2>6. QED
        BY <2>1, <2>2, <2>3, <2>4, <2>5 DEF Next, Server
<1>3. /\ childpipes' \in [Slots -> Kids \cup {None}]
      /\ kid' \in [Kids -> {"none", "unauth", "closed"}]
      /\ addr' \in [Kids -> Addrs \cup {None}]
    <2>1. CASE SelectReady
        BY <2>1 DEF SelectReady, TypeOK
    <2>2. CASE ForkChild
        <3>1. childpipes' \in [Slots -> Kids \cup {None}]
            BY <2>2, ForkEffect
        <3>2. QED
            BY <2>2, <3>1 DEF ForkChild, TypeOK
    <2>3. CASE \E c \in Kids : KidCloses(c)
        BY <2>3 DEF KidCloses, TypeOK
    <2>4. CASE UNCHANGED <<childpipes, kid, addr>>
        BY <2>4 DEF TypeOK
    <2>5. QED
        BY <2>1, <2>2, <2>3, <2>4 DEF Next, Server, Connect, Signal, EnterSelect,
            SelectTerminated, Accept, DropClient, ForkFails, StartSession, InitFails, InitFailsLate,
            InitDone, RemoteClosed, SessionExit, vars, kidVars
<1>4. pc' \in Pcs /\ i' \in Listeners /\ ready' \subseteq Listeners
    <2>1. CASE DropClient \/ ForkChild \/ ForkFails
        BY <2>1, NextSocketEffect DEF DropClient, ForkChild, ForkFails, TypeOK, Pcs
    <2>2. CASE SelectTerminated \/ InitFails \/ InitFailsLate \/ RemoteClosed \/ SessionExit
        BY <2>2, ExitEffect DEF SelectTerminated, InitFails, InitFailsLate, RemoteClosed,
                                SessionExit, TypeOK, Pcs
    <2>3. CASE Accept
        BY <2>3, NextSocketEffect DEF Accept, TypeOK, Pcs
    <2>4. CASE SelectReady
        BY <2>4 DEF SelectReady, Readable, Listeners, Pcs
    <2>5. CASE EnterSelect \/ StartSession \/ InitDone \/ Connect \/ Signal
               \/ (\E c \in Kids : KidCloses(c)) \/ UNCHANGED vars
        BY <2>5 DEF EnterSelect, StartSession, InitDone, Connect, Signal, KidCloses, vars,
                    loopVars, TypeOK, Pcs
    <2>6. QED
        BY <2>1, <2>2, <2>3, <2>4, <2>5 DEF Next, Server
<1>5. /\ build' \in {"fork", "serial"} /\ interrupted' \in BOOLEAN /\ exitflag' \in BOOLEAN
      /\ init_done' \in BOOLEAN /\ ps4_session_active' \in BOOLEAN /\ live' \in BOOLEAN
    <2>1. CASE SelectTerminated \/ InitFails \/ InitFailsLate \/ RemoteClosed \/ SessionExit
        BY <2>1, ExitEffect DEF SelectTerminated, InitFails, InitFailsLate, RemoteClosed,
                                SessionExit, TypeOK
    <2>2. CASE StartSession \/ InitDone \/ EnterSelect \/ Signal
        BY <2>2 DEF StartSession, InitDone, EnterSelect, Signal, loopVars, globalVars, TypeOK
    <2>3. CASE UNCHANGED <<build, interrupted, globalVars>>
        BY <2>3 DEF globalVars, TypeOK
    <2>4. QED
        BY <2>1, <2>2, <2>3 DEF Next, Server, Connect, SelectReady, Accept, DropClient,
            ForkChild, ForkFails, KidCloses, vars, loopVars
<1>6. free' \in 0..TotalFds
    <2>1. free' \in Nat
        <3>1. CASE SelectReady
            BY <1>t, <3>1, SlotSets DEF SelectReady, Reclaimed, PipeClosed
        <3>2. CASE ~SelectReady
            BY <1>t, <3>2 DEF Next, Server, Connect, Signal, EnterSelect, SelectTerminated,
                Accept, Acceptable, DropClient, ForkChild, ForkFails, StartSession,
                InitFails, InitFailsLate, InitDone, RemoteClosed, SessionExit, KidCloses,
                vars, fdVars
        <3>3. QED
            BY <3>1, <3>2
    <2>2. Cardinality(Taken') \in Nat
        BY SlotSets DEF Taken
    <2>3. InUse' \in {0, 1}
        BY DEF InUse
    <2>4. QED
        <3>1. CASE build' = "serial"
            <4>1. free' + InUse' + (IF pc' = "session" THEN 1 ELSE 0) <= TotalFds
                BY <1>i, <3>1 DEF FdInv
            <4>2. (IF pc' = "session" THEN 1 ELSE 0) \in {0, 1}
                OBVIOUS
            <4>3. \A f, u, e \in Nat : f + u + e <= TotalFds => f \in 0..TotalFds
                OBVIOUS
            <4>4. QED
                BY <2>1, <2>3, <4>1, <4>2, <4>3
        <3>2. CASE build' = "fork"
            <4>1. free' + InUse' = TotalFds - Cardinality(Taken') - 2 * forkfails'
                BY <1>i, <3>2 DEF FdInv, ParentFds
            <4>2. QED
                BY <1>2, <2>1, <2>2, <2>3, <4>1
        <3>3. QED
            BY <1>5, <3>1, <3>2
<1>7. QED
    BY <1>1, <1>2, <1>3, <1>4, <1>5, <1>6 DEF TypeOK

LEMMA Invariance == Spec => []Inv
<1>1. Inv /\ [Next]_vars => Inv'
    BY TypeStep, ProcStep, ReadyStep, ConnStep, SlotStep, FdStep DEF Inv
<1>2. QED
    BY <1>1, InitInv, PTL DEF Spec

-----------------------------------------------------------------------------
\* Every variable keeps its type; the descriptor count stays between empty and
\* full, and no count of connections exceeds those that arrived.
THEOREM TypeCorrect == Spec => []TypeOK
<1>1. Inv => TypeOK
    BY DEF Inv
<1>2. QED
    BY <1>1, Invariance, PTL

\* However many sessions run and however each of them ends, svr_dropbear_exit
\* takes main_noinetd down only after SIGINT or SIGTERM.
THEOREM ListenerStays == Spec => []ListenerSurvives
<1>1. Inv => ListenerSurvives
    BY DEF Inv, ProcInv, ListenerSurvives
<1>2. QED
    BY <1>1, Invariance, PTL

\* In the forking build the descriptors of main_noinetd are accounted for after
\* any number of children: one per slot that is taken, two per failed fork().
THEOREM DescriptorsAccounted == Spec => []ParentFds
<1>1. Inv => ParentFds
    BY DEF Inv, FdInv
<1>2. QED
    BY <1>1, Invariance, PTL

\* childpipes never forgets a child that may be unauthenticated, so the limits
\* main_noinetd enforces on its slots bound the clients themselves.
THEOREM UnauthLimited == Spec => []PreauthBounded
<1>1. Inv => PreauthBounded
    <2> SUFFICES ASSUME Inv PROVE PreauthBounded
        OBVIOUS
    <2> USE ListenerAssumption DEF Inv
    <2>1. ASSUME NEW S \in SUBSET Unauthed, NEW T \in SUBSET Slots,
                 \A k \in Slots : childpipes[k] \in S => k \in T
          PROVE  Cardinality(S) \in Nat /\ Cardinality(S) <= Cardinality(T)
        <3> DEFINE slot == [c \in S |-> CHOOSE k \in Slots : childpipes[k] = c]
        <3>1. \A c \in S : slot[c] \in T /\ childpipes[slot[c]] = c
            BY <2>1 DEF Unauthed, SlotInv
        <3>2. slot \in Injection(S, T)
            <4>1. slot \in [S -> T]
                BY <3>1
            <4>2. \A c, d \in S : slot[c] = slot[d] => c = d
                BY <3>1
            <4>3. QED
                BY <4>1, <4>2, Fun_IsInj
        <3>3. QED
            BY <3>2, SlotSets, FS_Injection, FS_CardinalityType
    <2>2. Cardinality(Unauthed) <= MAX_UNAUTH_CLIENTS
        <3>1. /\ Cardinality(Unauthed) \in Nat
              /\ Cardinality(Unauthed) <= Cardinality(Slots)
            BY <2>1
        <3>2. Cardinality(Slots) \in 0..MAX_UNAUTH_CLIENTS
            BY SlotSets
        <3>3. QED
            BY <3>1, <3>2
    <2>3. ASSUME NEW a \in Addrs
          PROVE  Cardinality({c \in Unauthed : addr[c] = a}) <= MAX_UNAUTH_PER_IP
        <3> DEFINE S == {c \in Unauthed : addr[c] = a}
        <3>1. OfAddr(a) \in SUBSET Slots
            BY DEF OfAddr, Taken
        <3>2. \A k \in Slots : childpipes[k] \in S => k \in OfAddr(a)
            BY DEF OfAddr, Taken, Unauthed, Kids, None
        <3>3. Cardinality(S) \in Nat /\ Cardinality(S) <= Cardinality(OfAddr(a))
            BY <2>1, <3>1, <3>2
        <3>4. Cardinality(OfAddr(a)) \in Nat /\ Cardinality(OfAddr(a)) <= MAX_UNAUTH_PER_IP
            BY <3>1, SlotSets DEF SlotInv
        <3>5. QED
            BY <3>3, <3>4
    <2>4. QED
        BY <2>2, <2>3 DEF PreauthBounded
<1>2. QED
    BY <1>1, Invariance, PTL

-----------------------------------------------------------------------------
(* User authentication: Auth *)

\* What each variable ranges over.
Typed ==
    /\ opts \in Options /\ authtypes \in SUBSET Methods
    /\ username \in Users \cup {NoUser}
    /\ authdone \in BOOLEAN /\ ended \in BOOLEAN /\ connected \in BOOLEAN
    /\ failcount \in Nat /\ queries \in Nat /\ wrong \in Nat

\* A method that is off the list was proven, and for the user whose name is
\* fixed: checkusername never lets a later request change it.
PartialProven ==
    \A m \in InitialTypes(opts) \ authtypes :
        username \in Valid /\ <<m, username>> \in proven

\* What a finished login rests on; connection requests wait for it.
DoneProven ==
    /\ connected => authdone
    /\ authdone => LoginProven

\* While the session lasts there are tries left; each wrong credential used up
\* one of them or one of the free key queries.
Charged ==
    /\ ~ended => failcount <= opts.maxauthtries
    /\ wrong <= failcount + queries
    /\ wrong <= failcount + FreeQueries

LoginInv == Typed /\ PartialProven /\ DoneProven
GuessInv == Typed /\ Charged

\* What the assumptions say of the options of any session.
LEMMA OptionsTyped ==
    ASSUME NEW o \in Options
    PROVE  /\ o.maxauthtries \in Nat
           /\ o.multiauthmethod \in BOOLEAN /\ o.noauthpass \in BOOLEAN
           /\ o.multiauthmethod => ~o.noauthpass
           /\ InitialTypes(o) \in SUBSET Methods
BY AuthAssumption DEF Options, AllOptions, InitialTypes, Methods

\* The free queries are a number, whatever -T says.
LEMMA FreeQueriesNat == Typed => FreeQueries \in Nat
BY OptionsTyped, AuthAssumption DEF Typed, FreeQueries

LEMMA TypedInit == AuthInit => Typed
<1> SUFFICES ASSUME AuthInit PROVE Typed
    OBVIOUS
<1>1. InitialTypes(opts) \in SUBSET Methods
    BY OptionsTyped DEF AuthInit
<1>2. QED
    BY <1>1 DEF AuthInit, Typed

LEMMA TypedStep == Typed /\ [AuthNext]_authVars => Typed'
<1> SUFFICES ASSUME Typed, [AuthNext]_authVars PROVE Typed'
    OBVIOUS
<1> USE AuthAssumption DEF Typed, Methods
<1>o. opts.maxauthtries \in Nat
    BY OptionsTyped
<1>1. CASE Connection
    BY <1>1 DEF Connection, Exit, stateVars
<1>2. CASE AuthTimeout \/ Leave
    BY <1>2 DEF AuthTimeout, Leave, Exit
<1>3. ASSUME NEW u \in Users, Request(u) PROVE Typed'
    <2>1. CASE MethodNone(u)
        <3>1. CASE Fails(FALSE)
            BY <1>o, <2>1, <3>1 DEF MethodNone, Requested, Fails, Failure
        <3>2. CASE ~Fails(FALSE)
            BY <2>1, <3>2 DEF MethodNone, Requested
        <3>3. QED
            BY <3>1, <3>2
    <2>2. CASE PasswordGood(u)
        BY <2>2 DEF PasswordGood, Requested, Proves
    <2>3. CASE PasswordOrbis(u)
        BY <2>3 DEF PasswordOrbis, Requested
    <2>4. CASE PasswordBad(u)
        BY <1>o, <2>4 DEF PasswordBad, Requested, Fails, Failure
    <2>5. CASE PubkeyRefused(u)
        BY <1>o, <2>5 DEF PubkeyRefused, Requested, Fails, Failure
    <2>6. CASE PubkeyUnknown(u)
        BY <1>o, <2>6 DEF PubkeyUnknown, Requested, Fails, Failure
    <2>7. CASE PubkeyBadSignature(u)
        BY <1>o, <2>7 DEF PubkeyBadSignature, Requested, Fails, Failure
    <2>8. CASE PubkeyGood(u)
        BY <2>8 DEF PubkeyGood, Requested, Proves
    <2>9. CASE OtherUser(u)
        BY <2>9 DEF OtherUser, Exit
    <2>10. QED
        BY <1>3, <2>1, <2>2, <2>3, <2>4, <2>5, <2>6, <2>7, <2>8, <2>9 DEF Request
<1>4. CASE UNCHANGED authVars
    BY <1>4 DEF authVars, stateVars
<1>5. QED
    BY <1>1, <1>2, <1>3, <1>4 DEF AuthNext

-----------------------------------------------------------------------------
(* LoginProven *)

\* A credential that checks out keeps the login honest: Proves adds it for
\* the name that Requested has fixed, and finishes the login only when it was
\* the last one needed.
LEMMA ProvesStep ==
    ASSUME LoginInv, NEW u \in Valid, NEW m \in InitialTypes(opts) \cup {"pubkey"},
           Requested(u), Proves(m, u)
    PROVE  PartialProven' /\ DoneProven'
<1> USE DEF LoginInv, Requested, Proves
<1>0. opts' = opts /\ username' = u /\ ~authdone /\ ~connected' /\ u # NoUser
    BY AuthAssumption DEF DoneProven
<1>m. m \in Methods
    BY OptionsTyped DEF Typed, Methods
<1>1. \A k \in InitialTypes(opts) \ authtypes : <<k, u>> \in proven
    BY <1>0, AuthAssumption DEF PartialProven, SameUser
<1>2. <<m, u>> \in proven' /\ proven \subseteq proven'
    OBVIOUS
<1>3. CASE MoreRequired(m)
    <2>1. authtypes' = authtypes \ {m} /\ authdone' = authdone
        BY <1>3
    <2>2. PartialProven'
        BY <1>0, <1>1, <1>2, <2>1 DEF PartialProven
    <2>3. QED
        BY <1>0, <2>1, <2>2 DEF DoneProven
<1>4. CASE ~MoreRequired(m)
    <2>1. authtypes' = authtypes /\ authdone' = TRUE
        BY <1>4
    <2>2. PartialProven'
        BY <1>0, <1>1, <1>2, <2>1 DEF PartialProven
    <2>3. ~opts.multiauthmethod \/ authtypes \subseteq {m}
        BY <1>4 DEF MoreRequired
    <2>4. CASE ~opts.multiauthmethod
        BY <1>0, <1>m, <1>2, <2>1, <2>2, <2>4 DEF DoneProven, LoginProven
    <2>5. CASE authtypes \subseteq {m}
        <3>1. \A k \in InitialTypes(opts) : <<k, u>> \in proven'
            BY <1>1, <1>2, <2>5
        <3>2. QED
            BY <1>0, <2>2, <3>1 DEF DoneProven, LoginProven
    <2>6. QED
        BY <2>3, <2>4, <2>5
<1>5. QED
    BY <1>3, <1>4

\* A request that is refused proves nothing and takes nothing back.
LEMMA FailsStep ==
    ASSUME LoginInv, NEW u \in Users, NEW b \in BOOLEAN, Requested(u), Fails(b)
    PROVE  PartialProven' /\ DoneProven'
<1> USE DEF LoginInv, Requested, Fails
<1>1. opts' = opts /\ username' = u /\ authdone' = authdone /\ ~authdone /\ ~connected'
    BY DEF DoneProven
<1>2. \A k \in InitialTypes(opts) \ authtypes : username = u
    BY AuthAssumption DEF PartialProven, SameUser
<1>3. PartialProven'
    BY <1>1, <1>2 DEF PartialProven
<1>4. QED
    BY <1>1, <1>3 DEF DoneProven

LEMMA LoginStep == LoginInv /\ [AuthNext]_authVars => LoginInv'
<1> SUFFICES ASSUME LoginInv, [AuthNext]_authVars PROVE LoginInv'
    OBVIOUS
<1>t. Typed'
    BY TypedStep DEF LoginInv
<1> SUFFICES PartialProven' /\ DoneProven'
    BY <1>t DEF LoginInv
<1>x. ASSUME Exit PROVE PartialProven' /\ DoneProven'
    BY <1>x DEF Exit, LoginInv, PartialProven, DoneProven, LoginProven
<1>1. CASE Connection
    <2>1. CASE Exit
        BY <1>x, <2>1
    <2>2. CASE ~Exit
        BY <1>1, <2>2 DEF Connection, ConnectionAllowed, stateVars, LoginInv,
                          PartialProven, DoneProven, LoginProven
    <2>3. QED
        BY <2>1, <2>2
<1>2. CASE AuthTimeout \/ Leave
    BY <1>x, <1>2 DEF AuthTimeout, Leave
<1>3. ASSUME NEW u \in Users, Request(u) PROVE PartialProven' /\ DoneProven'
    <2>1. CASE MethodNone(u)
        <3>1. CASE Fails(FALSE)
            BY <2>1, <3>1, FailsStep DEF MethodNone
        <3>2. CASE ~Fails(FALSE)
            <4>1. /\ opts' = opts /\ username' = u /\ u \in Valid
                  /\ authtypes' = authtypes
                  /\ <<"none", u>> \in proven' /\ proven \subseteq proven'
                  /\ opts.allowblankpass
                BY <2>1, <3>2, AuthAssumption DEF MethodNone, Requested
            <4>2. \A k \in InitialTypes(opts) \ authtypes : username = u
                BY <2>1, AuthAssumption DEF MethodNone, Requested, LoginInv,
                                            PartialProven, SameUser
            <4>3. PartialProven'
                BY <4>1, <4>2 DEF LoginInv, PartialProven
            <4>4. LoginProven' /\ authdone'
                BY <2>1, <3>2, <4>1 DEF LoginProven, MethodNone
            <4>5. QED
                BY <4>3, <4>4 DEF DoneProven
        <3>3. QED
            BY <3>1, <3>2
    <2>2. CASE PasswordGood(u)
        <3>1. "password" \in InitialTypes(opts)
            BY <2>2 DEF PasswordGood, PasswordAllowed, InitialTypes, Methods
        <3>2. QED
            BY <2>2, <3>1, ProvesStep DEF PasswordGood
    <2>3. CASE PasswordOrbis(u)
        <3>1. /\ opts' = opts /\ username' = u /\ u \in Valid
              /\ authtypes' = authtypes /\ authdone'
              /\ <<"password", u>> \in proven' /\ proven \subseteq proven'
            BY <2>3 DEF PasswordOrbis, Requested
        <3>2. ~opts.multiauthmethod
            BY <2>3 DEF PasswordOrbis, LoginInv, Typed, Options
        <3>3. \A k \in InitialTypes(opts) \ authtypes : username = u
            BY <2>3, AuthAssumption DEF PasswordOrbis, Requested, LoginInv,
                                        PartialProven, SameUser
        <3>4. PartialProven'
            BY <3>1, <3>3 DEF LoginInv, PartialProven
        <3>5. LoginProven'
            BY <3>1, <3>2 DEF LoginProven, Methods
        <3>6. QED
            BY <3>1, <3>4, <3>5 DEF DoneProven
    <2>4. CASE PasswordBad(u)
        BY <2>4, FailsStep DEF PasswordBad
    <2>5. CASE PubkeyRefused(u)
        BY <2>5, FailsStep DEF PubkeyRefused
    <2>6. CASE PubkeyUnknown(u)
        <3>1. Counted \in BOOLEAN
            BY DEF Counted
        <3>2. QED
            BY <2>6, <3>1, FailsStep DEF PubkeyUnknown
    <2>7. CASE PubkeyBadSignature(u)
        BY <2>7, FailsStep DEF PubkeyBadSignature
    <2>8. CASE PubkeyGood(u)
        BY <2>8, ProvesStep DEF PubkeyGood
    <2>9. CASE OtherUser(u)
        BY <1>x, <2>9 DEF OtherUser
    <2>10. QED
        BY <1>3, <2>1, <2>2, <2>3, <2>4, <2>5, <2>6, <2>7, <2>8, <2>9 DEF Request
<1>4. CASE UNCHANGED authVars
    BY <1>4 DEF authVars, stateVars, LoginInv, PartialProven, DoneProven, LoginProven
<1>5. QED
    BY <1>1, <1>2, <1>3, <1>4 DEF AuthNext

\* Whatever a client asks in whatever order, svr-auth.c sets authdone only
\* after every required credential was proven, all for the one user name that
\* checkusername fixed, and no connection request is handled before.
THEOREM LoginNeedsProof == AuthSpec => []LoginProven
<1>1. AuthInit => LoginInv
    BY TypedInit DEF AuthInit, LoginInv, PartialProven, DoneProven
<1>2. LoginInv => LoginProven
    <2>1. authdone \/ connected \/ ~(authdone \/ connected)
        OBVIOUS
    <2>2. QED
        BY DEF LoginInv, DoneProven, LoginProven
<1>3. QED
    BY <1>1, <1>2, LoginStep, PTL DEF AuthSpec

-----------------------------------------------------------------------------
(* GuessesBounded *)

\* A request that is refused uses up a try, or is free; either way it is
\* charged for what it checked.
LEMMA ChargedFails ==
    ASSUME GuessInv, NEW b \in BOOLEAN, ~ended, Fails(b), opts' = opts,
           \/ wrong' = wrong /\ queries' = queries
           \/ b /\ wrong' = wrong + 1 /\ queries' \in {queries, queries + 1}
           \/ /\ ~b /\ wrong' = wrong + 1 /\ queries' = queries + 1
              /\ queries < FreeQueries
    PROVE  Charged'
<1>1. opts.maxauthtries \in Nat /\ FreeQueries \in Nat /\ FreeQueries' = FreeQueries
    BY OptionsTyped, FreeQueriesNat DEF GuessInv, Typed, FreeQueries
<1>2. QED
    BY <1>1 DEF GuessInv, Charged, Typed, Fails, Failure

LEMMA GuessStep == GuessInv /\ [AuthNext]_authVars => GuessInv'
<1> SUFFICES ASSUME GuessInv, [AuthNext]_authVars PROVE GuessInv'
    OBVIOUS
<1>t. Typed'
    BY TypedStep DEF GuessInv
<1> SUFFICES Charged'
    BY <1>t DEF GuessInv
<1>u. ASSUME UNCHANGED <<opts, failcount, queries, wrong>>, ended => ended'
      PROVE  Charged'
    BY <1>u DEF GuessInv, Charged, FreeQueries
<1>1. CASE Connection \/ AuthTimeout \/ Leave
    BY <1>u, <1>1 DEF Connection, AuthTimeout, Leave, Exit, stateVars
<1>3. ASSUME NEW u \in Users, Request(u) PROVE Charged'
    <2>1. CASE MethodNone(u)
        <3>1. CASE Fails(FALSE)
            BY <2>1, <3>1, ChargedFails DEF MethodNone, Requested
        <3>2. CASE ~Fails(FALSE)
            BY <1>u, <2>1, <3>2 DEF MethodNone, Requested
        <3>3. QED
            BY <3>1, <3>2
    <2>2. CASE PasswordGood(u) \/ PubkeyGood(u)
        BY <1>u, <2>2 DEF PasswordGood, PubkeyGood, Requested, Proves
    <2>3. CASE PasswordOrbis(u)
        BY <1>u, <2>3 DEF PasswordOrbis, Requested
    <2>4. CASE PasswordBad(u)
        BY <2>4, ChargedFails DEF PasswordBad, Requested
    <2>5. CASE PubkeyRefused(u)
        BY <2>5, ChargedFails DEF PubkeyRefused, Requested
    <2>6. CASE PubkeyUnknown(u)
        <3>1. Counted \in BOOLEAN /\ (Counted \/ queries < FreeQueries)
            BY FreeQueriesNat DEF Counted, GuessInv, Typed
        <3>2. QED
            BY <2>6, <3>1, ChargedFails DEF PubkeyUnknown, Requested
    <2>7. CASE PubkeyBadSignature(u)
        BY <2>7, ChargedFails DEF PubkeyBadSignature, Requested
    <2>9. CASE OtherUser(u)
        BY <1>u, <2>9 DEF OtherUser, Exit
    <2>10. QED
        BY <1>3, <2>1, <2>2, <2>3, <2>4, <2>5, <2>6, <2>7, <2>9 DEF Request
<1>4. CASE UNCHANGED authVars
    BY <1>u, <1>4 DEF authVars, stateVars
<1>5. QED
    BY <1>1, <1>3, <1>4 DEF AuthNext

\* However a client mixes methods, send_msg_userauth_failure lets no connection go
\* on after more than maxauthtries wrong credentials on top of the key queries that
\* svr_auth_pubkey does not count.
THEOREM GuessesLimited == AuthSpec => []GuessesBounded
<1>1. AuthInit => GuessInv
    <2> SUFFICES ASSUME AuthInit PROVE Charged
        BY TypedInit DEF GuessInv
    <2>1. opts.maxauthtries \in Nat /\ FreeQueries \in Nat
        BY TypedInit, OptionsTyped, FreeQueriesNat DEF Typed
    <2>2. QED
        BY <2>1 DEF AuthInit, Charged
<1>2. GuessInv => GuessesBounded
    BY OptionsTyped, FreeQueriesNat DEF GuessInv, Typed, Charged, GuessesBounded
<1>3. QED
    BY <1>1, <1>2, GuessStep, PTL DEF AuthSpec
=============================================================================
