--------------------------- MODULE ChildReapProofs ---------------------------
(***************************************************************************)
(* That no exit of a child goes unmatched, that a CLOSE carries the exit   *)
(* of the channel's own child and that its output is drained, for every    *)
(* number of channels and processes and every interleaving, but for the    *)
(* commands started after CLOSE and the pids reused too early.             *)
(***************************************************************************)
EXTENDS ChildReap, WellFoundedInduction, TLAPS

-----------------------------------------------------------------------------
(* The inductive invariant *)

Slot == [pid : Pids, chan : Chans] \cup {NoSlot}
ExitInfo == [pid : Pids \cup {None}, of : Chans \cup {None}]
LastExit == [pid : Pids, of : Chans \cup {None}] \cup {NoExit}
Fd == {"uninit", "open", "closed"}
Channel == [pid : Pids \cup {None}, exit : ExitInfo, readfd : Fd, writefd : Fd,
            flushing : BOOLEAN, recv_eof : BOOLEAN, recv_close : BOOLEAN,
            sent_eof : BOOLEAN, sent_close : BOOLEAN, status : ExitInfo,
            removed : BOOLEAN]

TypeInv ==
    /\ proc \in [Pids -> {"free", "alive", "zombie"}]
    /\ owner \in [Pids -> Chans \cup {None}]
    /\ output \in [Chans -> Nat] /\ ready \subseteq Chans
    /\ childpids \in Seq(Slot) /\ ch \in [Chans -> Channel] /\ lastexit \in LastExit
    /\ clash \in BOOLEAN /\ late \subseteq Chans

\* A channel has descriptors exactly from its fork on.
ChanOk(r) ==
    /\ r.removed => r.sent_close
    /\ r.flushing => r.exit # NoExit
    /\ r.pid = None => r.exit = NoExit /\ r.readfd # "open"
    /\ r.pid # None => r.readfd # "uninit"

\* CLOSE is sent only when the command has never started or was waited for.
ChanInv ==
    \A c \in Chans :
        /\ ChanOk(ch[c])
        /\ ch[c].sent_close /\ c \notin late => ch[c].pid = None \/ ch[c].exit # NoExit

Entry(p, c) == [pid |-> p, chan |-> c]

\* As long as no pid came back too early, the channel of a child that was not
\* waited for knows of no exit, and the child is in the table or about to be
\* put there, unless its channel is gone because the command came late.
ProcInv ==
    ~clash => \A p \in Pids : proc[p] # "free" =>
        /\ owner[p] \in Chans /\ ch[owner[p]].pid = p /\ ch[owner[p]].exit = NoExit
        /\ \/ \E i \in 1..Len(childpids) : childpids[i] = Entry(p, owner[p])
           \/ pc = "forked" /\ forked = owner[p]
           \/ owner[p] \in late

\* The table names the child that its channel forked.
SlotInv ==
    /\ \A i \in 1..Len(childpids) :
         childpids[i] # NoSlot => ch[childpids[i].chan].pid = childpids[i].pid
    /\ pc = "forked" => forked \in Chans /\ ch[forked].pid # None

\* As long as no pid came back too early, a pid is in the table once, for the
\* channel that has the child, lastexit names none of the table, and every exit
\* is that of the channel's own child.
OwnInv ==
    ~clash =>
        /\ \A i, j \in 1..Len(childpids) :
             childpids[i].pid = childpids[j].pid /\ childpids[i] # NoSlot => i = j
        /\ \A i \in 1..Len(childpids) : childpids[i] # NoSlot =>
             /\ childpids[i].pid # lastexit.pid
             /\ proc[childpids[i].pid] # "free" => childpids[i].chan = owner[childpids[i].pid]
        /\ pc = "forked" =>
             /\ \A i \in 1..Len(childpids) : childpids[i].pid # ch[forked].pid
             /\ ch[forked].pid # lastexit.pid /\ owner[ch[forked].pid] = forked
        /\ \A c \in Chans : ch[c].exit # NoExit => ch[c].exit = [pid |-> ch[c].pid, of |-> c]

\* What select() found readable is not read up by anyone else, and a channel
\* whose reading has ended has no writer left.
DrainInv ==
    /\ \A c \in ready : ch[c].pid # None /\ (output[c] > 0 \/ ChildOf(c) = {})
    /\ \A c \in Chans \ Pty :
         ch[c].readfd = "closed" /\ ch[c].pid # None /\ ~ch[c].recv_close /\ ~clash =>
            output[c] = 0 /\ ChildOf(c) = {}

Inv ==
    TypeInv /\ ChanInv /\ ProcInv /\ SlotInv /\ OwnInv /\ OwnStatus /\ DrainInv /\ ExitMatched

-----------------------------------------------------------------------------
(* The table of children *)

\* A nonempty set of naturals has a least element.
LEMMA LeastElement ==
    ASSUME NEW S, S \subseteq Nat, S # {}
    PROVE  \E m \in S : \A k \in S : m <= k
<1>1. \E m \in S : \A k \in S : ~(<<k, m>> \in OpToRel(<, Nat))
    BY WFMin, NatLessThanWellFounded
<1>2. \A m, k \in S : ~(<<k, m>> \in OpToRel(<, Nat)) => m <= k
    BY DEF OpToRel
<1>3. QED
    BY <1>1, <1>2

LEMMA NoSlotIsNone == NoSlot.pid = None /\ \A e \in Slot : e # NoSlot => e.pid \in Pids /\ e.chan \in Chans
BY DEF NoSlot, Slot

\* FirstSlot finds a slot of the pid if there is one.
LEMMA FirstSlotFinds ==
    ASSUME NEW t \in Seq(Slot), NEW p \in Pids, NEW i \in 1..Len(t), t[i].pid = p
    PROVE  FirstSlot(t, p) \in 1..Len(t) /\ t[FirstSlot(t, p)].pid = p /\ FirstSlot(t, p) # 0
<1>1. PICK S : S = {j \in 1..Len(t) : t[j].pid = p}
    OBVIOUS
<1>2. S \subseteq Nat /\ S # {} /\ i \in S
    BY <1>1
<1>3. PICK m \in S : \A k \in S : m <= k
    BY <1>2, LeastElement
<1>4. Min(S) \in S
    BY <1>3 DEF Min
<1>5. FirstSlot(t, p) = Min(S)
    BY <1>1, <1>2 DEF FirstSlot, SelectInSeq
<1>6. Min(S) \in 1..Len(t) /\ t[Min(S)].pid = p
    BY <1>1, <1>4
<1>7. QED
    BY <1>5, <1>6

LEMMA FirstSlotIs ==
    ASSUME NEW t \in Seq(Slot), NEW p \in Pids, FirstSlot(t, p) # 0
    PROVE  /\ FirstSlot(t, p) \in 1..Len(t) /\ t[FirstSlot(t, p)].pid = p
           /\ t[FirstSlot(t, p)] # NoSlot /\ t[FirstSlot(t, p)].chan \in Chans
<1>1. \E i \in 1..Len(t) : t[i].pid = p
    BY DEF FirstSlot, SelectInSeq
<1>2. FirstSlot(t, p) \in 1..Len(t) /\ t[FirstSlot(t, p)].pid = p
    BY <1>1, FirstSlotFinds
<1>3. t[FirstSlot(t, p)] # NoSlot
    BY <1>2, NoSlotIsNone, ReapAssumption
<1>4. QED
    BY <1>2, <1>3, NoSlotIsNone

\* addchildpid puts the new entry into a free slot or a new one and leaves
\* the others alone.
LEMMA AddsEntry ==
    ASSUME NEW c, NEW e, e = Entry(ch[c].pid, c), e \in Slot, childpids \in Seq(Slot), NEW t,
           t = addchildpid(c)
    PROVE  /\ t \in Seq(Slot)
           /\ \E k \in 1..Len(t) :
                /\ t[k] = e
                /\ \A i \in 1..Len(t) : i # k => i \in 1..Len(childpids) /\ t[i] = childpids[i]
                /\ \A i \in 1..Len(childpids) :
                     childpids[i] # NoSlot => i # k /\ i \in 1..Len(t) /\ t[i] = childpids[i]
<1>1. PICK F, n : F = {i \in DOMAIN childpids : childpids[i] = NoSlot} /\ n = Len(childpids)
    OBVIOUS
<1>2. n \in Nat /\ DOMAIN childpids = 1..n
    BY <1>1
<1>3. t = IF F = {} THEN Append(childpids, e)
          ELSE [childpids EXCEPT ![CHOOSE i \in F : \A j \in F : i <= j] = e]
    BY <1>1 DEF addchildpid, Entry
<1>4. CASE F = {}
    <2>1. t = Append(childpids, e)
        BY <1>3, <1>4
    <2>2. t \in Seq(Slot) /\ Len(t) = n + 1 /\ t[n + 1] = e /\ \A i \in 1..n : t[i] = childpids[i]
        BY <1>1, <2>1
    <2>3. n + 1 \in 1..Len(t) /\ \A i \in 1..Len(t) : i # n + 1 => i \in 1..n
        BY <1>2, <2>2
    <2>4. \A i \in 1..n : i # n + 1 /\ i \in 1..Len(t)
        BY <1>2, <2>2
    <2>5. QED
        BY <1>1, <2>2, <2>3, <2>4
<1>5. CASE F # {}
    <2>1. F \subseteq Nat /\ F \subseteq 1..n
        BY <1>1, <1>2
    <2>2. PICK k : k = (CHOOSE i \in F : \A j \in F : i <= j)
        OBVIOUS
    <2>3. k \in F
        BY <1>5, <2>1, <2>2, LeastElement
    <2>4. t = [childpids EXCEPT ![k] = e] /\ k \in 1..n
        BY <1>3, <1>5, <2>1, <2>2, <2>3
    <2>5. t \in Seq(Slot) /\ Len(t) = n /\ t[k] = e /\ \A i \in 1..n : i # k => t[i] = childpids[i]
        BY <1>1, <2>4
    <2>6. childpids[k] = NoSlot
        BY <1>1, <2>3
    <2>7. QED
        BY <1>1, <2>4, <2>5, <2>6
<1>6. QED
    BY <1>4, <1>5

\* cleanupchansess clears the slots of removed channels only.
LEMMA CleansUp ==
    ASSUME NEW t \in Seq(Slot), NEW g, NEW u, u = cleanupchansess(t, g)
    PROVE  /\ u \in Seq(Slot) /\ Len(u) = Len(t)
           /\ \A i \in 1..Len(t) : u[i] = t[i] \/ u[i] = NoSlot
           /\ \A i \in 1..Len(t) : t[i] # NoSlot /\ ~g[t[i].chan].removed => u[i] = t[i]
<1>1. u = [i \in 1..Len(t) |->
             IF t[i] # NoSlot /\ g[t[i].chan].removed THEN NoSlot ELSE t[i]]
    BY DEF cleanupchansess
<1>2. NoSlot \in Slot /\ \A i \in 1..Len(t) : t[i] \in Slot
    BY DEF Slot
<1>3. u \in Seq(Slot) /\ Len(u) = Len(t)
    BY <1>1, <1>2
<1>4. QED
    BY <1>1, <1>3

-----------------------------------------------------------------------------
(* check_close *)

LEMMA CloseReadFields ==
    ASSUME NEW r \in Channel, NEW c, NEW q, q = CloseRead(r, c)
    PROVE  /\ q \in Channel /\ q.readfd = "closed"
           /\ q.pid = r.pid /\ q.exit = r.exit /\ q.flushing = r.flushing
           /\ q.recv_close = r.recv_close /\ q.recv_eof = r.recv_eof
           /\ q.sent_close = r.sent_close /\ q.status = r.status /\ q.removed = r.removed
BY DEF Channel, Fd, CloseRead

LEMMA CloseWriteFields ==
    ASSUME NEW r \in Channel, NEW c, NEW q, q = CloseWrite(r, c)
    PROVE  /\ q \in Channel
           /\ q.readfd = r.readfd \/ (q.readfd = "closed" /\ (c \in Pty \/ r.readfd = "uninit"))
           /\ q.pid = r.pid /\ q.exit = r.exit /\ q.flushing = r.flushing
           /\ q.recv_close = r.recv_close /\ q.recv_eof = r.recv_eof
           /\ q.sent_close = r.sent_close /\ q.status = r.status /\ q.removed = r.removed
<1>1. PICK f : f = IF c \in Pty \/ r.readfd = "uninit" THEN "closed" ELSE r.readfd
    OBVIOUS
<1>2. f \in Fd /\ (f = r.readfd \/ (f = "closed" /\ (c \in Pty \/ r.readfd = "uninit")))
    BY <1>1 DEF Channel, Fd
<1>3. q = [r EXCEPT !.writefd = "closed", !.readfd = f]
    BY <1>1 DEF CloseWrite, Channel
<1>4. QED
    BY <1>2, <1>3 DEF Channel, Fd

LEMMA SendCloseFields ==
    ASSUME NEW r \in Channel, NEW q, q = send_msg_channel_close(r)
    PROVE  /\ q \in Channel /\ q.readfd = "closed" /\ q.sent_close /\ q.status = r.exit
           /\ q.pid = r.pid /\ q.exit = r.exit /\ q.flushing = r.flushing
           /\ q.recv_close = r.recv_close /\ q.removed = r.removed
BY DEF Channel, Fd, send_msg_channel_close

\* What check_close may have done to a channel r.
Checked(r, c, pending, q) ==
    /\ q \in Channel /\ q.pid = r.pid /\ q.exit = r.exit /\ q.recv_close = r.recv_close
    /\ q.sent_close => \/ r.sent_close /\ q.status = r.status
                       \/ (r.pid = None \/ r.exit # NoExit) /\ q.status = r.exit
    /\ c \notin Pty /\ ~r.recv_close /\ r.pid # None /\ q.readfd = "closed" =>
          r.readfd = "closed" \/ (r.exit # NoExit /\ ~pending)

LEMMA CheckCloses ==
    ASSUME NEW r \in Channel, ChanOk(r), NEW c, NEW pending, NEW q,
           q = check_close(r, c, pending)
    PROVE  ChanOk(q) /\ Checked(r, c, pending, q)
<1> DEFINE allowed == r.sent_close \/ sesscheckclose(r)
           r1 == [r EXCEPT !.flushing = @ \/ (~r.sent_close /\ r.exit # NoExit)]
           r2 == IF r1.flushing /\ r1.readfd = "open" /\ ~pending
                 THEN CloseRead(r1, c) ELSE r1
           r3 == IF r2.recv_eof \/ (r2.writefd # "uninit" /\ allowed)
                 THEN CloseWrite(r2, c) ELSE r2
           r4 == [r3 EXCEPT !.sent_eof = @ \/ r3.readfd = "closed"]
           s1 == IF r2.sent_close THEN r2 ELSE send_msg_channel_close(r2)
<1>5. q = IF r.removed THEN r
          ELSE IF r2.recv_close /\ allowed
          THEN [s1 EXCEPT !.removed = TRUE, !.readfd = "closed", !.writefd = "closed"]
          ELSE IF r4.readfd = "closed" /\ r4.writefd = "closed" /\ ~r4.sent_close /\ allowed
          THEN send_msg_channel_close(r4)
          ELSE r4
    BY DEF check_close
<1>1. allowed => r.sent_close \/ sesscheckclose(r)
    OBVIOUS
<1> HIDE DEF allowed, r4, s1, r3, r2
<1>6. /\ r1 \in Channel /\ r1.pid = r.pid /\ r1.exit = r.exit /\ r1.recv_close = r.recv_close
      /\ r1.sent_close = r.sent_close /\ r1.status = r.status /\ r1.removed = r.removed
      /\ r1.readfd = r.readfd /\ (r1.flushing => r.exit # NoExit)
    BY DEF Channel, ChanOk
<1> HIDE DEF r1
<1>7. /\ r2 \in Channel /\ r2.pid = r.pid /\ r2.exit = r.exit /\ r2.recv_close = r.recv_close
      /\ r2.sent_close = r.sent_close /\ r2.status = r.status /\ r2.removed = r.removed
      /\ (r2.flushing => r.exit # NoExit)
      /\ r2.readfd = r.readfd \/ (r2.readfd = "closed" /\ r.readfd = "open" /\ r.exit # NoExit /\ ~pending)
    <2>1. r2 = r1 \/ (r1.flushing /\ r1.readfd = "open" /\ ~pending /\ r2 = CloseRead(r1, c))
        BY DEF r2
    <2>2. QED
        BY <1>6, <2>1, CloseReadFields
<1>8. /\ r3 \in Channel /\ r3.pid = r.pid /\ r3.exit = r.exit /\ r3.recv_close = r.recv_close
      /\ r3.sent_close = r.sent_close /\ r3.status = r.status /\ r3.removed = r.removed
      /\ (r3.flushing => r.exit # NoExit)
      /\ r3.readfd = r2.readfd \/ (r3.readfd = "closed" /\ (c \in Pty \/ r2.readfd = "uninit"))
    <2>1. r3 = r2 \/ r3 = CloseWrite(r2, c)
        BY DEF r3
    <2>2. QED
        BY <1>7, <2>1, CloseWriteFields
<1>9. /\ r4 \in Channel /\ r4.pid = r.pid /\ r4.exit = r.exit /\ r4.recv_close = r.recv_close
      /\ r4.sent_close = r.sent_close /\ r4.status = r.status /\ r4.removed = r.removed
      /\ (r4.flushing => r.exit # NoExit) /\ r4.readfd = r3.readfd
    BY <1>8 DEF Channel, r4
<1>10. allowed /\ ~r.sent_close => r.pid = None \/ r.exit # NoExit
    BY <1>1 DEF sesscheckclose
<1>11. CASE r.removed
    <2>1. q = r
        BY <1>5, <1>11
    <2>2. QED
        BY <2>1 DEF Checked
<1>12. CASE ~r.removed /\ r2.recv_close /\ allowed
    <2>1. PICK s : s = s1
        OBVIOUS
    <2>2. /\ s \in Channel /\ s.pid = r.pid /\ s.exit = r.exit /\ s.recv_close = r.recv_close
          /\ s.sent_close /\ (s.status = r.status \/ s.status = r.exit)
          /\ (r.sent_close => s.status = r.status) /\ (~r.sent_close => s.status = r.exit)
          /\ (s.flushing => r.exit # NoExit)
        <3>1. (r2.sent_close /\ s = r2) \/ (~r2.sent_close /\ s = send_msg_channel_close(r2))
            BY <2>1 DEF s1
        <3>2. CASE r2.sent_close /\ s = r2
            BY <1>7, <3>2
        <3>3. CASE ~r2.sent_close /\ s = send_msg_channel_close(r2)
            BY <1>7, <3>3, SendCloseFields
        <3>4. QED
            BY <3>1, <3>2, <3>3
    <2>3. q = [s EXCEPT !.removed = TRUE, !.readfd = "closed", !.writefd = "closed"]
        BY <1>5, <1>12, <2>1
    <2>4. /\ q \in Channel /\ q.pid = r.pid /\ q.exit = r.exit /\ q.recv_close = r.recv_close
          /\ q.sent_close /\ q.status = s.status /\ q.flushing = s.flushing /\ q.readfd = "closed"
        BY <2>2, <2>3 DEF Channel, Fd
    <2>5. r.recv_close
        BY <1>7, <1>12
    <2>6. ChanOk(q)
        BY <2>2, <2>4 DEF ChanOk
    <2>7. Checked(r, c, pending, q)
        BY <1>10, <1>12, <2>2, <2>4, <2>5 DEF Checked
    <2>8. QED
        BY <2>6, <2>7
<1>13. CASE ~r.removed /\ ~(r2.recv_close /\ allowed)
    <2>1. /\ r4.pid = None => r4.exit = NoExit /\ r4.readfd # "open"
          /\ r4.pid # None => r4.readfd # "uninit"
        BY <1>7, <1>8, <1>9 DEF ChanOk
    <2>2. c \notin Pty /\ r.pid # None /\ r4.readfd = "closed" =>
             r.readfd = "closed" \/ (r.exit # NoExit /\ ~pending)
        BY <1>7, <1>8, <1>9 DEF ChanOk
    <2>3. CASE r4.readfd = "closed" /\ r4.writefd = "closed" /\ ~r4.sent_close /\ allowed
        <3>1. q = send_msg_channel_close(r4)
            BY <1>5, <1>13, <2>3
        <3>2. /\ q \in Channel /\ q.pid = r.pid /\ q.exit = r.exit /\ q.recv_close = r.recv_close
              /\ q.sent_close /\ q.status = r.exit /\ q.readfd = "closed"
              /\ (q.flushing => r.exit # NoExit) /\ q.removed = r.removed
            BY <1>9, <3>1, SendCloseFields
        <3>3. ChanOk(q)
            BY <3>2 DEF ChanOk
        <3>4. Checked(r, c, pending, q)
            BY <1>9, <1>10, <2>2, <2>3, <3>2 DEF Checked
        <3>5. QED
            BY <3>3, <3>4
    <2>4. CASE ~(r4.readfd = "closed" /\ r4.writefd = "closed" /\ ~r4.sent_close /\ allowed)
        <3>1. q = r4
            BY <1>5, <1>13, <2>4
        <3>2. ChanOk(q)
            BY <1>9, <2>1, <3>1 DEF ChanOk
        <3>3. Checked(r, c, pending, q)
            BY <1>9, <2>2, <3>1 DEF Checked
        <3>4. QED
            BY <3>2, <3>3
    <2>5. QED
        BY <2>3, <2>4
<1>14. QED
    BY <1>11, <1>12, <1>13

-----------------------------------------------------------------------------
(* The invariant holds *)

LEMMA InitInv == Init => Inv
<1> SUFFICES ASSUME Init PROVE Inv
    OBVIOUS
<1>1. NewChan \in Channel /\ ChanOk(NewChan) /\ NewChan.pid = None /\ NewChan.sent_close = FALSE
      /\ NewChan.exit = NoExit
    BY DEF NewChan, Channel, ChanOk, Fd, ExitInfo, NoExit
<1>2. \A c \in Chans : ch[c] = NewChan
    BY DEF Init
<1>3. Len(childpids) = 1 /\ childpids[1] = NoSlot /\ childpids \in Seq(Slot)
      /\ \A i \in 1..Len(childpids) : i = 1
    BY DEF Init, Slot
<1>4. TypeInv
    BY <1>1, <1>3 DEF Init, TypeInv, LastExit
<1>5. ChanInv
    BY <1>1, <1>2 DEF ChanInv
<1>6. ProcInv
    BY DEF Init, ProcInv
<1>7. SlotInv
    BY <1>3 DEF Init, SlotInv
<1>8. OwnInv
    BY <1>1, <1>2, <1>3 DEF Init, OwnInv
<1>9. OwnStatus /\ ExitMatched
    BY <1>1, <1>2 DEF Init, OwnStatus, ExitMatched
<1>10. DrainInv
    BY <1>1, <1>2 DEF Init, DrainInv
<1>11. QED
    BY <1>4, <1>5, <1>6, <1>7, <1>8, <1>9, <1>10 DEF Inv

\* Steps of the processes.
LEMMA ChildWritesInv == ASSUME NEW c \in Chans PROVE Inv /\ ChildWrites(c) => Inv'
<1> SUFFICES ASSUME Inv, ChildWrites(c) PROVE Inv'
    OBVIOUS
<1>1. TypeInv /\ ChanInv /\ ProcInv /\ SlotInv /\ OwnInv /\ OwnStatus /\ DrainInv /\ ExitMatched
    BY DEF Inv
<1>2. /\ ChildOf(c) # {} /\ output' = [output EXCEPT ![c] = @ + 1]
      /\ UNCHANGED <<proc, owner, pc, ready, childpids, lastexit, forked, ch, clash, late>>
    BY DEF ChildWrites, histVars
<1>3. output' \in [Chans -> Nat] /\ (\A d \in Chans : d # c => output'[d] = output[d])
      /\ output'[c] > 0
    BY <1>1, <1>2 DEF TypeInv
<1>4. TypeInv' /\ ChanInv'
    BY <1>1, <1>2, <1>3 DEF TypeInv, ChanInv
<1>5. ProcInv' /\ SlotInv' /\ ExitMatched'
    BY <1>1, <1>2 DEF ProcInv, SlotInv, ExitMatched
<1>6. OwnInv' /\ OwnStatus'
    BY <1>1, <1>2 DEF OwnInv, OwnStatus
<1>7. \A d \in Chans : ChildOf(d)' = ChildOf(d)
    BY <1>2 DEF ChildOf
<1>8. DrainInv'
    <2>1. \A d \in ready : ch[d].pid # None /\ (output'[d] > 0 \/ ChildOf(d)' = {})
        <3> SUFFICES ASSUME NEW d \in ready
                     PROVE  ch[d].pid # None /\ (output'[d] > 0 \/ ChildOf(d)' = {})
            OBVIOUS
        <3>1. d \in Chans /\ ch[d].pid # None /\ (output[d] > 0 \/ ChildOf(d) = {})
            BY <1>1 DEF TypeInv, DrainInv
        <3>2. QED
            BY <1>3, <1>7, <3>1
    <2>2. \A d \in Chans \ Pty :
             ch[d].readfd = "closed" /\ ch[d].pid # None /\ ~ch[d].recv_close /\ ~clash =>
                output'[d] = 0 /\ ChildOf(d)' = {}
        BY <1>1, <1>2, <1>3, <1>7 DEF DrainInv
    <2>3. QED
        BY <1>2, <2>1, <2>2 DEF DrainInv
<1>9. QED
    BY <1>4, <1>5, <1>6, <1>8 DEF Inv

LEMMA ChildExitsInv == ASSUME NEW p \in Pids PROVE Inv /\ ChildExits(p) => Inv'
<1> SUFFICES ASSUME Inv, ChildExits(p) PROVE Inv'
    OBVIOUS
<1>1. TypeInv /\ ChanInv /\ ProcInv /\ SlotInv /\ OwnInv /\ OwnStatus /\ DrainInv /\ ExitMatched
    BY DEF Inv
<1>2. /\ proc[p] = "alive" /\ proc' = [proc EXCEPT ![p] = "zombie"]
      /\ UNCHANGED <<owner, output, pc, ready, childpids, lastexit, forked, ch, clash, late>>
    BY DEF ChildExits, histVars
<1>3. /\ proc' \in [Pids -> {"free", "alive", "zombie"}]
      /\ \A q \in Pids : /\ proc'[q] # "free" => proc[q] # "free"
                         /\ proc'[q] = "alive" => proc[q] = "alive"
    BY <1>1, <1>2 DEF TypeInv
<1>4. TypeInv' /\ ChanInv'
    BY <1>1, <1>2, <1>3 DEF TypeInv, ChanInv
<1>5. ProcInv'
    BY <1>1, <1>2, <1>3 DEF ProcInv
<1>6. OwnStatus' /\ SlotInv' /\ ExitMatched'
    BY <1>1, <1>2 DEF OwnStatus, SlotInv, ExitMatched
<1>10. OwnInv'
    <2>1. ASSUME NEW i \in 1..Len(childpids), childpids[i] # NoSlot
          PROVE  proc'[childpids[i].pid] # "free" => proc[childpids[i].pid] # "free"
        <3>1. childpids[i] \in Slot
            BY <1>1 DEF TypeInv
        <3>2. QED
            BY <1>3, <2>1, <3>1, NoSlotIsNone
    <2>2. QED
        BY <1>1, <1>2, <2>1 DEF OwnInv
<1>7. \A d \in Chans : ChildOf(d) = {} => ChildOf(d)' = {}
    BY <1>2, <1>3 DEF ChildOf
<1>8. DrainInv'
    BY <1>1, <1>2, <1>7 DEF DrainInv, TypeInv
<1>9. QED
    BY <1>4, <1>5, <1>6, <1>8, <1>10 DEF Inv

\* Steps that leave the processes, the channels and the table alone.
LEMMA QuietInv ==
    ASSUME Inv, UNCHANGED <<proc, owner, output, childpids, lastexit, forked, ch, clash, late>>,
           pc = "forked" => pc' = "forked", pc' = "forked" => pc = "forked",
           ready' \subseteq Chans,
           \A c \in ready' : ch[c].pid # None /\ (output[c] > 0 \/ ChildOf(c) = {})
    PROVE  Inv'
<1>1. TypeInv /\ ChanInv /\ ProcInv /\ SlotInv /\ OwnInv /\ OwnStatus /\ DrainInv /\ ExitMatched
    BY DEF Inv
<1>2. TypeInv' /\ ChanInv'
    BY <1>1 DEF TypeInv, ChanInv
<1>3. ProcInv'
    BY <1>1 DEF ProcInv
<1>4. SlotInv' /\ ExitMatched'
    BY <1>1 DEF SlotInv, ExitMatched
<1>5. OwnInv' /\ OwnStatus'
    BY <1>1 DEF OwnInv, OwnStatus
<1>6. \A d \in Chans : ChildOf(d)' = ChildOf(d)
    BY DEF ChildOf
<1>7. DrainInv'
    BY <1>1, <1>6 DEF DrainInv
<1>8. QED
    BY <1>2, <1>3, <1>4, <1>5, <1>7 DEF Inv

LEMMA HandlerInv == Inv /\ sesssigchild_handler => Inv'
<1> SUFFICES ASSUME Inv, sesssigchild_handler PROVE Inv'
    OBVIOUS
<1>1. TypeInv /\ DrainInv
    BY DEF Inv
<1>2. /\ UNCHANGED <<proc, owner, output, childpids, lastexit, forked, ch, clash, late>>
      /\ \/ UNCHANGED <<pc, ready>>
         \/ pc = "select" /\ pc' = "loophandler" /\ ready' = {}
    BY DEF sesssigchild_handler, kernelVars, histVars
<1>3. QED
    BY <1>1, <1>2, QuietInv DEF TypeInv, DrainInv

LEMMA SelectInv == Inv /\ Select => Inv'
<1> SUFFICES ASSUME Inv, Select PROVE Inv'
    OBVIOUS
<1>1. TypeInv /\ ChanInv
    BY DEF Inv
<1>2. /\ UNCHANGED <<proc, owner, output, childpids, lastexit, forked, ch, clash, late>>
      /\ pc = "select" /\ pc' = "packet" /\ ready' = Readable
    BY DEF Select, kernelVars, histVars
<1>3. ASSUME NEW c \in Readable
      PROVE  c \in Chans /\ ch[c].pid # None /\ (output[c] > 0 \/ ChildOf(c) = {})
    BY <1>1, <1>3 DEF Readable, fd_read_pending, ChanInv, ChanOk
<1>4. QED
    BY <1>2, <1>3, QuietInv

LEMMA NoPacketInv == Inv /\ NoPacket => Inv'
<1> SUFFICES ASSUME Inv, NoPacket PROVE Inv'
    OBVIOUS
<1>1. TypeInv /\ DrainInv
    BY DEF Inv
<1>2. /\ UNCHANGED <<proc, owner, output, childpids, lastexit, forked, ch, clash, late, ready>>
      /\ pc = "packet" /\ pc' = "loophandler"
    BY DEF NoPacket, kernelVars, packetVars, histVars
<1>3. QED
    BY <1>1, <1>2, QuietInv DEF TypeInv, DrainInv

LEMMA DataAfterCloseInv == Inv /\ DataAfterClose => Inv'
<1> SUFFICES ASSUME Inv, DataAfterClose PROVE Inv'
    OBVIOUS
<1>1. TypeInv /\ DrainInv
    BY DEF Inv
<1>2. /\ UNCHANGED <<proc, owner, output, childpids, lastexit, forked, ch, clash, late, ready>>
      /\ pc = "channelio" /\ pc' = "over"
    BY DEF DataAfterClose, kernelVars, packetVars, histVars
<1>3. QED
    BY <1>1, <1>2, QuietInv DEF TypeInv, DrainInv

\* fork: the channel has no child yet, so every other child keeps its channel.
LEMMA ForkInv == ASSUME NEW c \in Chans PROVE Inv /\ Fork(c) => Inv'
<1> SUFFICES ASSUME Inv, Fork(c) PROVE Inv'
    OBVIOUS
<1>1. TypeInv /\ ChanInv /\ ProcInv /\ SlotInv /\ OwnInv /\ OwnStatus /\ DrainInv /\ ExitMatched
    BY DEF Inv
<1>2. PICK p \in Pids :
         /\ proc[p] = "free"
         /\ proc' = [proc EXCEPT ![p] = "alive"]
         /\ owner' = [owner EXCEPT ![p] = c]
         /\ ch' = [ch EXCEPT ![c].pid = p, ![c].readfd = "open", ![c].writefd = "open"]
         /\ clash' = (clash \/ lastexit.pid = p \/ \E i \in DOMAIN childpids : childpids[i].pid = p)
    BY DEF Fork
<1>3. /\ pc = "packet" /\ ch[c].pid = None /\ forked' = c /\ pc' = "forked"
      /\ late' = (IF ch[c].sent_close THEN late \cup {c} ELSE late)
      /\ UNCHANGED <<output, ready, childpids, lastexit>>
    BY DEF Fork, packetVars, NoCommandYet
<1>20. /\ late \subseteq late' /\ late' \subseteq Chans /\ (c \notin late' => ~ch[c].sent_close)
       /\ (~clash' => ~clash)
    BY <1>1, <1>2, <1>3 DEF TypeInv
<1>4. ch[c] \in Channel /\ ChanOk(ch[c]) /\ p # None
    BY <1>1, ReapAssumption DEF TypeInv, ChanInv
<1>5. PICK r : r = [ch[c] EXCEPT !.pid = p, !.readfd = "open", !.writefd = "open"]
    OBVIOUS
<1>6. /\ r \in Channel /\ r.pid = p /\ r.exit = NoExit /\ r.readfd = "open"
      /\ r.sent_close = ch[c].sent_close /\ ChanOk(r)
    BY <1>3, <1>4, <1>5 DEF Channel, Fd, ChanOk
<1>7. ch' = [ch EXCEPT ![c] = r]
    BY <1>1, <1>2, <1>5 DEF TypeInv, Channel
<1>8. ch' \in [Chans -> Channel] /\ ch'[c] = r /\ \A d \in Chans : d # c => ch'[d] = ch[d]
    BY <1>1, <1>6, <1>7 DEF TypeInv
<1>9. TypeInv'
    BY <1>1, <1>2, <1>3, <1>8, <1>20 DEF TypeInv
<1>10. ChanInv'
    BY <1>1, <1>6, <1>8, <1>20 DEF ChanInv
<1>11. /\ proc'[p] = "alive" /\ owner'[p] = c
       /\ \A q \in Pids : q # p => proc'[q] = proc[q] /\ owner'[q] = owner[q]
    BY <1>1, <1>2 DEF TypeInv
<1>12. ProcInv'
    <2> SUFFICES ASSUME ~clash', NEW q \in Pids, proc'[q] # "free"
                 PROVE  /\ owner'[q] \in Chans /\ ch'[owner'[q]].pid = q
                        /\ ch'[owner'[q]].exit = NoExit
                        /\ \/ \E i \in 1..Len(childpids') : childpids'[i] = Entry(q, owner'[q])
                           \/ pc' = "forked" /\ forked' = owner'[q]
                           \/ owner'[q] \in late'
        BY DEF ProcInv
    <2>1. CASE q = p
        BY <1>3, <1>6, <1>8, <1>11, <2>1
    <2>2. CASE q # p
        <3>1. /\ owner[q] \in Chans /\ ch[owner[q]].pid = q /\ ch[owner[q]].exit = NoExit
              /\ \/ \E i \in 1..Len(childpids) : childpids[i] = Entry(q, owner[q])
                 \/ owner[q] \in late
            BY <1>1, <1>3, <1>11, <1>20, <2>2 DEF ProcInv
        <3>2. owner[q] # c /\ owner'[q] = owner[q]
            BY <1>3, <1>11, <2>2, <3>1, ReapAssumption
        <3>3. QED
            BY <1>3, <1>8, <1>20, <3>1, <3>2
    <2>3. QED
        BY <2>1, <2>2
<1>13. ASSUME NEW i \in 1..Len(childpids), childpids[i] # NoSlot
       PROVE  childpids[i].chan \in Chans /\ childpids[i].chan # c
              /\ ch'[childpids[i].chan].pid = childpids[i].pid
    <2>1. childpids[i] \in Slot /\ ch[childpids[i].chan].pid = childpids[i].pid
        BY <1>1, <1>13 DEF SlotInv, TypeInv
    <2>2. childpids[i].pid \in Pids /\ childpids[i].chan \in Chans
        BY <1>13, <2>1, NoSlotIsNone
    <2>3. QED
        BY <1>3, <1>8, <2>1, <2>2, ReapAssumption
<1>14. SlotInv'
    BY <1>3, <1>4, <1>6, <1>8, <1>13 DEF SlotInv
<1>15. OwnInv'
    <2> SUFFICES ASSUME ~clash' PROVE OwnInv'
        BY DEF OwnInv
    <2>1. ~clash /\ p # lastexit.pid /\ \A i \in 1..Len(childpids) : childpids[i].pid # p
        <3>1. ~clash /\ ~(lastexit.pid = p) /\ ~(\E i \in DOMAIN childpids : childpids[i].pid = p)
            BY <1>2, Zenon
        <3>2. DOMAIN childpids = 1..Len(childpids)
            BY <1>1 DEF TypeInv
        <3>3. QED
            BY <3>1, <3>2
    <2>2. /\ \A i, j \in 1..Len(childpids) :
               childpids[i].pid = childpids[j].pid /\ childpids[i] # NoSlot => i = j
          /\ \A i \in 1..Len(childpids) : childpids[i] # NoSlot =>
               /\ childpids[i].pid # lastexit.pid
               /\ proc[childpids[i].pid] # "free" => childpids[i].chan = owner[childpids[i].pid]
          /\ \A d \in Chans : ch[d].exit # NoExit => ch[d].exit = [pid |-> ch[d].pid, of |-> d]
        BY <1>1, <2>1 DEF OwnInv
    <2>3. ASSUME NEW i \in 1..Len(childpids), childpids[i] # NoSlot
          PROVE  /\ childpids[i].pid # lastexit.pid
                 /\ proc'[childpids[i].pid] # "free" => childpids[i].chan = owner'[childpids[i].pid]
        <3>1. childpids[i] \in Slot
            BY <1>1 DEF TypeInv
        <3>2. childpids[i].pid \in Pids /\ childpids[i].pid # p
            BY <2>1, <2>3, <3>1, NoSlotIsNone
        <3>3. QED
            BY <1>11, <2>2, <2>3, <3>2
    <2>4. /\ \A i \in 1..Len(childpids) : childpids[i].pid # ch'[c].pid
          /\ ch'[c].pid # lastexit.pid /\ owner'[ch'[c].pid] = c
        BY <1>6, <1>8, <1>11, <2>1
    <2>5. \A d \in Chans : ch'[d].exit # NoExit => ch'[d].exit = [pid |-> ch'[d].pid, of |-> d]
        BY <1>6, <1>8, <2>2
    <2>6. QED
        BY <1>3, <2>2, <2>3, <2>4, <2>5 DEF OwnInv
<1>16. OwnStatus' /\ ExitMatched'
    <2>1. OwnStatus'
        BY <1>1, <1>6, <1>8, <1>20 DEF OwnStatus
    <2>2. ExitMatched'
        BY <1>1, <1>3, <1>20 DEF ExitMatched
    <2>3. QED
        BY <2>1, <2>2
<1>17. \A d \in Chans : d # c => ChildOf(d)' = ChildOf(d)
    BY <1>2, <1>11 DEF ChildOf
<1>18. DrainInv'
    BY <1>1, <1>3, <1>6, <1>8, <1>17, <1>20 DEF DrainInv, TypeInv
<1>19. QED
    BY <1>9, <1>10, <1>12, <1>14, <1>15, <1>16, <1>18 DEF Inv

\* addchildpid: the child is in the table from here on.
LEMMA RegisterInv == Inv /\ Register => Inv'
<1> SUFFICES ASSUME Inv, Register PROVE Inv'
    OBVIOUS
<1>1. TypeInv /\ ChanInv /\ ProcInv /\ SlotInv /\ OwnInv /\ OwnStatus /\ DrainInv /\ ExitMatched
    BY DEF Inv
<1>2. /\ pc = "forked" /\ pc' = "loophandler" /\ childpids' = addchildpid(forked)
      /\ UNCHANGED <<proc, owner, output, ready, clash, late>>
    BY DEF Register, kernelVars, packetVars, histVars
<1>3. PICK c, t, e : c = forked /\ t = childpids' /\ e = Entry(ch[c].pid, c)
    OBVIOUS
<1>4. c \in Chans /\ ch[c].pid \in Pids /\ e \in Slot /\ e # NoSlot
    <2>1. c \in Chans /\ ch[c].pid # None
        BY <1>1, <1>2, <1>3 DEF SlotInv
    <2>2. ch[c].pid \in Pids
        BY <1>1, <2>1 DEF TypeInv, Channel
    <2>3. QED
        BY <1>3, <2>1, <2>2, ReapAssumption DEF Entry, Slot, NoSlot
<1>5. /\ t \in Seq(Slot)
      /\ \E k \in 1..Len(t) :
            /\ t[k] = e
            /\ \A i \in 1..Len(t) : i # k => i \in 1..Len(childpids) /\ t[i] = childpids[i]
            /\ \A i \in 1..Len(childpids) :
                 childpids[i] # NoSlot => i # k /\ i \in 1..Len(t) /\ t[i] = childpids[i]
    <2>1. childpids \in Seq(Slot) /\ t = addchildpid(c) /\ e = Entry(ch[c].pid, c) /\ e \in Slot
        BY <1>1, <1>2, <1>3, <1>4 DEF TypeInv
    <2>2. QED
        BY <2>1, AddsEntry
<1>6. PICK k \in 1..Len(t) :
         /\ t[k] = e
         /\ \A i \in 1..Len(t) : i # k => i \in 1..Len(childpids) /\ t[i] = childpids[i]
         /\ \A i \in 1..Len(childpids) :
              childpids[i] # NoSlot => i # k /\ i \in 1..Len(t) /\ t[i] = childpids[i]
    BY <1>5
<1>7. ASSUME NEW i \in 1..Len(t), t[i] # NoSlot
      PROVE  ch[t[i].chan].pid = t[i].pid /\ t[i].chan \in Chans /\ t[i].pid \in Pids
    <2>1. t[i].chan \in Chans /\ t[i].pid \in Pids
        BY <1>5, <1>7, NoSlotIsNone
    <2>2. CASE i = k
        BY <1>3, <1>6, <2>1, <2>2 DEF Entry
    <2>3. CASE i # k
        <3>1. i \in 1..Len(childpids) /\ t[i] = childpids[i]
            BY <1>6, <2>3
        <3>2. QED
            BY <1>1, <1>7, <2>1, <3>1 DEF SlotInv
    <2>4. QED
        BY <2>2, <2>3
<1>8. CASE UNCHANGED <<ch, lastexit>>
    <2>1. TypeInv' /\ ChanInv' /\ ExitMatched'
        BY <1>1, <1>2, <1>3, <1>5, <1>8 DEF TypeInv, ChanInv, ExitMatched
    <2>2. ProcInv'
        <3> SUFFICES ASSUME ~clash, NEW p \in Pids, proc[p] # "free"
                     PROVE  /\ owner[p] \in Chans /\ ch[owner[p]].pid = p
                            /\ ch[owner[p]].exit = NoExit
                            /\ \/ \E i \in 1..Len(t) : t[i] = Entry(p, owner[p])
                               \/ owner[p] \in late
            BY <1>2, <1>3, <1>8 DEF ProcInv
        <3>1. owner[p] \in Chans /\ ch[owner[p]].pid = p /\ ch[owner[p]].exit = NoExit
            BY <1>1 DEF ProcInv
        <3>2. CASE \E i \in 1..Len(childpids) : childpids[i] = Entry(p, owner[p])
            <4>1. Entry(p, owner[p]) # NoSlot
                BY ReapAssumption DEF Entry, NoSlot
            <4>2. QED
                BY <1>6, <3>1, <3>2, <4>1
        <3>3. CASE forked = owner[p]
            BY <1>3, <1>6, <3>1, <3>3
        <3>4. QED
            BY <1>1, <3>1, <3>2, <3>3 DEF ProcInv
    <2>3. SlotInv'
        BY <1>2, <1>3, <1>7, <1>8 DEF SlotInv
    <2>4. OwnInv'
        <3> SUFFICES ASSUME ~clash PROVE OwnInv'
            BY <1>2 DEF OwnInv
        <3>1. /\ \A i, j \in 1..Len(childpids) :
                   childpids[i].pid = childpids[j].pid /\ childpids[i] # NoSlot => i = j
              /\ \A i \in 1..Len(childpids) : childpids[i] # NoSlot =>
                   /\ childpids[i].pid # lastexit.pid
                   /\ proc[childpids[i].pid] # "free" => childpids[i].chan = owner[childpids[i].pid]
              /\ \A i \in 1..Len(childpids) : childpids[i].pid # ch[c].pid
              /\ ch[c].pid # lastexit.pid /\ owner[ch[c].pid] = c
              /\ \A d \in Chans : ch[d].exit # NoExit => ch[d].exit = [pid |-> ch[d].pid, of |-> d]
            BY <1>1, <1>2, <1>3 DEF OwnInv
        <3>2. t[k].pid = ch[c].pid /\ t[k].chan = c
            BY <1>3, <1>6 DEF Entry
        <3>3. ASSUME NEW i \in 1..Len(t), NEW j \in 1..Len(t), t[i].pid = t[j].pid, t[i] # NoSlot
              PROVE  i = j
            <4>1. CASE i = k \/ j = k
                BY <1>6, <3>1, <3>2, <3>3, <4>1
            <4>2. CASE i # k /\ j # k
                <5>1. i \in 1..Len(childpids) /\ t[i] = childpids[i] /\ j \in 1..Len(childpids)
                      /\ t[j] = childpids[j]
                    BY <1>6, <4>2
                <5>2. QED
                    BY <3>1, <3>3, <5>1
            <4>3. QED
                BY <4>1, <4>2
        <3>4. ASSUME NEW i \in 1..Len(t), t[i] # NoSlot
              PROVE  /\ t[i].pid # lastexit.pid
                     /\ proc[t[i].pid] # "free" => t[i].chan = owner[t[i].pid]
            <4>1. CASE i = k
                BY <3>1, <3>2, <4>1
            <4>2. CASE i # k
                <5>1. i \in 1..Len(childpids) /\ t[i] = childpids[i]
                    BY <1>6, <4>2
                <5>2. QED
                    BY <3>1, <3>4, <5>1
            <4>3. QED
                BY <4>1, <4>2
        <3>5. QED
            BY <1>2, <1>3, <1>8, <3>1, <3>3, <3>4 DEF OwnInv
    <2>5. OwnStatus'
        BY <1>1, <1>2, <1>8 DEF OwnStatus
    <2>6. DrainInv'
        BY <1>1, <1>2, <1>8 DEF DrainInv, ChildOf
    <2>7. QED
        BY <2>1, <2>2, <2>3, <2>4, <2>5, <2>6 DEF Inv
<1>9. CASE ~UNCHANGED <<ch, lastexit>>
    <2>1. PICK m : m = FirstSlot(t, lastexit.pid)
        OBVIOUS
    <2>2. /\ lastexit # NoExit /\ m # 0
          /\ ch' = [ch EXCEPT ![t[m].chan].exit = lastexit] /\ lastexit' = NoExit
        BY <1>3, <1>9, <2>1 DEF Register
    <2>3. lastexit.pid \in Pids /\ lastexit \in ExitInfo
        BY <1>1, <2>2 DEF TypeInv, LastExit, ExitInfo
    <2>4. PICK d : d = t[m].chan
        OBVIOUS
    <2>5. m \in 1..Len(t) /\ t[m].pid = lastexit.pid /\ t[m] # NoSlot /\ d \in Chans
        BY <1>5, <2>1, <2>2, <2>3, <2>4, FirstSlotIs
    <2>6. ch[d].pid = lastexit.pid
        BY <1>7, <2>4, <2>5
    <2>7. clash
        <3>1. SUFFICES ASSUME ~clash PROVE FALSE
            OBVIOUS
        <3>2. CASE m = k
            BY <1>1, <1>2, <1>3, <1>6, <2>5, <3>1, <3>2 DEF OwnInv, Entry
        <3>3. CASE m # k
            <4>1. m \in 1..Len(childpids) /\ t[m] = childpids[m]
                BY <1>6, <2>5, <3>3
            <4>2. QED
                BY <1>1, <2>5, <3>1, <4>1 DEF OwnInv
        <3>4. QED
            BY <3>2, <3>3
    <2>8. PICK r : r = [ch[d] EXCEPT !.exit = lastexit]
        OBVIOUS
    <2>9. ch[d] \in Channel /\ ChanOk(ch[d]) /\ ch[d].pid # None
        BY <1>1, <2>3, <2>5, <2>6, ReapAssumption DEF TypeInv, ChanInv
    <2>10. /\ r \in Channel /\ r.pid = ch[d].pid /\ r.exit # NoExit /\ r.readfd = ch[d].readfd
           /\ r.removed = ch[d].removed /\ r.sent_close = ch[d].sent_close
        BY <2>2, <2>3, <2>8, <2>9 DEF Channel
    <2>11. ChanOk(r)
        BY <2>9, <2>10 DEF ChanOk
    <2>12. ch' = [ch EXCEPT ![d] = r]
        BY <1>1, <2>2, <2>4, <2>5, <2>8 DEF TypeInv
    <2>13. ch' \in [Chans -> Channel] /\ ch'[d] = r /\ \A b \in Chans : b # d => ch'[b] = ch[b]
        BY <1>1, <2>5, <2>10, <2>12 DEF TypeInv
    <2>14. TypeInv' /\ ChanInv'
        <3>1. NoExit \in LastExit
            BY DEF LastExit
        <3>2. TypeInv'
            BY <1>1, <1>2, <1>3, <1>5, <2>2, <2>13, <3>1 DEF TypeInv
        <3>3. ChanInv'
            BY <1>1, <1>2, <2>10, <2>11, <2>13 DEF ChanInv
        <3>4. QED
            BY <3>2, <3>3
    <2>15. SlotInv'
        <3>1. \A b \in Chans : ch'[b].pid = ch[b].pid
            BY <2>10, <2>13
        <3>2. QED
            BY <1>2, <1>3, <1>7, <3>1 DEF SlotInv
    <2>16. ProcInv' /\ OwnInv' /\ OwnStatus' /\ ExitMatched'
        BY <1>2, <2>7 DEF ProcInv, OwnInv, OwnStatus, ExitMatched
    <2>17. DrainInv'
        <3>1. \A b \in Chans : ch'[b].pid = ch[b].pid /\ ChildOf(b)' = ChildOf(b)
            BY <1>2, <2>10, <2>13 DEF ChildOf
        <3>2. QED
            BY <1>1, <1>2, <2>7, <3>1 DEF DrainInv, TypeInv
    <2>18. QED
        BY <2>14, <2>15, <2>16, <2>17 DEF Inv
<1>10. QED
    BY <1>8, <1>9

\* Steps that run check_close on channels and clear the slots of removed ones.
LEMMA ChecksKeep ==
    ASSUME Inv, ch' \in [Chans -> Channel], pc # "forked", pc' # "forked",
           childpids' = cleanupchansess(childpids, ch'), UNCHANGED <<proc, owner, lastexit, clash, late>>,
           output' \in [Chans -> Nat], ready' \subseteq Chans,
           \A c \in Chans :
              /\ ChanOk(ch'[c]) /\ ch'[c].pid = ch[c].pid /\ ch'[c].exit = ch[c].exit
              /\ ch'[c].sent_close =>
                    \/ ch[c].sent_close /\ ch'[c].status = ch[c].status
                    \/ (ch[c].pid = None \/ ch[c].exit # NoExit) /\ ch'[c].status = ch[c].exit
    PROVE  TypeInv' /\ ChanInv' /\ ProcInv' /\ SlotInv' /\ OwnInv' /\ OwnStatus' /\ ExitMatched'
<1>1. TypeInv /\ ChanInv /\ ProcInv /\ SlotInv /\ OwnInv /\ OwnStatus /\ ExitMatched
    BY DEF Inv
<1>2. PICK t, u, g : t = childpids /\ u = childpids' /\ g = ch'
    OBVIOUS
<1>3. /\ t \in Seq(Slot) /\ u \in Seq(Slot) /\ Len(u) = Len(t)
      /\ \A i \in 1..Len(t) : u[i] = t[i] \/ u[i] = NoSlot
      /\ \A i \in 1..Len(t) : t[i] # NoSlot /\ ~g[t[i].chan].removed => u[i] = t[i]
    <2>1. t \in Seq(Slot)
        BY <1>1, <1>2 DEF TypeInv
    <2>2. u = cleanupchansess(t, g)
        BY <1>2
    <2>3. QED
        BY <2>1, <2>2, CleansUp
<1>4. TypeInv' /\ ChanInv' /\ ExitMatched'
    <2>1. TypeInv' /\ ExitMatched'
        BY <1>1, <1>2, <1>3 DEF TypeInv, ExitMatched
    <2>2. ChanInv'
        BY <1>1 DEF ChanInv
    <2>3. QED
        BY <2>1, <2>2
<1>5. ProcInv'
    <2> SUFFICES ASSUME ~clash, NEW p \in Pids, proc[p] # "free"
                 PROVE  /\ owner[p] \in Chans /\ g[owner[p]].pid = p
                        /\ g[owner[p]].exit = NoExit
                        /\ \/ \E i \in 1..Len(u) : u[i] = Entry(p, owner[p])
                           \/ owner[p] \in late
        BY <1>2 DEF ProcInv
    <2>1. PICK c : c = owner[p]
        OBVIOUS
    <2>2. c \in Chans /\ ch[c].pid = p /\ ch[c].exit = NoExit
          /\ (c \in late \/ \E i \in 1..Len(t) : t[i] = Entry(p, c))
        BY <1>1, <1>2, <2>1 DEF ProcInv
    <2>8. g[c].pid = p /\ g[c].exit = NoExit
        BY <1>2, <2>2
    <2>9. CASE c \in late
        BY <2>1, <2>2, <2>8, <2>9
    <2>10. SUFFICES ASSUME c \notin late PROVE \E i \in 1..Len(u) : u[i] = Entry(p, c)
        BY <2>1, <2>2, <2>8, <2>9
    <2>3. ~g[c].removed
        <3>1. ~ch[c].sent_close /\ ch[c].pid # None
            BY <1>1, <2>2, <2>10, ReapAssumption DEF ChanInv
        <3>2. ~g[c].sent_close
            BY <1>2, <2>2, <3>1
        <3>3. QED
            BY <1>2, <2>2, <3>2 DEF ChanOk
    <2>4. PICK i \in 1..Len(t) : t[i] = Entry(p, c)
        BY <2>2, <2>10
    <2>5. t[i] # NoSlot /\ t[i].chan = c
        BY <2>4, ReapAssumption DEF Entry, NoSlot
    <2>6. u[i] = t[i] /\ i \in 1..Len(u)
        BY <1>3, <2>3, <2>5
    <2>7. QED
        BY <2>4, <2>6
<1>6. SlotInv'
    <2>1. ASSUME NEW i \in 1..Len(u), u[i] # NoSlot PROVE g[u[i].chan].pid = u[i].pid
        <3>1. i \in 1..Len(t) /\ u[i] = t[i] /\ t[i] \in Slot
            BY <1>3, <2>1
        <3>2. t[i].chan \in Chans /\ ch[t[i].chan].pid = t[i].pid
            BY <1>1, <1>2, <2>1, <3>1, NoSlotIsNone DEF SlotInv
        <3>3. QED
            BY <1>2, <3>1, <3>2
    <2>2. QED
        BY <1>2, <2>1 DEF SlotInv
<1>7. OwnInv'
    <2> SUFFICES ASSUME ~clash
                 PROVE  /\ \A i, j \in 1..Len(u) : u[i].pid = u[j].pid /\ u[i] # NoSlot => i = j
                        /\ \A i \in 1..Len(u) : u[i] # NoSlot =>
                             /\ u[i].pid # lastexit.pid
                             /\ proc[u[i].pid] # "free" => u[i].chan = owner[u[i].pid]
                        /\ \A d \in Chans : g[d].exit # NoExit =>
                                              g[d].exit = [pid |-> g[d].pid, of |-> d]
        BY <1>2 DEF OwnInv
    <2>1. /\ \A i, j \in 1..Len(t) : t[i].pid = t[j].pid /\ t[i] # NoSlot => i = j
          /\ \A i \in 1..Len(t) : t[i] # NoSlot =>
               /\ t[i].pid # lastexit.pid
               /\ proc[t[i].pid] # "free" => t[i].chan = owner[t[i].pid]
          /\ \A d \in Chans : ch[d].exit # NoExit => ch[d].exit = [pid |-> ch[d].pid, of |-> d]
        BY <1>1, <1>2 DEF OwnInv
    <2>2. ASSUME NEW i \in 1..Len(u), NEW j \in 1..Len(u), u[i].pid = u[j].pid, u[i] # NoSlot
          PROVE  i = j
        <3>1. i \in 1..Len(t) /\ u[i] = t[i] /\ t[i] \in Slot /\ j \in 1..Len(t)
            BY <1>3, <2>2
        <3>2. u[i].pid \in Pids
            BY <2>2, <3>1, NoSlotIsNone
        <3>3. u[j] # NoSlot
            BY <2>2, <3>2, NoSlotIsNone, ReapAssumption
        <3>4. u[j] = t[j]
            BY <1>3, <3>1, <3>3
        <3>5. QED
            BY <2>1, <2>2, <3>1, <3>4
    <2>4. ASSUME NEW i \in 1..Len(u), u[i] # NoSlot
          PROVE  /\ u[i].pid # lastexit.pid
                 /\ proc[u[i].pid] # "free" => u[i].chan = owner[u[i].pid]
        <3>1. i \in 1..Len(t) /\ u[i] = t[i]
            BY <1>3, <2>4
        <3>2. QED
            BY <2>1, <2>4, <3>1
    <2>5. \A d \in Chans : g[d].exit # NoExit => g[d].exit = [pid |-> g[d].pid, of |-> d]
        BY <1>2, <2>1
    <2>3. QED
        BY <2>2, <2>4, <2>5
<1>8. OwnStatus'
    <2> SUFFICES ASSUME NEW c \in Chans \ late, ch'[c].sent_close, ch'[c].pid # None, ~clash
                 PROVE  ch'[c].status = [pid |-> ch'[c].pid, of |-> c]
        BY DEF OwnStatus
    <2>1. ch[c].exit # NoExit => ch[c].exit = [pid |-> ch[c].pid, of |-> c]
        BY <1>1 DEF OwnInv
    <2>2. ch[c].sent_close => ch[c].status = [pid |-> ch[c].pid, of |-> c]
        BY <1>1 DEF OwnStatus
    <2>3. QED
        BY <2>1, <2>2
<1>9. QED
    BY <1>4, <1>5, <1>6, <1>7, <1>8

\* EOF or CLOSE from the client.
LEMMA RecvEndInv == ASSUME NEW c \in Chans PROVE Inv /\ RecvEnd(c) => Inv'
<1> SUFFICES ASSUME Inv, RecvEnd(c) PROVE Inv'
    OBVIOUS
<1>1. TypeInv /\ ChanInv /\ ProcInv /\ DrainInv
    BY DEF Inv
<1>2. PICK close \in BOOLEAN :
         ch' = [ch EXCEPT ![c] = check_close([@ EXCEPT !.recv_eof = TRUE, !.recv_close = close],
                                             c, fd_read_pending(output[c], c))]
    BY DEF RecvEnd
<1>3. /\ pc = "packet" /\ pc' = "loophandler" /\ childpids' = cleanupchansess(childpids, ch')
      /\ UNCHANGED <<proc, owner, output, ready, lastexit, clash, late>> /\ ~ch[c].recv_close
    BY DEF RecvEnd, kernelVars, packetVars, histVars
<1>4. PICK r, q, pending : /\ r = [ch[c] EXCEPT !.recv_eof = TRUE, !.recv_close = close]
                           /\ pending = fd_read_pending(output[c], c)
                           /\ q = check_close(r, c, pending)
    OBVIOUS
<1>5. ch[c] \in Channel /\ ChanOk(ch[c])
    BY <1>1 DEF TypeInv, ChanInv
<1>6. /\ r \in Channel /\ ChanOk(r) /\ r.pid = ch[c].pid /\ r.exit = ch[c].exit
      /\ r.status = ch[c].status /\ r.sent_close = ch[c].sent_close /\ r.readfd = ch[c].readfd
    BY <1>4, <1>5 DEF Channel, ChanOk
<1>7. ChanOk(q) /\ Checked(r, c, pending, q)
    BY <1>4, <1>6, CheckCloses
<1>8. ch' = [ch EXCEPT ![c] = q]
    BY <1>2, <1>4
<1>9. ch' \in [Chans -> Channel] /\ ch'[c] = q /\ \A d \in Chans : d # c => ch'[d] = ch[d]
    BY <1>1, <1>7, <1>8 DEF TypeInv, Checked
<1>10. \A d \in Chans :
         /\ ChanOk(ch'[d]) /\ ch'[d].pid = ch[d].pid /\ ch'[d].exit = ch[d].exit
         /\ ch'[d].sent_close =>
               \/ ch[d].sent_close /\ ch'[d].status = ch[d].status
               \/ (ch[d].pid = None \/ ch[d].exit # NoExit) /\ ch'[d].status = ch[d].exit
    <2> SUFFICES ASSUME NEW d \in Chans
                 PROVE  /\ ChanOk(ch'[d]) /\ ch'[d].pid = ch[d].pid /\ ch'[d].exit = ch[d].exit
                        /\ ch'[d].sent_close =>
                              \/ ch[d].sent_close /\ ch'[d].status = ch[d].status
                              \/ /\ ch[d].pid = None \/ ch[d].exit # NoExit
                                 /\ ch'[d].status = ch[d].exit
        OBVIOUS
    <2>1. CASE d = c
        BY <1>6, <1>7, <1>9, <2>1 DEF Checked
    <2>2. CASE d # c
        BY <1>1, <1>9, <2>2 DEF ChanInv
    <2>3. QED
        BY <2>1, <2>2
<1>11. TypeInv' /\ ChanInv' /\ ProcInv' /\ SlotInv' /\ OwnInv' /\ OwnStatus' /\ ExitMatched'
    <2>1. output' \in [Chans -> Nat] /\ ready' \subseteq Chans
        BY <1>1, <1>3 DEF TypeInv
    <2>2. QED
        BY <1>3, <1>9, <1>10, <2>1, ChecksKeep
<1>12. \A d \in Chans : ChildOf(d)' = ChildOf(d)
    BY <1>3 DEF ChildOf
<1>13. DrainInv'
    <2>1. \A d \in ready' : ch'[d].pid # None /\ (output'[d] > 0 \/ ChildOf(d)' = {})
        <3>1. ready \subseteq Chans
            BY <1>1 DEF TypeInv
        <3>2. QED
            BY <1>1, <1>3, <1>10, <1>12, <3>1 DEF DrainInv
    <2>2. ASSUME NEW d \in Chans \ Pty, ch'[d].readfd = "closed", ch'[d].pid # None,
                 ~ch'[d].recv_close, ~clash
          PROVE  output'[d] = 0 /\ ChildOf(d)' = {}
        <3>1. CASE d # c
            BY <1>1, <1>3, <1>9, <1>12, <2>2, <3>1 DEF DrainInv
        <3>2. CASE d = c
            <4>1. c \notin Pty /\ q.readfd = "closed" /\ q.pid # None /\ ~q.recv_close
                BY <1>9, <2>2, <3>2
            <4>2. ~r.recv_close /\ r.pid # None
                  /\ (r.readfd = "closed" \/ (r.exit # NoExit /\ ~pending))
                BY <1>7, <4>1 DEF Checked
            <4>3. CASE r.readfd = "closed"
                BY <1>1, <1>3, <1>6, <1>12, <2>2, <3>2, <4>1, <4>2, <4>3 DEF DrainInv
            <4>4. CASE r.exit # NoExit /\ ~pending
                <5>1. ~(output[c] > 0) /\ output[c] \in Nat
                    BY <1>1, <1>4, <4>4 DEF fd_read_pending, TypeInv
                <5>2. ChildOf(c) = {}
                    BY <1>1, <1>6, <2>2, <4>4 DEF ProcInv, ChildOf
                <5>3. QED
                    BY <1>3, <1>12, <3>2, <5>1, <5>2
            <4>5. QED
                BY <4>2, <4>3, <4>4
        <3>3. QED
            BY <3>1, <3>2
    <2>3. QED
        BY <1>3, <2>1, <2>2 DEF DrainInv
<1>14. QED
    BY <1>11, <1>13 DEF Inv

\* waitpid: a zombie that is in the table gives its exit to a channel, and only a
\* late command's is not there.
LEMMA CheckSignalInv == Inv /\ svr_chansess_checksignal => Inv'
<1> SUFFICES ASSUME Inv, svr_chansess_checksignal PROVE Inv'
    OBVIOUS
<1>1. TypeInv /\ ChanInv /\ ProcInv /\ SlotInv /\ OwnInv /\ OwnStatus /\ DrainInv /\ ExitMatched
    BY DEF Inv
<1>2. PICK Z : Z = IF channel_signal_pending THEN Zombies ELSE {}
    OBVIOUS
<1>3. \A p \in Z : p \in Pids /\ proc[p] = "zombie"
    BY <1>2 DEF Zombies
<1>4. pc = "loophandler" /\ pc' = "channelio"
      /\ UNCHANGED <<output, ready, childpids, forked, clash, late>>
    BY DEF svr_chansess_checksignal, packetVars, histVars
<1> DEFINE first(p) == FirstSlot(childpids, p)
           unmatched == {p \in Z : first(p) = 0}
           mine(c) == {p \in Z \ unmatched : childpids[first(p)].chan = c}
           info(p) == [pid |-> p, of |-> owner[p]]
<1>5. /\ proc' = [p \in Pids |-> IF p \in Z THEN "free" ELSE proc[p]]
      /\ owner' = [p \in Pids |-> IF p \in Z THEN None ELSE owner[p]]
      /\ ch' = [c \in Chans |->
                  IF mine(c) = {} THEN ch[c]
                  ELSE [ch[c] EXCEPT !.exit = info(CHOOSE p \in mine(c) : TRUE)]]
      /\ IF unmatched = {} THEN UNCHANGED lastexit
         ELSE \E p \in unmatched : lastexit' = info(p)
    BY <1>2 DEF svr_chansess_checksignal
<1>6. ASSUME ~clash, NEW p \in Pids, proc[p] # "free"
      PROVE  /\ owner[p] \in Chans /\ ch[owner[p]].pid = p /\ ch[owner[p]].exit = NoExit
             /\ \/ \E i \in 1..Len(childpids) : childpids[i] = Entry(p, owner[p])
                \/ owner[p] \in late
    BY <1>1, <1>4, <1>6 DEF ProcInv
<1>7. ASSUME NEW p \in Z, p \notin unmatched
      PROVE  /\ p \in Pids /\ first(p) \in 1..Len(childpids) /\ childpids[first(p)].pid = p
             /\ childpids[first(p)] # NoSlot
             /\ childpids[first(p)].chan \in Chans /\ ch[childpids[first(p)].chan].pid = p
             /\ ~clash => childpids[first(p)].chan = owner[p]
    <2>1. p \in Pids /\ proc[p] # "free" /\ childpids \in Seq(Slot) /\ first(p) # 0
        BY <1>1, <1>3, <1>7 DEF TypeInv
    <2>2. /\ first(p) \in 1..Len(childpids) /\ childpids[first(p)].pid = p
          /\ childpids[first(p)] # NoSlot /\ childpids[first(p)].chan \in Chans
        BY <2>1, FirstSlotIs
    <2>3. ch[childpids[first(p)].chan].pid = p
        BY <1>1, <2>2 DEF SlotInv
    <2>4. ~clash => childpids[first(p)].chan = owner[p]
        BY <1>1, <2>1, <2>2 DEF OwnInv
    <2>5. QED
        BY <2>1, <2>2, <2>3, <2>4
<1>8. ASSUME NEW p \in unmatched
      PROVE  /\ p \in Pids /\ \A i \in 1..Len(childpids) : childpids[i].pid # p
             /\ ~clash => owner[p] \in late
    <2>1. p \in Pids /\ proc[p] # "free" /\ childpids \in Seq(Slot) /\ first(p) = 0
        BY <1>1, <1>3 DEF TypeInv
    <2>2. \A i \in 1..Len(childpids) : childpids[i].pid # p
        BY <2>1, FirstSlotFinds
    <2>3. \A i \in 1..Len(childpids) : childpids[i] # Entry(p, owner[p])
        BY <2>2 DEF Entry
    <2>4. QED
        BY <1>6, <2>1, <2>2, <2>3
<1>9. lastexit' = lastexit \/ \E p \in unmatched : lastexit' = info(p)
    BY <1>5
<1>10. ASSUME NEW c \in Chans
       PROVE  \/ ch'[c] = ch[c]
              \/ \E p \in Z \ unmatched : /\ childpids[first(p)].chan = c
                                          /\ ch'[c] = [ch[c] EXCEPT !.exit = info(p)]
    BY <1>5
<1> HIDE DEF first, unmatched, mine
<1>11. ASSUME NEW c \in Chans
       PROVE  /\ ch'[c] \in Channel /\ ChanOk(ch'[c]) /\ ch'[c].pid = ch[c].pid
              /\ ch'[c].readfd = ch[c].readfd /\ ch'[c].recv_close = ch[c].recv_close
              /\ ch'[c].sent_close = ch[c].sent_close /\ ch'[c].status = ch[c].status
              /\ \/ ch'[c].exit = ch[c].exit
                 \/ \E p \in Z \ unmatched : /\ childpids[first(p)].chan = c
                                             /\ ch'[c].exit = info(p) /\ ch[c].pid = p
    <2>1. ch[c] \in Channel /\ ChanOk(ch[c])
        BY <1>1 DEF TypeInv, ChanInv
    <2>2. CASE ch'[c] = ch[c]
        BY <2>1, <2>2
    <2>3. ASSUME NEW p \in Z \ unmatched, childpids[first(p)].chan = c,
                 ch'[c] = [ch[c] EXCEPT !.exit = info(p)]
          PROVE  /\ ch'[c] \in Channel /\ ChanOk(ch'[c]) /\ ch'[c].pid = ch[c].pid
                 /\ ch'[c].readfd = ch[c].readfd /\ ch'[c].recv_close = ch[c].recv_close
                 /\ ch'[c].sent_close = ch[c].sent_close /\ ch'[c].status = ch[c].status
                 /\ ch'[c].exit = info(p) /\ ch[c].pid = p
        <3>1. p \in Pids /\ owner[p] \in Chans \cup {None} /\ ch[c].pid = p /\ p # None
            BY <1>1, <1>7, <2>3, ReapAssumption DEF TypeInv
        <3>2. info(p) \in ExitInfo /\ info(p) # NoExit
            BY <3>1 DEF ExitInfo, NoExit
        <3>3. PICK e : e = info(p)
            OBVIOUS
        <3>4. ch'[c] = [ch[c] EXCEPT !.exit = e] /\ e \in ExitInfo /\ e # NoExit
            BY <2>3, <3>2, <3>3
        <3>5. /\ ch'[c] \in Channel /\ ch'[c].pid = ch[c].pid
              /\ ch'[c].readfd = ch[c].readfd /\ ch'[c].recv_close = ch[c].recv_close
              /\ ch'[c].sent_close = ch[c].sent_close /\ ch'[c].status = ch[c].status
              /\ ch'[c].exit = e /\ ch'[c].removed = ch[c].removed
              /\ ch'[c].flushing = ch[c].flushing
            BY <2>1, <3>4 DEF Channel
        <3>6. ChanOk(ch'[c])
            BY <2>1, <3>1, <3>4, <3>5 DEF ChanOk
        <3>7. QED
            BY <3>1, <3>3, <3>5, <3>6
    <2>4. QED
        BY <1>10, <2>2, <2>3
<1>12. /\ \A p \in Pids : proc'[p] # "free" =>
               p \notin Z /\ proc'[p] = proc[p] /\ owner'[p] = owner[p]
       /\ proc' \in [Pids -> {"free", "alive", "zombie"}] /\ owner' \in [Pids -> Chans \cup {None}]
    BY <1>1, <1>5 DEF TypeInv
<1>13. TypeInv'
    <2>1. ch' \in [Chans -> Channel]
        BY <1>5, <1>11
    <2>2. lastexit' \in LastExit
        <3>1. ASSUME NEW p \in unmatched PROVE info(p) \in LastExit
            BY <1>1, <1>8 DEF TypeInv, LastExit
        <3>2. QED
            BY <1>1, <1>9, <3>1 DEF TypeInv
    <2>3. QED
        BY <1>1, <1>4, <1>12, <2>1, <2>2 DEF TypeInv
<1>14. ChanInv'
    <2> SUFFICES ASSUME NEW c \in Chans
                 PROVE  /\ ChanOk(ch'[c])
                        /\ ch'[c].sent_close /\ c \notin late =>
                              ch'[c].pid = None \/ ch'[c].exit # NoExit
        BY <1>4 DEF ChanInv
    <2>1. ASSUME NEW p \in Z PROVE info(p) # NoExit
        BY <1>3, ReapAssumption DEF NoExit
    <2>2. CASE ch'[c].exit = ch[c].exit
        BY <1>1, <1>11, <2>2 DEF ChanInv
    <2>3. CASE ch'[c].exit # NoExit
        BY <1>11, <2>3
    <2>4. ch'[c].exit = ch[c].exit \/ ch'[c].exit # NoExit
        <3>1. ch'[c].exit = ch[c].exit \/ \E p \in Z : ch'[c].exit = info(p)
            BY <1>11
        <3>2. ASSUME NEW p \in Z, ch'[c].exit = info(p) PROVE ch'[c].exit # NoExit
            BY <2>1, <3>2
        <3>3. QED
            BY <3>1, <3>2
    <2>5. QED
        BY <2>2, <2>3, <2>4
<1>15. ProcInv'
    <2> SUFFICES ASSUME ~clash, NEW p \in Pids, proc'[p] # "free"
                 PROVE  /\ owner'[p] \in Chans /\ ch'[owner'[p]].pid = p
                        /\ ch'[owner'[p]].exit = NoExit
                        /\ \/ \E i \in 1..Len(childpids') : childpids'[i] = Entry(p, owner'[p])
                           \/ owner'[p] \in late
        BY <1>4 DEF ProcInv
    <2>1. p \notin Z /\ proc[p] # "free" /\ owner'[p] = owner[p]
        BY <1>12
    <2>2. /\ owner[p] \in Chans /\ ch[owner[p]].pid = p /\ ch[owner[p]].exit = NoExit
          /\ \/ \E i \in 1..Len(childpids) : childpids[i] = Entry(p, owner[p])
             \/ owner[p] \in late
        BY <1>6, <2>1
    <2>3. /\ ch'[owner[p]].pid = ch[owner[p]].pid
          /\ \/ ch'[owner[p]].exit = ch[owner[p]].exit
             \/ \E z \in Z : ch[owner[p]].pid = z
        BY <1>11, <2>2
    <2>4. QED
        BY <1>4, <2>1, <2>2, <2>3
<1>16. SlotInv'
    <2>1. ASSUME NEW i \in 1..Len(childpids), childpids[i] # NoSlot
          PROVE  ch'[childpids[i].chan].pid = childpids[i].pid
        <3>1. childpids[i] \in Slot
            BY <1>1 DEF TypeInv
        <3>2. childpids[i].chan \in Chans
            BY <2>1, <3>1, NoSlotIsNone
        <3>3. QED
            BY <1>1, <1>11, <2>1, <3>2 DEF SlotInv
    <2>2. QED
        BY <1>4, <2>1 DEF SlotInv
<1>17. OwnInv'
    <2> SUFFICES ASSUME ~clash
                 PROVE  /\ \A i, j \in 1..Len(childpids) :
                             childpids[i].pid = childpids[j].pid /\ childpids[i] # NoSlot => i = j
                        /\ \A i \in 1..Len(childpids) : childpids[i] # NoSlot =>
                             /\ childpids[i].pid # lastexit'.pid
                             /\ proc'[childpids[i].pid] # "free" =>
                                   childpids[i].chan = owner'[childpids[i].pid]
                        /\ \A d \in Chans : ch'[d].exit # NoExit =>
                                              ch'[d].exit = [pid |-> ch'[d].pid, of |-> d]
        BY <1>4 DEF OwnInv
    <2>1. /\ \A i, j \in 1..Len(childpids) :
               childpids[i].pid = childpids[j].pid /\ childpids[i] # NoSlot => i = j
          /\ \A i \in 1..Len(childpids) : childpids[i] # NoSlot =>
               /\ childpids[i].pid # lastexit.pid
               /\ proc[childpids[i].pid] # "free" => childpids[i].chan = owner[childpids[i].pid]
          /\ \A d \in Chans : ch[d].exit # NoExit => ch[d].exit = [pid |-> ch[d].pid, of |-> d]
        BY <1>1 DEF OwnInv
    <2>2. ASSUME NEW d \in Chans, ch'[d].exit # NoExit
          PROVE  ch'[d].exit = [pid |-> ch'[d].pid, of |-> d]
        <3>1. CASE ch'[d].exit = ch[d].exit
            BY <1>11, <2>1, <2>2, <3>1
        <3>2. ASSUME NEW p \in Z \ unmatched, childpids[first(p)].chan = d,
                     ch'[d].exit = info(p), ch[d].pid = p
              PROVE  ch'[d].exit = [pid |-> ch'[d].pid, of |-> d]
            BY <1>7, <1>11, <3>2
        <3>3. QED
            BY <1>11, <3>1, <3>2
    <2>3. ASSUME NEW i \in 1..Len(childpids), childpids[i] # NoSlot
          PROVE  /\ childpids[i].pid # lastexit'.pid
                 /\ proc'[childpids[i].pid] # "free" =>
                       childpids[i].chan = owner'[childpids[i].pid]
        <3>1. childpids[i].pid \in Pids
            <4>1. childpids[i] \in Slot
                BY <1>1 DEF TypeInv
            <4>2. QED
                BY <2>3, <4>1, NoSlotIsNone
        <3>2. childpids[i].pid # lastexit'.pid
            <4>1. ASSUME NEW p \in unmatched, lastexit' = info(p) PROVE lastexit'.pid = p
                BY <4>1
            <4>2. QED
                BY <1>8, <1>9, <2>1, <2>3, <4>1
        <3>3. QED
            BY <1>12, <2>1, <2>3, <3>1, <3>2
    <2>4. QED
        BY <2>1, <2>2, <2>3
<1>22. ExitMatched'
    <2> SUFFICES ASSUME ~clash, lastexit' # NoExit PROVE lastexit'.of \in late
        BY <1>4 DEF ExitMatched
    <2>1. CASE lastexit' = lastexit
        BY <1>1, <2>1 DEF ExitMatched
    <2>2. ASSUME NEW p \in unmatched, lastexit' = info(p) PROVE lastexit'.of \in late
        <3>1. lastexit'.of = owner[p]
            BY <2>2
        <3>2. QED
            BY <1>8, <3>1
    <2>3. QED
        BY <1>9, <2>1, <2>2
<1>18. OwnStatus'
    BY <1>1, <1>4, <1>11 DEF OwnStatus
<1>19. \A d \in Chans : ChildOf(d) = {} => ChildOf(d)' = {}
    BY <1>12 DEF ChildOf
<1>20. DrainInv'
    <2>1. ASSUME NEW c \in ready
          PROVE  ch'[c].pid # None /\ (output[c] > 0 \/ ChildOf(c)' = {})
        <3>1. c \in Chans /\ ch[c].pid # None /\ (output[c] > 0 \/ ChildOf(c) = {})
            BY <1>1 DEF DrainInv, TypeInv
        <3>2. QED
            BY <1>11, <1>19, <3>1
    <2>2. ASSUME NEW c \in Chans \ Pty, ch'[c].readfd = "closed", ch'[c].pid # None,
                 ~ch'[c].recv_close, ~clash
          PROVE  output[c] = 0 /\ ChildOf(c)' = {}
        <3>1. ch[c].readfd = "closed" /\ ch[c].pid # None /\ ~ch[c].recv_close
            BY <1>11, <2>2
        <3>2. QED
            BY <1>1, <1>19, <2>2, <3>1 DEF DrainInv
    <2>3. QED
        BY <1>4, <2>1, <2>2 DEF DrainInv
<1>21. QED
    BY <1>13, <1>14, <1>15, <1>16, <1>17, <1>18, <1>20, <1>22 DEF Inv

\* channelio: a read takes what select() found, or the end of file.
LEMMA ChannelIoInv == Inv /\ channelio => Inv'
<1> SUFFICES ASSUME Inv, channelio PROVE Inv'
    OBVIOUS
<1>1. TypeInv /\ ChanInv /\ ProcInv /\ DrainInv
    BY DEF Inv
<1>2. PICK reads, after :
         /\ reads = Reads /\ Reads = {c \in ready : ch[c].readfd = "open"}
         /\ after = [c \in Chans |-> IF c \in reads /\ output[c] > 0 THEN output[c] - 1 ELSE output[c]]
    BY DEF Reads
<1> DEFINE r(c) == IF c \in reads THEN ReadUnit(ch[c], c) ELSE ch[c]
           pending(c) == fd_read_pending(after[c], c)
<1>3. /\ output' = after
      /\ ch' = [c \in Chans |-> IF DoCheckClose(c) THEN check_close(r(c), c, pending(c)) ELSE r(c)]
      /\ childpids' = cleanupchansess(childpids, ch') /\ ready' = {}
      /\ pc = "channelio" /\ pc' = "select"
      /\ UNCHANGED <<proc, owner, lastexit, forked, clash, late>>
    BY <1>2 DEF channelio, histVars
<1>4. output' \in [Chans -> Nat]
    BY <1>1, <1>2, <1>3 DEF TypeInv
<1>5. ASSUME NEW c \in Chans
      PROVE  ch'[c] = r(c) \/ ch'[c] = check_close(r(c), c, pending(c))
    BY <1>3
<1>6. ASSUME NEW c \in Chans
      PROVE  /\ r(c) \in Channel /\ ChanOk(r(c)) /\ r(c).pid = ch[c].pid /\ r(c).exit = ch[c].exit
             /\ r(c).sent_close = ch[c].sent_close /\ r(c).status = ch[c].status
             /\ r(c).recv_close = ch[c].recv_close
             /\ \/ r(c) = ch[c]
                \/ output[c] = 0 /\ after[c] = 0 /\ ChildOf(c) = {}
    <2>1. ch[c] \in Channel /\ ChanOk(ch[c]) /\ output[c] \in Nat
        BY <1>1 DEF TypeInv, ChanInv
    <2>2. CASE r(c) = ch[c]
        BY <2>1, <2>2
    <2>3. CASE c \in reads /\ r(c) = CloseRead(ch[c], c) /\ ~(output[c] > 0)
        <3>1. PICK q : q = r(c)
            OBVIOUS
        <3>2. /\ q \in Channel /\ q.readfd = "closed"
              /\ q.pid = ch[c].pid /\ q.exit = ch[c].exit /\ q.flushing = ch[c].flushing
              /\ q.recv_close = ch[c].recv_close /\ q.recv_eof = ch[c].recv_eof
              /\ q.sent_close = ch[c].sent_close /\ q.status = ch[c].status
              /\ q.removed = ch[c].removed
            BY <2>1, <2>3, <3>1, CloseReadFields
        <3>3. ChanOk(q)
            BY <2>1, <3>2 DEF ChanOk
        <3>4. output[c] = 0 /\ after[c] = 0
            BY <1>2, <2>1, <2>3
        <3>5. ChildOf(c) = {}
            BY <1>1, <1>2, <2>1, <2>3 DEF DrainInv
        <3>6. QED
            BY <3>1, <3>2, <3>3, <3>4, <3>5
    <2>4. r(c) = ch[c] \/ (c \in reads /\ r(c) = CloseRead(ch[c], c) /\ ~(output[c] > 0))
        BY DEF ReadUnit
    <2>5. QED
        BY <2>2, <2>3, <2>4
<1> HIDE DEF r, pending
<1>7. ASSUME NEW c \in Chans
      PROVE  ch'[c] = r(c) \/ (ChanOk(ch'[c]) /\ Checked(r(c), c, pending(c), ch'[c]))
    <2>1. CASE ch'[c] = check_close(r(c), c, pending(c))
        BY <1>6, <2>1, CheckCloses
    <2>2. QED
        BY <1>5, <2>1
<1>8. ASSUME NEW c \in Chans
      PROVE  /\ ch'[c] \in Channel /\ ch'[c].recv_close = ch[c].recv_close
             /\ ChanOk(ch'[c]) /\ ch'[c].pid = ch[c].pid /\ ch'[c].exit = ch[c].exit
             /\ ch'[c].sent_close =>
                   \/ ch[c].sent_close /\ ch'[c].status = ch[c].status
                   \/ (ch[c].pid = None \/ ch[c].exit # NoExit) /\ ch'[c].status = ch[c].exit
    BY <1>6, <1>7 DEF Checked
<1>9. ch' \in [Chans -> Channel]
    BY <1>3, <1>8
<1>10. TypeInv' /\ ChanInv' /\ ProcInv' /\ SlotInv' /\ OwnInv' /\ OwnStatus' /\ ExitMatched'
    <2>1. pc # "forked" /\ pc' # "forked" /\ ready' \subseteq Chans
        BY <1>3
    <2>2. \A c \in Chans :
              /\ ChanOk(ch'[c]) /\ ch'[c].pid = ch[c].pid /\ ch'[c].exit = ch[c].exit
              /\ ch'[c].sent_close =>
                    \/ ch[c].sent_close /\ ch'[c].status = ch[c].status
                    \/ (ch[c].pid = None \/ ch[c].exit # NoExit) /\ ch'[c].status = ch[c].exit
        BY <1>8
    <2>3. UNCHANGED <<proc, owner, lastexit, clash, late>> /\ childpids' = cleanupchansess(childpids, ch')
        BY <1>3
    <2>4. QED
        BY <1>4, <1>9, <2>1, <2>2, <2>3, ChecksKeep
<1>11. \A d \in Chans : ChildOf(d)' = ChildOf(d)
    BY <1>3 DEF ChildOf
<1>12. DrainInv'
    <2>1. ASSUME NEW d \in Chans \ Pty, ch'[d].readfd = "closed", ch'[d].pid # None,
                 ~ch'[d].recv_close, ~clash
          PROVE  after[d] = 0 /\ ChildOf(d) = {}
        <3>1. output[d] \in Nat /\ (output[d] = 0 => after[d] = 0) /\ after[d] \in Nat
              /\ (after[d] > 0 => pending(d))
            <4>1. output[d] \in Nat /\ (output[d] = 0 => after[d] = 0) /\ after[d] \in Nat
                BY <1>1, <1>2 DEF TypeInv
            <4>2. after[d] > 0 => pending(d)
                BY DEF pending, fd_read_pending
            <4>3. QED
                BY <4>1, <4>2
        <3>2. d \notin Pty /\ d \in Chans /\ ~ch[d].recv_close /\ ch[d].pid # None
            BY <1>8, <2>1
        <3>3. CASE ch[d].readfd = "closed"
            BY <1>1, <2>1, <3>1, <3>2, <3>3 DEF DrainInv
        <3>4. CASE r(d) # ch[d]
            BY <1>6, <3>4
        <3>5. CASE r(d) = ch[d] /\ ch[d].readfd # "closed"
            <4>1. ch[d].exit # NoExit /\ ~pending(d)
                <5>1. ch'[d] # r(d)
                    BY <2>1, <3>5
                <5>2. Checked(ch[d], d, pending(d), ch'[d])
                    BY <1>7, <3>5, <5>1
                <5>3. QED
                    BY <2>1, <3>2, <3>5, <5>2 DEF Checked
            <4>2. after[d] = 0
                BY <3>1, <4>1
            <4>3. ChildOf(d) = {}
                BY <1>1, <2>1, <4>1 DEF ProcInv, ChildOf
            <4>4. QED
                BY <4>2, <4>3
        <3>6. QED
            BY <3>3, <3>4, <3>5
    <2>2. QED
        BY <1>3, <1>11, <2>1 DEF DrainInv
<1>13. QED
    BY <1>10, <1>12 DEF Inv

LEMMA StepInv == Inv /\ [Next]_vars => Inv'
<1> SUFFICES ASSUME Inv, [Next]_vars PROVE Inv'
    OBVIOUS
<1>1. CASE Loop
    BY <1>1, SelectInv, NoPacketInv, RegisterInv, CheckSignalInv, ChannelIoInv, ForkInv,
       RecvEndInv, DataAfterCloseInv DEF Loop
<1>2. CASE sesssigchild_handler
    BY <1>2, HandlerInv
<1>3. ASSUME NEW c \in Chans, ChildWrites(c) PROVE Inv'
    BY <1>3, ChildWritesInv
<1>4. ASSUME NEW p \in Pids, ChildExits(p) PROVE Inv'
    BY <1>4, ChildExitsInv
<1>5. CASE UNCHANGED vars
    BY <1>5, QuietInv DEF vars, kernelVars, histVars, Inv, TypeInv, DrainInv
<1>6. QED
    BY <1>1, <1>2, <1>3, <1>4, <1>5 DEF Next

LEMMA Invariance == Spec => []Inv
BY InitInv, StepInv, PTL DEF Spec

-----------------------------------------------------------------------------
\* svr_chansess_checksignal finds every child it waits for in childpids,
\* however forks, exits, signals and packets interleave, but for the children
\* of commands that were started after CLOSE had been sent; nothing is said
\* once a pid was reused while childpids or lastexit had it.
THEOREM EveryExitMatched == Spec => []ExitMatched
<1>1. Inv => ExitMatched
    BY DEF Inv
<1>2. QED
    BY <1>1, Invariance, PTL

\* send_msg_channel_close carries the exit of the channel's own child, for any
\* number of channels and pids, unless a pid was reused too early or the command
\* was started after that CLOSE.
THEOREM StatusIsOwn == Spec => []OwnStatus
<1>1. Inv => OwnStatus
    BY DEF Inv
<1>2. QED
    BY <1>1, Invariance, PTL

\* Without a pty, check_close and channelio close readfd only when the child's
\* output was read, whatever select() had found, unless the client closed the
\* channel or a pid was reused too early.
THEOREM OutputIsDrained == Spec => []OutputDrained
<1>1. Inv => OutputDrained
    BY DEF Inv, DrainInv, OutputDrained
<1>2. QED
    BY <1>1, Invariance, PTL
=============================================================================
