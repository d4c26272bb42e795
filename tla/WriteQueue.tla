----------------------------- MODULE WriteQueue -----------------------------
(***************************************************************************)
(* Two ends of one connection, each with a bounded socket to the other and *)
(* a write queue in front of it (session_loop of common-session.c,         *)
(* write_packet and encrypt_packet of packet.c), that send data on one     *)
(* session channel in both directions.  An end whose queue is over the     *)
(* limit reads neither its channels nor its socket.  Packets cross the     *)
(* socket whole.                                                           *)
(***************************************************************************)
EXTENDS Integers, Sequences

CONSTANTS
    Window,         \* Window[e]: opts.recv_window of e
    MaxPacket,      \* transmaxpacket
    Overhead,       \* bytes of a packet besides its data
    QueueLimit,     \* 2 * TRANS_MAX_PAYLOAD_LEN
    SockCap,        \* bytes the two socket buffers of one direction hold
    MaxData         \* bound: MaxData[e] units are sent by e

Ends == {"svr", "cli"}
Peer(e) == CHOOSE f \in Ends : f # e
RECV_WINDOWEXTEND(e) == Window[e] \div 3

\* The descriptors of the channel: the server reads the program's stdout and
\* stderr (ERRFD_IS_READ), the client writes both (ERRFD_IS_WRITE).
ReadFds(e) == IF e = "svr" THEN 2 ELSE 1

\* What one turn can queue from them: a full packet for each.
MostRead(e) == ReadFds(e) * (MaxPacket + Overhead)

\* The most adjustments that can be under way from e, each for a third of its
\* window, and the most bytes: those, and a full window of the peer in packets
\* of one unit.
MostAdjusts(e) == Window[e] \div RECV_WINDOWEXTEND(e)
MostFrom(e) == Window[Peer(e)] * (1 + Overhead) + MostAdjusts(e) * Overhead

ASSUME QueueAssumption ==
    /\ {MaxPacket, Overhead, QueueLimit, SockCap} \subseteq Nat \ {0}
    /\ MaxData \in [Ends -> Nat] /\ Window \in [Ends -> Nat]
    /\ \A e \in Ends : Window[e] >= 3

VARIABLES
    ses,        \* ses[e]: what an end keeps, see Init
    sock        \* sock[e]: packets on their way from e

vars == <<ses, sock>>

Data(n) == [type |-> "data", n |-> n]
Adjust(n) == [type |-> "adjust", n |-> n]

Size(p) == IF p.type = "data" THEN p.n + Overhead ELSE Overhead

\* Bytes of the first i packets of q, for every i.
Prefixes(q) ==
    LET sum[i \in 0..Len(q)] == IF i = 0 THEN 0 ELSE sum[i - 1] + Size(q[i])
    IN  sum

Bytes(q) == Prefixes(q)[Len(q)]

Init ==
    /\ ses = [e \in Ends |-> [transwindow |-> Window[Peer(e)], writequeue |-> <<>>,
                              buffered |-> 0, recvdonelen |-> 0,
                              left |-> MaxData[e], out |-> 0]]
    /\ sock = [e \in Ends |-> <<>>]

-----------------------------------------------------------------------------
\* writequeue_has_space
has_space(q) == Bytes(q) <= QueueLimit

\* Whether sock_in is read; the identification strings are exchanged.
read_allowed_EmptyOnly(q) == has_space(q) /\ q = <<>>
read_allowed(q) == has_space(q)

\* setchannelfds: whether channels are read
allow_reads_Always(q) == TRUE
allow_reads(q) == has_space(q)

\* writechannel with w units written: the window is given back by the third.
writechannel_NoReset(e, r, w) ==
    LET done == r.recvdonelen + w
        r1 == [r EXCEPT !.buffered = @ - w, !.out = @ + w]
    IN  IF done >= RECV_WINDOWEXTEND(e)
        THEN [r1 EXCEPT !.recvdonelen = w, !.writequeue = Append(@, Adjust(done))]
        ELSE [r1 EXCEPT !.recvdonelen = done]

writechannel(e, r, w) ==
    LET done == r.recvdonelen + w
        r1 == [r EXCEPT !.buffered = @ - w, !.out = @ + w]
    IN  IF done >= RECV_WINDOWEXTEND(e)
        THEN [r1 EXCEPT !.recvdonelen = 0, !.writequeue = Append(@, Adjust(done))]
        ELSE [r1 EXCEPT !.recvdonelen = done]

\* What one packet may turn an end into: data is written at once as far as the
\* descriptor takes it.
process_packet(e, r, p) ==
    IF p.type = "adjust" THEN {[r EXCEPT !.transwindow = @ + p.n]}
    ELSE LET r1 == [r EXCEPT !.buffered = @ + p.n]
         IN  {writechannel(e, r1, w) : w \in 0..r1.buffered}

\* send_msg_channel_data for what was read from the program
send_msg_channel_data(r) ==
    {[r EXCEPT !.transwindow = @ - n, !.left = @ - n, !.writequeue = Append(@, Data(n))] :
        n \in {i \in 1..MaxPacket : i <= r.transwindow /\ i <= r.left}}

\* channelio: the channel's descriptors, if setchannelfds asked for them
\* before the packet was read and select() found them ready.  The second read
\* is that of stderr, after the first one's packet; so is the second write.
MaybeSend(rs) == rs \cup UNION {send_msg_channel_data(r) : r \in rs}

\* Up to n units written, the client's in two parts.
Writes(e, r, n) ==
    UNION {{writechannel(e, writechannel(e, r, w), v) :
              v \in 0..(IF ReadFds(e) = 2 THEN 0 ELSE n - w)} : w \in 0..n}

channelio(e, r, readfd, writefd) ==
    LET read == IF ~readfd THEN {r}
                ELSE IF ReadFds(e) = 2 THEN MaybeSend(MaybeSend({r})) ELSE MaybeSend({r})
    IN  UNION {Writes(e, r1, IF writefd THEN r.buffered ELSE 0) : r1 \in read}

\* write_packet: the packets that fit into the socket.
Fitting(q, s) ==
    LET sum == Prefixes(q)
        room == SockCap - Bytes(s)
    IN  CHOOSE k \in 0..Len(q) : sum[k] <= room /\ (k = Len(q) \/ sum[k + 1] > room)

\* One turn of session_loop: whether there is space is asked once, before
\* the packet that may answer with an adjustment.
Turn(e) ==
    LET r == ses[e]
        space == read_allowed(r.writequeue)
        readfd == allow_reads(r.writequeue) /\ r.transwindow > 0
        in == sock[Peer(e)]
    IN  \E recv \in {b \in BOOLEAN : b => space /\ in # <<>>} :
        \E r1 \in IF recv THEN process_packet(e, r, Head(in)) ELSE {r} :
        \E r2 \in channelio(e, r1, readfd, r.buffered > 0) :
          LET k == Fitting(r2.writequeue, sock[e])
              q == r2.writequeue
          IN  /\ ses' = [ses EXCEPT ![e] =
                           [r2 EXCEPT !.writequeue = SubSeq(q, k + 1, Len(q))]]
              /\ sock' = [sock EXCEPT ![e] = @ \o SubSeq(q, 1, k),
                                      ![Peer(e)] = IF recv THEN Tail(in) ELSE in]

Next == \E e \in Ends : Turn(e)

Spec == Init /\ [][Next]_vars

\* Both ends run, and the programs behind the channel go on reading and
\* writing.
FairSpec == Spec /\ \A e \in Ends : WF_vars(Turn(e))

-----------------------------------------------------------------------------
SumOf(type, q) ==
    LET sum[i \in 0..Len(q)] ==
            IF i = 0 THEN 0 ELSE sum[i - 1] + (IF q[i].type = type THEN q[i].n ELSE 0)
    IN  sum[Len(q)]

\* Types, and the conservation of credit: what an end may still send, what it
\* sent and the peer has not yet given back, and what is coming back always
\* add up to the window, however data and adjustments cross.
CreditConserved ==
    \A e \in Ends :
        LET f == Peer(e)
            there == sock[e] \o ses[e].writequeue
            back == sock[f] \o ses[f].writequeue
        IN  /\ ses[e].transwindow \in 0..Window[f] /\ ses[f].buffered \in 0..Window[f]
            /\ ses[e].transwindow + SumOf("data", there) + ses[f].buffered
                 + ses[f].recvdonelen + SumOf("adjust", back) = Window[f]

\* The write queue is bounded whatever the peer does: it goes over the limit by
\* one data packet for each descriptor that is read, since a full queue stops
\* the reading of channels but is looked at once per turn, and by the
\* adjustments of one window, which are sent all the same.
QueueBounded ==
    \A e \in Ends :
        Bytes(ses[e].writequeue) <=
            QueueLimit + MostRead(e) + MostAdjusts(e) * Overhead

\* Each end is over its limit, so it reads nothing, and waits for room in a
\* socket that the other one no longer empties.  The code lets this happen.
Stalled ==
    \A e \in Ends :
        LET q == ses[e].writequeue
        IN  ~has_space(q) /\ Bytes(sock[e]) + Size(Head(q)) > SockCap

\* With bulk data in both directions at once everything arrives, unless both
\* ends come to be over the limit at the same time: short of that, neither a
\* full socket nor a queue that has to be emptied first nor an exhausted window
\* stops the two for good.
DeliveredUnlessStalled ==
    <>(Stalled \/ \A e \in Ends : ses[e].out = MaxData[Peer(e)])
=============================================================================
