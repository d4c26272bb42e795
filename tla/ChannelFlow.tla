---------------------------- MODULE ChannelFlow ----------------------------
(***************************************************************************)
(* Data on one channel, from the end that reads it from a descriptor to    *)
(* the end that writes it to one: windows, the circular buffers and the    *)
(* end of file (common-channel.c, circbuffer.c).  The receiving end has    *)
(* two streams, stdout and stderr, with a buffer each and ONE receive      *)
(* window; descriptors are nonblocking, so a write takes any part of what  *)
(* is offered.  Each stream carries the units 1, 2, 3, ...                 *)
(***************************************************************************)
EXTENDS Integers, Sequences, SequencesExt, FiniteSetsExt

CONSTANTS
    RecvWindow,     \* opts.recv_window, also the size of each buffer
    MaxPacket,      \* transmaxpacket
    MaxData         \* bound: MaxData[s] units are sent on stream s

Streams == {"out", "err"}

ASSUME FlowAssumption ==
    /\ RecvWindow \in Nat \ {0} /\ MaxPacket \in Nat \ {0}
    /\ MaxData \in [Streams -> Nat]

RECV_WINDOWEXTEND == RecvWindow \div 3
None == "none"

VARIABLES
    \* the sending end
    transwindow, sent, sent_eof,
    \* packets on the way there and back
    wire, adjusts,
    \* the receiving end
    cbuf, fd, recvwindow, recvdonelen, recv_eof, exit,
    delivered       \* delivered[s]: what was written to the descriptor

sendVars == <<transwindow, sent, sent_eof>>
recvVars == <<cbuf, fd, recvwindow, recvdonelen, recv_eof, exit, delivered>>
vars == <<sendVars, wire, adjusts, recvVars>>

-----------------------------------------------------------------------------
(* circbuffer.c *)

MinOf(a, b) == IF a < b THEN a ELSE b

cbuf_new == [data |-> [i \in 0..(RecvWindow - 1) |-> 0],
             used |-> 0, readpos |-> 0, writepos |-> 0]

cbuf_getavail(c) == RecvWindow - c.used

\* Units that can be written before the buffer is full or wraps.
cbuf_writelen(c) ==
    IF c.used = RecvWindow THEN 0
    ELSE IF c.writepos < c.readpos THEN c.readpos - c.writepos
    ELSE RecvWindow - c.writepos

\* Everything stored, in order: the part up to the end, then the wrapped one.
cbuf_readptrs(c) ==
    LET len1 == MinOf(c.used, RecvWindow - c.readpos)
    IN  [i \in 1..len1 |-> c.data[c.readpos + i - 1]]
        \o [i \in 1..(c.used - len1) |-> c.data[i - 1]]

\* memcpy to cbuf_writeptr, then cbuf_incrwrite
cbuf_put(c, s) ==
    [data |-> [i \in DOMAIN c.data |->
                 IF i >= c.writepos /\ i < c.writepos + Len(s)
                 THEN s[i - c.writepos + 1] ELSE c.data[i]],
     used |-> c.used + Len(s), readpos |-> c.readpos,
     writepos |-> (c.writepos + Len(s)) % RecvWindow]

cbuf_incrread(c, n) ==
    [c EXCEPT !.used = @ - n, !.readpos = (@ + n) % RecvWindow]

\* The assertions of cbuf_writelen.
cbuf_ok(c) ==
    /\ c.used <= RecvWindow
    /\ (2 * RecvWindow + c.writepos - c.readpos) % RecvWindow = c.used % RecvWindow

\* The loop of common_recv_msg_channel_data: the buffer wraps at most once.
Store(c, s) ==
    LET n == MinOf(cbuf_writelen(c), Len(s))
        d == cbuf_put(c, SubSeq(s, 1, n))
    IN  IF n = Len(s) THEN d ELSE cbuf_put(d, SubSeq(s, n + 1, Len(s)))

-----------------------------------------------------------------------------
Init ==
    /\ transwindow = RecvWindow /\ sent = [s \in Streams |-> 0] /\ sent_eof = FALSE
    /\ wire = <<>> /\ adjusts = <<>>
    /\ cbuf = [s \in Streams |-> cbuf_new] /\ fd = [s \in Streams |-> "open"]
    /\ recvwindow = RecvWindow /\ recvdonelen = 0 /\ recv_eof = FALSE
    /\ exit = None /\ delivered = [s \in Streams |-> <<>>]

(* The sending end *)

\* setchannelfds selects only with window left; send_msg_channel_data reads
\* at most a window and a packet full.
SendSizes(s) == 1..Min({transwindow, MaxPacket, MaxData[s] - sent[s]})

SendData ==
    /\ ~sent_eof /\ transwindow > 0
    /\ \E s \in Streams : \E n \in SendSizes(s) :
         /\ wire' = Append(wire, [stream |-> s,
                                  data |-> [i \in 1..n |-> sent[s] + i]])
         /\ sent' = [sent EXCEPT ![s] = @ + n]
         /\ transwindow' = transwindow - n
    /\ UNCHANGED <<sent_eof, adjusts, recvVars>>

\* check_close sends EOF when nothing is left to read.
SendEof ==
    /\ ~sent_eof /\ sent = MaxData
    /\ sent_eof' = TRUE
    /\ wire' = Append(wire, [stream |-> None, data |-> <<>>])
    /\ UNCHANGED <<transwindow, sent, adjusts, recvVars>>

\* recv_msg_channel_window_adjust (the 32-bit clamp is out of reach here)
RecvAdjust ==
    /\ adjusts # <<>>
    /\ transwindow' = transwindow + Head(adjusts)
    /\ adjusts' = Tail(adjusts)
    /\ UNCHANGED <<sent, sent_eof, wire, recvVars>>

-----------------------------------------------------------------------------
(* The receiving end *)

\* What writechannel makes known to the sender once enough was written: a
\* window adjustment of everything written since the last.
Extend_NoReset(done, window) ==
    IF done >= RECV_WINDOWEXTEND
    THEN [window |-> window + done, done |-> done, adjust |-> <<done>>]
    ELSE [window |-> window, done |-> done, adjust |-> <<>>]

Extend_Late(done, window) ==
    IF done > RecvWindow
    THEN [window |-> window + done, done |-> 0, adjust |-> <<done>>]
    ELSE [window |-> window, done |-> done, adjust |-> <<>>]

Extend(done, window) ==
    IF done >= RECV_WINDOWEXTEND
    THEN [window |-> window + done, done |-> 0, adjust |-> <<done>>]
    ELSE [window |-> window, done |-> done, adjust |-> <<>>]

\* writechannel on stream s with data m in hand and window left: w units are
\* written, buffered ones first.  Its three assertions come before what is
\* left of m goes to the buffer.
WriteChannel(s, m, window, w) ==
    LET c == cbuf[s]
        all == cbuf_readptrs(c) \o m
        cw == MinOf(c.used, w)
        e == Extend(recvdonelen + w, window)
        d == cbuf_incrread(c, cw)
        other == CHOOSE t \in Streams : t # s
    IN  /\ delivered' = [delivered EXCEPT ![s] = @ \o SubSeq(all, 1, w)]
        /\ recvwindow' = e.window /\ recvdonelen' = e.done
        /\ adjusts' = adjusts \o e.adjust
        /\ IF e.window <= RecvWindow /\ e.window <= cbuf_getavail(d)
              /\ e.window <= cbuf_getavail(cbuf[other])
             THEN /\ cbuf' = [cbuf EXCEPT ![s] =
                                Store(d, SubSeq(m, w - cw + 1, Len(m)))]
                  /\ UNCHANGED exit
             ELSE exit' = "assertion" /\ UNCHANGED cbuf

\* A write error closes the descriptor; data in hand is discarded.
WriteFails(s) ==
    /\ fd' = [fd EXCEPT ![s] = "broken"]
    /\ UNCHANGED <<cbuf, recvdonelen, adjusts, exit, delivered>>

\* common_recv_msg_channel_data
RecvData ==
    /\ exit = None /\ wire # <<>> /\ Head(wire).stream # None
    /\ wire' = Tail(wire)
    /\ LET s == Head(wire).stream
           m == Head(wire).data
       IN  \/ /\ fd[s] # "open"                 \* dropped, window and all
              /\ UNCHANGED <<adjusts, recvVars>>
           \/ /\ fd[s] = "open"
              /\ Len(m) > cbuf_getavail(cbuf[s]) \/ Len(m) > recvwindow
              /\ exit' = "oversized"
              /\ UNCHANGED <<adjusts, cbuf, fd, recvwindow, recvdonelen,
                             recv_eof, delivered>>
           \/ /\ fd[s] = "open"
              /\ Len(m) <= cbuf_getavail(cbuf[s]) /\ Len(m) <= recvwindow
              /\ \/ /\ \E w \in 0..(cbuf[s].used + Len(m)) :
                         WriteChannel(s, m, recvwindow - Len(m), w)
                    /\ UNCHANGED fd
                 \/ WriteFails(s) /\ recvwindow' = recvwindow - Len(m)
              /\ UNCHANGED recv_eof
    /\ UNCHANGED sendVars

\* channelio: the descriptor is writable and something is buffered.
WriteOut ==
    /\ exit = None
    /\ \E s \in Streams :
         /\ fd[s] = "open" /\ cbuf[s].used > 0
         /\ \/ /\ \E w \in 1..cbuf[s].used : WriteChannel(s, <<>>, recvwindow, w)
               /\ UNCHANGED fd
            \/ WriteFails(s) /\ UNCHANGED recvwindow
    /\ UNCHANGED <<sendVars, wire, recv_eof>>

\* recv_msg_channel_eof
RecvEof ==
    /\ exit = None /\ wire # <<>> /\ Head(wire).stream = None
    /\ wire' = Tail(wire) /\ recv_eof' = TRUE
    /\ UNCHANGED <<sendVars, adjusts, cbuf, fd, recvwindow, recvdonelen, exit, delivered>>

write_pending_OutOnly == fd["out"] = "open" /\ cbuf["out"].used > 0
write_pending == \E s \in Streams : fd[s] = "open" /\ cbuf[s].used > 0

\* check_close, in the same turn of the loop or a later one: writefd is
\* closed, errfd stays open until the channel goes.
CheckClose ==
    /\ exit = None /\ recv_eof /\ ~write_pending /\ fd["out"] = "open"
    /\ fd' = [fd EXCEPT !["out"] = "closed"]
    /\ UNCHANGED <<sendVars, wire, adjusts, cbuf, recvwindow, recvdonelen,
                   recv_eof, exit, delivered>>

Receiver == RecvData \/ WriteOut \/ RecvEof \/ CheckClose
Next == SendData \/ SendEof \/ RecvAdjust \/ Receiver

Spec == Init /\ [][Next]_vars

\* Both ends run, and the program behind each descriptor goes on writing and
\* reading.
FairSpec ==
    /\ Spec
    /\ WF_vars(SendData) /\ WF_vars(SendEof) /\ WF_vars(RecvAdjust)
    /\ WF_vars(RecvData) /\ WF_vars(RecvEof) /\ WF_vars(WriteOut) /\ WF_vars(CheckClose)

-----------------------------------------------------------------------------
\* Between two ends of this code no window or buffer assertion fails and no
\* packet is oversized: what the sender may still send always fits into the
\* buffer of either stream, also while both streams share the window, and the
\* positions in it agree with its fill level where they wrap.
NoExit == exit = None /\ \A s \in Streams : cbuf_ok(cbuf[s])

\* The packets, windows and buffers implement two reliable streams over one
\* pool of RecvWindow units: never more under way than the receiver can hold,
\* nothing written out of order, and writefd closed for an EOF only when every
\* unit sent, on either stream, was written or its descriptor had failed.
Stream == INSTANCE ChannelStream WITH
    Capacity <- RecvWindow, accepted <- sent, ended <- sent_eof, reader <- fd

ImplementsStream == Stream!Spec

\* Unless a local write fails, every unit gets through and EOF closes
\* writefd: the sender is never left without window while the receiver waits
\* for data.
AllDelivered ==
    <>(\/ \E s \in Streams : fd[s] = "broken"
       \/ fd["out"] = "closed" /\ \A s \in Streams : Len(delivered[s]) = MaxData[s])
=============================================================================
