----------------------------- MODULE ChildReap -----------------------------
(***************************************************************************)
(* Children of a session where the server can fork (svr-chansession.c,     *)
(* spawn_command of dbutil.c, the signal pipe of common-session.c and      *)
(* check_close of common-channel.c): SIGCHLD, the self-pipe that wakes     *)
(* select(), waitpid() and the table childpids that says whose exit it     *)
(* was.  A child, or a process it leaves behind, exits at any moment;      *)
(* the loop runs select, one packet, svr_chansess_checksignal, channelio.  *)
(*                                                                         *)
(* readfd stands for readfd and errfd; windows are open and nothing is     *)
(* buffered for the child's input.                                         *)
(***************************************************************************)
EXTENDS Integers, Sequences, SequencesExt, FiniteSets

CONSTANTS
    Chans,      \* session channels, opened before the first step
    Pids,       \* process ids the kernel hands out, and hands out again
    Pty,        \* channels with a pty: one descriptor, no lastexit check
    PipeCap,    \* bytes the signal pipe holds
    MaxOut      \* bound: units of output of one child

None == "none"

ASSUME ReapAssumption ==
    /\ IsFiniteSet(Chans) /\ IsFiniteSet(Pids) /\ Pty \subseteq Chans
    /\ None \notin Chans /\ None \notin Pids
    /\ PipeCap \in Nat \ {0} /\ MaxOut \in Nat

NoExit == [pid |-> None, of |-> None]           \* exitpid is -1
NoSlot == [pid |-> None, chan |-> None]         \* pid is -1

VARIABLES
    (* the kernel *)
    proc,           \* proc[p]: "free", "alive" or "zombie"
    owner,          \* owner[p]: the channel that p was forked for
    output,         \* output[c]: units in the pipe or pty of c
    written,        \* written[c]: units its child has written
    held,           \* held[c]: a background process has the pipe open too
    sigchld,        \* a SIGCHLD is pending
    (* the session *)
    pc,             \* where the loop is
    ready,          \* channels whose readfd is set in what select returned
    signal_pipe,    \* bytes in ses.signal_pipe
    channel_signal_pending,
    childpids,      \* svr_ses.childpids: the slots, a pid and its channel
    lastexit,       \* svr_ses.lastexit: a pid and whose child it was
    forked,         \* a channel whose child is not in childpids yet
    ch,             \* ch[c]: struct Channel and struct ChanSess
    (* history *)
    clash,          \* a pid was used again while childpids or lastexit had it
    late            \* channels whose command came after the CLOSE of the server

kernelVars == <<proc, owner, output, written, held>>
histVars == <<clash, late>>
vars == <<kernelVars, sigchld, pc, ready, signal_pipe, channel_signal_pending,
          childpids, lastexit, forked, ch, histVars>>

\* newchannel and newchansess
NewChan == [pid |-> None, exit |-> NoExit, readfd |-> "uninit", writefd |-> "uninit",
            flushing |-> FALSE, recv_eof |-> FALSE, recv_close |-> FALSE,
            sent_eof |-> FALSE, sent_close |-> FALSE, status |-> NoExit,
            removed |-> FALSE]

\* svr_chansessinitialise
Init ==
    /\ proc = [p \in Pids |-> "free"] /\ owner = [p \in Pids |-> None]
    /\ output = [c \in Chans |-> 0] /\ written = [c \in Chans |-> 0]
    /\ held = [c \in Chans |-> FALSE] /\ sigchld = FALSE
    /\ pc = "select" /\ ready = {} /\ signal_pipe = 0
    /\ channel_signal_pending = FALSE
    /\ childpids = <<NoSlot>> /\ lastexit = NoExit /\ forked = None
    /\ ch = [c \in Chans |-> NewChan] /\ clash = FALSE /\ late = {}

-----------------------------------------------------------------------------
(* The processes and the kernel (external) *)

ChildOf(c) == {p \in Pids : proc[p] = "alive" /\ owner[p] = c}

ChildWrites(c) ==
    /\ ChildOf(c) # {} /\ written[c] < MaxOut
    /\ output' = [output EXCEPT ![c] = @ + 1]
    /\ written' = [written EXCEPT ![c] = @ + 1]
    /\ UNCHANGED <<proc, owner, held, sigchld, pc, ready, signal_pipe,
                   channel_signal_pending, childpids, lastexit, forked, ch, histVars>>

\* p exits; it may leave a background process that holds its output open.
ChildExits(p) ==
    /\ proc[p] = "alive"
    /\ proc' = [proc EXCEPT ![p] = "zombie"]
    /\ \E h \in BOOLEAN : held' = [held EXCEPT ![owner[p]] = h]
    /\ sigchld' = TRUE
    /\ UNCHANGED <<owner, output, written, pc, ready, signal_pipe,
                   channel_signal_pending, childpids, lastexit, forked, ch, histVars>>

\* sesssigchild_handler, at any point of the loop: one byte, or nothing when
\* the nonblocking pipe is full.  In select() it also makes that return EINTR:
\* the sets are cleared, no packet is read, the byte waits for the next turn.
sesssigchild_handler ==
    /\ sigchld /\ sigchld' = FALSE /\ pc # "over"
    /\ signal_pipe' = IF signal_pipe < PipeCap THEN signal_pipe + 1 ELSE signal_pipe
    /\ \/ UNCHANGED <<pc, ready, channel_signal_pending>>
       \/ /\ pc = "select" /\ pc' = "loophandler"
          /\ ready' = {} /\ channel_signal_pending' = FALSE
    /\ UNCHANGED <<kernelVars, childpids, lastexit, forked, ch, histVars>>

-----------------------------------------------------------------------------
(* common-channel.c *)

\* close_chan_fd without bidir_fd: every field that has this number.
CloseWrite(r, c) ==
    [r EXCEPT !.writefd = "closed",
              !.readfd = IF c \in Pty \/ @ = "uninit" THEN "closed" ELSE @]
CloseRead(r, c) ==
    [r EXCEPT !.readfd = "closed", !.writefd = IF c \in Pty THEN "closed" ELSE @]

\* sesscheckclose: the child has never started or has been waited for.
sesscheckclose_Started(r) == r.pid = None \/ r.exit # NoExit \/ r.readfd = "closed"

sesscheckclose(r) == r.pid = None \/ r.exit # NoExit

\* The read end of c, with n units in it, has data or its end of file.
fd_read_pending_Never(n, c) == n < 0

fd_read_pending(n, c) == n > 0 \/ (ChildOf(c) = {} /\ ~held[c])

\* send_msg_channel_close: closechansess sends the exit status first.
send_msg_channel_close(r) ==
    [r EXCEPT !.sent_close = TRUE, !.sent_eof = TRUE, !.status = r.exit,
              !.readfd = "closed", !.writefd = "closed"]

\* check_close, and remove_channel; pending: fd_read_pending of the channel
check_close(r, c, pending) ==
    LET allowed == r.sent_close \/ sesscheckclose(r)
        r1 == [r EXCEPT !.flushing = @ \/ (~r.sent_close /\ r.exit # NoExit)]
        r2 == IF r1.flushing /\ r1.readfd = "open" /\ ~pending
              THEN CloseRead(r1, c) ELSE r1
        r3 == IF r2.recv_eof \/ (r2.writefd # "uninit" /\ allowed)
              THEN CloseWrite(r2, c) ELSE r2
        r4 == [r3 EXCEPT !.sent_eof = @ \/ r3.readfd = "closed"]
    IN  IF r.removed THEN r
        ELSE IF r2.recv_close /\ allowed
        THEN [(IF r2.sent_close THEN r2 ELSE send_msg_channel_close(r2))
                  EXCEPT !.removed = TRUE, !.readfd = "closed", !.writefd = "closed"]
        ELSE IF r4.readfd = "closed" /\ r4.writefd = "closed"
                /\ ~r4.sent_close /\ allowed
        THEN send_msg_channel_close(r4)
        ELSE r4

\* cleanupchansess clears the slots of the channels that are removed.
cleanupchansess(table, chs) ==
    [i \in DOMAIN table |->
       IF table[i] # NoSlot /\ chs[table[i].chan].removed THEN NoSlot ELSE table[i]]

-----------------------------------------------------------------------------
(* session_loop *)

Readable == {c \in Chans : ch[c].readfd = "open" /\ fd_read_pending(output[c], c)}

\* select() returns what is ready, or nothing on a timeout; the signal pipe is
\* emptied, and only that it was readable is remembered.
Select ==
    /\ pc = "select" /\ pc' = "packet"
    /\ ready' = Readable
    /\ channel_signal_pending' = (signal_pipe > 0)
    /\ signal_pipe' = 0
    /\ UNCHANGED <<kernelVars, sigchld, childpids, lastexit, forked, ch, histVars>>

packetVars == <<sigchld, ready, signal_pipe, channel_signal_pending>>

NoPacket ==
    /\ pc = "packet" /\ pc' = "loophandler"
    /\ UNCHANGED <<kernelVars, packetVars, childpids, lastexit, forked, ch, histVars>>

\* sessioncommand: one command succeeds on a channel.
NoCommandYet(c) == ch[c].pid = None

\* An exec or shell request on a channel without a child, also after EOF and
\* after CLOSE: fork, in spawn_command or ptycommand.  The child runs from here on.
Fork(c) ==
    /\ pc = "packet" /\ ~ch[c].removed /\ NoCommandYet(c)
    /\ \E p \in Pids :
         /\ proc[p] = "free"
         /\ proc' = [proc EXCEPT ![p] = "alive"]
         /\ owner' = [owner EXCEPT ![p] = c]
         /\ ch' = [ch EXCEPT ![c].pid = p, ![c].readfd = "open",
                             ![c].writefd = "open"]
         /\ clash' = (clash \/ lastexit.pid = p \/ \E i \in DOMAIN childpids : childpids[i].pid = p)
    /\ late' = IF ch[c].sent_close THEN late \cup {c} ELSE late
    /\ forked' = c /\ pc' = "forked"
    /\ UNCHANGED <<output, written, held, packetVars, childpids, lastexit>>

\* addchildpid: the first free slot, or a new one.
addchildpid_NoGrow(c) ==
    LET free == {i \in DOMAIN childpids : childpids[i] = NoSlot}
    IN  [childpids EXCEPT ![IF free = {} THEN Len(childpids) ELSE 1] =
            [pid |-> ch[c].pid, chan |-> c]]

addchildpid(c) ==
    LET free == {i \in DOMAIN childpids : childpids[i] = NoSlot}
        entry == [pid |-> ch[c].pid, chan |-> c]
    IN  IF free = {} THEN Append(childpids, entry)
        ELSE [childpids EXCEPT ![CHOOSE i \in free : \A j \in free : i <= j] = entry]

FirstSlot(table, p) ==
    SelectInSeq(table, LAMBDA e : e.pid = p)

\* The rest of noptycommand and of ptycommand; only the first looks whether
\* the child's exit was left in lastexit.
Register ==
    /\ pc = "forked" /\ pc' = "loophandler" /\ forked' = None
    /\ childpids' = addchildpid(forked)
    /\ IF forked \notin Pty /\ lastexit # NoExit /\ FirstSlot(childpids', lastexit.pid) # 0
         THEN LET d == childpids'[FirstSlot(childpids', lastexit.pid)].chan
              IN  ch' = [ch EXCEPT ![d].exit = lastexit] /\ lastexit' = NoExit
         ELSE UNCHANGED <<ch, lastexit>>
    /\ UNCHANGED <<kernelVars, packetVars, histVars>>

\* recv_msg_channel_eof and recv_msg_channel_close
RecvEnd(c) ==
    /\ pc = "packet" /\ pc' = "loophandler"
    /\ ~ch[c].removed /\ ~ch[c].recv_close
    /\ \E close \in {b \in BOOLEAN : b \/ ~ch[c].recv_eof} :
         ch' = [ch EXCEPT ![c] =
                  check_close([@ EXCEPT !.recv_eof = TRUE, !.recv_close = close],
                              c, fd_read_pending(output[c], c))]
    /\ childpids' = cleanupchansess(childpids, ch')
    /\ UNCHANGED <<kernelVars, packetVars, lastexit, forked, histVars>>

\* svr_chansess_checksignal: every zombie is waited for, its exit goes to the
\* first slot with its pid, or to lastexit.
Zombies == {p \in Pids : proc[p] = "zombie"}

svr_chansess_checksignal ==
    /\ pc = "loophandler" /\ pc' = "channelio"
    /\ LET Z == IF channel_signal_pending THEN Zombies ELSE {}
           unmatched == {p \in Z : FirstSlot(childpids, p) = 0}
           info(p) == [pid |-> p, of |-> owner[p]]
           mine(c) == {p \in Z \ unmatched : childpids[FirstSlot(childpids, p)].chan = c}
       IN  /\ proc' = [p \in Pids |-> IF p \in Z THEN "free" ELSE proc[p]]
           /\ owner' = [p \in Pids |-> IF p \in Z THEN None ELSE owner[p]]
           /\ ch' = [c \in Chans |->
                       IF mine(c) = {} THEN ch[c]
                       ELSE [ch[c] EXCEPT !.exit = info(CHOOSE p \in mine(c) : TRUE)]]
           /\ IF unmatched = {} THEN UNCHANGED lastexit
              ELSE \E p \in unmatched : lastexit' = info(p)
    /\ UNCHANGED <<output, written, held, packetVars, childpids, forked, histVars>>

\* send_msg_channel_data takes a unit, or closes readfd at its end of file.
ReadUnit(r, c) ==
    IF output[c] > 0 \/ c \notin ready THEN r ELSE CloseRead(r, c)

Reads == {c \in ready : ch[c].readfd = "open"}

DoCheckClose_OnActivity(c) == c \in ready /\ ch[c].readfd = "open"

DoCheckClose(c) == (c \in ready /\ ch[c].readfd = "open") \/ channel_signal_pending

\* channelio, over all channels; what was ready still is, unless a CLOSE came.
channelio ==
    /\ pc = "channelio" /\ pc' = "select"
    /\ \A c \in Reads : ~ch[c].sent_close
    /\ LET after == [c \in Chans |-> IF c \in Reads /\ output[c] > 0
                                     THEN output[c] - 1 ELSE output[c]]
       IN  /\ output' = after
           /\ ch' = [c \in Chans |->
                       LET r == IF c \in Reads THEN ReadUnit(ch[c], c) ELSE ch[c]
                       IN  IF DoCheckClose(c) THEN check_close(r, c, fd_read_pending(after[c], c))
                           ELSE r]
    /\ childpids' = cleanupchansess(childpids, ch')
    /\ ready' = {}
    /\ UNCHANGED <<proc, owner, written, held, sigchld, signal_pipe,
                   channel_signal_pending, lastexit, forked, histVars>>

\* The assertion of send_msg_channel_data: the session ends, and what the pass
\* did for other channels before is never sent.
DataAfterClose ==
    /\ pc = "channelio" /\ pc' = "over"
    /\ \E c \in Reads : ch[c].sent_close
    /\ UNCHANGED <<kernelVars, packetVars, childpids, lastexit, forked, ch, histVars>>

Loop ==
    \/ DataAfterClose
    \/ Select \/ NoPacket \/ Register \/ svr_chansess_checksignal \/ channelio
    \/ \E c \in Chans : Fork(c) \/ RecvEnd(c)

Next ==
    \/ Loop \/ sesssigchild_handler
    \/ \E c \in Chans : ChildWrites(c)
    \/ \E p \in Pids : ChildExits(p)

Spec == Init /\ [][Next]_vars

\* The session process runs and a pending signal is delivered.  No child has
\* to exit.
FairSpec == Spec /\ WF_vars(Loop) /\ WF_vars(sesssigchild_handler)

-----------------------------------------------------------------------------
\* Every child that is waited for is found in childpids: the race for which
\* svr_ses.lastexit is kept does not occur, because a channel with a child is
\* not removed before that child was waited for, and waitpid() runs in the
\* loop, after addchildpid.  The exception is a command that was started on a
\* channel whose CLOSE had been sent: nothing keeps that channel, and a later
\* command that gets the pid left in lastexit is given this exit for its own.
ExitMatched == lastexit # NoExit /\ ~clash => lastexit.of \in late

\* A CLOSE on a channel that ran a command carries the exit of its own child,
\* never none and never another channel's, unless a pid came back while
\* childpids or lastexit still had it, or the command came after the CLOSE.
OwnStatus ==
    \A c \in Chans \ late : ch[c].sent_close /\ ch[c].pid # None /\ ~clash =>
        ch[c].status = [pid |-> ch[c].pid, of |-> c]

\* What the child wrote before it exited is read before readfd is closed, also
\* when a background process keeps the pipe open, unless the client closed
\* the channel or a pid clashed.  A pty is different: closing writefd closes
\* readfd too.
OutputDrained ==
    \A c \in Chans \ Pty :
        ch[c].readfd = "closed" /\ ch[c].pid # None /\ ~ch[c].recv_close /\ ~clash
            => output[c] = 0

\* A child that has exited is waited for, whichever exits a SIGCHLD, a byte of
\* the signal pipe or an interrupted select() stood for, and its channel sends
\* CLOSE, also when no descriptor of the channel ever becomes ready again,
\* unless the session ends on an assertion before.
ExitCloses ==
    \A c \in Chans : (ch[c].pid # None /\ ChildOf(c) = {}) ~>
                        (ch[c].sent_close \/ clash \/ pc = "over")
=============================================================================
