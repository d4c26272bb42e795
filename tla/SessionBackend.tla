--------------------------- MODULE SessionBackend ---------------------------
(***************************************************************************)
(* One "session" channel of the PS4 server and its in-process backend.     *)
(*                                                                         *)
(* The Orbis sandbox cannot fork, so a shell or scp request starts a       *)
(* WORKER THREAD that talks to the main loop over a socketpair instead of  *)
(* a child process over pipes.  Two threads then share one ChanSess        *)
(* (backend state, backend and cancel descriptors, exit information) and   *)
(* one descriptor table.  The module interleaves the main loop (packet     *)
(* handlers, channelio, check_close, remove_channel, cleanupchansess) with *)
(* the worker (ps4_shell_thread, ps4_scp_thread) at the granularity of the *)
(* atomic operations and system calls they race on.                        *)
(*                                                                         *)
(* Sources: svr-chansession.c, common-channel.c, dbutil.c, common-session.c*)
(***************************************************************************)
EXTENDS Integers

CONSTANTS
    FDs,            \* descriptor numbers of the process left for this channel
    SockCap,        \* units one direction of the socketpair buffers
    MaxWin,         \* largest window the client grants (transwindow)
    MaxIn,          \* bound: units of channel data the client sends
    MaxOut,         \* bound: units of output a backend produces
    RequestAfterEof \* whether the client may send a request after its EOF

ASSUME ConstAssumption ==
    /\ FDs \subseteq Nat
    /\ SockCap \in Nat \ {0} /\ MaxWin \in Nat \ {0}
    /\ MaxIn \in Nat /\ MaxOut \in Nat
    /\ RequestAfterEof \in BOOLEAN

FD_UNINIT == -2
FD_CLOSED == -1
NoFd == -1          \* the -1 of ps4_backend_fd and ps4_cancel_fd

BackendStates == {"IDLE", "RUNNING", "DONE"}
Kinds == {"free", "chan", "back", "pipe", "null", "file"}
Ends == {"aR", "aW", "bR", "bW"}   \* a: sockets[0], b: sockets[1]

VARIABLES
    \* struct Channel
    open, readfd, writefd, bidir_fd, transwindow,
    sent_eof, recv_eof, sent_close, recv_close, flushing,
    \* struct ChanSess
    state, backend_fd, cancel_fd, thread_started, exitset,
    \* the main thread: where it is and its locals
    mpc, seen, mfd, mcancel, wpend, ending,
    \* the worker thread: where it is and its locals
    wpc, wfd, wout, wfile,
    \* the kernel: descriptor table, open socket ends, queued units
    fdtab, up, inq, outq,
    \* history: client data sent, backend output produced, output forwarded
    nIn, produced, forwarded

chanVars == <<open, readfd, writefd, bidir_fd, transwindow, sent_eof,
              recv_eof, sent_close, recv_close, flushing>>
sessVars == <<state, backend_fd, cancel_fd, thread_started, exitset>>
mainVars == <<mpc, seen, mfd, mcancel, wpend, ending>>
workVars == <<wpc, wfd, wout, wfile>>
kernVars == <<fdtab, up, inq, outq>>
histVars == <<nIn, produced, forwarded>>
vars == <<chanVars, sessVars, mainVars, workVars, kernVars, histVars>>

MainPcs == {"loop", "check", "take", "shut", "flush", "answer", "wrdown",
            "eof", "close", "write", "rm_w", "rm_r", "cl_take", "cl_shut",
            "join", "cl_close", "over"}
WorkPcs == {"none", "read", "work", "write", "finish", "store", "xchg",
            "close", "ended"}
FdOrNone == FDs \cup {FD_CLOSED, FD_UNINIT}

FlagsOK ==
    /\ open \in BOOLEAN /\ bidir_fd \in BOOLEAN /\ flushing \in BOOLEAN
    /\ sent_eof \in BOOLEAN /\ recv_eof \in BOOLEAN
    /\ sent_close \in BOOLEAN /\ recv_close \in BOOLEAN
    /\ thread_started \in BOOLEAN /\ exitset \in BOOLEAN /\ ending \in BOOLEAN
DataOK ==
    /\ readfd \in FdOrNone /\ writefd \in FdOrNone
    /\ transwindow \in 0..MaxWin
    /\ state \in BackendStates
    /\ backend_fd \in FDs \cup {NoFd} /\ cancel_fd \in FDs \cup {NoFd}
    /\ mpc \in MainPcs /\ seen \in BackendStates
    /\ mfd \in FDs \cup {NoFd} /\ mcancel \in FDs \cup {NoFd}
    /\ wpend \in 0..MaxIn
    /\ wpc \in WorkPcs /\ wfd \in FDs \cup {NoFd}
    /\ wout \in 0..MaxOut /\ wfile \in FDs \cup {NoFd}
    /\ fdtab \in [FDs -> Kinds] /\ up \in SUBSET Ends
    /\ inq \in 0..SockCap /\ outq \in Nat
    /\ nIn \in 0..MaxIn /\ produced \in Nat /\ forwarded \in Nat

\* Type correctness; in particular a read never overdraws the client's window
\* and the socket buffer towards the worker never holds more than its capacity
\* (outq has no such bound: a built-in command leaves its output in a pipe).
TypeOK == FlagsOK /\ DataOK

-----------------------------------------------------------------------------
(* The kernel, as the two threads use it. *)

\* POSIX: a new descriptor takes the lowest free number.
IsLowestFree(f, tab) ==
    /\ tab[f] = "free"
    /\ \A g \in FDs : tab[g] = "free" => f <= g

\* The socket ends that closing (or shutting down) descriptor f takes down.
EndsBy == [chan |-> {"aR", "aW"}, pipe |-> {"aR", "aW"}, back |-> {"bR", "bW"},
           null |-> {}, file |-> {}, free |-> {}]
EndsOf(f) == IF f \in FDs THEN EndsBy[fdtab[f]] ELSE {}

\* Taking a receiving end down discards what is queued for it.
TakeDown(E) ==
    /\ up' = up \ E
    /\ outq' = IF "aR" \in E THEN 0 ELSE outq
    /\ inq' = IF "bR" \in E THEN 0 ELSE inq

\* close() of every number in S; a negative or free number is EBADF, ignored.
CloseFds(S) ==
    /\ fdtab' = [f \in FDs |-> IF f \in S THEN "free" ELSE fdtab[f]]
    /\ TakeDown(UNION {EndsOf(f) : f \in S})

ShutdownEnds(E) == TakeDown(E) /\ UNCHANGED fdtab

\* select() would report channel->readfd readable: data, or end of file.
Readable == outq > 0 \/ "bW" \notin up

-----------------------------------------------------------------------------
(* close_chan_fd(channel, channel->readfd, SHUT_RD) and its SHUT_WR twin.  *)
(* A socketpair end is shut down one way and closed with its last use; two *)
(* equal descriptors (both still FD_UNINIT) are marked closed together.    *)
CloseRead ==
    /\ readfd' = FD_CLOSED
    /\ writefd' = IF ~bidir_fd /\ writefd = readfd THEN FD_CLOSED ELSE writefd
    /\ IF ~bidir_fd \/ writefd = FD_CLOSED
         THEN CloseFds({readfd}) ELSE ShutdownEnds({"aR"})

CloseWrite_NotShared ==
    /\ writefd' = FD_CLOSED
    /\ readfd' = IF ~bidir_fd /\ writefd = readfd THEN FD_CLOSED ELSE readfd
    /\ CloseFds({writefd})

CloseWrite ==
    /\ writefd' = FD_CLOSED
    /\ readfd' = IF ~bidir_fd /\ writefd = readfd THEN FD_CLOSED ELSE readfd
    /\ IF ~bidir_fd \/ readfd = FD_CLOSED
         THEN CloseFds({writefd}) ELSE ShutdownEnds({"aW"})

\* send_msg_channel_close: exit status (closehandler), CLOSE, then the fds.
SendClose ==
    /\ sent_eof' = TRUE /\ sent_close' = TRUE
    /\ readfd' = FD_CLOSED /\ writefd' = FD_CLOSED
    /\ CloseFds({readfd, writefd})

\* check_close may close the channel: it already sent CLOSE, or the type's
\* own check (sesscheckclose) saw no running backend.
CloseAllowed_NoTypeCheck == TRUE
CloseAllowed == sent_close \/ seen # "RUNNING"

\* In flushing mode readfd is closed as soon as nothing is pending on it.
FlushNow_Unread == flushing /\ readfd >= 0
FlushNow == flushing /\ readfd >= 0 /\ ~Readable

\* writefd has no further use: the client sent EOF or the backend is over.
WriteDone_BackendOnly == writefd # FD_UNINIT /\ CloseAllowed
WriteDone == recv_eof \/ (writefd # FD_UNINIT /\ CloseAllowed)

Goto(pc) == mpc' = pc

-----------------------------------------------------------------------------
Init ==
    /\ open = FALSE /\ readfd = FD_UNINIT /\ writefd = FD_UNINIT
    /\ bidir_fd = FALSE /\ transwindow = 0
    /\ sent_eof = FALSE /\ recv_eof = FALSE
    /\ sent_close = FALSE /\ recv_close = FALSE /\ flushing = FALSE
    /\ state = "IDLE" /\ backend_fd = NoFd /\ cancel_fd = NoFd
    /\ thread_started = FALSE /\ exitset = FALSE
    /\ mpc = "loop" /\ seen = "IDLE" /\ mfd = NoFd /\ mcancel = NoFd
    /\ wpend = 0 /\ ending = FALSE
    /\ wpc = "none" /\ wfd = NoFd /\ wout = 0 /\ wfile = NoFd
    /\ fdtab = [f \in FDs |-> "free"] /\ up = {} /\ inq = 0 /\ outq = 0
    /\ nIn = 0 /\ produced = 0 /\ forwarded = 0

-----------------------------------------------------------------------------
(* Packets the main loop handles. *)

\* recv_msg_channel_open, newchannel, newchansess
RecvOpen ==
    /\ mpc = "loop" /\ ~open
    /\ open' = TRUE /\ readfd' = FD_UNINIT /\ writefd' = FD_UNINIT
    /\ bidir_fd' = FALSE /\ transwindow' \in 0..MaxWin
    /\ sent_eof' = FALSE /\ recv_eof' = FALSE
    /\ sent_close' = FALSE /\ recv_close' = FALSE /\ flushing' = FALSE
    /\ state' = "IDLE" /\ backend_fd' = NoFd /\ cancel_fd' = NoFd
    /\ thread_started' = FALSE /\ exitset' = FALSE
    /\ nIn' = 0 /\ produced' = 0 /\ forwarded' = 0
    /\ UNCHANGED <<mainVars, workVars, kernVars>>

\* sessioncommand refuses a second command; a request that fails before it
\* owns anything leaves everything as it was and is not a step here.
MayStart ==
    /\ mpc = "loop" /\ open /\ state = "IDLE"
    /\ RequestAfterEof \/ ~recv_eof

\* ps4_shell_start and ps4_scp_start: socketpair, RUNNING, the thread, the fds.
StartWorker ==
    /\ MayStart
    /\ \E a, b \in FDs :
         /\ IsLowestFree(a, fdtab)
         /\ IsLowestFree(b, [fdtab EXCEPT ![a] = "chan"])
         /\ fdtab' = [fdtab EXCEPT ![a] = "chan", ![b] = "back"]
         /\ readfd' = a /\ writefd' = a
         /\ backend_fd' = b /\ wfd' = b
    /\ bidir_fd' = TRUE
    /\ up' = Ends /\ inq' = 0 /\ outq' = 0
    /\ state' = "RUNNING" /\ thread_started' = TRUE
    /\ wpc' = "write" /\ wout' \in {n \in 0..1 : n <= MaxOut}
    /\ wfile' = NoFd
    /\ UNCHANGED <<open, transwindow, sent_eof, recv_eof, sent_close,
                   recv_close, flushing, cancel_fd, exitset, mainVars, histVars>>

\* ps4_builtin_command, then chansessionrequest's EXEC_READY -> DONE: the
\* output is a pipe nobody writes to any more, input goes to /dev/null.
ExecBuiltin ==
    /\ MayStart
    /\ \E r, n \in FDs :
         /\ IsLowestFree(r, fdtab)
         /\ IsLowestFree(n, [fdtab EXCEPT ![r] = "pipe"])
         /\ fdtab' = [fdtab EXCEPT ![r] = "pipe", ![n] = "null"]
         /\ readfd' = r /\ writefd' = n
    /\ bidir_fd' = FALSE
    /\ outq' \in 0..MaxOut /\ produced' = outq'
    /\ up' = {"aR"} /\ inq' = 0
    /\ state' = "DONE" /\ exitset' = TRUE
    /\ UNCHANGED <<open, transwindow, sent_eof, recv_eof, sent_close,
                   recv_close, flushing, backend_fd, cancel_fd,
                   thread_started, mainVars, workVars, nIn, forwarded>>

\* The same, but /dev/null cannot be opened: the request fails, and writefd
\* keeps the -1 that open() returned.
ExecNoNull ==
    /\ MayStart
    /\ writefd' = FD_CLOSED
    /\ UNCHANGED <<open, readfd, bidir_fd, transwindow, sent_eof, recv_eof,
                   sent_close, recv_close, flushing, sessVars, mainVars,
                   workVars, kernVars, histVars>>

\* recv_msg_channel_data: dropped when writefd is gone, swallowed by
\* /dev/null, otherwise written at once to the (blocking) socketpair.
RecvData ==
    /\ mpc = "loop" /\ open /\ ~recv_eof
    /\ \E n \in 1..(MaxIn - nIn) :
         /\ nIn' = nIn + n
         /\ IF writefd >= 0 /\ bidir_fd
              THEN Goto("write") /\ wpend' = n
              ELSE UNCHANGED <<mpc, wpend>>
    /\ UNCHANGED <<chanVars, sessVars, seen, mfd, mcancel, ending, workVars,
                   kernVars, produced, forwarded>>

\* writev() inside writechannel, one unit at a time: it fails when the worker
\* end is gone, blocks while the socket buffer is full.
MainWrite ==
    /\ mpc = "write"
    /\ \/ /\ "bR" \notin up
          /\ CloseWrite
          /\ wpend' = 0 /\ Goto("loop")
       \/ /\ "bR" \in up /\ inq < SockCap
          /\ inq' = inq + 1 /\ wpend' = wpend - 1
          /\ Goto(IF wpend = 1 THEN "loop" ELSE "write")
          /\ UNCHANGED <<readfd, writefd, fdtab, up, outq>>
    /\ UNCHANGED <<open, bidir_fd, transwindow, sent_eof, recv_eof,
                   sent_close, recv_close, flushing, sessVars, seen, mfd,
                   mcancel, ending, workVars, histVars>>

\* recv_msg_channel_eof
RecvEof ==
    /\ mpc = "loop" /\ open
    /\ recv_eof' = TRUE
    /\ Goto("check")
    /\ UNCHANGED <<open, readfd, writefd, bidir_fd, transwindow, sent_eof,
                   sent_close, recv_close, flushing, sessVars, seen, mfd,
                   mcancel, wpend, ending, workVars, kernVars, histVars>>

\* recv_msg_channel_close
RecvClose ==
    /\ mpc = "loop" /\ open
    /\ recv_eof' = TRUE /\ recv_close' = TRUE
    /\ Goto("check")
    /\ UNCHANGED <<open, readfd, writefd, bidir_fd, transwindow, sent_eof,
                   sent_close, flushing, sessVars, seen, mfd, mcancel, wpend,
                   ending, workVars, kernVars, histVars>>

\* recv_msg_channel_window_adjust (no close check follows it)
RecvWindowAdjust ==
    /\ mpc = "loop" /\ open /\ transwindow < MaxWin
    /\ transwindow' \in (transwindow + 1)..MaxWin
    /\ UNCHANGED <<open, readfd, writefd, bidir_fd, sent_eof, recv_eof,
                   sent_close, recv_close, flushing, sessVars, mainVars,
                   workVars, kernVars, histVars>>

\* The connection ends (disconnect, remote close, dropbear_exit, signal):
\* session_cleanup, chancleanup, remove_channel for a channel still there.
EndSession ==
    /\ mpc = "loop"
    /\ ending' = TRUE
    /\ Goto(IF open THEN "rm_w" ELSE "over")
    /\ UNCHANGED <<chanVars, sessVars, seen, mfd, mcancel, wpend, workVars,
                   kernVars, histVars>>

\* The listener loop of svr-main.c runs the next serial session.
NextSession ==
    /\ mpc = "over"
    /\ ending' = FALSE /\ Goto("loop")
    /\ UNCHANGED <<chanVars, sessVars, seen, mfd, mcancel, wpend, workVars,
                   kernVars, histVars>>

-----------------------------------------------------------------------------
(* channelio: the channel's readfd is selected only while the client grants *)
(* window; send_msg_channel_data forwards what it reads, or closes at EOF.  *)
ReadSelected == mpc = "loop" /\ open /\ readfd >= 0 /\ transwindow > 0 /\ Readable

\* How much one read may take: never more than the client's window.
ReadSizes_AnyWindow == 1..outq
ReadSizes == {n \in 1..outq : n <= transwindow}

ChannelRead ==
    /\ ReadSelected /\ ~sent_close
    /\ Goto("check")
    /\ \/ /\ outq > 0
          /\ \E n \in ReadSizes :
               /\ outq' = outq - n /\ transwindow' = transwindow - n
               /\ forwarded' = forwarded + n
          /\ UNCHANGED <<readfd, writefd, fdtab, up, inq>>
       \/ /\ outq = 0
          /\ CloseRead
          /\ UNCHANGED <<transwindow, forwarded>>
    /\ UNCHANGED <<open, bidir_fd, sent_eof, recv_eof, sent_close, recv_close,
                   flushing, sessVars, seen, mfd, mcancel, wpend, ending,
                   workVars, nIn, produced>>

\* dropbear_assert(!channel->sent_close) fails: dropbear_exit.
ChannelReadAsserts ==
    /\ ReadSelected /\ sent_close
    /\ ending' = TRUE /\ Goto("rm_w")
    /\ UNCHANGED <<chanVars, sessVars, seen, mfd, mcancel, wpend, workVars,
                   kernVars, histVars>>

-----------------------------------------------------------------------------
(* check_close, one step per access to what the worker shares. *)

\* sesscheckclose: one acquire load of the backend state decides the rest.
CheckLoad ==
    /\ mpc = "check"
    /\ seen' = state
    /\ flushing' = (flushing \/ (~sent_close /\ state = "DONE"))
    /\ Goto(IF ~sent_close /\ state = "RUNNING" /\ recv_close
              THEN "take" ELSE "flush")
    /\ UNCHANGED <<open, readfd, writefd, bidir_fd, transwindow, sent_eof,
                   recv_eof, sent_close, recv_close, sessVars, mfd, mcancel,
                   wpend, ending, workVars, kernVars, histVars>>

\* __atomic_exchange_n(&ps4_backend_fd, -1): the descriptor has one taker.
TakeBackendFd_LoadOnly == UNCHANGED backend_fd
TakeBackendFd == backend_fd' = NoFd

\* ... exchanges ps4_backend_fd for -1 and records it in ps4_cancel_fd ...
CheckTake ==
    /\ mpc = "take"
    /\ TakeBackendFd
    /\ mfd' = backend_fd
    /\ cancel_fd' = IF backend_fd = NoFd THEN cancel_fd ELSE backend_fd
    /\ Goto(IF backend_fd = NoFd THEN "flush" ELSE "shut")
    /\ UNCHANGED <<chanVars, state, thread_started, exitset, seen, mcancel,
                   wpend, ending, workVars, kernVars, histVars>>

\* ... and shuts it down so that the worker's read returns.
CheckShut ==
    /\ mpc = "shut"
    /\ ShutdownEnds(EndsOf(mfd))
    /\ mfd' = NoFd
    /\ Goto("flush")
    /\ UNCHANGED <<chanVars, sessVars, seen, mcancel, wpend, ending, workVars,
                   histVars>>

\* Flushing mode closes readfd as soon as nothing is pending on it.
CheckFlush ==
    /\ mpc = "flush"
    /\ IF FlushNow
         THEN CloseRead ELSE UNCHANGED <<readfd, writefd, kernVars>>
    /\ Goto("answer")
    /\ UNCHANGED <<open, bidir_fd, transwindow, sent_eof, recv_eof,
                   sent_close, recv_close, flushing, sessVars, seen, mfd,
                   mcancel, wpend, ending, workVars, histVars>>

\* A received CLOSE is answered, and the channel removed, once allowed.
CheckAnswer ==
    /\ mpc = "answer"
    /\ IF recv_close /\ CloseAllowed
         THEN /\ Goto("rm_w")
              /\ IF sent_close
                   THEN UNCHANGED <<sent_eof, sent_close, readfd, writefd, kernVars>>
                   ELSE SendClose
         ELSE /\ Goto("wrdown")
              /\ UNCHANGED <<sent_eof, sent_close, readfd, writefd, kernVars>>
    /\ UNCHANGED <<open, bidir_fd, transwindow, recv_eof, recv_close, flushing,
                   sessVars, seen, mfd, mcancel, wpend, ending, workVars, histVars>>

\* The client's EOF, or the end of the backend, closes writefd.
CheckWriteDown ==
    /\ mpc = "wrdown"
    /\ IF WriteDone
         THEN CloseWrite ELSE UNCHANGED <<readfd, writefd, kernVars>>
    /\ Goto("eof")
    /\ UNCHANGED <<open, bidir_fd, transwindow, sent_eof, recv_eof,
                   sent_close, recv_close, flushing, sessVars, seen, mfd,
                   mcancel, wpend, ending, workVars, histVars>>

\* Nothing more to read: send EOF; nothing either way: send CLOSE.
CheckEof ==
    /\ mpc = "eof"
    /\ IF readfd = FD_CLOSED /\ writefd = FD_CLOSED /\ ~sent_close /\ CloseAllowed
         THEN SendClose
         ELSE /\ sent_eof' = (sent_eof \/ readfd = FD_CLOSED)
              /\ UNCHANGED <<sent_close, readfd, writefd, kernVars>>
    /\ Goto("loop")
    /\ UNCHANGED <<open, bidir_fd, transwindow, recv_eof, recv_close, flushing,
                   sessVars, seen, mfd, mcancel, wpend, ending, workVars, histVars>>

-----------------------------------------------------------------------------
(* remove_channel and cleanupchansess. *)

RemoveWrite ==
    /\ mpc = "rm_w" /\ Goto("rm_r")
    /\ CloseFds({writefd})
    /\ UNCHANGED <<chanVars, sessVars, seen, mfd, mcancel, wpend, ending,
                   workVars, histVars>>

RemoveRead ==
    /\ mpc = "rm_r" /\ Goto("cl_take")
    /\ CloseFds({readfd})
    /\ UNCHANGED <<chanVars, sessVars, seen, mfd, mcancel, wpend, ending,
                   workVars, histVars>>

\* The ChanSess and the Channel are freed; back to the loop or out.
Freed == open' = FALSE /\ Goto(IF ending THEN "over" ELSE "loop")

CleanupTake ==
    /\ mpc = "cl_take"
    /\ IF thread_started
         THEN /\ mfd' = backend_fd /\ backend_fd' = NoFd
              /\ mcancel' = cancel_fd /\ cancel_fd' = NoFd
              /\ Goto("cl_shut") /\ UNCHANGED open
         ELSE /\ Freed
              /\ UNCHANGED <<mfd, mcancel, backend_fd, cancel_fd>>
    /\ UNCHANGED <<readfd, writefd, bidir_fd, transwindow, sent_eof, recv_eof,
                   sent_close, recv_close, flushing, state, thread_started,
                   exitset, seen, wpend, ending, workVars, kernVars, histVars>>

CleanupShut ==
    /\ mpc = "cl_shut" /\ Goto("join")
    /\ ShutdownEnds(EndsOf(mfd) \cup EndsOf(mcancel))
    /\ UNCHANGED <<chanVars, sessVars, seen, mfd, mcancel, wpend, ending,
                   workVars, histVars>>

\* pthread_join
CleanupJoin ==
    /\ mpc = "join" /\ wpc = "ended" /\ Goto("cl_close")
    /\ UNCHANGED <<chanVars, sessVars, seen, mfd, mcancel, wpend, ending,
                   workVars, kernVars, histVars>>

\* What cleanupchansess still has to close once the thread is joined.
Reclaimed_NoCancel == {mfd}
Reclaimed == {mfd, mcancel}

CleanupClose ==
    /\ mpc = "cl_close"
    /\ CloseFds(Reclaimed)
    /\ mfd' = NoFd /\ mcancel' = NoFd /\ thread_started' = FALSE
    /\ wpc' = "none" /\ wfd' = NoFd
    /\ Freed
    /\ UNCHANGED <<readfd, writefd, bidir_fd, transwindow, sent_eof, recv_eof,
                   sent_close, recv_close, flushing, state, backend_fd,
                   cancel_fd, exitset, seen, wpend, ending, wout, wfile, histVars>>

-----------------------------------------------------------------------------
(* The worker thread: ps4_shell_thread, ps4_scp_thread. *)

\* read(): a unit, or end of file once either end is down and drained.
WorkerRead ==
    /\ wpc = "read"
    /\ \/ inq > 0 /\ inq' = inq - 1 /\ wpc' = "work"
       \/ inq = 0 /\ {"aW", "bR"} \ up # {} /\ wpc' = "finish" /\ UNCHANGED inq
    /\ UNCHANGED <<chanVars, sessVars, mainVars, wfd, wout, wfile, fdtab, up,
                   outq, histVars>>

\* A command ends in some output, or ends the session (exit, logout, scp end).
WorkerWork ==
    /\ wpc = "work"
    /\ \/ wout' \in 0..(MaxOut - produced) /\ wpc' = "write"
       \/ wpc' = "finish" /\ UNCHANGED wout
    /\ UNCHANGED <<chanVars, sessVars, mainVars, wfd, wfile, kernVars, histVars>>

\* A command opens a file (cat, cp, scp, the runtime log) ...
WorkerOpenFile ==
    /\ wpc = "work" /\ wfile = NoFd
    /\ \E f \in FDs :
         /\ IsLowestFree(f, fdtab)
         /\ wfile' = f /\ fdtab' = [fdtab EXCEPT ![f] = "file"]
    /\ UNCHANGED <<chanVars, sessVars, mainVars, wpc, wfd, wout, up, inq, outq,
                   histVars>>

\* ... and closes it.
WorkerCloseFile ==
    /\ wpc \in {"work", "finish"} /\ wfile # NoFd
    /\ CloseFds({wfile}) /\ wfile' = NoFd
    /\ UNCHANGED <<chanVars, sessVars, mainVars, wpc, wfd, wout, histVars>>

\* A write error: the rest is dropped; the shell reads on, scp gives up.
WriteError_Retry == UNCHANGED <<wout, wpc>>
WriteError == wout' = 0 /\ wpc' \in {"read", "finish"}

\* ps4_write_all / write_all: blocks on a full buffer.
WorkerWrite ==
    /\ wpc = "write"
    /\ \/ /\ wout = 0 /\ wpc' = "read"
          /\ UNCHANGED <<wout, outq, produced>>
       \/ /\ wout > 0 /\ {"aR", "bW"} \ up # {}
          /\ WriteError
          /\ UNCHANGED <<outq, produced>>
       \/ /\ wout > 0 /\ {"aR", "bW"} \subseteq up /\ outq < SockCap
          /\ wout' = wout - 1 /\ outq' = outq + 1
          /\ produced' = produced + 1 /\ UNCHANGED wpc
    /\ UNCHANGED <<chanVars, sessVars, mainVars, wfd, wfile, fdtab, up, inq,
                   nIn, forwarded>>

\* chansess->exit is filled in before the state is published.
WorkerExitInfo ==
    /\ wpc = "finish" /\ wfile = NoFd
    /\ exitset' = TRUE /\ wpc' = "store"
    /\ UNCHANGED <<chanVars, state, backend_fd, cancel_fd, thread_started,
                   mainVars, wfd, wout, wfile, kernVars, histVars>>

WorkerStoreDone ==
    /\ wpc = "store"
    /\ state' = "DONE" /\ wpc' = "xchg"
    /\ UNCHANGED <<chanVars, backend_fd, cancel_fd, thread_started, exitset,
                   mainVars, wfd, wout, wfile, kernVars, histVars>>

\* Whoever exchanges ps4_backend_fd away closes the descriptor.
WorkerExchange ==
    /\ wpc = "xchg"
    /\ TakeBackendFd
    /\ wpc' = IF backend_fd = NoFd THEN "ended" ELSE "close"
    /\ UNCHANGED <<chanVars, state, cancel_fd, thread_started, exitset,
                   mainVars, wfd, wout, wfile, kernVars, histVars>>

WorkerClose ==
    /\ wpc = "close" /\ wpc' = "ended"
    /\ CloseFds({wfd})
    /\ UNCHANGED <<chanVars, sessVars, mainVars, wfd, wout, wfile, histVars>>

-----------------------------------------------------------------------------
Client ==
    \/ RecvOpen \/ StartWorker \/ ExecBuiltin \/ ExecNoNull \/ RecvData
    \/ RecvEof \/ RecvClose \/ RecvWindowAdjust \/ EndSession

\* What the main thread does without hearing from the client.
Main ==
    \/ MainWrite \/ ChannelRead \/ ChannelReadAsserts
    \/ CheckLoad \/ CheckTake \/ CheckShut \/ CheckFlush \/ CheckAnswer
    \/ CheckWriteDown \/ CheckEof
    \/ RemoveWrite \/ RemoveRead \/ CleanupTake \/ CleanupShut
    \/ CleanupJoin \/ CleanupClose \/ NextSession

Worker ==
    \/ WorkerRead \/ WorkerWork \/ WorkerOpenFile \/ WorkerCloseFile
    \/ WorkerWrite \/ WorkerExitInfo \/ WorkerStoreDone \/ WorkerExchange
    \/ WorkerClose

Next == Client \/ Main \/ Worker

Spec == Init /\ [][Next]_vars

\* Both threads are scheduled; a command terminates; session_loop calls
\* channelio once per iteration, after at most one packet, so a selected
\* descriptor is served however many packets arrive; and the client keeps
\* granting window, as one that consumes its output does.
FairSpec ==
    /\ Spec
    /\ WF_vars(Main) /\ WF_vars(Worker) /\ WF_vars(WorkerWork)
    /\ SF_vars(ChannelRead) /\ SF_vars(RecvWindowAdjust)

-----------------------------------------------------------------------------
(* Safety. *)

\* The worker points at which its thread still owns a use of wfd.
Using == {"read", "work", "write", "finish", "store", "xchg", "close"}
Cleaning == {"cl_shut", "join", "cl_close"}

\* No thread ever reads, writes, shuts down or closes the backend end of the
\* socketpair after it was closed: the exchange on ps4_backend_fd hands the
\* duty to close to exactly one of the worker, sesscheckclose's cancel
\* descriptor and cleanupchansess.
BackendFdIntact ==
    /\ wpc \in Using => wfd \in FDs /\ fdtab[wfd] = "back"
    /\ mpc = "shut" => mfd \in FDs /\ fdtab[mfd] = "back"
    /\ mpc \in Cleaning =>
          \A f \in {mfd, mcancel} \ {NoFd} : fdtab[f] = "back"

\* Removing a channel (remove_channel, cleanupchansess) gives back every
\* descriptor the channel, its socketpair and its backend held, and the
\* thread is joined: the serial server can run the next session or channel.
NothingLeaks ==
    ~open /\ mpc \in {"loop", "over"} =>
        wpc = "none" /\ \A f \in FDs : fdtab[f] = "free"

\* EOF (and so CLOSE) is sent for a backend only after every unit it wrote
\* was forwarded, unless the client itself closed the channel first: the
\* DONE store happens after the last write, and flushing closes readfd only
\* when nothing is pending.  (A readfd still open then belongs to a backend
\* that was started after the CLOSE, see ChannelReadAsserts.)
OutputComplete ==
    open /\ sent_eof /\ ~recv_close /\ readfd = FD_CLOSED => forwarded = produced

\* The CLOSE for a channel whose backend was started is sent only once the
\* backend published its exit status, so closechansess can report it, and
\* the status is not written any more when it is read.
CloseCarriesStatus ==
    [][~sent_close /\ sent_close' /\ state # "IDLE"
         => exitset /\ wpc \notin {"read", "work", "write", "finish", "store"}]_vars

\* Whatever the main loop shuts down or closes while a channel is in use, it
\* never takes a file the worker has open: a number that readfd and writefd
\* share is closed with its last use.  (remove_channel is another matter: it
\* closes writefd and readfd one after the other, and when they are the same
\* number a file the worker opens in between is lost.)
Removing == {"rm_w", "rm_r", "cl_take"} \cup Cleaning
WorkerFileIntact == wfile # NoFd /\ mpc \notin Removing => fdtab[wfile] = "file"

(* Liveness. *)

\* A client's EOF that finds a backend always ends in our CLOSE: the worker
\* sees end of file, publishes DONE and closes its end, and that end of file
\* is what wakes the main loop.  (A backend that a request starts after the
\* EOF is told of it the next time the channel is looked at.)
EofLeadsToClose ==
    (mpc = "check" /\ recv_eof /\ state # "IDLE") ~> (sent_close \/ recv_close \/ ending)

\* A session that ends is over: shutting the backend down always wakes the
\* worker, so pthread_join in cleanupchansess returns.
EndLeadsToOver == ending ~> mpc = "over"

-----------------------------------------------------------------------------
(* What the sources say and the code does not do. *)

\* "Handle channel closure(), respond in kind and close the channels": a
\* received CLOSE leads to the removal of the channel.
CloseLeadsToRemoval == (open /\ recv_close) ~> ~open

\* "retaining blocking mode is safe for this port": the main loop gets out of
\* every write to a backend.
WriteReturns == mpc = "write" ~> mpc # "write"
=============================================================================
