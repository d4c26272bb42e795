------------------------ MODULE SessionBackendProofs ------------------------
(***************************************************************************)
(* Proofs about SessionBackend, for every value of its constants:          *)
(*  - the specification is type correct;                                   *)
(*  - BackendFdIntact: no thread uses the backend descriptor after it was  *)
(*    closed;                                                              *)
(*  - NothingLeaks: a removed channel holds no descriptor and no thread;   *)
(*  - OutputComplete: no output is lost before the client is told the end; *)
(*  - WorkerFileIntact: the main loop closes no file of the worker;        *)
(*  - CloseCarriesStatus: CLOSE follows the backend's exit status.         *)
(***************************************************************************)
EXTENDS SessionBackend, TLAPS

\* The thread exists exactly while it is marked started, and only for a
\* channel that is open and whose command was accepted.
ThreadInv ==
    /\ thread_started <=> wpc # "none"
    /\ thread_started => open /\ state # "IDLE"
    /\ thread_started => wfd \in FDs /\ readfd # wfd /\ writefd # wfd /\ wfile # wfd
    /\ ~thread_started => backend_fd = NoFd /\ cancel_fd = NoFd /\ wfile = NoFd
    /\ mpc \notin {"loop", "over"} => open
    /\ mpc \in Cleaning => thread_started
    /\ mpc = "cl_close" => wpc = "ended"
    /\ wpc \in {"store", "xchg", "close", "ended"} => wfile = NoFd

\* Main's private copies are set only between taking a descriptor and
\* letting it go.
LocalsInv ==
    /\ mpc \notin Cleaning \cup {"shut"} => mfd = NoFd
    /\ mpc \notin Cleaning => mcancel = NoFd
    /\ mpc = "shut" => mfd # NoFd /\ mfd = cancel_fd
    /\ mpc \in Cleaning => backend_fd = NoFd /\ cancel_fd = NoFd
    /\ mpc = "write" => wpend > 0

\* The holders of the duty to close wfd.
HeldBackend == backend_fd # NoFd
HeldCancel  == cancel_fd # NoFd
HeldMain    == mpc \in Cleaning /\ (mfd # NoFd \/ mcancel # NoFd)
HeldWorker  == wpc = "close"

\* At most one holder, and whoever holds a number holds wfd, still open.
OwnerInv ==
    /\ HeldBackend => backend_fd = wfd /\ fdtab[wfd] = "back" /\ ~HeldCancel
                      /\ wpc \in Using \ {"close"}
    /\ HeldCancel => cancel_fd = wfd /\ fdtab[wfd] = "back" /\ ~HeldWorker
    /\ HeldMain => /\ mfd # NoFd => mfd = wfd /\ mcancel = NoFd
                   /\ mcancel # NoFd => mcancel = wfd
                   /\ fdtab[wfd] = "back" /\ ~HeldWorker
    /\ wpc \in Using => fdtab[wfd] = "back"
    /\ wpc \in Using \ {"close"} => HeldBackend \/ HeldCancel \/ HeldMain

\* Both ends of a bidirectional channel are the same descriptor.
ChanInv ==
    /\ bidir_fd => writefd # FD_UNINIT /\ readfd # FD_UNINIT
    /\ bidir_fd /\ readfd \in FDs /\ writefd \in FDs => readfd = writefd
    /\ open /\ state = "IDLE" => readfd \notin FDs /\ writefd \notin FDs

\* Every descriptor in use is accounted for.
PastRemoval == {"cl_take"} \cup Cleaning
AccountInv ==
    \A f \in FDs : fdtab[f] # "free" =>
        \/ open /\ mpc \notin PastRemoval /\ f = readfd
        \/ open /\ mpc \notin PastRemoval \cup {"rm_r"} /\ f = writefd
        \/ thread_started /\ f = wfile
        \/ thread_started /\ f = wfd /\ (HeldBackend \/ HeldCancel \/ HeldMain \/ HeldWorker)

\* The inductive invariant: the flags, whose type Zenon checks, and the rest.
Inductive ==
    DataOK /\ ThreadInv /\ LocalsInv /\ OwnerInv /\ ChanInv /\ AccountInv
IInv == FlagsOK /\ Inductive

-----------------------------------------------------------------------------
USE ConstAssumption
USE DEF FD_UNINIT, FD_CLOSED, NoFd, FdOrNone, BackendStates, Kinds, Ends,
        MainPcs, WorkPcs, Using, Cleaning, PastRemoval, Goto,
        chanVars, sessVars, mainVars, workVars, kernVars, histVars

KernOK ==
    /\ fdtab \in [FDs -> Kinds] /\ up \in SUBSET Ends
    /\ inq \in 0..SockCap /\ outq \in Nat

\* shutdown(): the kernel's tables keep their types.
LEMMA TakeDownType ==
  ASSUME NEW E, DataOK, TakeDown(E)
  PROVE up' \in SUBSET Ends /\ inq' \in 0..SockCap /\ outq' \in Nat
<1>1. up' \in SUBSET Ends
  BY Zenon DEF DataOK, TakeDown
<1>2. inq' \in 0..SockCap
  <2>1. CASE "bR" \in E  BY <2>1 DEF TakeDown
  <2>2. CASE "bR" \notin E  BY <2>2 DEF TakeDown, DataOK
  <2> QED BY <2>1, <2>2
<1>3. outq' \in Nat
  <2>1. CASE "aR" \in E  BY <2>1 DEF TakeDown
  <2>2. CASE "aR" \notin E  BY <2>2 DEF TakeDown, DataOK
  <2> QED BY <2>1, <2>2
<1> QED BY <1>1, <1>2, <1>3

\* close(): the numbers in S become free, and no other number changes.
LEMMA CloseFdsType ==
  ASSUME NEW S, DataOK, CloseFds(S)
  PROVE /\ KernOK'
        /\ \A f \in FDs : fdtab'[f] = IF f \in S THEN "free" ELSE fdtab[f]
<1>1. TakeDown(UNION {EndsOf(f) : f \in S})
  BY DEF CloseFds
<1>2. up' \in SUBSET Ends /\ inq' \in 0..SockCap /\ outq' \in Nat
  BY <1>1, TakeDownType
<1>3. fdtab' = [f \in FDs |-> IF f \in S THEN "free" ELSE fdtab[f]]
  BY DEF CloseFds
<1> QED BY <1>2, <1>3 DEF DataOK, KernOK

\* shutdown() of some ends, with the descriptor table left alone.
LEMMA ShutdownType ==
  ASSUME NEW E, DataOK, ShutdownEnds(E)
  PROVE KernOK' /\ fdtab' = fdtab
<1>1. TakeDown(E) /\ fdtab' = fdtab
  BY DEF ShutdownEnds
<1>2. up' \in SUBSET Ends /\ inq' \in 0..SockCap /\ outq' \in Nat
  BY <1>1, TakeDownType
<1> QED BY <1>1, <1>2 DEF DataOK, KernOK

\* close_chan_fd(readfd, SHUT_RD): at most readfd is freed, and a number of
\* the channel that is still open afterwards is its writefd.
LEMMA CloseReadFacts ==
  ASSUME FlagsOK, DataOK, ChanInv, CloseRead
  PROVE /\ KernOK' /\ readfd' = FD_CLOSED /\ writefd' \in {writefd, FD_CLOSED}
        /\ bidir_fd => writefd' = writefd
        /\ \A f \in FDs : fdtab'[f] = fdtab[f] \/ (fdtab'[f] = "free" /\ f = readfd)
        /\ \A f \in FDs : fdtab'[f] # "free" /\ f \in {readfd, writefd} => f = writefd'
<1>1. CASE ~bidir_fd \/ writefd = FD_CLOSED
  <2>1. CloseFds({readfd})  BY <1>1 DEF CloseRead
  <2> QED BY <1>1, <2>1, CloseFdsType DEF CloseRead, DataOK, ChanInv
<1>2. CASE bidir_fd /\ writefd # FD_CLOSED
  <2>1. ShutdownEnds({"aR"})  BY <1>2 DEF CloseRead
  <2> QED BY <1>2, <2>1, ShutdownType DEF CloseRead, DataOK, ChanInv
<1> QED BY <1>1, <1>2 DEF FlagsOK

\* close_chan_fd(writefd, SHUT_WR), likewise.
LEMMA CloseWriteFacts ==
  ASSUME FlagsOK, DataOK, ChanInv, CloseWrite
  PROVE /\ KernOK' /\ writefd' = FD_CLOSED /\ readfd' \in {readfd, FD_CLOSED}
        /\ bidir_fd => readfd' = readfd
        /\ \A f \in FDs : fdtab'[f] = fdtab[f] \/ (fdtab'[f] = "free" /\ f = writefd)
        /\ \A f \in FDs : fdtab'[f] # "free" /\ f \in {readfd, writefd} => f = readfd'
<1>1. CASE ~bidir_fd \/ readfd = FD_CLOSED
  <2>1. CloseFds({writefd})  BY <1>1 DEF CloseWrite
  <2> QED BY <1>1, <2>1, CloseFdsType DEF CloseWrite, DataOK, ChanInv
<1>2. CASE bidir_fd /\ readfd # FD_CLOSED
  <2>1. ShutdownEnds({"aW"})  BY <1>2 DEF CloseWrite
  <2> QED BY <1>2, <2>1, ShutdownType DEF CloseWrite, DataOK, ChanInv
<1> QED BY <1>1, <1>2 DEF FlagsOK

\* What MainWrite, ChannelRead and the closing steps of check_close have in
\* common: of the descriptors only the channel's own may be freed, and the
\* channel keeps naming the ones that stay open.
ChannelFdsStep ==
    /\ UNCHANGED <<open, bidir_fd, state, backend_fd, cancel_fd, thread_started,
                   seen, mfd, mcancel, wpc, wfd, wout, wfile, nIn, produced>>
    /\ mpc \in {"loop", "write", "flush", "answer", "wrdown", "eof"} /\ open
    /\ mpc' \in {"loop", "write", "check", "answer", "wrdown", "eof", "rm_w"}
    /\ wpend' \in 0..MaxIn /\ (mpc' = "write" => wpend' > 0)
    /\ transwindow' \in 0..MaxWin /\ forwarded' \in Nat
    /\ KernOK'
    /\ readfd' \in {readfd, FD_CLOSED} /\ writefd' \in {writefd, FD_CLOSED}
    /\ \A f \in FDs : \/ fdtab'[f] = fdtab[f]
                      \/ fdtab'[f] = "free" /\ f \in {readfd, writefd}
    /\ \A f \in FDs : fdtab'[f] # "free" /\ f \in {readfd, writefd}
                      => f \in {readfd', writefd'}

\* Such a step preserves the inductive invariant.
LEMMA ChannelFdsInductive == FlagsOK /\ Inductive /\ ChannelFdsStep => Inductive'
<1> SUFFICES ASSUME FlagsOK, Inductive, ChannelFdsStep PROVE Inductive'
  OBVIOUS
<1> USE DEF Inductive, DataOK, ThreadInv, LocalsInv, OwnerInv, ChanInv, AccountInv,
           HeldBackend, HeldCancel, HeldMain, HeldWorker
<1>1. DataOK'  BY SMTT(60) DEF ChannelFdsStep, KernOK
<1>2. ThreadInv'  BY SMTT(60) DEF ChannelFdsStep, KernOK
<1>3. LocalsInv'  BY SMTT(60) DEF ChannelFdsStep, KernOK
<1>4. OwnerInv'  BY SMTT(60) DEF ChannelFdsStep, KernOK
<1>5. ChanInv'  BY SMTT(60) DEF ChannelFdsStep, KernOK
<1>6. AccountInv'  BY SMTT(60) DEF ChannelFdsStep, KernOK
<1> QED BY <1>1, <1>2, <1>3, <1>4, <1>5, <1>6 DEF Inductive

\* The inductive invariant holds of a fresh server.
LEMMA InitIInv == Init => IInv
<1> SUFFICES ASSUME Init PROVE IInv
  OBVIOUS
<1>1. FlagsOK
  BY Zenon DEF Init, FlagsOK
<1>2. Inductive
  BY SMTT(60) DEF Init, Inductive, DataOK, ThreadInv, LocalsInv, OwnerInv, ChanInv,
     AccountInv, HeldBackend, HeldCancel, HeldMain, HeldWorker
<1> QED BY <1>1, <1>2 DEF IInv

\* Flags stay flags in every step of Client.
LEMMA ClientFlags == FlagsOK /\ Client => FlagsOK'
<1> SUFFICES ASSUME FlagsOK, Client PROVE FlagsOK'
  OBVIOUS
<1>1. CASE RecvOpen  BY <1>1, Zenon DEF FlagsOK, RecvOpen
<1>2. CASE StartWorker  BY <1>2, Zenon DEF FlagsOK, StartWorker
<1>3. CASE ExecBuiltin  BY <1>3, Zenon DEF FlagsOK, ExecBuiltin
<1>4. CASE ExecNoNull  BY <1>4, Zenon DEF FlagsOK, ExecNoNull
<1>5. CASE RecvData  BY <1>5, Zenon DEF FlagsOK, RecvData
<1>6. CASE RecvEof  BY <1>6, Zenon DEF FlagsOK, RecvEof
<1>7. CASE RecvClose  BY <1>7, Zenon DEF FlagsOK, RecvClose
<1>8. CASE RecvWindowAdjust  BY <1>8, Zenon DEF FlagsOK, RecvWindowAdjust
<1>9. CASE EndSession  BY <1>9, Zenon DEF FlagsOK, EndSession
<1> QED BY <1>1, <1>2, <1>3, <1>4, <1>5, <1>6, <1>7, <1>8, <1>9 DEF Client

\* Flags stay flags in every step of Main.
LEMMA MainFlags == FlagsOK /\ Main => FlagsOK'
<1> SUFFICES ASSUME FlagsOK, Main PROVE FlagsOK'
  OBVIOUS
<1>1. CASE MainWrite  BY <1>1, Zenon DEF FlagsOK, MainWrite
<1>2. CASE ChannelRead  BY <1>2, Zenon DEF FlagsOK, ChannelRead
<1>3. CASE ChannelReadAsserts  BY <1>3, Zenon DEF FlagsOK, ChannelReadAsserts
<1>4. CASE CheckLoad  BY <1>4, Zenon DEF FlagsOK, CheckLoad
<1>5. CASE CheckTake  BY <1>5, Zenon DEF FlagsOK, CheckTake
<1>6. CASE CheckShut  BY <1>6, Zenon DEF FlagsOK, CheckShut
<1>7. CASE CheckFlush  BY <1>7, Zenon DEF FlagsOK, CheckFlush
<1>8. CASE CheckAnswer  BY <1>8, Zenon DEF FlagsOK, CheckAnswer, SendClose
<1>9. CASE CheckWriteDown  BY <1>9, Zenon DEF FlagsOK, CheckWriteDown
<1>10. CASE CheckEof  BY <1>10, Zenon DEF FlagsOK, CheckEof, SendClose
<1>11. CASE RemoveWrite  BY <1>11, Zenon DEF FlagsOK, RemoveWrite
<1>12. CASE RemoveRead  BY <1>12, Zenon DEF FlagsOK, RemoveRead
<1>13. CASE CleanupTake  BY <1>13, Zenon DEF FlagsOK, CleanupTake, Freed
<1>14. CASE CleanupShut  BY <1>14, Zenon DEF FlagsOK, CleanupShut
<1>15. CASE CleanupJoin  BY <1>15, Zenon DEF FlagsOK, CleanupJoin
<1>16. CASE CleanupClose  BY <1>16, Zenon DEF FlagsOK, CleanupClose, Freed
<1>17. CASE NextSession  BY <1>17, Zenon DEF FlagsOK, NextSession
<1> QED BY <1>1, <1>2, <1>3, <1>4, <1>5, <1>6, <1>7, <1>8,
           <1>9, <1>10, <1>11, <1>12, <1>13, <1>14, <1>15, <1>16, <1>17 DEF Main

\* Flags stay flags in every step of Worker.
LEMMA WorkerFlags == FlagsOK /\ Worker => FlagsOK'
<1> SUFFICES ASSUME FlagsOK, Worker PROVE FlagsOK'
  OBVIOUS
<1>1. CASE WorkerRead  BY <1>1, Zenon DEF FlagsOK, WorkerRead
<1>2. CASE WorkerWork  BY <1>2, Zenon DEF FlagsOK, WorkerWork
<1>3. CASE WorkerOpenFile  BY <1>3, Zenon DEF FlagsOK, WorkerOpenFile
<1>4. CASE WorkerCloseFile  BY <1>4, Zenon DEF FlagsOK, WorkerCloseFile
<1>5. CASE WorkerWrite  BY <1>5, Zenon DEF FlagsOK, WorkerWrite
<1>6. CASE WorkerExitInfo  BY <1>6, Zenon DEF FlagsOK, WorkerExitInfo
<1>7. CASE WorkerStoreDone  BY <1>7, Zenon DEF FlagsOK, WorkerStoreDone
<1>8. CASE WorkerExchange  BY <1>8, Zenon DEF FlagsOK, WorkerExchange
<1>9. CASE WorkerClose  BY <1>9, Zenon DEF FlagsOK, WorkerClose
<1> QED BY <1>1, <1>2, <1>3, <1>4, <1>5, <1>6, <1>7, <1>8, <1>9 DEF Worker

\* The packet handlers preserve it.
LEMMA ClientInductive == FlagsOK /\ Inductive /\ Client => Inductive'
<1> SUFFICES ASSUME FlagsOK, Inductive, Client PROVE Inductive'
  OBVIOUS
<1> USE DEF Inductive, DataOK, ThreadInv, LocalsInv, OwnerInv, ChanInv, AccountInv,
           HeldBackend, HeldCancel, HeldMain, HeldWorker
<1>1. CASE RecvOpen
  <2>1. DataOK'  BY <1>1, SMTT(60) DEF RecvOpen
  <2>2. ThreadInv'  BY <1>1, SMTT(60) DEF RecvOpen
  <2>3. LocalsInv'  BY <1>1, SMTT(60) DEF RecvOpen
  <2>4. OwnerInv'  BY <1>1, SMTT(60) DEF RecvOpen
  <2>5. ChanInv'  BY <1>1, SMTT(60) DEF RecvOpen
  <2>6. AccountInv'  BY <1>1, SMTT(60) DEF RecvOpen
  <2> QED BY <2>1, <2>2, <2>3, <2>4, <2>5, <2>6 DEF Inductive
<1>2. CASE StartWorker  BY <1>2, SMTT(60) DEF FlagsOK, StartWorker, MayStart, IsLowestFree
<1>3. CASE ExecBuiltin
  <2>1. DataOK'  BY <1>3, SMTT(60) DEF ExecBuiltin, MayStart, IsLowestFree
  <2>2. ThreadInv'  BY <1>3, SMTT(60) DEF ExecBuiltin, MayStart, IsLowestFree
  <2>3. LocalsInv'  BY <1>3, SMTT(60) DEF ExecBuiltin, MayStart, IsLowestFree
  <2>4. OwnerInv'  BY <1>3, SMTT(60) DEF ExecBuiltin, MayStart, IsLowestFree
  <2>5. ChanInv'  BY <1>3, SMTT(60) DEF ExecBuiltin, MayStart, IsLowestFree
  <2>6. AccountInv'  BY <1>3, SMTT(60) DEF ExecBuiltin, MayStart, IsLowestFree
  <2> QED BY <2>1, <2>2, <2>3, <2>4, <2>5, <2>6 DEF Inductive
<1>4. CASE ExecNoNull  BY <1>4, SMTT(60) DEF ExecNoNull, MayStart
<1>5. CASE RecvData  BY <1>5, SMTT(60) DEF RecvData
<1>6. CASE RecvEof  BY <1>6, SMTT(60) DEF RecvEof
<1>7. CASE RecvClose  BY <1>7, SMTT(60) DEF RecvClose
<1>8. CASE RecvWindowAdjust  BY <1>8, SMTT(60) DEF RecvWindowAdjust
<1>9. CASE EndSession  BY <1>9, SMTT(60) DEF EndSession
<1> QED BY <1>1, <1>2, <1>3, <1>4, <1>5, <1>6, <1>7, <1>8, <1>9 DEF Client

\* The main thread preserves it.
LEMMA MainInductive == FlagsOK /\ Inductive /\ Main => Inductive'
<1> SUFFICES ASSUME FlagsOK, Inductive, Main PROVE Inductive'
  OBVIOUS
<1> USE DEF Inductive, DataOK, ThreadInv, LocalsInv, OwnerInv, ChanInv, AccountInv,
           HeldBackend, HeldCancel, HeldMain, HeldWorker
<1>1. CASE MainWrite
  <2>1. CASE "bR" \notin up
    <3>1. CloseWrite
      BY <1>1, <2>1 DEF MainWrite
    <3>2. ChannelFdsStep
      BY <1>1, <2>1, <3>1, CloseWriteFacts DEF ChannelFdsStep, MainWrite
    <3> QED BY <3>2, ChannelFdsInductive
  <2>2. CASE "bR" \in up
    <3>1. /\ mpc = "write" /\ inq < SockCap /\ inq' = inq + 1 /\ wpend' = wpend - 1
          /\ mpc' = IF wpend = 1 THEN "loop" ELSE "write"
          /\ UNCHANGED <<readfd, writefd, fdtab, up, outq, open, bidir_fd, transwindow,
                         state, backend_fd, cancel_fd, thread_started, seen, mfd, mcancel,
                         wpc, wfd, wout, wfile, nIn, produced, forwarded>>
      BY <1>1, <2>2 DEF MainWrite
    <3>2. ChannelFdsStep
      BY <3>1 DEF ChannelFdsStep, KernOK
    <3> QED BY <3>2, ChannelFdsInductive
  <2> QED BY <1>1, <2>1, <2>2 DEF MainWrite, Inductive, DataOK
<1>2. CASE ChannelRead
  <2>1. CASE outq = 0
    <3>1. CloseRead
      BY <1>2, <2>1 DEF ChannelRead
    <3>2. ChannelFdsStep
      BY <1>2, <2>1, <3>1, CloseReadFacts DEF ChannelFdsStep, ChannelRead, ReadSelected
    <3> QED BY <3>2, ChannelFdsInductive
  <2>2. CASE outq > 0
    <3>1. /\ mpc = "loop" /\ open /\ mpc' = "check"
          /\ \E n \in ReadSizes : /\ outq' = outq - n /\ transwindow' = transwindow - n
                                 /\ forwarded' = forwarded + n
          /\ UNCHANGED <<readfd, writefd, fdtab, up, inq, open, bidir_fd, wpend,
                         state, backend_fd, cancel_fd, thread_started, seen, mfd, mcancel,
                         wpc, wfd, wout, wfile, nIn, produced>>
      BY <1>2, <2>2 DEF ChannelRead, ReadSelected
    <3>2. outq' \in Nat /\ transwindow' \in 0..MaxWin /\ forwarded' \in Nat
      BY <3>1 DEF ReadSizes
    <3>3. ChannelFdsStep
      BY <3>1, <3>2 DEF ChannelFdsStep, KernOK
    <3> QED BY <3>3, ChannelFdsInductive
  <2> QED BY <1>2, <2>1, <2>2 DEF ChannelRead, Inductive, DataOK
<1>3. CASE ChannelReadAsserts  BY <1>3, SMTT(60) DEF ChannelReadAsserts, ReadSelected
<1>4. CASE CheckLoad
  <2>a. UNCHANGED <<open, readfd, writefd, bidir_fd, transwindow, state, backend_fd, cancel_fd,
                    thread_started, mfd, mcancel, wpend, wpc, wfd, wout, wfile, fdtab, up,
                    inq, outq, nIn, produced, forwarded>>
    BY <1>4 DEF CheckLoad
  <2>b. mpc = "check" /\ seen' = state /\ mpc' \in {"take", "flush"}
        /\ (mpc' = "take" => state = "RUNNING")
    BY <1>4 DEF CheckLoad
  <2>1. DataOK'  BY SMTT(60), <2>a, <2>b
  <2>2. ThreadInv'  BY SMTT(60), <2>a, <2>b
  <2>3. LocalsInv'  BY SMTT(60), <2>a, <2>b
  <2>4. OwnerInv'  BY SMTT(60), <2>a, <2>b
  <2>5. ChanInv'  BY SMTT(60), <2>a, <2>b
  <2>6. AccountInv'  BY SMTT(60), <2>a, <2>b
  <2> QED BY <2>1, <2>2, <2>3, <2>4, <2>5, <2>6 DEF Inductive
<1>5. CASE CheckTake  BY <1>5, SMTT(60) DEF CheckTake, TakeBackendFd
<1>6. CASE CheckShut
  <2>a. KernOK' /\ fdtab' = fdtab
    BY <1>6, ShutdownType DEF Inductive, CheckShut
  <2>1. DataOK'  BY <1>6, SMTT(60), <2>a DEF CheckShut, KernOK
  <2>2. ThreadInv'  BY <1>6, SMTT(60), <2>a DEF CheckShut, KernOK
  <2>3. LocalsInv'  BY <1>6, SMTT(60), <2>a DEF CheckShut, KernOK
  <2>4. OwnerInv'  BY <1>6, SMTT(60), <2>a DEF CheckShut, KernOK
  <2>5. ChanInv'  BY <1>6, SMTT(60), <2>a DEF CheckShut, KernOK
  <2>6. AccountInv'  BY <1>6, SMTT(60), <2>a DEF CheckShut, KernOK
  <2> QED BY <2>1, <2>2, <2>3, <2>4, <2>5, <2>6 DEF Inductive
<1>7. CASE CheckFlush
  <2>1. CASE FlushNow
    <3>1. CloseRead
      BY <1>7, <2>1 DEF CheckFlush
    <3>2. ChannelFdsStep
      BY <1>7, <2>1, <3>1, CloseReadFacts DEF ChannelFdsStep, CheckFlush
    <3> QED BY <3>2, ChannelFdsInductive
  <2>2. CASE ~FlushNow
    <3>1. ChannelFdsStep
      BY <1>7, <2>2 DEF ChannelFdsStep, KernOK, CheckFlush
    <3> QED BY <3>1, ChannelFdsInductive
  <2> QED BY <1>7, <2>1, <2>2 DEF CheckFlush
<1>8. CASE CheckAnswer
  <2>1. CASE recv_close /\ CloseAllowed /\ ~sent_close
    <3>1. CloseFds({readfd, writefd})
      BY <1>8, <2>1 DEF CheckAnswer, SendClose
    <3>2. ChannelFdsStep
      BY <1>8, <2>1, <3>1, CloseFdsType DEF ChannelFdsStep, CheckAnswer, SendClose
    <3> QED BY <3>2, ChannelFdsInductive
  <2>2. CASE ~(recv_close /\ CloseAllowed /\ ~sent_close)
    <3>1. ChannelFdsStep
      BY <1>8, <2>2 DEF ChannelFdsStep, KernOK, CheckAnswer
    <3> QED BY <3>1, ChannelFdsInductive
  <2> QED BY <1>8, <2>1, <2>2 DEF CheckAnswer
<1>9. CASE CheckWriteDown
  <2>1. CASE WriteDone
    <3>1. CloseWrite
      BY <1>9, <2>1 DEF CheckWriteDown
    <3>2. ChannelFdsStep
      BY <1>9, <2>1, <3>1, CloseWriteFacts DEF ChannelFdsStep, CheckWriteDown
    <3> QED BY <3>2, ChannelFdsInductive
  <2>2. CASE ~WriteDone
    <3>1. ChannelFdsStep
      BY <1>9, <2>2 DEF ChannelFdsStep, KernOK, CheckWriteDown
    <3> QED BY <3>1, ChannelFdsInductive
  <2> QED BY <1>9, <2>1, <2>2 DEF CheckWriteDown
<1>10. CASE CheckEof
  <2>1. CASE readfd = FD_CLOSED /\ writefd = FD_CLOSED /\ ~sent_close /\ CloseAllowed
    <3>1. CloseFds({readfd, writefd})
      BY <1>10, <2>1 DEF CheckEof, SendClose
    <3>2. ChannelFdsStep
      BY <1>10, <2>1, <3>1, CloseFdsType DEF ChannelFdsStep, CheckEof, SendClose
    <3> QED BY <3>2, ChannelFdsInductive
  <2>2. CASE ~(readfd = FD_CLOSED /\ writefd = FD_CLOSED /\ ~sent_close /\ CloseAllowed)
    <3>1. ChannelFdsStep
      BY <1>10, <2>2 DEF ChannelFdsStep, KernOK, CheckEof
    <3> QED BY <3>1, ChannelFdsInductive
  <2> QED BY <1>10, <2>1, <2>2 DEF CheckEof
<1>11. CASE RemoveWrite
  <2>a. /\ KernOK' /\ \A f \in FDs : fdtab'[f] = IF f \in {writefd} THEN "free" ELSE fdtab[f]
    BY <1>11, CloseFdsType DEF Inductive, RemoveWrite
  <2>1. DataOK'  BY <1>11, SMTT(60), <2>a DEF RemoveWrite, KernOK
  <2>2. ThreadInv'  BY <1>11, SMTT(60), <2>a DEF RemoveWrite, KernOK
  <2>3. LocalsInv'  BY <1>11, SMTT(60), <2>a DEF RemoveWrite, KernOK
  <2>4. OwnerInv'  BY <1>11, SMTT(60), <2>a DEF RemoveWrite, KernOK
  <2>5. ChanInv'  BY <1>11, SMTT(60), <2>a DEF RemoveWrite, KernOK
  <2>6. AccountInv'  BY <1>11, SMTT(60), <2>a DEF RemoveWrite, KernOK
  <2> QED BY <2>1, <2>2, <2>3, <2>4, <2>5, <2>6 DEF Inductive
<1>12. CASE RemoveRead
  <2>a. /\ KernOK' /\ \A f \in FDs : fdtab'[f] = IF f \in {readfd} THEN "free" ELSE fdtab[f]
    BY <1>12, CloseFdsType DEF Inductive, RemoveRead
  <2>1. DataOK'  BY <1>12, SMTT(60), <2>a DEF RemoveRead, KernOK
  <2>2. ThreadInv'  BY <1>12, SMTT(60), <2>a DEF RemoveRead, KernOK
  <2>3. LocalsInv'  BY <1>12, SMTT(60), <2>a DEF RemoveRead, KernOK
  <2>4. OwnerInv'  BY <1>12, SMTT(60), <2>a DEF RemoveRead, KernOK
  <2>5. ChanInv'  BY <1>12, SMTT(60), <2>a DEF RemoveRead, KernOK
  <2>6. AccountInv'  BY <1>12, SMTT(60), <2>a DEF RemoveRead, KernOK
  <2> QED BY <2>1, <2>2, <2>3, <2>4, <2>5, <2>6 DEF Inductive
<1>13. CASE CleanupTake
  <2>1. CASE thread_started
    <3>1. /\ mpc = "cl_take" /\ mpc' = "cl_shut" /\ open' = open
          /\ mfd' = backend_fd /\ backend_fd' = NoFd
          /\ mcancel' = cancel_fd /\ cancel_fd' = NoFd
          /\ UNCHANGED <<readfd, writefd, bidir_fd, transwindow, state, thread_started,
                         seen, wpend, wpc, wfd, wout, wfile, fdtab, up, inq, outq, nIn,
                         produced, forwarded, ending>>
      BY <1>13, <2>1 DEF CleanupTake
    <3>2. DataOK'  BY <2>1, <3>1, SMTT(60)
    <3>3. ThreadInv'  BY <2>1, <3>1, SMTT(60)
    <3>4. LocalsInv'  BY <2>1, <3>1, SMTT(60)
    <3>5. OwnerInv'  BY <2>1, <3>1, SMTT(60)
    <3>6. ChanInv'  BY <2>1, <3>1, SMTT(60)
    <3>7. AccountInv'  BY <2>1, <3>1, SMTT(60)
    <3> QED BY <3>2, <3>3, <3>4, <3>5, <3>6, <3>7 DEF Inductive
  <2>2. CASE ~thread_started
    <3>1. /\ mpc = "cl_take" /\ mpc' \in {"loop", "over"}
          /\ UNCHANGED <<mfd, mcancel, backend_fd, cancel_fd>>
          /\ UNCHANGED <<readfd, writefd, bidir_fd, transwindow, state, thread_started,
                         seen, wpend, wpc, wfd, wout, wfile, fdtab, up, inq, outq, nIn,
                         produced, forwarded, ending>>
      BY <1>13, <2>2 DEF CleanupTake, Freed
    <3>2. ~open'
      BY <1>13, <2>2, Zenon DEF CleanupTake, Freed
    <3>3. DataOK'  BY <2>2, <3>1, <3>2, SMTT(60)
    <3>4. ThreadInv'  BY <2>2, <3>1, <3>2, SMTT(60)
    <3>5. LocalsInv'  BY <2>2, <3>1, <3>2, SMTT(60)
    <3>6. OwnerInv'  BY <2>2, <3>1, <3>2, SMTT(60)
    <3>7. ChanInv'  BY <2>2, <3>1, <3>2, SMTT(60)
    <3>8. AccountInv'  BY <2>2, <3>1, <3>2, SMTT(60)
    <3> QED BY <3>3, <3>4, <3>5, <3>6, <3>7, <3>8 DEF Inductive
  <2> QED BY <2>1, <2>2
<1>14. CASE CleanupShut
  <2>a. KernOK' /\ fdtab' = fdtab
    BY <1>14, ShutdownType DEF Inductive, CleanupShut
  <2>1. DataOK'  BY <1>14, SMTT(60), <2>a DEF CleanupShut, KernOK
  <2>2. ThreadInv'  BY <1>14, SMTT(60), <2>a DEF CleanupShut, KernOK
  <2>3. LocalsInv'  BY <1>14, SMTT(60), <2>a DEF CleanupShut, KernOK
  <2>4. OwnerInv'  BY <1>14, SMTT(60), <2>a DEF CleanupShut, KernOK
  <2>5. ChanInv'  BY <1>14, SMTT(60), <2>a DEF CleanupShut, KernOK
  <2>6. AccountInv'  BY <1>14, SMTT(60), <2>a DEF CleanupShut, KernOK
  <2> QED BY <2>1, <2>2, <2>3, <2>4, <2>5, <2>6 DEF Inductive
<1>15. CASE CleanupJoin  BY <1>15, SMTT(60) DEF CleanupJoin
<1>16. CASE CleanupClose
  <2>a. /\ KernOK' /\ \A f \in FDs : fdtab'[f] = IF f \in {mfd, mcancel} THEN "free" ELSE fdtab[f]
    BY <1>16, CloseFdsType DEF Inductive, CleanupClose, Reclaimed
  <2>1. DataOK'  BY <1>16, SMTT(60), <2>a DEF CleanupClose, KernOK, Freed
  <2>2. ThreadInv'  BY <1>16, SMTT(60), <2>a DEF CleanupClose, KernOK, Freed
  <2>3. LocalsInv'  BY <1>16, SMTT(60), <2>a DEF CleanupClose, KernOK, Freed
  <2>4. OwnerInv'  BY <1>16, SMTT(60), <2>a DEF CleanupClose, KernOK, Freed
  <2>5. ChanInv'  BY <1>16, SMTT(60), <2>a DEF CleanupClose, KernOK, Freed
  <2>6. AccountInv'  BY <1>16, SMTT(60), <2>a DEF CleanupClose, KernOK, Freed
  <2> QED BY <2>1, <2>2, <2>3, <2>4, <2>5, <2>6 DEF Inductive
<1>17. CASE NextSession
  <2>1. DataOK'  BY <1>17, SMTT(60) DEF NextSession
  <2>2. ThreadInv'  BY <1>17, SMTT(60) DEF NextSession
  <2>3. LocalsInv'  BY <1>17, SMTT(60) DEF NextSession
  <2>4. OwnerInv'  BY <1>17, SMTT(60) DEF NextSession
  <2>5. ChanInv'  BY <1>17, SMTT(60) DEF NextSession
  <2>6. AccountInv'  BY <1>17, SMTT(60) DEF NextSession
  <2> QED BY <2>1, <2>2, <2>3, <2>4, <2>5, <2>6 DEF Inductive
<1> QED BY <1>1, <1>2, <1>3, <1>4, <1>5, <1>6, <1>7, <1>8,
           <1>9, <1>10, <1>11, <1>12, <1>13, <1>14, <1>15, <1>16, <1>17 DEF Main

\* The worker thread preserves it.
LEMMA WorkerInductive == FlagsOK /\ Inductive /\ Worker => Inductive'
<1> SUFFICES ASSUME FlagsOK, Inductive, Worker PROVE Inductive'
  OBVIOUS
<1> USE DEF Inductive, DataOK, ThreadInv, LocalsInv, OwnerInv, ChanInv, AccountInv,
           HeldBackend, HeldCancel, HeldMain, HeldWorker
<1>1. CASE WorkerRead  BY <1>1, SMTT(60) DEF WorkerRead
<1>2. CASE WorkerWork  BY <1>2, SMTT(60) DEF WorkerWork
<1>3. CASE WorkerOpenFile  BY <1>3, SMTT(60) DEF WorkerOpenFile, IsLowestFree
<1>4. CASE WorkerCloseFile
  <2>a. /\ KernOK' /\ \A f \in FDs : fdtab'[f] = IF f \in {wfile} THEN "free" ELSE fdtab[f]
    BY <1>4, CloseFdsType DEF Inductive, WorkerCloseFile
  <2>1. DataOK'  BY <1>4, SMTT(60), <2>a DEF WorkerCloseFile, KernOK
  <2>2. ThreadInv'  BY <1>4, SMTT(60), <2>a DEF WorkerCloseFile, KernOK
  <2>3. LocalsInv'  BY <1>4, SMTT(60), <2>a DEF WorkerCloseFile, KernOK
  <2>4. OwnerInv'  BY <1>4, SMTT(60), <2>a DEF WorkerCloseFile, KernOK
  <2>5. ChanInv'  BY <1>4, SMTT(60), <2>a DEF WorkerCloseFile, KernOK
  <2>6. AccountInv'  BY <1>4, SMTT(60), <2>a DEF WorkerCloseFile, KernOK
  <2> QED BY <2>1, <2>2, <2>3, <2>4, <2>5, <2>6 DEF Inductive
<1>5. CASE WorkerWrite  BY <1>5, SMTT(60) DEF WorkerWrite, WriteError
<1>6. CASE WorkerExitInfo  BY <1>6, SMTT(60) DEF WorkerExitInfo
<1>7. CASE WorkerStoreDone  BY <1>7, SMTT(60) DEF WorkerStoreDone
<1>8. CASE WorkerExchange  BY <1>8, SMTT(60) DEF WorkerExchange, TakeBackendFd
<1>9. CASE WorkerClose
  <2>a. /\ KernOK' /\ \A f \in FDs : fdtab'[f] = IF f \in {wfd} THEN "free" ELSE fdtab[f]
    BY <1>9, CloseFdsType DEF Inductive, WorkerClose
  <2>1. DataOK'  BY <1>9, SMTT(60), <2>a DEF WorkerClose, KernOK
  <2>2. ThreadInv'  BY <1>9, SMTT(60), <2>a DEF WorkerClose, KernOK
  <2>3. LocalsInv'  BY <1>9, SMTT(60), <2>a DEF WorkerClose, KernOK
  <2>4. OwnerInv'  BY <1>9, SMTT(60), <2>a DEF WorkerClose, KernOK
  <2>5. ChanInv'  BY <1>9, SMTT(60), <2>a DEF WorkerClose, KernOK
  <2>6. AccountInv'  BY <1>9, SMTT(60), <2>a DEF WorkerClose, KernOK
  <2> QED BY <2>1, <2>2, <2>3, <2>4, <2>5, <2>6 DEF Inductive
<1> QED BY <1>1, <1>2, <1>3, <1>4, <1>5, <1>6, <1>7, <1>8, <1>9 DEF Worker

-----------------------------------------------------------------------------
\* Every step, and every stutter, preserves the inductive invariant.
LEMMA NextIInv == IInv /\ [Next]_vars => IInv'
<1> SUFFICES ASSUME IInv, [Next]_vars PROVE IInv'
  OBVIOUS
<1>1. CASE Client  BY <1>1, ClientFlags, ClientInductive DEF IInv
<1>2. CASE Main  BY <1>2, MainFlags, MainInductive DEF IInv
<1>3. CASE Worker  BY <1>3, WorkerFlags, WorkerInductive DEF IInv
<1>4. CASE UNCHANGED vars
  <2>1. FlagsOK'
    BY <1>4, Zenon DEF IInv, FlagsOK, vars, chanVars, sessVars, mainVars
  <2>2. Inductive'
    BY <1>4, SMTT(60) DEF IInv, Inductive, DataOK, ThreadInv, LocalsInv, OwnerInv,
       ChanInv, AccountInv, HeldBackend, HeldCancel, HeldMain, HeldWorker, vars
  <2> QED BY <2>1, <2>2 DEF IInv
<1> QED BY <1>1, <1>2, <1>3, <1>4 DEF Next

\* The inductive invariant holds in every reachable state.
LEMMA Invariance == Spec => []IInv
<1>1. Init => IInv  BY InitIInv
<1>2. IInv /\ [Next]_vars => IInv'  BY NextIInv
<1> QED BY <1>1, <1>2, PTL DEF Spec

\* The state of the channel, of both threads and of the kernel is always well
\* typed: no read overdraws the client's window (send_msg_channel_data), no
\* socket buffer overflows.
THEOREM TypeCorrect == Spec => []TypeOK
<1>1. IInv => TypeOK  BY DEF IInv, Inductive, TypeOK
<1> QED BY <1>1, Invariance, PTL

\* However the main loop's cancellation and cleanup interleave with the end of
\* the worker, the backend descriptor is never used or closed after it was
\* closed (sesscheckclose, cleanupchansess, ps4_shell_thread).
THEOREM BackendFdSafe == Spec => []BackendFdIntact
<1>1. IInv => BackendFdIntact
  BY DEF IInv, Inductive, DataOK, ThreadInv, LocalsInv, OwnerInv, BackendFdIntact,
     HeldBackend, HeldCancel, HeldMain, HeldWorker
<1> QED BY <1>1, Invariance, PTL

\* A channel that was removed (remove_channel, cleanupchansess) leaves no
\* descriptor open and no thread behind.
THEOREM NoLeak == Spec => []NothingLeaks
<1>1. IInv => NothingLeaks
  BY DEF IInv, FlagsOK, Inductive, DataOK, ThreadInv, AccountInv, NothingLeaks,
     HeldBackend, HeldCancel, HeldMain, HeldWorker
<1> QED BY <1>1, Invariance, PTL

-----------------------------------------------------------------------------
(* The status, the files and the output: a second invariant, inductive      *)
(* given IInv.                                                              *)

\* The exit information is complete before DONE is published and not touched
\* afterwards.
StatusInv ==
    /\ state = "DONE" => exitset /\ wpc \notin {"read", "work", "write", "finish", "store"}
    /\ wpc = "store" => exitset

\* The state check_close loaded once is stale in one way only: the worker may
\* have finished since.
Checking == {"take", "shut", "flush", "answer", "wrdown", "eof"}
SeenInv == mpc \in Checking => state = seen \/ (seen = "RUNNING" /\ state = "DONE")

\* What the numbers of the channel and of the worker's file name.  From rm_r
\* on the worker may have reused the number of writefd, which rm_r closes.
KindInv ==
    /\ open /\ mpc \notin {"rm_r"} \cup PastRemoval =>
          /\ readfd \in FDs => fdtab[readfd] = IF bidir_fd THEN "chan" ELSE "pipe"
          /\ writefd \in FDs => fdtab[writefd] = IF bidir_fd THEN "chan" ELSE "null"
    /\ wfile # NoFd => fdtab[wfile] \in {"file", "free"}
    /\ wfile # NoFd /\ mpc \notin Removing => fdtab[wfile] = "file"

\* Output can be queued only while the channel has its readfd.
PipeInv ==
    /\ "aR" \in up => /\ open /\ mpc \notin PastRemoval
                      /\ readfd \in FDs /\ fdtab[readfd] \in {"chan", "pipe"}
    /\ "aR" \notin up => outq = 0

\* No unit of output is lost before the client closes or the channel goes.
CountInv ==
    /\ open /\ state = "IDLE" => forwarded = 0
    /\ open /\ ~recv_close /\ (mpc \notin Removing \/ readfd \notin FDs) =>
          produced = forwarded + outq

OutputInv == StatusInv /\ SeenInv /\ KindInv /\ PipeInv /\ CountInv

\* close() of one of the numbers in S ends what can be read by the channel.
Drops(S) == \E f \in S : f \in FDs /\ fdtab[f] \in {"chan", "pipe"}

\* The receiving end of the output goes down with a number of the channel and
\* with no other.
LEMMA EndsOfFacts ==
  ASSUME DataOK, NEW f
  PROVE "aR" \in EndsOf(f) <=> f \in FDs /\ fdtab[f] \in {"chan", "pipe"}
<1>1. CASE f \notin FDs  BY <1>1 DEF EndsOf
<1>2. CASE f \in FDs
  <2>1. fdtab[f] \in Kinds  BY <1>2 DEF DataOK
  <2>2. EndsOf(f) = EndsBy[fdtab[f]]  BY <1>2 DEF EndsOf
  <2>3. CASE fdtab[f] = "chan"  BY <1>2, <2>2, <2>3 DEF EndsBy
  <2>4. CASE fdtab[f] = "pipe"  BY <1>2, <2>2, <2>4 DEF EndsBy
  <2>5. CASE fdtab[f] = "back"  BY <1>2, <2>2, <2>5 DEF EndsBy
  <2>6. CASE fdtab[f] = "null"  BY <1>2, <2>2, <2>6 DEF EndsBy
  <2>7. CASE fdtab[f] = "file"  BY <1>2, <2>2, <2>7 DEF EndsBy
  <2>8. CASE fdtab[f] = "free"  BY <1>2, <2>2, <2>8 DEF EndsBy
  <2> QED BY <2>1, <2>3, <2>4, <2>5, <2>6, <2>7, <2>8
<1> QED BY <1>1, <1>2

\* What close() does to the output that is still queued.
LEMMA CloseFdsOutput ==
  ASSUME NEW S, DataOK, CloseFds(S)
  PROVE /\ \A f \in FDs : fdtab'[f] = IF f \in S THEN "free" ELSE fdtab[f]
        /\ Drops(S) => "aR" \notin up' /\ outq' = 0
        /\ ~Drops(S) => ("aR" \in up' <=> "aR" \in up) /\ outq' = outq
<1>1. "aR" \in UNION {EndsOf(f) : f \in S} <=> Drops(S)
  BY EndsOfFacts, Zenon DEF Drops
<1>2. TakeDown(UNION {EndsOf(f) : f \in S})
  BY DEF CloseFds
<1>3. /\ Drops(S) => "aR" \notin up' /\ outq' = 0
      /\ ~Drops(S) => ("aR" \in up' <=> "aR" \in up) /\ outq' = outq
  BY <1>1, <1>2, Zenon DEF TakeDown
<1> QED BY <1>3, CloseFdsType

\* close_chan_fd(readfd, SHUT_RD) when nothing is queued: a writefd that
\* stays is untouched.
LEMMA CloseReadOutput ==
  ASSUME FlagsOK, DataOK, ChanInv, KindInv, PipeInv, CloseRead, outq = 0,
         open, mpc \notin {"rm_r"} \cup PastRemoval
  PROVE /\ "aR" \notin up' /\ outq' = 0
        /\ writefd \in FDs => fdtab'[writefd] = fdtab[writefd]
<1>1. CASE bidir_fd /\ writefd # FD_CLOSED
  <2>1. TakeDown({"aR"}) /\ fdtab' = fdtab  BY <1>1 DEF CloseRead, ShutdownEnds
  <2> QED BY <2>1, Zenon DEF TakeDown
<1>2. CASE ~(bidir_fd /\ writefd # FD_CLOSED)
  <2>1. CloseFds({readfd})  BY <1>2 DEF CloseRead, FlagsOK
  <2>2. /\ \A f \in FDs : fdtab'[f] = IF f \in {readfd} THEN "free" ELSE fdtab[f]
        /\ Drops({readfd}) => "aR" \notin up' /\ outq' = 0
        /\ ~Drops({readfd}) => ("aR" \in up' <=> "aR" \in up) /\ outq' = outq
    BY <2>1, CloseFdsOutput
  <2>3. "aR" \notin up' /\ outq' = 0
    <3>1. CASE readfd \in FDs
      <4>1. fdtab[readfd] \in {"chan", "pipe"}  BY <3>1 DEF KindInv, FlagsOK
      <4>2. Drops({readfd})  BY <3>1, <4>1 DEF Drops
      <4> QED BY <2>2, <4>2
    <3>2. CASE readfd \notin FDs
      <4>1. "aR" \notin up  BY <3>2 DEF PipeInv
      <4>2. ~Drops({readfd})  BY <3>2 DEF Drops
      <4> QED BY <2>2, <4>1, <4>2
    <3> QED BY <3>1, <3>2
  <2>4. writefd \in FDs => writefd # readfd
    BY <1>2 DEF KindInv, FlagsOK, DataOK
  <2>5. writefd \in FDs => fdtab'[writefd] = fdtab[writefd]
    BY <2>2, <2>4
  <2> QED BY <2>3, <2>5
<1> QED BY <1>1, <1>2

\* close_chan_fd(writefd, SHUT_WR) leaves the output alone: a number that
\* readfd still shares is only shut down.
LEMMA CloseWriteOutput ==
  ASSUME FlagsOK, DataOK, ChanInv, KindInv, PipeInv, CloseWrite,
         open, mpc \notin {"rm_r"} \cup PastRemoval
  PROVE /\ "aR" \in up' <=> "aR" \in up
        /\ outq' = outq
        /\ readfd \in FDs => readfd' = readfd /\ fdtab'[readfd] = fdtab[readfd]
<1>1. CASE bidir_fd /\ readfd # FD_CLOSED
  <2>1. TakeDown({"aW"}) /\ fdtab' = fdtab  BY <1>1 DEF CloseWrite, ShutdownEnds
  <2>2. readfd' = readfd  BY <1>1 DEF CloseWrite
  <2> QED BY <2>1, <2>2, Zenon DEF TakeDown
<1>2. CASE bidir_fd /\ readfd = FD_CLOSED
  <2>1. CloseFds({writefd})  BY <1>2 DEF CloseWrite
  <2>2. "aR" \notin up /\ outq = 0  BY <1>2 DEF PipeInv, DataOK
  <2>3. "aR" \notin up' /\ outq' = 0  BY <2>1, <2>2, CloseFdsOutput
  <2>4. readfd \notin FDs  BY <1>2
  <2> QED BY <2>2, <2>3, <2>4
<1>3. CASE ~bidir_fd
  <2>1. CloseFds({writefd})  BY <1>3 DEF CloseWrite
  <2>2. writefd \in FDs => fdtab[writefd] = "null"  BY <1>3 DEF KindInv
  <2>3. readfd \in FDs => fdtab[readfd] = "pipe"  BY <1>3 DEF KindInv
  <2>4. ~Drops({writefd})  BY <2>2 DEF Drops
  <2>5. readfd \in FDs => readfd # writefd  BY <2>2, <2>3
  <2>6. readfd \in FDs => readfd' = readfd  BY <2>5 DEF CloseWrite
  <2>7. /\ "aR" \in up' <=> "aR" \in up
        /\ outq' = outq
        /\ \A f \in FDs : fdtab'[f] = IF f \in {writefd} THEN "free" ELSE fdtab[f]
    BY <2>1, <2>4, CloseFdsOutput
  <2>8. readfd \in FDs => fdtab'[readfd] = fdtab[readfd]  BY <2>5, <2>7
  <2> QED BY <2>6, <2>7, <2>8
<1> QED BY <1>1, <1>2, <1>3 DEF FlagsOK

\* Where nothing was forwarded, all that was produced is queued.
LEMMA NothingForwarded ==
  ASSUME NEW f, NEW q \in Nat, f = 0
  PROVE q = f + q
OBVIOUS

\* The second invariant holds of a fresh server.
LEMMA InitOutput == Init => OutputInv
  BY SMTT(60) DEF Init, OutputInv, StatusInv, SeenInv, KindInv, PipeInv, CountInv, Checking, Removing

\* The packet handlers preserve it.
LEMMA ClientOutput == IInv /\ OutputInv /\ Client => OutputInv'
<1> SUFFICES ASSUME IInv, OutputInv, Client PROVE OutputInv'
  OBVIOUS
<1> USE DEF IInv, FlagsOK, Inductive, DataOK, ThreadInv, LocalsInv, OwnerInv, ChanInv,
           HeldBackend, HeldCancel, HeldMain, HeldWorker, OutputInv, StatusInv, SeenInv,
           KindInv, PipeInv, CountInv, Checking, Removing
<1>1. CASE RecvOpen
  <2>1. StatusInv'  BY <1>1, SMTT(30) DEF RecvOpen
  <2>2. SeenInv'  BY <1>1, SMTT(30) DEF RecvOpen
  <2>3. KindInv'  BY <1>1, SMTT(30) DEF RecvOpen
  <2>4. PipeInv'  BY <1>1, SMTT(30) DEF RecvOpen
  <2>5. CountInv'  BY <1>1, SMTT(30) DEF RecvOpen
  <2> QED BY <2>1, <2>2, <2>3, <2>4, <2>5 DEF OutputInv
<1>2. CASE StartWorker
  <2>1. StatusInv'  BY <1>2, SMTT(30) DEF StartWorker, MayStart, IsLowestFree
  <2>2. SeenInv'  BY <1>2, SMTT(30) DEF StartWorker, MayStart, IsLowestFree
  <2>3. KindInv'  BY <1>2, SMTT(30) DEF StartWorker, MayStart, IsLowestFree
  <2>4. PipeInv'  BY <1>2, SMTT(30) DEF StartWorker, MayStart, IsLowestFree
  <2>5. CountInv'  BY <1>2, SMTT(30) DEF StartWorker, MayStart, IsLowestFree
  <2> QED BY <2>1, <2>2, <2>3, <2>4, <2>5 DEF OutputInv
<1>3. CASE ExecBuiltin
  <2>1. StatusInv'  BY <1>3, SMTT(30) DEF ExecBuiltin, MayStart, IsLowestFree
  <2>2. SeenInv'  BY <1>3, SMTT(30) DEF ExecBuiltin, MayStart, IsLowestFree
  <2>3. KindInv'  BY <1>3, SMTT(30) DEF ExecBuiltin, MayStart, IsLowestFree
  <2>4. PipeInv'  BY <1>3, SMTT(30) DEF ExecBuiltin, MayStart, IsLowestFree
  <2>5. CountInv'
    <3>1. forwarded' = 0 /\ state' = "DONE"
      BY <1>3 DEF ExecBuiltin, MayStart
    <3>2. outq' \in Nat /\ produced' = outq'
      BY <1>3 DEF ExecBuiltin
    <3>3. produced' = forwarded' + outq'
      BY ONLY <3>1, <3>2, NothingForwarded
    <3> QED BY <3>1, <3>3
  <2> QED BY <2>1, <2>2, <2>3, <2>4, <2>5 DEF OutputInv
<1>4. CASE ExecNoNull
  <2>1. StatusInv'  BY <1>4, SMTT(30) DEF ExecNoNull, MayStart
  <2>2. SeenInv'  BY <1>4, SMTT(30) DEF ExecNoNull, MayStart
  <2>3. KindInv'  BY <1>4, SMTT(30) DEF ExecNoNull, MayStart
  <2>4. PipeInv'  BY <1>4, SMTT(30) DEF ExecNoNull, MayStart
  <2>5. CountInv'  BY <1>4, SMTT(30) DEF ExecNoNull, MayStart
  <2> QED BY <2>1, <2>2, <2>3, <2>4, <2>5 DEF OutputInv
<1>5. CASE RecvData
  <2>1. StatusInv'  BY <1>5, SMTT(30) DEF RecvData
  <2>2. SeenInv'  BY <1>5, SMTT(30) DEF RecvData
  <2>3. KindInv'  BY <1>5, SMTT(30) DEF RecvData
  <2>4. PipeInv'  BY <1>5, SMTT(30) DEF RecvData
  <2>5. CountInv'  BY <1>5, SMTT(30) DEF RecvData
  <2> QED BY <2>1, <2>2, <2>3, <2>4, <2>5 DEF OutputInv
<1>6. CASE RecvEof
  <2>1. StatusInv'  BY <1>6, SMTT(30) DEF RecvEof
  <2>2. SeenInv'  BY <1>6, SMTT(30) DEF RecvEof
  <2>3. KindInv'  BY <1>6, SMTT(30) DEF RecvEof
  <2>4. PipeInv'  BY <1>6, SMTT(30) DEF RecvEof
  <2>5. CountInv'  BY <1>6, SMTT(30) DEF RecvEof
  <2> QED BY <2>1, <2>2, <2>3, <2>4, <2>5 DEF OutputInv
<1>7. CASE RecvClose
  <2>1. StatusInv'  BY <1>7, SMTT(30) DEF RecvClose
  <2>2. SeenInv'  BY <1>7, SMTT(30) DEF RecvClose
  <2>3. KindInv'  BY <1>7, SMTT(30) DEF RecvClose
  <2>4. PipeInv'  BY <1>7, SMTT(30) DEF RecvClose
  <2>5. CountInv'  BY <1>7, SMTT(30) DEF RecvClose
  <2> QED BY <2>1, <2>2, <2>3, <2>4, <2>5 DEF OutputInv
<1>8. CASE RecvWindowAdjust
  <2>1. StatusInv'  BY <1>8, SMTT(30) DEF RecvWindowAdjust
  <2>2. SeenInv'  BY <1>8, SMTT(30) DEF RecvWindowAdjust
  <2>3. KindInv'  BY <1>8, SMTT(30) DEF RecvWindowAdjust
  <2>4. PipeInv'  BY <1>8, SMTT(30) DEF RecvWindowAdjust
  <2>5. CountInv'  BY <1>8, SMTT(30) DEF RecvWindowAdjust
  <2> QED BY <2>1, <2>2, <2>3, <2>4, <2>5 DEF OutputInv
<1>9. CASE EndSession
  <2>1. StatusInv'  BY <1>9, SMTT(30) DEF EndSession
  <2>2. SeenInv'  BY <1>9, SMTT(30) DEF EndSession
  <2>3. KindInv'  BY <1>9, SMTT(30) DEF EndSession
  <2>4. PipeInv'  BY <1>9, SMTT(30) DEF EndSession
  <2>5. CountInv'  BY <1>9, SMTT(30) DEF EndSession
  <2> QED BY <2>1, <2>2, <2>3, <2>4, <2>5 DEF OutputInv
<1> QED BY <1>1, <1>2, <1>3, <1>4, <1>5, <1>6, <1>7, <1>8, <1>9 DEF Client

\* The worker preserves it.
LEMMA WorkerOutput == IInv /\ OutputInv /\ Worker => OutputInv'
<1> SUFFICES ASSUME IInv, OutputInv, Worker PROVE OutputInv'
  OBVIOUS
<1> USE DEF IInv, FlagsOK, Inductive, DataOK, ThreadInv, LocalsInv, OwnerInv, ChanInv,
           HeldBackend, HeldCancel, HeldMain, HeldWorker, OutputInv, StatusInv, SeenInv,
           KindInv, PipeInv, CountInv, Checking, Removing
<1>1. CASE WorkerRead
  <2>1. StatusInv'  BY <1>1, SMTT(30) DEF WorkerRead
  <2>2. SeenInv'  BY <1>1, SMTT(30) DEF WorkerRead
  <2>3. KindInv'  BY <1>1, SMTT(30) DEF WorkerRead
  <2>4. PipeInv'  BY <1>1, SMTT(30) DEF WorkerRead
  <2>5. CountInv'  BY <1>1, SMTT(30) DEF WorkerRead
  <2> QED BY <2>1, <2>2, <2>3, <2>4, <2>5 DEF OutputInv
<1>2. CASE WorkerWork
  <2>1. StatusInv'  BY <1>2, SMTT(30) DEF WorkerWork
  <2>2. SeenInv'  BY <1>2, SMTT(30) DEF WorkerWork
  <2>3. KindInv'  BY <1>2, SMTT(30) DEF WorkerWork
  <2>4. PipeInv'  BY <1>2, SMTT(30) DEF WorkerWork
  <2>5. CountInv'  BY <1>2, SMTT(30) DEF WorkerWork
  <2> QED BY <2>1, <2>2, <2>3, <2>4, <2>5 DEF OutputInv
<1>3. CASE WorkerOpenFile
  <2>1. StatusInv'  BY <1>3, SMTT(30) DEF WorkerOpenFile, IsLowestFree
  <2>2. SeenInv'  BY <1>3, SMTT(30) DEF WorkerOpenFile, IsLowestFree
  <2>3. KindInv'  BY <1>3, SMTT(30) DEF WorkerOpenFile, IsLowestFree
  <2>4. PipeInv'  BY <1>3, SMTT(30) DEF WorkerOpenFile, IsLowestFree
  <2>5. CountInv'  BY <1>3, SMTT(30) DEF WorkerOpenFile, IsLowestFree
  <2> QED BY <2>1, <2>2, <2>3, <2>4, <2>5 DEF OutputInv
<1>4. CASE WorkerCloseFile
  <2>a. CloseFds({wfile})  BY <1>4 DEF WorkerCloseFile
  <2>b. /\ \A f \in FDs : fdtab'[f] = IF f \in {wfile} THEN "free" ELSE fdtab[f]
        /\ Drops({wfile}) => "aR" \notin up' /\ outq' = 0
        /\ ~Drops({wfile}) => ("aR" \in up' <=> "aR" \in up) /\ outq' = outq
    BY <2>a, CloseFdsOutput
  <2>1. StatusInv'  BY <1>4, <2>b, SMTT(30) DEF WorkerCloseFile
  <2>2. SeenInv'  BY <1>4, <2>b, SMTT(30) DEF WorkerCloseFile
  <2>3. KindInv'  BY <1>4, <2>b, SMTT(30) DEF WorkerCloseFile
  <2>4. PipeInv'  BY <1>4, <2>b, SMTT(30) DEF WorkerCloseFile, Drops
  <2>5. CountInv'  BY <1>4, <2>b, SMTT(30) DEF WorkerCloseFile, Drops
  <2> QED BY <2>1, <2>2, <2>3, <2>4, <2>5 DEF OutputInv
<1>5. CASE WorkerWrite
  <2>1. StatusInv'  BY <1>5, SMTT(30) DEF WorkerWrite, WriteError
  <2>2. SeenInv'  BY <1>5, SMTT(30) DEF WorkerWrite, WriteError
  <2>3. KindInv'  BY <1>5, SMTT(30) DEF WorkerWrite, WriteError
  <2>4. PipeInv'  BY <1>5, SMTT(30) DEF WorkerWrite, WriteError
  <2>5. CountInv'  BY <1>5, SMTT(30) DEF WorkerWrite, WriteError
  <2> QED BY <2>1, <2>2, <2>3, <2>4, <2>5 DEF OutputInv
<1>6. CASE WorkerExitInfo
  <2>1. StatusInv'  BY <1>6, SMTT(30) DEF WorkerExitInfo
  <2>2. SeenInv'  BY <1>6, SMTT(30) DEF WorkerExitInfo
  <2>3. KindInv'  BY <1>6, SMTT(30) DEF WorkerExitInfo
  <2>4. PipeInv'  BY <1>6, SMTT(30) DEF WorkerExitInfo
  <2>5. CountInv'  BY <1>6, SMTT(30) DEF WorkerExitInfo
  <2> QED BY <2>1, <2>2, <2>3, <2>4, <2>5 DEF OutputInv
<1>7. CASE WorkerStoreDone
  <2>1. StatusInv'  BY <1>7, SMTT(30) DEF WorkerStoreDone
  <2>2. SeenInv'  BY <1>7, SMTT(30) DEF WorkerStoreDone
  <2>3. KindInv'  BY <1>7, SMTT(30) DEF WorkerStoreDone
  <2>4. PipeInv'  BY <1>7, SMTT(30) DEF WorkerStoreDone
  <2>5. CountInv'  BY <1>7, SMTT(30) DEF WorkerStoreDone
  <2> QED BY <2>1, <2>2, <2>3, <2>4, <2>5 DEF OutputInv
<1>8. CASE WorkerExchange
  <2>1. StatusInv'  BY <1>8, SMTT(30) DEF WorkerExchange, TakeBackendFd
  <2>2. SeenInv'  BY <1>8, SMTT(30) DEF WorkerExchange, TakeBackendFd
  <2>3. KindInv'  BY <1>8, SMTT(30) DEF WorkerExchange, TakeBackendFd
  <2>4. PipeInv'  BY <1>8, SMTT(30) DEF WorkerExchange, TakeBackendFd
  <2>5. CountInv'  BY <1>8, SMTT(30) DEF WorkerExchange, TakeBackendFd
  <2> QED BY <2>1, <2>2, <2>3, <2>4, <2>5 DEF OutputInv
<1>9. CASE WorkerClose
  <2>a. CloseFds({wfd})  BY <1>9 DEF WorkerClose
  <2>b. /\ \A f \in FDs : fdtab'[f] = IF f \in {wfd} THEN "free" ELSE fdtab[f]
        /\ Drops({wfd}) => "aR" \notin up' /\ outq' = 0
        /\ ~Drops({wfd}) => ("aR" \in up' <=> "aR" \in up) /\ outq' = outq
    BY <2>a, CloseFdsOutput
  <2>1. StatusInv'  BY <1>9, <2>b, SMTT(30) DEF WorkerClose
  <2>2. SeenInv'  BY <1>9, <2>b, SMTT(30) DEF WorkerClose
  <2>3. KindInv'  BY <1>9, <2>b, SMTT(30) DEF WorkerClose
  <2>4. PipeInv'  BY <1>9, <2>b, SMTT(30) DEF WorkerClose, Drops
  <2>5. CountInv'  BY <1>9, <2>b, SMTT(30) DEF WorkerClose, Drops
  <2> QED BY <2>1, <2>2, <2>3, <2>4, <2>5 DEF OutputInv
<1> QED BY <1>1, <1>2, <1>3, <1>4, <1>5, <1>6, <1>7, <1>8, <1>9 DEF Worker

\* The main thread preserves the second invariant.
LEMMA MainOutput == IInv /\ OutputInv /\ Main => OutputInv'
<1> SUFFICES ASSUME IInv, OutputInv, Main PROVE OutputInv'
  OBVIOUS
<1> USE DEF IInv, FlagsOK, Inductive, DataOK, ThreadInv, LocalsInv, OwnerInv, ChanInv,
           HeldBackend, HeldCancel, HeldMain, HeldWorker, OutputInv, StatusInv, SeenInv,
           KindInv, PipeInv, CountInv, Checking, Removing
<1>1. CASE MainWrite
  <2>1. CASE "bR" \notin up
    <3>a. CloseWrite
      BY <1>1, <2>1 DEF MainWrite
    <3>b. /\ ("aR" \in up' <=> "aR" \in up) /\ outq' = outq
          /\ readfd \in FDs => readfd' = readfd /\ fdtab'[readfd] = fdtab[readfd]
          /\ writefd' = FD_CLOSED /\ readfd' \in {readfd, FD_CLOSED}
          /\ \A f \in FDs : fdtab'[f] = fdtab[f] \/ (fdtab'[f] = "free" /\ f = writefd)
      BY <1>1, <3>a, CloseWriteOutput, CloseWriteFacts DEF MainWrite
    <3>1. StatusInv'  BY <1>1, <2>1, <3>b, SMTT(30) DEF MainWrite
    <3>2. SeenInv'  BY <1>1, <2>1, <3>b, SMTT(30) DEF MainWrite
    <3>3. KindInv'  BY <1>1, <2>1, <3>b, SMTT(30) DEF MainWrite
    <3>4. PipeInv'  BY <1>1, <2>1, <3>b, SMTT(30) DEF MainWrite
    <3>5. CountInv'  BY <1>1, <2>1, <3>b, SMTT(30) DEF MainWrite
    <3> QED BY <3>1, <3>2, <3>3, <3>4, <3>5 DEF OutputInv
  <2>2. CASE "bR" \in up
    <3>1. StatusInv'  BY <1>1, <2>2, SMTT(30) DEF MainWrite
    <3>2. SeenInv'  BY <1>1, <2>2, SMTT(30) DEF MainWrite
    <3>3. KindInv'  BY <1>1, <2>2, SMTT(30) DEF MainWrite
    <3>4. PipeInv'  BY <1>1, <2>2, SMTT(30) DEF MainWrite
    <3>5. CountInv'  BY <1>1, <2>2, SMTT(30) DEF MainWrite
    <3> QED BY <3>1, <3>2, <3>3, <3>4, <3>5 DEF OutputInv
  <2> QED BY <2>1, <2>2
<1>2. CASE ChannelRead
  <2>1. CASE outq = 0
    <3>a. CloseRead /\ outq = 0
      BY <1>2, <2>1 DEF ChannelRead
    <3>b. /\ "aR" \notin up' /\ outq' = 0
          /\ writefd \in FDs => fdtab'[writefd] = fdtab[writefd]
          /\ readfd' = FD_CLOSED /\ writefd' \in {writefd, FD_CLOSED}
          /\ \A f \in FDs : fdtab'[f] = fdtab[f] \/ (fdtab'[f] = "free" /\ f = readfd)
      BY <1>2, <3>a, CloseReadOutput, CloseReadFacts DEF ChannelRead, ReadSelected
    <3>1. StatusInv'  BY <1>2, <2>1, <3>b, SMTT(30) DEF ChannelRead, ReadSelected
    <3>2. SeenInv'  BY <1>2, <2>1, <3>b, SMTT(30) DEF ChannelRead, ReadSelected
    <3>3. KindInv'  BY <1>2, <2>1, <3>b, SMTT(30) DEF ChannelRead, ReadSelected
    <3>4. PipeInv'  BY <1>2, <2>1, <3>b, SMTT(30) DEF ChannelRead, ReadSelected
    <3>5. CountInv'  BY <1>2, <2>1, <3>b, SMTT(30) DEF ChannelRead, ReadSelected
    <3> QED BY <3>1, <3>2, <3>3, <3>4, <3>5 DEF OutputInv
  <2>2. CASE outq # 0
    <3>1. StatusInv'  BY <1>2, <2>2, SMTT(30) DEF ChannelRead, ReadSelected, ReadSizes
    <3>2. SeenInv'  BY <1>2, <2>2, SMTT(30) DEF ChannelRead, ReadSelected, ReadSizes
    <3>3. KindInv'  BY <1>2, <2>2, SMTT(30) DEF ChannelRead, ReadSelected, ReadSizes
    <3>4. PipeInv'  BY <1>2, <2>2, SMTT(30) DEF ChannelRead, ReadSelected, ReadSizes
    <3>5. CountInv'  BY <1>2, <2>2, SMTT(30) DEF ChannelRead, ReadSelected, ReadSizes
    <3> QED BY <3>1, <3>2, <3>3, <3>4, <3>5 DEF OutputInv
  <2> QED BY <2>1, <2>2
<1>3. CASE ChannelReadAsserts
  <2>1. StatusInv'  BY <1>3, SMTT(30) DEF ChannelReadAsserts, ReadSelected
  <2>2. SeenInv'  BY <1>3, SMTT(30) DEF ChannelReadAsserts, ReadSelected
  <2>3. KindInv'  BY <1>3, SMTT(30) DEF ChannelReadAsserts, ReadSelected
  <2>4. PipeInv'  BY <1>3, SMTT(30) DEF ChannelReadAsserts, ReadSelected
  <2>5. CountInv'  BY <1>3, SMTT(30) DEF ChannelReadAsserts, ReadSelected
  <2> QED BY <2>1, <2>2, <2>3, <2>4, <2>5 DEF OutputInv
<1>4. CASE CheckLoad
  <2>1. StatusInv'  BY <1>4, SMTT(30) DEF CheckLoad
  <2>2. SeenInv'  BY <1>4, SMTT(30) DEF CheckLoad
  <2>3. KindInv'  BY <1>4, SMTT(30) DEF CheckLoad
  <2>4. PipeInv'  BY <1>4, SMTT(30) DEF CheckLoad
  <2>5. CountInv'  BY <1>4, SMTT(30) DEF CheckLoad
  <2> QED BY <2>1, <2>2, <2>3, <2>4, <2>5 DEF OutputInv
<1>5. CASE CheckTake
  <2>1. StatusInv'  BY <1>5, SMTT(30) DEF CheckTake, TakeBackendFd
  <2>2. SeenInv'  BY <1>5, SMTT(30) DEF CheckTake, TakeBackendFd
  <2>3. KindInv'  BY <1>5, SMTT(30) DEF CheckTake, TakeBackendFd
  <2>4. PipeInv'  BY <1>5, SMTT(30) DEF CheckTake, TakeBackendFd
  <2>5. CountInv'  BY <1>5, SMTT(30) DEF CheckTake, TakeBackendFd
  <2> QED BY <2>1, <2>2, <2>3, <2>4, <2>5 DEF OutputInv
<1>6. CASE CheckShut
  <2>a. /\ fdtab' = fdtab
        /\ ("aR" \in up' <=> "aR" \in up) /\ outq' = outq
    <3>1. fdtab[mfd] = "back"  BY <1>6 DEF CheckShut
    <3>2. "aR" \notin EndsOf(mfd)  BY <3>1, EndsOfFacts
    <3>3. fdtab' = fdtab /\ TakeDown(EndsOf(mfd))  BY <1>6 DEF CheckShut, ShutdownEnds
    <3> QED BY <3>2, <3>3, Zenon DEF TakeDown
  <2>1. StatusInv'  BY <1>6, <2>a, SMTT(30) DEF CheckShut
  <2>2. SeenInv'  BY <1>6, <2>a, SMTT(30) DEF CheckShut
  <2>3. KindInv'  BY <1>6, <2>a, SMTT(30) DEF CheckShut
  <2>4. PipeInv'  BY <1>6, <2>a, SMTT(30) DEF CheckShut
  <2>5. CountInv'  BY <1>6, <2>a, SMTT(30) DEF CheckShut
  <2> QED BY <2>1, <2>2, <2>3, <2>4, <2>5 DEF OutputInv
<1>7. CASE CheckFlush
  <2>1. CASE FlushNow
    <3>a. CloseRead /\ outq = 0
      BY <1>7, <2>1 DEF CheckFlush, FlushNow, Readable
    <3>b. /\ "aR" \notin up' /\ outq' = 0
          /\ writefd \in FDs => fdtab'[writefd] = fdtab[writefd]
          /\ readfd' = FD_CLOSED /\ writefd' \in {writefd, FD_CLOSED}
          /\ \A f \in FDs : fdtab'[f] = fdtab[f] \/ (fdtab'[f] = "free" /\ f = readfd)
      BY <1>7, <3>a, CloseReadOutput, CloseReadFacts DEF CheckFlush
    <3>1. StatusInv'  BY <1>7, <2>1, <3>b, SMTT(30) DEF CheckFlush
    <3>2. SeenInv'  BY <1>7, <2>1, <3>b, SMTT(30) DEF CheckFlush
    <3>3. KindInv'  BY <1>7, <2>1, <3>b, SMTT(30) DEF CheckFlush
    <3>4. PipeInv'  BY <1>7, <2>1, <3>b, SMTT(30) DEF CheckFlush
    <3>5. CountInv'
      <4>1. outq = 0  BY <3>a
      <4> QED BY <1>7, <3>b, <4>1, SMTT(30) DEF CheckFlush
    <3> QED BY <3>1, <3>2, <3>3, <3>4, <3>5 DEF OutputInv
  <2>2. CASE ~FlushNow
    <3>1. StatusInv'  BY <1>7, <2>2, SMTT(30) DEF CheckFlush
    <3>2. SeenInv'  BY <1>7, <2>2, SMTT(30) DEF CheckFlush
    <3>3. KindInv'  BY <1>7, <2>2, SMTT(30) DEF CheckFlush
    <3>4. PipeInv'  BY <1>7, <2>2, SMTT(30) DEF CheckFlush
    <3>5. CountInv'  BY <1>7, <2>2, SMTT(30) DEF CheckFlush
    <3> QED BY <3>1, <3>2, <3>3, <3>4, <3>5 DEF OutputInv
  <2> QED BY <2>1, <2>2
<1>8. CASE CheckAnswer
  <2>1. CASE recv_close /\ CloseAllowed /\ ~sent_close
    <3>a. CloseFds({readfd, writefd})  BY <1>8, <2>1 DEF CheckAnswer, SendClose
    <3>b. /\ \A f \in FDs : fdtab'[f] = IF f \in {readfd, writefd} THEN "free" ELSE fdtab[f]
          /\ Drops({readfd, writefd}) => "aR" \notin up' /\ outq' = 0
          /\ ~Drops({readfd, writefd}) => ("aR" \in up' <=> "aR" \in up) /\ outq' = outq
      BY <3>a, CloseFdsOutput
    <3>1. StatusInv'  BY <1>8, <2>1, <3>b, SMTT(30) DEF CheckAnswer, SendClose
    <3>2. SeenInv'  BY <1>8, <2>1, <3>b, SMTT(30) DEF CheckAnswer, SendClose
    <3>3. KindInv'  BY <1>8, <2>1, <3>b, SMTT(30) DEF CheckAnswer, SendClose
    <3>4. PipeInv'  BY <1>8, <2>1, <3>b, SMTT(30) DEF CheckAnswer, SendClose, Drops
    <3>5. CountInv'  BY <1>8, <2>1, <3>b, SMTT(30) DEF CheckAnswer, SendClose, Drops
    <3> QED BY <3>1, <3>2, <3>3, <3>4, <3>5 DEF OutputInv
  <2>2. CASE ~(recv_close /\ CloseAllowed /\ ~sent_close)
    <3>1. StatusInv'  BY <1>8, <2>2, SMTT(30) DEF CheckAnswer
    <3>2. SeenInv'  BY <1>8, <2>2, SMTT(30) DEF CheckAnswer
    <3>3. KindInv'  BY <1>8, <2>2, SMTT(30) DEF CheckAnswer
    <3>4. PipeInv'  BY <1>8, <2>2, SMTT(30) DEF CheckAnswer
    <3>5. CountInv'  BY <1>8, <2>2, SMTT(30) DEF CheckAnswer
    <3> QED BY <3>1, <3>2, <3>3, <3>4, <3>5 DEF OutputInv
  <2> QED BY <2>1, <2>2
<1>9. CASE CheckWriteDown
  <2>1. CASE WriteDone
    <3>a. CloseWrite
      BY <1>9, <2>1 DEF CheckWriteDown
    <3>b. /\ ("aR" \in up' <=> "aR" \in up) /\ outq' = outq
          /\ readfd \in FDs => readfd' = readfd /\ fdtab'[readfd] = fdtab[readfd]
          /\ writefd' = FD_CLOSED /\ readfd' \in {readfd, FD_CLOSED}
          /\ \A f \in FDs : fdtab'[f] = fdtab[f] \/ (fdtab'[f] = "free" /\ f = writefd)
      BY <1>9, <3>a, CloseWriteOutput, CloseWriteFacts DEF CheckWriteDown
    <3>1. StatusInv'  BY <1>9, <2>1, <3>b, SMTT(30) DEF CheckWriteDown
    <3>2. SeenInv'  BY <1>9, <2>1, <3>b, SMTT(30) DEF CheckWriteDown
    <3>3. KindInv'  BY <1>9, <2>1, <3>b, SMTT(30) DEF CheckWriteDown
    <3>4. PipeInv'  BY <1>9, <2>1, <3>b, SMTT(30) DEF CheckWriteDown
    <3>5. CountInv'  BY <1>9, <2>1, <3>b, SMTT(30) DEF CheckWriteDown
    <3> QED BY <3>1, <3>2, <3>3, <3>4, <3>5 DEF OutputInv
  <2>2. CASE ~WriteDone
    <3>1. StatusInv'  BY <1>9, <2>2, SMTT(30) DEF CheckWriteDown
    <3>2. SeenInv'  BY <1>9, <2>2, SMTT(30) DEF CheckWriteDown
    <3>3. KindInv'  BY <1>9, <2>2, SMTT(30) DEF CheckWriteDown
    <3>4. PipeInv'  BY <1>9, <2>2, SMTT(30) DEF CheckWriteDown
    <3>5. CountInv'  BY <1>9, <2>2, SMTT(30) DEF CheckWriteDown
    <3> QED BY <3>1, <3>2, <3>3, <3>4, <3>5 DEF OutputInv
  <2> QED BY <2>1, <2>2
<1>10. CASE CheckEof
  <2>1. CASE readfd = FD_CLOSED /\ writefd = FD_CLOSED /\ ~sent_close /\ CloseAllowed
    <3>a. CloseFds({readfd, writefd})  BY <1>10, <2>1 DEF CheckEof, SendClose
    <3>b. /\ \A f \in FDs : fdtab'[f] = IF f \in {readfd, writefd} THEN "free" ELSE fdtab[f]
          /\ Drops({readfd, writefd}) => "aR" \notin up' /\ outq' = 0
          /\ ~Drops({readfd, writefd}) => ("aR" \in up' <=> "aR" \in up) /\ outq' = outq
      BY <3>a, CloseFdsOutput
    <3>1. StatusInv'  BY <1>10, <2>1, <3>b, SMTT(30) DEF CheckEof, SendClose
    <3>2. SeenInv'  BY <1>10, <2>1, <3>b, SMTT(30) DEF CheckEof, SendClose
    <3>3. KindInv'  BY <1>10, <2>1, <3>b, SMTT(30) DEF CheckEof, SendClose
    <3>4. PipeInv'  BY <1>10, <2>1, <3>b, SMTT(30) DEF CheckEof, SendClose, Drops
    <3>5. CountInv'  BY <1>10, <2>1, <3>b, SMTT(30) DEF CheckEof, SendClose, Drops
    <3> QED BY <3>1, <3>2, <3>3, <3>4, <3>5 DEF OutputInv
  <2>2. CASE ~(readfd = FD_CLOSED /\ writefd = FD_CLOSED /\ ~sent_close /\ CloseAllowed)
    <3>1. StatusInv'  BY <1>10, <2>2, SMTT(30) DEF CheckEof
    <3>2. SeenInv'  BY <1>10, <2>2, SMTT(30) DEF CheckEof
    <3>3. KindInv'  BY <1>10, <2>2, SMTT(30) DEF CheckEof
    <3>4. PipeInv'  BY <1>10, <2>2, SMTT(30) DEF CheckEof
    <3>5. CountInv'  BY <1>10, <2>2, SMTT(30) DEF CheckEof
    <3> QED BY <3>1, <3>2, <3>3, <3>4, <3>5 DEF OutputInv
  <2> QED BY <2>1, <2>2
<1>11. CASE RemoveWrite
  <2>a. CloseFds({writefd})  BY <1>11 DEF RemoveWrite
  <2>b. /\ \A f \in FDs : fdtab'[f] = IF f \in {writefd} THEN "free" ELSE fdtab[f]
        /\ Drops({writefd}) => "aR" \notin up' /\ outq' = 0
        /\ ~Drops({writefd}) => ("aR" \in up' <=> "aR" \in up) /\ outq' = outq
    BY <2>a, CloseFdsOutput
  <2>1. StatusInv'  BY <1>11, <2>b, SMTT(30) DEF RemoveWrite
  <2>2. SeenInv'  BY <1>11, <2>b, SMTT(30) DEF RemoveWrite
  <2>3. KindInv'  BY <1>11, <2>b, SMTT(30) DEF RemoveWrite
  <2>4. PipeInv'  BY <1>11, <2>b, SMTT(30) DEF RemoveWrite, Drops
  <2>5. CountInv'  BY <1>11, <2>b, SMTT(30) DEF RemoveWrite, Drops
  <2> QED BY <2>1, <2>2, <2>3, <2>4, <2>5 DEF OutputInv
<1>12. CASE RemoveRead
  <2>a. CloseFds({readfd})  BY <1>12 DEF RemoveRead
  <2>b. /\ \A f \in FDs : fdtab'[f] = IF f \in {readfd} THEN "free" ELSE fdtab[f]
        /\ Drops({readfd}) => "aR" \notin up' /\ outq' = 0
        /\ ~Drops({readfd}) => ("aR" \in up' <=> "aR" \in up) /\ outq' = outq
    BY <2>a, CloseFdsOutput
  <2>1. StatusInv'  BY <1>12, <2>b, SMTT(30) DEF RemoveRead
  <2>2. SeenInv'  BY <1>12, <2>b, SMTT(30) DEF RemoveRead
  <2>3. KindInv'  BY <1>12, <2>b, SMTT(30) DEF RemoveRead
  <2>4. PipeInv'  BY <1>12, <2>b, SMTT(30) DEF RemoveRead, Drops
  <2>5. CountInv'  BY <1>12, <2>b, SMTT(30) DEF RemoveRead, Drops
  <2> QED BY <2>1, <2>2, <2>3, <2>4, <2>5 DEF OutputInv
<1>13. CASE CleanupTake
  <2>a. /\ mpc = "cl_take"
        /\ UNCHANGED <<readfd, writefd, bidir_fd, recv_close, state, exitset, seen,
                       wpc, wfile, fdtab, up, inq, outq, produced, forwarded>>
    BY <1>13 DEF CleanupTake
  <2>b. "aR" \notin up /\ outq = 0
    BY <2>a
  <2>c. \/ mpc' = "cl_shut" /\ open' = open
        \/ mpc' \in {"loop", "over"} /\ open' = FALSE /\ wfile = NoFd
    BY <1>13 DEF CleanupTake, Freed
  <2>1. StatusInv'  BY <2>a
  <2>2. SeenInv'  BY <2>c
  <2>3. KindInv'  BY <2>a, <2>c
  <2>4. PipeInv'  BY <2>a, <2>b
  <2>5. CountInv'  BY <2>a, <2>c
  <2> QED BY <2>1, <2>2, <2>3, <2>4, <2>5 DEF OutputInv
<1>14. CASE CleanupShut
  <2>a. fdtab' = fdtab /\ "aR" \notin up' /\ outq' = 0
    <3>1. "aR" \notin up /\ outq = 0  BY <1>14 DEF CleanupShut
    <3>2. fdtab' = fdtab /\ TakeDown(EndsOf(mfd) \cup EndsOf(mcancel))
      BY <1>14 DEF CleanupShut, ShutdownEnds
    <3> QED BY <3>1, <3>2, Zenon DEF TakeDown
  <2>1. StatusInv'  BY <1>14, <2>a, SMTT(30) DEF CleanupShut
  <2>2. SeenInv'  BY <1>14, <2>a, SMTT(30) DEF CleanupShut
  <2>3. KindInv'  BY <1>14, <2>a, SMTT(30) DEF CleanupShut
  <2>4. PipeInv'  BY <1>14, <2>a, SMTT(30) DEF CleanupShut
  <2>5. CountInv'  BY <1>14, <2>a, SMTT(30) DEF CleanupShut
  <2> QED BY <2>1, <2>2, <2>3, <2>4, <2>5 DEF OutputInv
<1>15. CASE CleanupJoin
  <2>1. StatusInv'  BY <1>15, SMTT(30) DEF CleanupJoin
  <2>2. SeenInv'  BY <1>15, SMTT(30) DEF CleanupJoin
  <2>3. KindInv'  BY <1>15, SMTT(30) DEF CleanupJoin
  <2>4. PipeInv'  BY <1>15, SMTT(30) DEF CleanupJoin
  <2>5. CountInv'  BY <1>15, SMTT(30) DEF CleanupJoin
  <2> QED BY <2>1, <2>2, <2>3, <2>4, <2>5 DEF OutputInv
<1>16. CASE CleanupClose
  <2>a. CloseFds({mfd, mcancel})  BY <1>16 DEF CleanupClose, Freed, Reclaimed
  <2>b. /\ \A f \in FDs : fdtab'[f] = IF f \in {mfd, mcancel} THEN "free" ELSE fdtab[f]
        /\ Drops({mfd, mcancel}) => "aR" \notin up' /\ outq' = 0
        /\ ~Drops({mfd, mcancel}) => ("aR" \in up' <=> "aR" \in up) /\ outq' = outq
    BY <2>a, CloseFdsOutput
  <2>1. StatusInv'  BY <1>16, <2>b, SMTT(30) DEF CleanupClose, Freed, Reclaimed
  <2>2. SeenInv'  BY <1>16, <2>b, SMTT(30) DEF CleanupClose, Freed, Reclaimed
  <2>3. KindInv'  BY <1>16, <2>b, SMTT(30) DEF CleanupClose, Freed, Reclaimed
  <2>4. PipeInv'  BY <1>16, <2>b, SMTT(30) DEF CleanupClose, Freed, Reclaimed, Drops
  <2>5. CountInv'  BY <1>16, <2>b, SMTT(30) DEF CleanupClose, Freed, Reclaimed, Drops
  <2> QED BY <2>1, <2>2, <2>3, <2>4, <2>5 DEF OutputInv
<1>17. CASE NextSession
  <2>1. StatusInv'  BY <1>17, SMTT(30) DEF NextSession
  <2>2. SeenInv'  BY <1>17, SMTT(30) DEF NextSession
  <2>3. KindInv'  BY <1>17, SMTT(30) DEF NextSession
  <2>4. PipeInv'  BY <1>17, SMTT(30) DEF NextSession
  <2>5. CountInv'  BY <1>17, SMTT(30) DEF NextSession
  <2> QED BY <2>1, <2>2, <2>3, <2>4, <2>5 DEF OutputInv
<1> QED BY <1>1, <1>2, <1>3, <1>4, <1>5, <1>6, <1>7, <1>8, <1>9, <1>10, <1>11, <1>12, <1>13, <1>14, <1>15, <1>16, <1>17 DEF Main

\* Every step, and every stutter, preserves it.
LEMMA NextOutput == IInv /\ OutputInv /\ [Next]_vars => OutputInv'
<1> SUFFICES ASSUME IInv, OutputInv, [Next]_vars PROVE OutputInv'
  OBVIOUS
<1>1. CASE Client  BY <1>1, ClientOutput
<1>2. CASE Main  BY <1>2, MainOutput
<1>3. CASE Worker  BY <1>3, WorkerOutput
<1>4. CASE UNCHANGED vars
  BY <1>4, SMTT(60) DEF OutputInv, StatusInv, SeenInv, KindInv, PipeInv, CountInv,
     Checking, Removing, vars
<1> QED BY <1>1, <1>2, <1>3, <1>4 DEF Next

\* Both invariants hold in every reachable state.
LEMMA OutputInvariance == Spec => [](IInv /\ OutputInv)
<1>1. Init => IInv /\ OutputInv  BY InitIInv, InitOutput
<1>2. (IInv /\ OutputInv) /\ [Next]_vars => (IInv /\ OutputInv)'  BY NextIInv, NextOutput
<1> QED BY <1>1, <1>2, PTL DEF Spec

\* Every unit of output that a backend wrote has been forwarded when readfd is
\* closed after EOF, unless the client closed the channel itself
\* (send_msg_channel_data, check_close, close_chan_fd).
THEOREM OutputIsComplete == Spec => []OutputComplete
<1>1. IInv /\ OutputInv => OutputComplete
  BY DEF IInv, FlagsOK, Inductive, DataOK, OutputInv, PipeInv, CountInv, OutputComplete
<1> QED BY <1>1, OutputInvariance, PTL

\* Nothing the main loop closes or shuts down while the channel is in use is a
\* file the worker has open (close_chan_fd, send_msg_channel_close).
THEOREM WorkerFileSafe == Spec => []WorkerFileIntact
<1>1. OutputInv => WorkerFileIntact
  BY DEF OutputInv, KindInv, WorkerFileIntact
<1> QED BY <1>1, OutputInvariance, PTL

\* CLOSE is sent for a backend only when its exit status is complete and no
\* longer written (check_close, closechansess, ps4_shell_thread).
THEOREM CloseHasStatus == Spec => CloseCarriesStatus
<1> DEFINE Carries == ~sent_close /\ sent_close' /\ state # "IDLE"
                        => exitset /\ wpc \notin {"read", "work", "write", "finish", "store"}
<1>1. IInv /\ OutputInv /\ [Next]_vars => [Carries]_vars
  <2> SUFFICES ASSUME IInv, OutputInv, Next, ~sent_close, sent_close', state # "IDLE"
               PROVE exitset /\ wpc \notin {"read", "work", "write", "finish", "store"}
    OBVIOUS
  <2>1. mpc \in {"answer", "eof"} /\ CloseAllowed
    <3>1. CASE Client
      BY <3>1 DEF Client, RecvOpen, StartWorker, ExecBuiltin, ExecNoNull, RecvData, RecvEof,
         RecvClose, RecvWindowAdjust, EndSession
    <3>2. CASE Worker
      BY <3>2 DEF Worker, WorkerRead, WorkerWork, WorkerOpenFile, WorkerCloseFile, WorkerWrite,
         WorkerExitInfo, WorkerStoreDone, WorkerExchange, WorkerClose
    <3>3. CASE CheckAnswer  BY <3>3 DEF CheckAnswer
    <3>4. CASE CheckEof  BY <3>4 DEF CheckEof
    <3>5. CASE Main /\ ~CheckAnswer /\ ~CheckEof
      BY <3>5 DEF Main, MainWrite, ChannelRead, ChannelReadAsserts, CheckLoad, CheckTake,
         CheckShut, CheckFlush, CheckWriteDown, RemoveWrite, RemoveRead, CleanupTake,
         CleanupShut, CleanupJoin, CleanupClose, NextSession
    <3> QED BY <3>1, <3>2, <3>3, <3>4, <3>5 DEF Next
  <2>2. seen # "RUNNING"  BY <2>1 DEF CloseAllowed
  <2>3. state = "DONE"
    BY <2>1, <2>2 DEF IInv, Inductive, DataOK, OutputInv, SeenInv, Checking
  <2> QED BY <2>3 DEF OutputInv, StatusInv
<1>2. [](IInv /\ OutputInv) /\ [][Next]_vars => [][Carries]_vars
  BY <1>1, PTL
<1>3. CloseCarriesStatus <=> [][Carries]_vars
  BY DEF CloseCarriesStatus
<1> QED BY <1>2, <1>3, OutputInvariance, PTL DEF Spec
=============================================================================
