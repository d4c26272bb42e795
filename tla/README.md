# A verification project for Dropbear SSH, PS4 edition

TLA+ models of the parts of this repository that carry its own logic, the TLC
configurations that check them and TLAPS proofs of the safety properties of
all nine. All paths are relative to `src/dropbear/src/` unless they start with `src/`.

## 1. Inventory

The program is Dropbear (an SSH server and client in C, one `select()` loop per
session) with a port to the PlayStation 4. The port cannot `fork()`, so it
replaces processes by two things the original never had: sessions that run one
after the other in the listener's own process, and worker threads that stand in
for the programs a session would have started.

| Part | State it keeps | Operations | Interacts with |
|---|---|---|---|
| Listener (`svr-main.c`, `svr-session.c`) | listening sockets, pre-auth slots (`childpipes`), `ps4_session_active`, the globals `ses` and `svr_ses` | accept, limits per total and address; fork, or on the PS4 start a session (memset, setjmp) and come back by longjmp from `svr_dropbear_exit`; signals | calls the session loop; shares descriptors and globals with every session |
| Session loop (`common-session.c`) | `ses`: queues, timers, `exitflag` | one turn: select, timeouts, read and process a packet, flush the reply queue, loop handler, channel I/O, write | calls everything below |
| Packet layer (`packet.c`, `process-packet.c`, `queue.c`) | keys, sequence numbers, write queue, reply queue, `requirenext`, `ignorenext` | encrypt, decrypt, enqueue, dispatch | peer over a stream socket |
| Key exchange (`common-kex.c`, `svr-kex.c`, `cli-kex.c`) | `kexstate`, `newkeys`, `dataallowed` | KEXINIT, guess, KEXDH, NEWKEYS, strict kex, rekey | packet layer of both ends |
| Algorithm negotiation (`common-algo.c`, `svr-runopts.c`) | the tables of algorithms, process-wide, with a `usable` flag per entry; the host keys in memory | send a list, pick from two lists, judge the guess, disable, enable again, find or generate the host key | key exchange; the serial sessions of the PS4 share the tables |
| Authentication (`svr-auth*.c`, `svr-service.c`) | `authstate`: user, methods left, failures, key queries | none, password, pubkey, partial success, timeout | gates packets in `process_packet` |
| Channels (`common-channel.c`, `circbuffer.c`) | `struct Channel`: descriptors, windows, buffers, EOF and CLOSE flags | open, request, data, EOF, CLOSE, window adjust, remove | session loop, `ChanSess`, kernel descriptors |
| PS4 session backend (`svr-chansession.c`) | `ChanSess`: backend state, backend and cancel descriptors, thread, exit status | start shell or scp worker, run a built-in command, cancel, join | **two threads**: main loop and worker share `ChanSess`, the socketpair and the descriptor table |
| Children (`svr-chansession.c`, `dbutil.c`), where `fork()` works | `childpids`, `lastexit`, the signal pipe, `ChanSess`: pid and exit | spawn, SIGCHLD handler, `waitpid` in the loop, flush, exit status | **signals** at any moment; kernel pids; channels |
| PS4 scp (`ps4-scp.c`) | files on disk: destination and `.ps4scp-part` | receive (upload), send (download) | worker thread, file system, other workers |
| PS4 shell, runtime, installer | working directory, log file | commands, markers, copying | sequential I/O |
| Forwarding, client program, key formats, libtomcrypt, libtommath | | | not modelled, see section 6 |

What is hard here: two threads handing one descriptor to each other (who closes
it, who wakes whom, who blocks on whom); process-wide state that one session
leaves to the next; two ends that rekey at the same time with replies held back;
flow control of two streams under one window, and of two ends that each stop
reading while they cannot write; two ends that search their own tables for the
algorithm both must use; children that exit between any two steps of the loop;
authentication spread over many requests; an upload that is cut off at any point. `PROJECT.json` lists each
hazard at its line, with the properties that cover it.

What makes each part correct, in a sentence: the backend descriptor has one
closer and nothing leaks, output and exit status arrive before CLOSE, and every
end is reached; no session end stops the listener and its limits hold; both ends
pick the same algorithms and the server has the key; no packet is refused, lost,
reordered or encrypted under a used nonce; every exit is reaped and reported on
its own channel; a login proves what the options
require for one user; a stream arrives in order and in full; a destination is
replaced whole or not at all.

## 2. Modules

| Module | Models | State and actions |
|---|---|---|
| `SessionBackend` | one session channel of the PS4 build and its worker | Main loop and worker each have a program counter (`mpc`, `wpc`); one action per atomic operation or system call they race on. `check_close` is the chain `CheckLoad` .. `CheckEof`, `remove_channel` and `cleanupchansess` the chain `RemoveWrite` .. `CleanupClose`. The descriptor table hands out the lowest free number, so a number closed too early is really reused. |
| `SessionBackendProofs` | theorems about it | |
| `Transport` | server and client transport | `ep[e]` is the part of `ses` that matters; handlers are functions from session state to session state named after the C functions; `Iterate` is one turn of `session_loop`. Packets carry the key and sequence number they were encrypted under. |
| `MCTransport` | instance | application packets per end |
| `TransportProofs` | theorems about it | |
| `KexAlgo`, `MCKexAlgo` | algorithm negotiation, guesses and host keys | A table is a sequence of names with `usable`; `buf_match_algo` and `read_kex_algos` are functions of it. Both ends take their KEXINIT, KEXDH_INIT and KEXDH_REPLY steps in any order, over rekeys and sessions. |
| `KexAlgoProofs` | theorems about it | |
| `Listener` | `main_noinetd` in both builds | Descriptors are counted; `childpipes` maps slots to children; the globals that survive a session (`exitflag`, `init_done`, `ps4_session_active`, the freed state) are variables. |
| `ChildReap` | children of session channels where `fork()` works | The loop is `Select`, a packet, `svr_chansess_checksignal`, `channelio`; children write and exit, and signals arrive, between any two of them; pids are reused. `check_close` is one function from channel to channel. |
| `Auth` | user authentication | A credential is the outcome of checking it; `opts` ranges over all admissible option sets and both builds. |
| `ChannelFlow`, `MCChannelFlow` | one direction of a channel | The circular buffer is translated operation by operation; two streams with a buffer each share the receive window; a nonblocking write takes any prefix. |
| `ChannelStream` | what a channel promises | No packets, windows or buffers: units go in, come out in order, and the end comes last. `ChannelFlow` maps onto it (`Stream`). |
| `WriteQueue`, `MCWriteQueue` | both directions of a channel between two session loops | Each end has a write queue with the limit of `session_loop` and a bounded socket; a turn of the loop is one step. |
| `ScpReceive`, `MCScpReceive` | uploads | A file is its length against its announced size; names are bound to files, open descriptors are not names. |
| `PreauthProofs` (`Listener` and `Auth`, what happens before a login), `ChildReapProofs`, `ChannelFlowProofs`, `WriteQueueProofs`, `ScpReceiveProofs` | theorems about these modules | |

A definition whose name ends in `_Something` next to a mapped definition is the
form a plausible bug would give it; substituting it makes the property that
`PROJECT.json` names fail.

## 3. Runs

| Run | Configuration | Shows |
|---|---|---|
| `backend` | 4 descriptors, socket buffers of 2, window 2, 3 units in, 4 out, requests after EOF allowed | `BackendFdIntact`, `NothingLeaks`, `OutputComplete`, `WorkerFileIntact`, `CloseCarriesStatus`; `EofLeadsToClose`, `EndLeadsToOver` under fairness |
| `transport` | 2 rekeys, 2 application packets from the server, 1 from the client | `NoDropbearExit`, `ReplyQueueInOrder`, `NonceNeverReused`; `KexCompletes`, `AllDelivered` |
| `kex_algo` | all tables of up to 3 key exchanges with any usable, host key lists of 2 against any loaded keys and default key files that are absent, unusable or of either ECDSA size, cipher, MAC and compression lists; 2 sessions, 1 rekey | `Agreed` (with the definition of RFC 4253 as reference), `GuessNeverMisused`, `Servable`, `FreshOffer` |
| `listener` | both builds, 2 listeners, 8 descriptors, 3 slots, 2 per address, 4 connections, 2 signals | `ListenerSurvives`, `ParentFds`, `PreauthBounded`; `ServedWhileFdsLast`, `SlotsRecovered` |
| `child_reap` | 2 channels, one with a pty, 2 pids, a signal pipe of 1 byte, commands also after EOF and CLOSE | `ExitMatched`, `OwnStatus`, `OutputDrained`; `ExitCloses` |
| `auth` | 4 users, limits below, at and above the key query limit, both builds | `LoginProven`, `GuessesBounded` |
| `channel_flow` | window 6, packets of 3, 7 and 1 units | `NoExit`, the refinement `ImplementsStream`, `AllDelivered` |
| `write_queue` | windows 3 and 6, queue limit 2, socket 3, 7 and 4 units (one more than a window each) | `CreditConserved`, `QueueBounded`; `DeliveredUnlessStalled` |
| `scp_upload` | 2 workers, 3 destinations of which one is another's temporary name, files of up to 1 unit, 1 crash | `AtomicReplace`, `NoPartLeft`, `AckMeansStoredIfAlone` |
| `backend_lost_wakeup` | expected violation | see below |
| `backend_blocking` | expected violation | see below |
| `kex_algo_ps4` | expected violation | see below |

`SessionBackend`, `Listener` and `ScpReceive` also have a type invariant, which
includes the arithmetic that could go wrong (windows never overdrawn, the
descriptor table never overdrawn, a file never longer than announced); elsewhere
such bounds are part of the properties named here (`CreditConserved`, `NoExit`,
`GuessesBounded`).

**Bounds.** They are chosen so that the interesting cases happen: a socket buffer
smaller than the output (threads block), four descriptors for two that are in use
(numbers are reused), two rekeys (both ends at once, or one after the other, and
so the third set of keys), more data than a window (buffers wrap, the sender
depends on adjustments), fewer descriptors than the sessions cost (the table runs
out), a crash and a second upload after it, two children for one byte of the
signal pipe, a pid for each channel and so one that comes back, a queue limit
that both ends exceed, also at the same time. Names of algorithms only matter up to renaming,
so one client list of key exchanges stands for all. Channels and serial sessions of
`SessionBackend` are not bounded: the model returns to its initial shape and goes
on. Deadlock is checked except where the system may really stop: the listener
exits, a login session ends, a bounded transfer or exchange is complete, every
channel of a session is closed.

**Symmetry.** `MCScpReceive` treats workers as interchangeable; only
safety is checked there.

**Fairness.** `SessionBackend`: both threads are scheduled, commands terminate,
and (strong fairness) a selected descriptor is served and a client that consumes
output grants window, since `session_loop` serves channels once per turn after at
most one packet. `Transport`: a packet that waits is read, since `select()`
reports it. `Listener`: the process runs, and sessions end; clients leave,
authenticate or time out. `ChildReap`: the loop runs and a pending signal is
delivered; no child has to exit. `WriteQueue`: both loops run. `ChannelFlow`: both ends run and the programs behind the descriptors
go on. Nothing is assumed about rekeys, signals, connections or requests.

**Expected violations**, each a disagreement between the code and a line of the
repository:

* `backend_lost_wakeup`: a CLOSE that arrives while the worker runs cancels it,
  by shutting the socketpair down, which puts `readfd` at its end at once. If the
  main loop closes `readfd` and runs `check_close` before the worker stores DONE, both
  descriptors are closed, nothing selects the channel and the worker raises no
  SIGCHLD: `check_close` never runs again. The channel stays and the CLOSE is never
  answered, whatever window the client grants, against "respond in kind and close the
  channels" (`common-channel.c:607`).
* `backend_blocking`: `setnonblocking` does nothing on the PS4. Main loop and
  worker can each block in a write the other should read, against "The serial PS4
  session still gates I/O with select(), so retaining blocking mode is safe for this
  port" (`dbutil.c:605`). `select()` gates the writes of `channelio` only, and only
  for one byte; that of `common_recv_msg_channel_data` it does not gate.
* `kex_algo_ps4`: `svr_algos_initialise` makes every host key algorithm usable
  again ("Each table already contains only algorithms compiled into this binary",
  `svr-session.c:429`), among them the security key types that
  `load_all_hostkeys` had disabled. A client that names one first ends the session
  at `dropbear_assert(0)` in `svr_ensure_hostkey` (`svr-kex.c:154`).

**Disagreements without a run of their own.** The models reach each of these; the
passing properties name it as their exception or do not speak of it.

* `childsock = -1; /* closed by session_cleanup() */` (`svr-main.c:389`) is not so:
  only `svr_remoteclosed` closes the socket, and nothing closes the signal pipe. Each
  serial session costs two or three descriptors for good (`InitFails`: one).
  `ParentFds` therefore speaks of the forking build, and `ServedWhileFdsLast` of the
  time until the table is used up.
* `-T n`, "the number of authentication attempts allowed per connection"
  (`src/dropbear/manpages/dropbear.8:116`), "maximum number of failed authentication
  tries" (`default_options.h:308`): the check is `failcount > maxauthtries`
  (`svr-auth.c:447`), so the session goes on after `n` wrong credentials and attempt
  `n + 1` is checked and may succeed. `GuessesBounded` says that no session goes on
  after more.
* Two uploads to one path, or to a path and to the one named like its temporary file
  (`safe_name` accepts it), share a name. Each is acknowledged although the
  destination may be the other's half (`ps4-scp.c:243`). `AtomicReplace` and
  `AckMeansStoredIfAlone` leave such uploads out.
* A command is accepted after EOF and CLOSE on a channel (`sessioncommand` looks at
  neither). The channel may then be removed while the child lives, and the child's exit
  goes to `lastexit`, where the comment at `svr-chansession.c:158` expects only an exit
  that came before its pid was entered; a later command that gets this pid is given the exit
  for its own. If the child writes first, `dropbear_assert(!channel->sent_close)`
  (`common-channel.c:706`) ends the session. The actions are `ChannelReadAsserts`
  and `DataAfterClose`; `ExitMatched` and `OwnStatus` except such commands (`late`).
* Two ends of this code base that are both over the queue limit with full sockets wait
  for each other for ever: neither reads its socket then. The comment at
  `common-session.c:195` gives the rule as a protection. `Stalled` is reached in the
  run `write_queue`; `DeliveredUnlessStalled` shows that nothing else stops a transfer.
* With `-r` and `-R` the server offers every key type, but does not load the default
  files. An existing default ECDSA file of another size is then neither the key that
  was negotiated nor replaced by it, and the session ends at `svr-kex.c:186`. `Servable`
  names this and an unusable file as the only failures.

More behaviours are in the models and limit what the passing properties say:

* `remove_channel` closes the shared number of `readfd` and `writefd` twice
  (`WorkerFileIntact` excludes removal).
* A signal during a serial session ends only the session, one just before a
  session is cleared by the `memset` of `ses`, and one at the listener after a
  session runs `session_cleanup` a second time (the state `crashed`).
* A failed `fork()` leaves both ends of its pipe open (`ParentFds` counts them).
* The good-guess test counts unusable entries of the own table, which the peer
  never sees. Where the ends do not share `kexguess2` and such an entry stands
  first, they judge a guess differently (`GuessShared` excludes it).
* The exit of a child goes to the first slot with its pid. When the kernel reuses
  a pid while the channel that had it is still open, the new channel is never
  closed (`clash` excludes it). Otherwise, commands after CLOSE apart, `lastexit` is
  never used: `waitpid` now runs in the loop (`ExitMatched`).
* A pty is one descriptor: closing `writefd` on exit closes `readfd` with output
  still in it (`OutputDrained` excludes ptys).
* Data for a broken descriptor is dropped without giving its window back
  (`common-channel.c:803`); `ChannelStream` does not say that the other stream goes on.

## 4. Proofs

Eight modules prove, for every value of the constants, what the runs check on one
instance. Each theorem rests on the named ASSUME of its model and on nothing else;
TLC evaluates these assumptions in the runs.

| Module | Theorems | Assumption on the constants |
|---|---|---|
| `SessionBackendProofs` | `TypeCorrect`, `BackendFdSafe`, `NoLeak`, `OutputIsComplete`, `WorkerFileSafe`, `CloseHasStatus` | descriptors are numbers, capacities positive, bounds natural |
| `KexAlgoProofs` | `EndsAgree`, `GuessIsSafe`, `ServerCanSign`, `OfferIsFresh` | tables are sequences of names, `kexguess2` is never disabled and the client's first entry never (`cli_algos_initialise`), the server's host key algorithms are known ones |
| `TransportProofs` | `EndsNeverExit`, `DataStaysInOrder`, `NoncesNeverRepeat` | bounds natural |
| `PreauthProofs` (`Listener`) | `TypeCorrect`, `ListenerStays`, `DescriptorsAccounted`, `UnauthLimited` | limits and sockets positive, bounds natural |
| `ChildReapProofs` | `EveryExitMatched`, `StatusIsOwn`, `OutputIsDrained` | finitely many channels and pids, none of them `None` |
| `PreauthProofs` (`Auth`) | `LoginNeedsProof`, `GuessesLimited` | known users are users, none of them is `NoUser`, limits natural |
| `ChannelFlowProofs` | `NoAssertionFails`, `FlowImplementsStream` | window and packet size positive, amounts natural |
| `WriteQueueProofs` | `CreditIsConserved`, `QueueIsBounded`, `NoStallWhereItFits` | sizes positive, windows at least 3 |
| `ScpReceiveProofs` | `TypeCorrect`, `ReplaceIsAtomic`, `PartRemoved`, `AckIsHonestIfAlone` | no name is `None`, every path has one temporary name, bounds natural |

Most are `Spec => []Invariant`; `CloseHasStatus`, `AckIsHonestIfAlone` and
`NoncesNeverRepeat` are action properties and `FlowImplementsStream` is the refinement of `ChannelStream`. Hardly
any of the properties is inductive as it stands. The inductive invariants below
were model-checked before they were proved, where TLC can evaluate them. Each proof has one lemma per action, or
group of actions, and one step per conjunct the action can disturb.

**SessionBackend.** That `close` hits the right descriptor depends on who took
`ps4_backend_fd`, on which thread is where and on which numbers the channel holds.
`IInv` adds `ThreadInv` (the worker exists exactly while `thread_started`, and
where it can be), `LocalsInv` (what each main-loop local holds at each program
counter), `OwnerInv` (the backend descriptor is in exactly one of
`ps4_backend_fd`, `ps4_cancel_fd`, the main loop's local and the worker's duty to
close, and open while it is in one), `ChanInv` (what `readfd` and `writefd` can
name) and `AccountInv` (every open number is accounted for). For the output a
second invariant, `OutputInv`, is inductive given `IInv`: `SeenInv` (the state that
`check_close` loaded is the current one or the one before the worker finished),
`StatusInv` and `KindInv` (which end states go with which status), and `PipeInv` and
`CountInv` (what the worker wrote is sent, in the socket, or excused by a cancel).

**Transport.** The session state of an end is 29 fields, and the packets under way
decide what each of them may be. The proof reads each direction as a walk through
*points*: the round (how many exchanges this direction has finished), the stage in
the next one (nothing sent yet, KEXINIT sent, the DH value sent, and so on), the next
sequence number and the application packets so far. A *history* `h` fixes for both
directions which key each round uses, whether the client's guess in it is right and
whether kex is strict. `Step` says which packet leads from one point to which next
one; `Path` says that the packets in `out` lead from the point of their receiver to
the point of their sender. `Common`, `Server` and `Client` tie the flags of an end to
its sending and its receiving point. `Joint` is the inductive invariant (`TransportInv`):
there are a history and four points such that both ends are tied to them and what one
has sent starts where the other is receiving. A packet that arrives is then the first
step of a path from the receiver's point, so `requirenext`, `ignorenext`, the key and
the number are the ones the receiver has; no exit is left. Two arguments carry the
induction. When the client starts an exchange it settles the next key of the history;
nobody depends on that part of it yet, so the history may be changed there (`Agree`).
And a KEXINIT that arrives before the own one was sent is handled as if a timeout had
sent it just before (`KexinitFirst`), which reduces crossing KEXINITs to one case.
Keys rise along the history, so (key, number) rises along a path: `NonceNeverReused`.
For this proof `maybe_flush_reply_queue` was rewritten from a fold to a recursive
function, and `ReplyQueueInOrder` from a filtered sequence to counting, without a change
in what they say. TLC checks the three properties but cannot evaluate `TransportInv`:
a history is an infinite function.

**Listener.** `ProcInv` says what a session may find in the globals of the process;
`ReadyInv` that a socket reported readable still has a client, so `accept` does not
block; `ConnInv` gives every connection one place, in a backlog or accepted, through
ghost sets; `SlotInv` gives every unauthenticated child its slot; `FdInv` accounts
for the descriptors of the forking parent, slot by slot.

**ChildReap.** `ProcInv`: a child nobody waited for has an entry, or the loop is
between `fork()` and the entry, or its command came after the CLOSE. `OwnInv`: unless a
pid came back too early, a pid is in the table once and `lastexit` holds none of them. `DrainInv`: a descriptor that was closed after its end was
read has no writer and no output left.

**Auth.** `PartialProven`: a method that is off the list was proven, for the user
whose name is fixed. `Charged`: every wrong credential used up a try or one of
the free key queries.

**ChannelFlow.** `FlowInv` says that there are ghost functions `pos` (the units sent
before each packet on the wire) and `adj` (the adjustments sent before each one
under way) under which everything adds up: packets carry consecutive units, windows
are what was granted and not used, the circular buffer holds exactly the units after
those delivered. Then no assertion of `circbuffer.c` or the window checks can fail.
For the refinement, `SendData` is `Accept`, `SendEof` is `End`, `RecvData` and
`WriteOut` are `Deliver`, `Break` or no step, `CheckClose` is `Finish`,
`RecvAdjust` and `RecvEof` are no step.

**WriteQueue.** The model sums over queues with recursive functions. The first part
of `WriteQueueProofs` shows that such a running sum exists, is unique, adds up over
concatenation and keeps comparisons item by item; the induction it needs is one over
a set of numbers (the least counterexample), which the provers can do. With that,
`Inv` says that queues hold no empty data packet and no adjustment below a third of
the window, that the data in a queue is at most the limit and one packet for each descriptor a turn
reads (`MostRead`: the server's channel reads stdout and stderr), and that credit adds up. A window thus limits how many adjustments can be under way, and so
the bytes of both. The proof attempt also corrected the model: the bound in
`QueueBounded` left out the overhead of the data packet and allowed for three
adjustments, where a window that is not a multiple of three comes back in more (5
units by thirds of 1). The configuration missed that by the parity of its queue
limit; TLC refutes the old bound with a limit of 6 and confirms the new one.
`NoStallWhereItFits` is conditional on sizes (`Fits`) that no code enforces: it says
where the stall of section 3 cannot happen, not that the code avoids it.

**KexAlgo.** The lists have any length, so the first part shows what a selection
does: for the list that is sent of a table there is an order-preserving map to the
usable entries (`Picks`, by the same induction as above). The search of
`buf_match_algo` for the first pair then finds, at either end, the first of the
client's names that is also in the server's list (`SvrPicks`, `CliPicks`), which is
unique; the two ends thus agree on all six lists and on the guess, except that the
server may find a name later in its table than in the list it sent (`Alike`).
`Negotiate` and `RekeyPicks` put this together for a whole exchange and for one with
the table restricted to one host key algorithm. The invariant `Holds(s)` says that
everything in an exchange follows from the configuration and the table `s` it began
with: the lists on the wire, what each end picked, the packets under way for each
combination of who has read and who liked the guess, which keys are in memory and
which default files exist (`Files`: keys made since the start are in files that were
absent then, and of ECDSA only the default size is made).
The proof showed that the first half of `GuessNeverMisused` needs no `GuessShared`;
the property was strengthened accordingly.

**ScpReceive.** `WorkerInv` (what was written and what is expected add up to the
announced size), `AloneInv` (no two workers have one file open, and two with a name in common are in
`shared`), `OwnPart` (until the rename the temporary name is the worker's own file) and `Settled` (a published
file is not written any more).

## 5. Model-checked only

* Every liveness property (`EofLeadsToClose`, `EndLeadsToOver`, `KexCompletes`,
  `AllDelivered`, `DeliveredUnlessStalled`, `ServedWhileFdsLast`, `SlotsRecovered`,
  `ExitCloses`): liveness
  under fairness and ENABLED are outside the proof system's reach.
* The three runs that expect a violation are counterexamples and stand by themselves.

Every invariant and every other action property of the passing runs is a theorem.

## 6. Not modelled

* `ps4-shell.c`, `ps4-runtime.c`: sequential commands and logging; to the session
  they are the output and the open files of `WorkerWork` and `WorkerOpenFile`.
* The download path of `ps4-scp.c` (`serve_send`): one worker that reads a file;
  it announces the size `stat()` gave before it opens the file, and nothing in the
  sources says what a file replaced in between should do.
* The stand-alone `scp.c`, taken over from OpenSSH.
* The installer and the package scripts: one-time copying outside the daemon.
* Cryptography, key formats, random numbers, libtomcrypt, libtommath, and generated
  or taken-over code (`libcrux_mlkem768_sha3.h`, `sntrup761.c`, test vectors). These
  are most of the repository's lines and have no state a model checker would
  explore, so the modules here stand for a small share of all lines: the models
  cover the code that has control flow between actors.
* Forwarding (TCP, stream, X11, agent), PAM, ptys, login records, the client's
  terminal side: not part of the PS4 build's proven behaviour (`src/README.md`).
* Framing, padding, compression, partial socket reads and writes: packets of
  `Transport` travel whole and in order, as TCP and `read_packet` deliver them.
* pty-req, window-change, env and signal requests: they change nothing the two
  threads of `SessionBackend` share.

## 7. Plan

Done: 1 `SessionBackend` and its proofs, 2 `Transport`, 3 `Listener` in both builds,
4 `Auth`, 5 `ChannelFlow` and the refinement to `ChannelStream`, 6 `ScpReceive`,
7 `KexAlgo`, 8 `ChildReap`, 9 `WriteQueue`.

Proved: the safety properties of all of these.

Next: models of forwarding channels with pending connections, and the identification
exchange with keepalive and idle timers.
