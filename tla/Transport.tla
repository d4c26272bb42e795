----------------------------- MODULE Transport -----------------------------
(***************************************************************************)
(* The SSH transport of a server and a client built from this source tree: *)
(* packet encryption and the reply queue (packet.c), packet dispatch       *)
(* (process-packet.c), key exchange (common-kex.c, svr-kex.c, cli-kex.c)   *)
(* and the session loop that orders them (common-session.c).               *)
(*                                                                         *)
(* Both ends run the same common code; ep[e] is the part of "ses" of end e *)
(* that the transport uses.  Packets travel in order.  A packet carries    *)
(* the key and the sequence number it was encrypted with, and decrypting   *)
(* it with any other is an integrity error.  Keys are named by the serial  *)
(* number of the client's DH value they were derived from; 0 is no key.    *)
(* Each session_loop iteration is one step.                                *)
(***************************************************************************)
EXTENDS Integers, Sequences, FiniteSets

CONSTANTS
    MaxRekey,   \* bound: rekeys that checktimeouts starts, both ends together
    MaxApp      \* bound: MaxApp[e] application packets are sent by end e

ASSUME TransportAssumption == MaxRekey \in Nat /\ MaxApp \in [{"svr", "cli"} -> Nat]

VARIABLES
    ep,         \* ep[e]: the session state of end e
    rekeys      \* rekeys started by a timeout or a data limit so far

vars == <<ep, rekeys>>

End == {"svr", "cli"}
Peer(e) == IF e = "svr" THEN "cli" ELSE "svr"

\* Packet types are named as in ssh.h; "DATA" stands for the types a kex holds
\* back (service, userauth, channel), "ODD" for one of them that the receiver
\* has no handler for.
None == "none"

\* common_session_init, kexinitialise, cli_session_init
Fresh(strictpeer) == [
    sentkexinit |-> FALSE, recvkexinit |-> FALSE,
    sentnewkeys |-> FALSE, recvnewkeys |-> FALSE,
    donefirstkex |-> FALSE, donesecondkex |-> FALSE, recvfirstnewkeys |-> FALSE,
    strictpeer |-> strictpeer, strict_kex |-> FALSE, first_follows_matches |-> FALSE,
    dataallowed |-> TRUE, requirenext |-> "KEXINIT", ignorenext |-> FALSE,
    lastpacket |-> None, kex_state |-> "NOTHING", guess |-> 0, dh |-> 0,
    ktrans |-> 0, krecv |-> 0, newtrans |-> 0, newrecv |-> 0,
    transseq |-> 0, recvseq |-> 0, replyq |-> <<>>, out |-> <<>>,
    last |-> <<0, -1>>, sent |-> 0, got |-> 0, exit |-> None]

\* dropbear_exit
Exit(s, why) == [s EXCEPT !.exit = why]

-----------------------------------------------------------------------------
(* packet.c: sending *)

packet_is_okay_kex(type) == type \notin {"DATA", "ODD", "KEXINIT"}

\* What is held back once is held back for good: donesecondkex is not reset.
Encrypt_HeldForGood(s, type, arg) ==
    IF (~s.dataallowed /\ ~packet_is_okay_kex(type))
       \/ (s.donesecondkex /\ type \in {"DATA", "ODD"})
    THEN [s EXCEPT !.replyq = Append(@, [type |-> type, arg |-> arg])]
    ELSE [s EXCEPT !.out = Append(@, [type |-> type, arg |-> arg,
                                      key |-> s.ktrans, seq |-> s.transseq]),
                   !.last = <<s.ktrans, s.transseq>>,
                   !.transseq = @ + 1]

\* The packet goes to the write queue under the current key, or waits in the
\* reply queue for the end of the key exchange.
Encrypt(s, type, arg) ==
    IF ~s.dataallowed /\ ~packet_is_okay_kex(type)
    THEN [s EXCEPT !.replyq = Append(@, [type |-> type, arg |-> arg])]
    ELSE [s EXCEPT !.out = Append(@, [type |-> type, arg |-> arg,
                                      key |-> s.ktrans, seq |-> s.transseq]),
                   !.last = <<s.ktrans, s.transseq>>,
                   !.transseq = @ + 1]

maybe_flush_reply_queue_KeepsQueue(s) ==
    LET q == s.replyq
        Sent[i \in 0..Len(q)] ==
            IF i = 0 THEN s ELSE Encrypt(Sent[i - 1], q[i].type, q[i].arg)
    IN  IF s.dataallowed THEN Sent[Len(q)] ELSE s

\* The queue is emptied and its packets are encrypted one after the other.
maybe_flush_reply_queue(s) ==
    LET q == s.replyq
        Sent[i \in 0..Len(q)] ==
            IF i = 0 THEN [s EXCEPT !.replyq = <<>>]
            ELSE Encrypt(Sent[i - 1], q[i].type, q[i].arg)
    IN  IF s.dataallowed THEN Sent[Len(q)] ELSE s

-----------------------------------------------------------------------------
(* common-kex.c *)

\* The client's DH value; a new one replaces the last.
send_msg_kexdh_init(s) == Encrypt([s EXCEPT !.dh = @ + 1], "KEXDH_INIT", s.dh + 1)

\* The client's KEXINIT is followed at once by a guessed KEXDH_INIT.
send_msg_kexinit(s, e, guess) ==
    LET t == [Encrypt(s, "KEXINIT", guess) EXCEPT
                !.dataallowed = FALSE, !.sentkexinit = TRUE,
                !.newtrans = 0, !.newrecv = 0, !.guess = guess]
    IN  IF e = "cli" THEN send_msg_kexdh_init(t) ELSE t

\* kexinitialise: ready for a new negotiation
kexinitialise(s) ==
    [s EXCEPT !.sentkexinit = FALSE, !.recvkexinit = FALSE,
              !.sentnewkeys = FALSE, !.recvnewkeys = FALSE,
              !.first_follows_matches = FALSE]

\* Each direction switches by itself, when its NEWKEYS has passed and the
\* new keys exist.
switch_keys_BothOnly(s) ==
    LET b == s.recvnewkeys /\ s.sentnewkeys
        u == [s EXCEPT !.krecv = IF b THEN s.newrecv ELSE @,
                       !.ktrans = IF b THEN s.newtrans ELSE @]
    IN  IF ~(s.sentkexinit /\ s.recvkexinit) THEN Exit(s, "Unexpected newkeys message")
        ELSE IF b THEN kexinitialise(u)
        ELSE u

switch_keys(s) ==
    LET r == s.recvnewkeys /\ s.newrecv # 0
        t == s.sentnewkeys /\ s.newtrans # 0
        u == [s EXCEPT !.krecv = IF r THEN s.newrecv ELSE @,
                       !.newrecv = IF r THEN 0 ELSE @,
                       !.ktrans = IF t THEN s.newtrans ELSE @,
                       !.newtrans = IF t THEN 0 ELSE @]
    IN  IF ~(s.sentkexinit /\ s.recvkexinit) THEN Exit(s, "Unexpected newkeys message")
        ELSE IF s.sentnewkeys /\ s.recvnewkeys THEN kexinitialise(u)
        ELSE u

\* NEWKEYS goes out under the old key; everything after it under the new.
send_msg_newkeys(s, key) ==
    LET t == Encrypt(s, "NEWKEYS", 0)
        u == [t EXCEPT !.sentnewkeys = TRUE,
                       !.donesecondkex = @ \/ s.donefirstkex,
                       !.donefirstkex = TRUE, !.dataallowed = TRUE,
                       !.newtrans = key, !.newrecv = key]   \* gen_new_keys
        w == switch_keys(u)
    IN  IF s.strict_kex THEN [w EXCEPT !.transseq = 0] ELSE w

recv_msg_newkeys(s) ==
    LET t == switch_keys([s EXCEPT !.recvnewkeys = TRUE])
    IN  [t EXCEPT !.recvseq = IF s.strict_kex THEN 0 ELSE @,
                  !.recvfirstnewkeys = TRUE]

\* read_kex_algos: strictness, and whether the client's guess was right.
\* The server sees the guess in the client's KEXINIT, the client knows it.
read_kex_algos_NeverIgnore(s, e, good) ==
    [s EXCEPT !.newtrans = 0, !.newrecv = 0,
              !.strict_kex = @ \/ (~s.donefirstkex /\ s.strictpeer),
              !.first_follows_matches = @ \/ (e = "cli" /\ good)]

read_kex_algos(s, e, good) ==
    [s EXCEPT !.newtrans = 0, !.newrecv = 0,
              !.strict_kex = @ \/ (~s.donefirstkex /\ s.strictpeer),
              !.ignorenext = @ \/ (e = "svr" /\ ~good),
              !.first_follows_matches = @ \/ (e = "cli" /\ good)]

recv_msg_kexinit(s, e, p, guess) ==
    LET t == IF s.sentkexinit THEN s ELSE send_msg_kexinit(s, e, guess)
        good == IF e = "svr" THEN p.arg = 1 ELSE t.guess = 1
        u == [read_kex_algos(t, e, good) EXCEPT
                !.requirenext = IF e = "svr" THEN "KEXDH_INIT" ELSE "KEXDH_REPLY",
                !.recvkexinit = TRUE]
    IN  IF t.recvkexinit THEN Exit(t, "Unexpected KEXINIT")
        ELSE IF u.strict_kex /\ ~u.donefirstkex /\ u.recvseq # 1
             THEN Exit(u, "First packet wasn't kexinit")
        ELSE u

\* svr-kex.c: reply, NEWKEYS, EXT_INFO after the first exchange
recv_msg_kexdh_init(s, p) ==
    LET t == send_msg_newkeys(Encrypt(s, "KEXDH_REPLY", p.arg), p.arg)
        u == IF t.donesecondkex THEN t ELSE Encrypt(t, "EXT_INFO", 0)
    IN  IF ~s.recvkexinit THEN Exit(s, "Premature kexdh_init message received")
        ELSE [u EXCEPT !.requirenext = "NEWKEYS"]

\* cli-kex.c: the signature only verifies for the DH value last sent
recv_msg_kexdh_reply(s, p) ==
    IF s.kex_state # "KEXDH_INIT_SENT" THEN Exit(s, "Received out-of-order kexdhreply")
    ELSE IF p.arg # s.dh THEN Exit(s, "Bad hostkey signature")
    ELSE [send_msg_newkeys(s, s.dh) EXCEPT !.requirenext = "NEWKEYS"]

-----------------------------------------------------------------------------
(* process-packet.c *)

\* recv_unimplemented names the packet it could not handle.
recv_unimplemented(s) == Encrypt(s, "UNIMPLEMENTED", s.recvseq - 1)

Dispatch(s, e, p, guess) ==
    CASE p.type = "KEXINIT" -> recv_msg_kexinit(s, e, p, guess)
      [] p.type = "KEXDH_INIT" /\ e = "svr" -> recv_msg_kexdh_init(s, p)
      [] p.type = "KEXDH_REPLY" /\ e = "cli" -> recv_msg_kexdh_reply(s, p)
      [] p.type = "NEWKEYS" -> recv_msg_newkeys(s)
      [] p.type = "DATA" -> [s EXCEPT !.got = p.arg]
      [] p.type = "EXT_INFO" /\ e = "cli" -> s
      [] OTHER -> recv_unimplemented(
                    IF p.type = "ODD" THEN [s EXCEPT !.got = p.arg] ELSE s)

\* Types 1..49 that may come between KEXINIT and NEWKEYS, answered with
\* UNIMPLEMENTED; KEXINIT and the service messages may not.
KexAllowed == {"KEXDH_INIT", "KEXDH_REPLY", "NEWKEYS", "EXT_INFO", "UNIMPLEMENTED"}

\* ignorenext is looked at before requirenext is cleared: an ignored guess
\* leaves the real KEXDH_INIT still required.
HandleExpected(s, e, p, guess) ==
    IF s.ignorenext THEN [s EXCEPT !.ignorenext = FALSE]
    ELSE Dispatch([s EXCEPT !.requirenext = None], e, p, guess)

process_packet(s, e, p, guess) ==
    LET first_strict_kex == s.strict_kex /\ ~s.recvfirstnewkeys
        t == IF p.type = "UNIMPLEMENTED" /\ ~first_strict_kex THEN s
             ELSE IF s.requirenext \notin {None, p.type}
             THEN IF p.type \in KexAllowed /\ ~first_strict_kex
                  THEN recv_unimplemented(s)
                  ELSE Exit(s, "Unexpected packet type")
             ELSE HandleExpected(s, e, p, guess)
    IN  [t EXCEPT !.lastpacket = p.type]

\* decrypt_packet; without a key there is no MAC to notice the number
decrypt_packet(s, p) ==
    IF p.key # s.krecv \/ (s.krecv # 0 /\ p.seq # s.recvseq)
    THEN Exit(s, "Integrity error")
    ELSE [s EXCEPT !.recvseq = @ + 1]

-----------------------------------------------------------------------------
(* common-session.c, cli-session.c *)

\* checktimeouts: a rekey that time or the amount of data calls for
checktimeouts(s, e, rekey, guess) ==
    IF rekey THEN send_msg_kexinit(s, e, guess) ELSE s

\* read_packet and process_packet
Receive(s, e, p, guess) ==
    LET t == decrypt_packet(s, p)
    IN  IF t.exit # None THEN t ELSE process_packet(t, e, p, guess)

\* cli_sessionloop, as far as the key exchange goes
cli_sessionloop_StaysSent(s) ==
    IF s.lastpacket = "KEXINIT" /\ s.kex_state = "NOTHING"
    THEN [(IF s.first_follows_matches THEN s ELSE send_msg_kexdh_init(s)) EXCEPT
            !.kex_state = "KEXDH_INIT_SENT"]
    ELSE s

cli_sessionloop(s) ==
    IF s.lastpacket = "KEXINIT" /\ s.kex_state = "NOTHING"
    THEN [(IF s.first_follows_matches THEN s ELSE send_msg_kexdh_init(s)) EXCEPT
            !.kex_state = "KEXDH_INIT_SENT"]
    ELSE IF s.sentnewkeys THEN [s EXCEPT !.kex_state = "NOTHING"]
    ELSE s

loophandler(s, e) == IF e = "cli" THEN cli_sessionloop(s) ELSE s

\* channelio and whatever else sends once the first exchange is over; the
\* server has nothing to say before it heard from the client.
Talk(s, type) ==
    IF type = None THEN s
    ELSE [Encrypt(s, type, s.sent + 1) EXCEPT !.sent = @ + 1]
MayTalk(s, e) ==
    /\ s.sent < MaxApp[e]
    /\ s.donefirstkex /\ (e = "svr" => s.recvfirstnewkeys)

\* One turn of session_loop at end e: timeouts, at most one packet, the
\* reply queue, the loop handler, then the channels.
Iterate(e, rekey, read, type, guess) ==
    LET p == Head(ep[Peer(e)].out)
        s1 == checktimeouts(ep[e], e, rekey, guess)
        s2 == IF read THEN Receive(s1, e, p, guess) ELSE s1
        s3 == loophandler(maybe_flush_reply_queue(s2), e)
    IN  /\ ep[e].exit = None
        /\ rekey => ~ep[e].sentkexinit /\ rekeys < MaxRekey
        /\ read => ep[Peer(e)].out # <<>>
        /\ guess = 1 => ~ep[e].sentkexinit     \* used only by a new KEXINIT
        /\ type # None => MayTalk(s3, e)
        /\ rekeys' = rekeys + (IF rekey THEN 1 ELSE 0)
        /\ ep' = [x \in End |->
                    IF x = e THEN (IF s2.exit # None THEN s2 ELSE Talk(s3, type))
                    ELSE IF read THEN [ep[x] EXCEPT !.out = Tail(@)] ELSE ep[x]]

Says == {None, "DATA", "ODD"}

\* svr_session and cli_session: the first KEXINIT is sent before the loop.
Init ==
    /\ \E strict \in BOOLEAN, g \in {0, 1} :
         ep = [e \in End |-> send_msg_kexinit(Fresh(strict), e, g)]
    /\ rekeys = 0

Next == \E e \in End, rekey, read \in BOOLEAN, type \in Says, guess \in {0, 1} :
            Iterate(e, rekey, read, type, guess)

Spec == Init /\ [][Next]_vars

\* select() reports a readable socket, so a packet that waits is read in the
\* end: weak fairness of reading, spelled out (reading is possible exactly
\* while the peer's packets wait, and only a read shortens its queue).
Waiting(e) == ep[e].exit = None /\ ep[Peer(e)].out # <<>>
Reads(e) == Len(ep'[Peer(e)].out) < Len(ep[Peer(e)].out)
FairSpec == Spec /\ \A e \in End : []<>(~Waiting(e)) \/ []<><<Reads(e)>>_vars

-----------------------------------------------------------------------------
\* Two ends of this code base never end each other's session: whatever the
\* timing of rekeys (also started by both at once), guesses and data, every
\* packet arrives under the key and number its receiver uses, and no packet
\* comes at a moment that process_packet or a kex handler refuses.
NoDropbearExit == \A e \in End : ep[e].exit = None

\* How many of the first n packets of q are application packets.
AppUpTo(q, n) == Cardinality({i \in 1..n : q[i].type \in {"DATA", "ODD"}})

\* Application packets are neither lost, duplicated nor reordered across
\* rekeys: those handled, on the way and waiting in the reply queue are
\* exactly those sent, in order.
ReplyQueueInOrder ==
    \A e \in End :
        LET q == ep[e].out \o ep[e].replyq
            got == ep[Peer(e)].got
        IN  /\ ep[e].sent = got + AppUpTo(q, Len(q))
            /\ \A i \in 1..Len(q) :
                 q[i].type \in {"DATA", "ODD"} => q[i].arg = got + AppUpTo(q, i)

\* No two packets of one direction are ever encrypted under the same key and
\* sequence number, although strict kex restarts the numbers: the restart
\* and the new key come together.  (The chacha20 nonce is that number.)
NonceNeverReused ==
    [][\A e \in End : ep'[e].last # ep[e].last =>
          \/ ep'[e].last[1] > ep[e].last[1]
          \/ ep'[e].last[1] = ep[e].last[1] /\ ep'[e].last[2] > ep[e].last[2]]_vars

\* A key exchange once started ends with both directions switched, and what
\* was held back for it is sent.
KexCompletes == \A e \in End : ep[e].sentkexinit ~> ~ep[e].sentkexinit
AllDelivered == \A e \in End : (ep[e].sent = MaxApp[e]) ~> (ep[Peer(e)].got = MaxApp[e])
=============================================================================
