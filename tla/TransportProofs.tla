-------------------------- MODULE TransportProofs --------------------------
(***************************************************************************)
(* That two ends of this code base never end each other's session, keep    *)
(* the order of application data across rekeys and never encrypt two       *)
(* packets of a direction under one key and number, for any number of      *)
(* rekeys, started by either end or by both at once, and of packets.       *)
(*                                                                         *)
(* The argument.  Each direction is a conversation that walks through      *)
(* points: the round (how many key exchanges it has finished), the stage   *)
(* within the next one, the next sequence number and the application       *)
(* packets so far.  A history h says, for both directions, which key each  *)
(* round uses, whether the client's guess of the round was right and       *)
(* whether kex is strict.  Step says which packets lead from a point to    *)
(* the next, Path that the packets under way lead from the point where     *)
(* their receiver is to the point where their sender is.  Common, Server   *)
(* and Client tie the flags of an end (sentkexinit, dataallowed,           *)
(* requirenext, ignorenext, kex_state ...) to its two points.  Joint, the  *)
(* inductive invariant, has the receiving point of each end be the start   *)
(* of the other's path: what arrives is then always what the receiver is   *)
(* ready for.  When the client starts a new exchange it settles the next   *)
(* key of the history; nobody has looked at that part of it yet (Agree).   *)
(***************************************************************************)
EXTENDS Transport, FiniteSetTheorems, WellFoundedInduction, TLAPS

\* What goes over the connection, and what waits in the reply queue.
PacketType == {"KEXINIT", "KEXDH_INIT", "KEXDH_REPLY", "NEWKEYS", "EXT_INFO",
               "UNIMPLEMENTED", "DATA", "ODD"}
Packet == [type : PacketType, arg : Int, key : Nat, seq : Nat]
Held == [type : {"DATA", "ODD"}, arg : Int]

\* The fields of a session, as Fresh gives them.
Fields == {
    "sentkexinit", "recvkexinit", "sentnewkeys", "recvnewkeys", "donefirstkex",
    "donesecondkex", "recvfirstnewkeys", "strictpeer", "strict_kex",
    "first_follows_matches", "dataallowed", "requirenext", "ignorenext",
    "lastpacket", "kex_state", "guess", "dh", "ktrans", "krecv", "newtrans",
    "newrecv", "transseq", "recvseq", "replyq", "out", "last", "sent", "got", "exit"}
\* s is a function on exactly these fields.
Has(s) == s = [f \in Fields |-> s[f]]

\* t differs from s in the fields of F at most.
Same(s, t, F) == \A f \in Fields \ F : t[f] = s[f]

\* The packet that Encrypt makes in state s.
Pkt(s, type, arg) == [type |-> type, arg |-> arg, key |-> s.ktrans, seq |-> s.transseq]

-----------------------------------------------------------------------------
(* What the functions that send change *)

\* encrypt_packet, outside a key exchange or for a packet that is part of it:
\* the packet goes to the write queue.
LEMMA EncryptSends ==
  ASSUME NEW s, Has(s), NEW type, NEW arg,
         s.dataallowed \/ packet_is_okay_kex(type),
         NEW t, t = Encrypt(s, type, arg)
  PROVE  /\ Has(t) /\ Same(s, t, {"out", "last", "transseq"})
         /\ t.out = Append(s.out, Pkt(s, type, arg))
         /\ t.last = <<s.ktrans, s.transseq>>
         /\ t.transseq = s.transseq + 1
<1>1. t = [s EXCEPT !.out = Append(@, Pkt(s, type, arg)),
                    !.last = <<s.ktrans, s.transseq>>, !.transseq = @ + 1]
  BY DEF Encrypt, Pkt
<1>2. Has(t) /\ Same(s, t, {"out", "last", "transseq"})
  BY <1>1 DEF Has, Same
<1>3. /\ t.out = Append(s.out, Pkt(s, type, arg))
      /\ t.last = <<s.ktrans, s.transseq>>
      /\ t.transseq = s.transseq + 1
  BY <1>1 DEF Has, Fields
<1> QED BY <1>2, <1>3

\* encrypt_packet during a key exchange: application packets wait.
LEMMA EncryptHolds ==
  ASSUME NEW s, Has(s), NEW type \in {"DATA", "ODD"}, NEW arg, ~s.dataallowed,
         NEW t, t = Encrypt(s, type, arg)
  PROVE  /\ Has(t) /\ Same(s, t, {"replyq"})
         /\ t.replyq = Append(s.replyq, [type |-> type, arg |-> arg])
<1>1. t = [s EXCEPT !.replyq = Append(@, [type |-> type, arg |-> arg])]
  BY DEF Encrypt, packet_is_okay_kex
<1>2. Has(t) /\ Same(s, t, {"replyq"})
  BY <1>1 DEF Has, Same
<1>3. t.replyq = Append(s.replyq, [type |-> type, arg |-> arg])
  BY <1>1 DEF Has, Fields
<1> QED BY <1>2, <1>3

\* The server's KEXINIT
LEMMA SvrKexinit ==
  ASSUME NEW s, Has(s), NEW g, s.dataallowed,
         NEW t, t = send_msg_kexinit(s, "svr", g)
  PROVE  /\ Has(t)
         /\ Same(s, t, {"out", "last", "transseq", "dataallowed", "sentkexinit",
                        "newtrans", "newrecv", "guess"})
         /\ t.out = Append(s.out, Pkt(s, "KEXINIT", g))
         /\ t.last = <<s.ktrans, s.transseq>>
         /\ t.transseq = s.transseq + 1
         /\ ~t.dataallowed /\ t.sentkexinit
         /\ t.newtrans = 0 /\ t.newrecv = 0 /\ t.guess = g
<1>1. PICK u : u = Encrypt(s, "KEXINIT", g)
  OBVIOUS
<1>2. /\ Has(u) /\ Same(s, u, {"out", "last", "transseq"})
      /\ u.out = Append(s.out, Pkt(s, "KEXINIT", g))
      /\ u.last = <<s.ktrans, s.transseq>>
      /\ u.transseq = s.transseq + 1
  BY <1>1, EncryptSends
<1>3. t = [u EXCEPT !.dataallowed = FALSE, !.sentkexinit = TRUE,
                    !.newtrans = 0, !.newrecv = 0, !.guess = g]
  BY <1>1 DEF send_msg_kexinit
<1>4. Has(t) /\ Same(u, t, {"dataallowed", "sentkexinit", "newtrans", "newrecv", "guess"})
  BY <1>2, <1>3 DEF Has, Same
<1>5. /\ ~t.dataallowed /\ t.sentkexinit
      /\ t.newtrans = 0 /\ t.newrecv = 0 /\ t.guess = g
  BY <1>2, <1>3 DEF Has, Fields
<1>6. t.out = u.out /\ t.last = u.last /\ t.transseq = u.transseq
  BY <1>4 DEF Same, Fields
<1>7. Same(s, t, {"out", "last", "transseq", "dataallowed", "sentkexinit",
                  "newtrans", "newrecv", "guess"})
  BY <1>2, <1>4 DEF Same
<1> QED BY <1>2, <1>4, <1>5, <1>6, <1>7

\* send_msg_kexdh_init, the guessed one and the one after a wrong guess
LEMMA CliDh ==
  ASSUME NEW s, Has(s), NEW t, t = send_msg_kexdh_init(s)
  PROVE  /\ Has(t) /\ Same(s, t, {"out", "last", "transseq", "dh"})
         /\ t.out = Append(s.out, Pkt(s, "KEXDH_INIT", s.dh + 1))
         /\ t.last = <<s.ktrans, s.transseq>>
         /\ t.transseq = s.transseq + 1
         /\ t.dh = s.dh + 1
<1>1. PICK u : u = [s EXCEPT !.dh = @ + 1]
  OBVIOUS
<1>2. Has(u) /\ Same(s, u, {"dh"})
  BY <1>1 DEF Has, Same
<1>3. u.dh = s.dh + 1
  BY <1>1 DEF Has, Fields
<1>4. u.out = s.out /\ u.ktrans = s.ktrans /\ u.transseq = s.transseq
  BY <1>2 DEF Same, Fields
<1>5. t = Encrypt(u, "KEXDH_INIT", s.dh + 1)
  BY <1>1 DEF send_msg_kexdh_init
<1>6. packet_is_okay_kex("KEXDH_INIT")
  BY DEF packet_is_okay_kex
<1>7. /\ Has(t) /\ Same(u, t, {"out", "last", "transseq"})
      /\ t.out = Append(u.out, Pkt(u, "KEXDH_INIT", s.dh + 1))
      /\ t.last = <<u.ktrans, u.transseq>>
      /\ t.transseq = u.transseq + 1
  BY <1>2, <1>5, <1>6, EncryptSends
<1>8. Pkt(u, "KEXDH_INIT", s.dh + 1) = Pkt(s, "KEXDH_INIT", s.dh + 1)
  BY <1>4 DEF Pkt
<1>9. t.dh = u.dh
  BY <1>7 DEF Same, Fields
<1>10. Same(s, t, {"out", "last", "transseq", "dh"})
  BY <1>2, <1>7 DEF Same
<1> QED BY <1>3, <1>4, <1>7, <1>8, <1>9, <1>10

\* The client's KEXINIT and the guessed KEXDH_INIT
LEMMA CliKexinit ==
  ASSUME NEW s, Has(s), NEW g, s.dataallowed,
         NEW t, t = send_msg_kexinit(s, "cli", g)
  PROVE  /\ Has(t)
         /\ Same(s, t, {"out", "last", "transseq", "dataallowed", "sentkexinit",
                        "newtrans", "newrecv", "guess", "dh"})
         /\ t.out = Append(Append(s.out, Pkt(s, "KEXINIT", g)),
                           [type |-> "KEXDH_INIT", arg |-> s.dh + 1,
                            key |-> s.ktrans, seq |-> s.transseq + 1])
         /\ t.last = <<s.ktrans, s.transseq + 1>>
         /\ t.transseq = s.transseq + 1 + 1
         /\ ~t.dataallowed /\ t.sentkexinit
         /\ t.newtrans = 0 /\ t.newrecv = 0 /\ t.guess = g /\ t.dh = s.dh + 1
<1>1. PICK u : u = send_msg_kexinit(s, "svr", g)
  OBVIOUS
<1>2. /\ Has(u)
      /\ Same(s, u, {"out", "last", "transseq", "dataallowed", "sentkexinit",
                     "newtrans", "newrecv", "guess"})
      /\ u.out = Append(s.out, Pkt(s, "KEXINIT", g))
      /\ u.transseq = s.transseq + 1
      /\ ~u.dataallowed /\ u.sentkexinit
      /\ u.newtrans = 0 /\ u.newrecv = 0 /\ u.guess = g
  BY <1>1, SvrKexinit
<1>3. t = send_msg_kexdh_init(u)
  BY <1>1 DEF send_msg_kexinit
<1>4. /\ Has(t) /\ Same(u, t, {"out", "last", "transseq", "dh"})
      /\ t.out = Append(u.out, Pkt(u, "KEXDH_INIT", u.dh + 1))
      /\ t.last = <<u.ktrans, u.transseq>>
      /\ t.transseq = u.transseq + 1
      /\ t.dh = u.dh + 1
  BY <1>2, <1>3, CliDh
<1>5. u.dh = s.dh /\ u.ktrans = s.ktrans
  BY <1>2 DEF Same, Fields
<1>6. Pkt(u, "KEXDH_INIT", u.dh + 1) = [type |-> "KEXDH_INIT", arg |-> s.dh + 1,
                            key |-> s.ktrans, seq |-> s.transseq + 1]
  BY <1>2, <1>5 DEF Pkt
<1>7. /\ t.dataallowed = u.dataallowed /\ t.sentkexinit = u.sentkexinit
      /\ t.newtrans = u.newtrans /\ t.newrecv = u.newrecv /\ t.guess = u.guess
  BY <1>4 DEF Same, Fields
<1>8. Same(s, t, {"out", "last", "transseq", "dataallowed", "sentkexinit",
                  "newtrans", "newrecv", "guess", "dh"})
  BY <1>2, <1>4 DEF Same
<1> QED BY <1>2, <1>4, <1>5, <1>6, <1>7, <1>8

\* NEWKEYS and the switch to the new key, at an end that has not had the
\* peer's NEWKEYS
LEMMA NewkeysSent ==
  ASSUME NEW s, Has(s), NEW key, key # 0,
         s.sentkexinit, s.recvkexinit, ~s.recvnewkeys,
         NEW t, t = send_msg_newkeys(s, key)
  PROVE  /\ Has(t)
         /\ Same(s, t, {"out", "last", "transseq", "sentnewkeys", "donesecondkex",
                        "donefirstkex", "dataallowed", "newtrans", "newrecv", "ktrans"})
         /\ t.out = Append(s.out, Pkt(s, "NEWKEYS", 0))
         /\ t.last = <<s.ktrans, s.transseq>>
         /\ t.transseq = (IF s.strict_kex THEN 0 ELSE s.transseq + 1)
         /\ t.sentnewkeys /\ t.donefirstkex /\ t.dataallowed
         /\ t.newtrans = 0 /\ t.newrecv = key /\ t.ktrans = key
<1>1. PICK a : a = Encrypt(s, "NEWKEYS", 0)
  OBVIOUS
<1>2. packet_is_okay_kex("NEWKEYS")
  BY DEF packet_is_okay_kex
<1>3. /\ Has(a) /\ Same(s, a, {"out", "last", "transseq"})
      /\ a.out = Append(s.out, Pkt(s, "NEWKEYS", 0))
      /\ a.last = <<s.ktrans, s.transseq>>
      /\ a.transseq = s.transseq + 1
  BY <1>1, <1>2, EncryptSends
<1>4. PICK u : u = [a EXCEPT !.sentnewkeys = TRUE,
                             !.donesecondkex = @ \/ s.donefirstkex,
                             !.donefirstkex = TRUE, !.dataallowed = TRUE,
                             !.newtrans = key, !.newrecv = key]
  OBVIOUS
<1>5. Has(u) /\ Same(a, u, {"sentnewkeys", "donesecondkex", "donefirstkex",
                            "dataallowed", "newtrans", "newrecv"})
  BY <1>3, <1>4 DEF Has, Same
<1>6. u.sentnewkeys /\ u.donefirstkex /\ u.dataallowed /\ u.newtrans = key /\ u.newrecv = key
  BY <1>3, <1>4 DEF Has, Fields
<1>7. /\ u.sentkexinit = s.sentkexinit /\ u.recvkexinit = s.recvkexinit
      /\ u.recvnewkeys = s.recvnewkeys
  BY <1>3, <1>5 DEF Same, Fields
<1>8. PICK w : w = [u EXCEPT !.krecv = u.krecv, !.newrecv = u.newrecv,
                             !.ktrans = u.newtrans, !.newtrans = 0]
  OBVIOUS
<1>9. Has(w) /\ Same(u, w, {"ktrans", "newtrans"})
  BY <1>5, <1>8, ZenonT(60) DEF Has, Same, Fields
<1>10. w.ktrans = key /\ w.newtrans = 0
  BY <1>5, <1>6, <1>8 DEF Has, Fields
<1>11. w = switch_keys(u)
  BY <1>6, <1>7, <1>8 DEF switch_keys
<1>12. t = IF s.strict_kex THEN [w EXCEPT !.transseq = 0] ELSE w
  BY <1>1, <1>4, <1>11 DEF send_msg_newkeys
<1>13. Has(t) /\ Same(w, t, {"transseq"})
  <2>1. CASE s.strict_kex
    BY <2>1, <1>9, <1>12 DEF Has, Same
  <2>2. CASE ~s.strict_kex
    BY <2>2, <1>9, <1>12 DEF Same
  <2> QED BY <2>1, <2>2
<1>14. t.transseq = (IF s.strict_kex THEN 0 ELSE s.transseq + 1)
  <2>1. w.transseq = s.transseq + 1
    BY <1>3, <1>5, <1>9 DEF Same, Fields
  <2>2. CASE s.strict_kex
    BY <2>2, <1>9, <1>12 DEF Has, Fields
  <2>3. CASE ~s.strict_kex
    BY <2>1, <2>3, <1>12
  <2> QED BY <2>2, <2>3
<1>15. /\ t.out = a.out /\ t.last = a.last
       /\ t.sentnewkeys /\ t.donefirstkex /\ t.dataallowed
       /\ t.newtrans = 0 /\ t.newrecv = key /\ t.ktrans = key
  <2>1. /\ w.out = a.out /\ w.last = a.last
        /\ w.sentnewkeys /\ w.donefirstkex /\ w.dataallowed /\ w.newrecv = key
    BY <1>5, <1>6, <1>9 DEF Same, Fields
  <2> QED BY <2>1, <1>10, <1>13 DEF Same, Fields
<1>16. Same(s, t, {"out", "last", "transseq", "sentnewkeys", "donesecondkex",
                   "donefirstkex", "dataallowed", "newtrans", "newrecv", "ktrans"})
  BY <1>3, <1>5, <1>9, <1>13 DEF Same
<1> QED BY <1>3, <1>13, <1>14, <1>15, <1>16

\* The peer's NEWKEYS, at an end that has sent its own
LEMMA NewkeysReceived ==
  ASSUME NEW s, Has(s), s.newrecv # 0, s.newtrans = 0,
         s.sentkexinit, s.recvkexinit, s.sentnewkeys,
         NEW t, t = recv_msg_newkeys(s)
  PROVE  /\ Has(t)
         /\ Same(s, t, {"recvseq", "recvfirstnewkeys", "krecv", "newrecv",
                        "sentkexinit", "recvkexinit", "sentnewkeys", "recvnewkeys",
                        "first_follows_matches"})
         /\ t.recvseq = (IF s.strict_kex THEN 0 ELSE s.recvseq)
         /\ t.recvfirstnewkeys /\ t.krecv = s.newrecv
         /\ ~t.sentkexinit /\ ~t.recvkexinit /\ ~t.sentnewkeys /\ ~t.recvnewkeys
         /\ ~t.first_follows_matches
<1>1. PICK a : a = [s EXCEPT !.recvnewkeys = TRUE]
  OBVIOUS
<1>2. Has(a) /\ Same(s, a, {"recvnewkeys"})
  BY <1>1 DEF Has, Same
<1>3. a.recvnewkeys
  BY <1>1 DEF Has, Fields
<1>4. /\ a.sentkexinit = s.sentkexinit /\ a.recvkexinit = s.recvkexinit
      /\ a.sentnewkeys = s.sentnewkeys /\ a.newrecv = s.newrecv
      /\ a.newtrans = s.newtrans
  BY <1>2 DEF Same, Fields
<1>5. PICK u : u = [a EXCEPT !.krecv = a.newrecv, !.newrecv = 0,
                             !.ktrans = a.ktrans, !.newtrans = a.newtrans]
  OBVIOUS
<1>6. Has(u) /\ Same(a, u, {"krecv", "newrecv"})
  BY <1>2, <1>5, ZenonT(60) DEF Has, Same, Fields
<1>7. u.krecv = s.newrecv
  BY <1>2, <1>4, <1>5 DEF Has, Fields
<1>8. PICK k : k = kexinitialise(u)
  OBVIOUS
<1>9. k = switch_keys(a)
  BY <1>3, <1>4, <1>5, <1>8 DEF switch_keys
<1>10. k = [u EXCEPT !.sentkexinit = FALSE, !.recvkexinit = FALSE,
                     !.sentnewkeys = FALSE, !.recvnewkeys = FALSE,
                     !.first_follows_matches = FALSE]
  BY <1>8 DEF kexinitialise
<1>11. Has(k) /\ Same(u, k, {"sentkexinit", "recvkexinit", "sentnewkeys",
                             "recvnewkeys", "first_follows_matches"})
  BY <1>6, <1>10 DEF Has, Same
<1>12. /\ ~k.sentkexinit /\ ~k.recvkexinit /\ ~k.sentnewkeys /\ ~k.recvnewkeys
       /\ ~k.first_follows_matches
  BY <1>6, <1>10 DEF Has, Fields
<1>13. t = [k EXCEPT !.recvseq = IF s.strict_kex THEN 0 ELSE k.recvseq,
                     !.recvfirstnewkeys = TRUE]
  BY <1>1, <1>9 DEF recv_msg_newkeys
<1>14. Has(t) /\ Same(k, t, {"recvseq", "recvfirstnewkeys"})
  BY <1>11, <1>13 DEF Has, Same
<1>15. k.recvseq = s.recvseq
  BY <1>2, <1>6, <1>11 DEF Same, Fields
<1>16. /\ t.recvseq = (IF s.strict_kex THEN 0 ELSE s.recvseq)
       /\ t.recvfirstnewkeys
  BY <1>11, <1>13, <1>15 DEF Has, Fields
<1>17. /\ t.krecv = s.newrecv
       /\ ~t.sentkexinit /\ ~t.recvkexinit /\ ~t.sentnewkeys /\ ~t.recvnewkeys
       /\ ~t.first_follows_matches
  <2>1. k.krecv = s.newrecv
    BY <1>7, <1>11 DEF Same, Fields
  <2> QED BY <2>1, <1>12, <1>14 DEF Same, Fields
<1>18. Same(s, t, {"recvseq", "recvfirstnewkeys", "krecv", "newrecv",
                   "sentkexinit", "recvkexinit", "sentnewkeys", "recvnewkeys",
                   "first_follows_matches"})
  BY <1>2, <1>6, <1>11, <1>14 DEF Same
<1> QED BY <1>14, <1>16, <1>17, <1>18

-----------------------------------------------------------------------------
(* What process_packet does with a packet of the right key and number *)

\* decrypt_packet takes a packet of the right key and number.
LEMMA Decrypted ==
  ASSUME NEW s, Has(s), s.exit = None, NEW p, p.key = s.krecv, p.seq = s.recvseq,
         NEW e, NEW g, NEW t, t = Receive(s, e, p, g)
  PROVE  \E a : /\ Has(a) /\ Same(s, a, {"recvseq"}) /\ a.recvseq = s.recvseq + 1
                /\ t = process_packet(a, e, p, g)
<1>1. PICK a : a = [s EXCEPT !.recvseq = @ + 1]
  OBVIOUS
<1>2. Has(a) /\ Same(s, a, {"recvseq"})
  BY <1>1 DEF Has, Same
<1>3. a.recvseq = s.recvseq + 1
  BY <1>1 DEF Has, Fields
<1>4. a.exit = None
  BY <1>2 DEF Same, Fields
<1>5. a = decrypt_packet(s, p)
  BY <1>1 DEF decrypt_packet
<1>6. t = process_packet(a, e, p, g)
  BY <1>4, <1>5 DEF Receive
<1> QED BY <1>2, <1>3, <1>6

\* The end of process_packet: lastpacket is remembered.
LEMMA Marked ==
  ASSUME NEW d, Has(d), NEW type, NEW t, t = [d EXCEPT !.lastpacket = type]
  PROVE  Has(t) /\ Same(d, t, {"lastpacket"}) /\ t.lastpacket = type
<1>1. Has(t) /\ Same(d, t, {"lastpacket"})
  BY DEF Has, Same
<1>2. t.lastpacket = type
  BY DEF Has, Fields
<1> QED BY <1>1, <1>2

\* UNIMPLEMENTED is passed over, whatever is required.
LEMMA PassedOver ==
  ASSUME NEW s, Has(s), s.exit = None, NEW p, p.key = s.krecv, p.seq = s.recvseq,
         p.type = "UNIMPLEMENTED", s.recvfirstnewkeys,
         NEW e, NEW g, NEW t, t = Receive(s, e, p, g)
  PROVE  /\ Has(t) /\ Same(s, t, {"recvseq", "lastpacket"})
         /\ t.recvseq = s.recvseq + 1 /\ t.lastpacket = p.type
<1>1. PICK a : /\ Has(a) /\ Same(s, a, {"recvseq"}) /\ a.recvseq = s.recvseq + 1
               /\ t = process_packet(a, e, p, g)
  BY Decrypted
<1>2. a.recvfirstnewkeys = s.recvfirstnewkeys
  BY <1>1 DEF Same, Fields
<1>3. t = [a EXCEPT !.lastpacket = p.type]
  BY <1>1, <1>2 DEF process_packet
<1>4. Has(t) /\ Same(a, t, {"lastpacket"}) /\ t.lastpacket = p.type
  BY <1>1, <1>3, Marked
<1>5. Same(s, t, {"recvseq", "lastpacket"})
  BY <1>1, <1>4 DEF Same
<1>6. t.recvseq = a.recvseq
  BY <1>4 DEF Same, Fields
<1> QED BY <1>1, <1>4, <1>5, <1>6

\* A packet that is ignored leaves what is required required.
LEMMA Ignored ==
  ASSUME NEW s, Has(s), s.exit = None, NEW p, p.key = s.krecv, p.seq = s.recvseq,
         p.type # "UNIMPLEMENTED", s.requirenext = p.type, s.ignorenext,
         NEW e, NEW g, NEW t, t = Receive(s, e, p, g)
  PROVE  /\ Has(t) /\ Same(s, t, {"recvseq", "lastpacket", "ignorenext"})
         /\ t.recvseq = s.recvseq + 1 /\ t.lastpacket = p.type /\ ~t.ignorenext
<1>1. PICK a : /\ Has(a) /\ Same(s, a, {"recvseq"}) /\ a.recvseq = s.recvseq + 1
               /\ t = process_packet(a, e, p, g)
  BY Decrypted
<1>2. a.requirenext = s.requirenext /\ a.ignorenext = s.ignorenext
  BY <1>1 DEF Same, Fields
<1>3. PICK d : d = [a EXCEPT !.ignorenext = FALSE]
  OBVIOUS
<1>4. t = [d EXCEPT !.lastpacket = p.type]
  BY <1>1, <1>2, <1>3 DEF process_packet, HandleExpected
<1>5. Has(d) /\ Same(a, d, {"ignorenext"})
  BY <1>1, <1>3 DEF Has, Same
<1>6. ~d.ignorenext
  BY <1>1, <1>3 DEF Has, Fields
<1>7. Has(t) /\ Same(d, t, {"lastpacket"}) /\ t.lastpacket = p.type
  BY <1>4, <1>5, Marked
<1>8. Same(s, t, {"recvseq", "lastpacket", "ignorenext"})
  BY <1>1, <1>5, <1>7 DEF Same
<1>9. t.recvseq = a.recvseq /\ t.ignorenext = d.ignorenext
  BY <1>5, <1>7 DEF Same, Fields
<1> QED BY <1>1, <1>6, <1>7, <1>8, <1>9

\* Anything else that is required, or comes when nothing is, gets to its
\* handler.
LEMMA Dispatched ==
  ASSUME NEW s, Has(s), s.exit = None, NEW p, p.key = s.krecv, p.seq = s.recvseq,
         p.type # "UNIMPLEMENTED", s.requirenext \in {None, p.type}, ~s.ignorenext,
         NEW e, NEW g, NEW t, t = Receive(s, e, p, g)
  PROVE  \E b : /\ Has(b) /\ Same(s, b, {"recvseq", "requirenext"})
                /\ b.recvseq = s.recvseq + 1 /\ b.requirenext = None
                /\ t = [Dispatch(b, e, p, g) EXCEPT !.lastpacket = p.type]
<1>1. PICK a : /\ Has(a) /\ Same(s, a, {"recvseq"}) /\ a.recvseq = s.recvseq + 1
               /\ t = process_packet(a, e, p, g)
  BY Decrypted
<1>2. a.requirenext = s.requirenext /\ a.ignorenext = s.ignorenext
  BY <1>1 DEF Same, Fields
<1>3. PICK b : b = [a EXCEPT !.requirenext = None]
  OBVIOUS
<1>4. HandleExpected(a, e, p, g) = Dispatch(b, e, p, g)
  BY <1>2, <1>3 DEF HandleExpected
<1>5. t = [Dispatch(b, e, p, g) EXCEPT !.lastpacket = p.type]
  BY <1>1, <1>2, <1>4 DEF process_packet
<1>6. Has(b) /\ Same(a, b, {"requirenext"})
  BY <1>1, <1>3 DEF Has, Same
<1>7. b.requirenext = None
  BY <1>1, <1>3 DEF Has, Fields
<1>8. Same(s, b, {"recvseq", "requirenext"})
  BY <1>1, <1>6 DEF Same
<1>9. b.recvseq = a.recvseq
  BY <1>6 DEF Same, Fields
<1> QED BY <1>1, <1>5, <1>6, <1>7, <1>8, <1>9

-----------------------------------------------------------------------------
(* The two conversations as histories *)

\* A point of a conversation: round, stage in the key exchange (0 outside one),
\* next sequence number, application packets so far.
Point == [r : Nat, st : 0..3, n : Nat, a : Nat]
\* x is not after y.
Le(x, y) == x.r < y.r \/ (x.r = y.r /\ x.st <= y.st)

\* A history of both directions: the key of each round, whether the guess made
\* in it was right, and whether kex is strict.
Hist == [key : [Nat -> Nat], good : [Nat -> BOOLEAN], strict : BOOLEAN]
\* Round 0 has no key, and later keys have higher serial numbers.
Rising(h) == h.key[0] = 0 /\ \A r \in Nat : h.key[r] < h.key[r + 1]

IsApp(p) == p.type \in {"DATA", "ODD"}

\* Packet p of end e leads from point x to point y: it carries the key and
\* number of x, NEWKEYS begins a round (and restarts the number if strict), and
\* only the packets that belong to the stage of x may come.
Step(e, p, x, y, h) ==
    /\ p.key = h.key[x.r] /\ p.seq = x.n
    /\ y.n = IF p.type = "NEWKEYS" /\ h.strict THEN 0 ELSE x.n + 1
    /\ y.a = IF IsApp(p) THEN x.a + 1 ELSE x.a
    /\ IsApp(p) => p.arg = y.a
    /\ y.r = IF p.type = "NEWKEYS" THEN x.r + 1 ELSE x.r
    /\ \/ /\ p.type = "KEXINIT" /\ x.st = 0 /\ y.st = 1
          /\ e = "cli" => (p.arg = 1 <=> h.good[x.r])
       \/ /\ p.type = "KEXDH_INIT" /\ e = "cli" /\ x.st = 1 /\ y.st = 2
          /\ h.good[x.r] => p.arg = h.key[x.r + 1]
       \/ /\ p.type = "KEXDH_INIT" /\ e = "cli" /\ x.st = 2 /\ y.st = 3
          /\ ~h.good[x.r] /\ p.arg = h.key[x.r + 1]
       \/ /\ p.type = "KEXDH_REPLY" /\ e = "svr" /\ x.st = 1 /\ y.st = 2
          /\ p.arg = h.key[x.r + 1]
       \/ /\ p.type = "NEWKEYS" /\ y.st = 0
          /\ x.st = IF e = "cli" /\ ~h.good[x.r] THEN 3 ELSE 2
       \/ p.type = "UNIMPLEMENTED" /\ x.r >= 1 /\ y.st = x.st
       \/ p.type = "EXT_INFO" /\ e = "svr" /\ x.r >= 1 /\ x.st = 0 /\ y.st = 0
       \/ IsApp(p) /\ x.r >= 1 /\ x.st = 0 /\ y.st = 0

\* The packets q of end e lead from point x to point y.
Path(e, q, x, y, h) ==
    /\ q \in Seq(Packet)
    /\ \E w \in [0..Len(q) -> Point] :
         /\ w[0] = x /\ w[Len(q)] = y
         /\ \A i \in 1..Len(q) : Step(e, q[i], w[i - 1], w[i], h)
         /\ \A i, j \in 0..Len(q) : i <= j => Le(w[i], w[j])

\* Keys and numbers agree with the points.
Numbers(s, h, snd, rcv) ==
    /\ s.ktrans = h.key[snd.r] /\ s.krecv = h.key[rcv.r]
    /\ s.transseq = snd.n /\ s.recvseq = rcv.n
    /\ s.newtrans = 0
    /\ snd.r # rcv.r => s.newrecv = h.key[snd.r]
    /\ rcv.r = 0 /\ rcv.st = 0 => rcv.n = 0

\* The flags of the key exchange say at which points the end is.
Phase(s, h, snd, rcv) ==
    /\ ~s.recvnewkeys
    /\ s.dataallowed <=> snd.st = 0
    /\ s.donefirstkex <=> snd.r >= 1
    /\ s.recvfirstnewkeys <=> rcv.r >= 1
    /\ s.strictpeer <=> h.strict
    /\ s.strict_kex <=> h.strict /\ (rcv.r >= 1 \/ rcv.st >= 1)
    /\ s.recvkexinit <=> rcv.st >= 1
    /\ s.sentkexinit <=> snd.st # 0 \/ rcv.st # 0
    /\ s.sentnewkeys <=> snd.r # rcv.r
    /\ snd.r # rcv.r => snd.r = rcv.r + 1 /\ snd.st = 0 /\ rcv.st >= 2

\* The reply queue holds the application packets that follow those sent.
Waits(s, snd, rcv) ==
    /\ s.replyq \in Seq(Held)
    /\ s.replyq # <<>> => snd.r >= 1
    /\ s.sent = snd.a + Len(s.replyq)
    /\ \A i \in 1..Len(s.replyq) : s.replyq[i].arg = snd.a + i
    /\ s.got = rcv.a

\* The key and number last used lie behind the next ones.
Unused(s, h, snd) ==
    /\ s.last \in Nat \X Int
    /\ s.last[1] <= h.key[snd.r]
    /\ s.last[1] = h.key[snd.r] => s.last[2] < snd.n

\* What both ends have in common: end s has sent up to point snd and received up
\* to point rcv.
Common(s, h, snd, rcv) ==
    /\ Has(s) /\ s.exit = None
    /\ Numbers(s, h, snd, rcv) /\ Phase(s, h, snd, rcv)
    /\ Waits(s, snd, rcv) /\ Unused(s, h, snd)

\* The server answers: its stage follows from what it has received, and what it
\* ignores or requires next from both.
Server(s, h, snd, rcv) ==
    /\ Common(s, h, snd, rcv)
    /\ snd.r = rcv.r =>
         \/ rcv.st = 0 /\ snd.st \in {0, 1}
         \/ rcv.st = 1 /\ snd.st = 1
         \/ rcv.st = 2 /\ snd.st = 1 /\ ~h.good[rcv.r]
    /\ snd.r # rcv.r => rcv.st = IF h.good[rcv.r] THEN 2 ELSE 3
    /\ s.ignorenext <=> rcv.st = 1 /\ ~h.good[rcv.r]
    /\ s.requirenext = IF rcv.st = 0 THEN (IF rcv.r = 0 THEN "KEXINIT" ELSE None)
                       ELSE IF snd.r = rcv.r THEN "KEXDH_INIT" ELSE "NEWKEYS"

\* The client, which knows what it guessed and which DH value it sent last
Client(c, h, snd, rcv) ==
    /\ Common(c, h, snd, rcv)
    /\ snd.r = rcv.r =>
         \/ rcv.st = 0 /\ snd.st \in {0, 2}
         \/ rcv.st = 1 /\ snd.st = 2 /\ (h.good[rcv.r] \/ c.kex_state = "NOTHING")
         \/ rcv.st = 1 /\ snd.st = 3 /\ ~h.good[rcv.r] /\ c.kex_state # "NOTHING"
    /\ snd.r # rcv.r => rcv.st = 2
    /\ ~c.ignorenext
    /\ c.requirenext = IF rcv.st = 0 THEN (IF rcv.r = 0 THEN "KEXINIT" ELSE None)
                       ELSE IF rcv.st = 1 THEN "KEXDH_REPLY" ELSE "NEWKEYS"
    /\ snd.st # 0 => (c.guess = 1 <=> h.good[snd.r])
    /\ c.first_follows_matches <=> rcv.st >= 1 /\ h.good[rcv.r]
    /\ c.dh = IF snd.st = 0 THEN h.key[snd.r]
              ELSE IF snd.st = 2 /\ ~h.good[snd.r] THEN h.key[snd.r + 1] - 1
              ELSE h.key[snd.r + 1]

\* after the loop handler
Settled(c, rcv) ==
    /\ c.kex_state = IF rcv.st = 1 THEN "KEXDH_INIT_SENT" ELSE "NOTHING"
    /\ rcv.st # 1 => c.lastpacket # "KEXINIT"
\* before it
Unsettled(c, rcv) ==
    /\ c.kex_state \in {"NOTHING", "KEXDH_INIT_SENT"}
    /\ rcv.st = 0 => c.kex_state = "NOTHING" /\ c.lastpacket # "KEXINIT"
    /\ rcv.st = 1 => (c.lastpacket = "KEXINIT" \/ c.kex_state # "NOTHING")
    /\ rcv.st = 2 => c.lastpacket # "KEXINIT"

\* The key and number y come after x, or are the same.
Later(x, y) == x = y \/ y[1] > x[1] \/ (y[1] = x[1] /\ y[2] > x[2])

-----------------------------------------------------------------------------
(* Paths *)

\* The order of points is transitive,
LEMMA LeTrans ==
  ASSUME NEW x \in Point, NEW y \in Point, NEW z \in Point, Le(x, y), Le(y, z)
  PROVE  Le(x, z)
BY DEF Le, Point

\* a step goes forward,
LEMMA StepLe ==
  ASSUME NEW e, NEW p, NEW x \in Point, NEW y \in Point, NEW h, Step(e, p, x, y, h)
  PROVE  Le(x, y)
BY DEF Step, Le, Point

\* and so does a path.
LEMMA PathLe ==
  ASSUME NEW e, NEW q, NEW x, NEW y, NEW h, Path(e, q, x, y, h)
  PROVE  x \in Point /\ y \in Point /\ Le(x, y)
BY DEF Path

\* Sending lengthens a path at its end,
LEMMA PathAppend ==
  ASSUME NEW e, NEW q, NEW x, NEW y, NEW z \in Point, NEW h, Path(e, q, x, y, h),
         NEW p \in Packet, Step(e, p, y, z, h)
  PROVE  Path(e, Append(q, p), x, z, h)
<1>1. q \in Seq(Packet)
  BY DEF Path
<1>2. PICK w \in [0..Len(q) -> Point] :
         /\ w[0] = x /\ w[Len(q)] = y
         /\ \A i \in 1..Len(q) : Step(e, q[i], w[i - 1], w[i], h)
         /\ \A i, j \in 0..Len(q) : i <= j => Le(w[i], w[j])
  BY DEF Path
<1>3. PICK n \in Nat : n = Len(q)
  BY <1>1
<1>4. PICK q2 : q2 = Append(q, p)
  OBVIOUS
<1>5. /\ q2 \in Seq(Packet) /\ Len(q2) = n + 1
      /\ \A i \in 1..n : q2[i] = q[i]
      /\ q2[n + 1] = p
  BY <1>1, <1>3, <1>4
<1>6. PICK v : v = [i \in 0..(n + 1) |-> IF i = n + 1 THEN z ELSE w[i]]
  OBVIOUS
<1>7. /\ v \in [0..(n + 1) -> Point]
      /\ v[n + 1] = z
      /\ \A i \in 0..n : v[i] = w[i]
  BY <1>2, <1>3, <1>6
<1>8. \A i \in 1..(n + 1) : Step(e, q2[i], v[i - 1], v[i], h)
  <2> TAKE i \in 1..(n + 1)
  <2>1. CASE i = n + 1
    <3>1. v[i - 1] = y /\ v[i] = z /\ q2[i] = p
      BY <2>1, <1>2, <1>3, <1>5, <1>7
    <3> QED BY <3>1
  <2>2. CASE i # n + 1
    <3>1. i \in 1..n /\ i - 1 \in 0..n /\ i \in 0..n
      BY <2>2, <1>3
    <3>2. v[i - 1] = w[i - 1] /\ v[i] = w[i] /\ q2[i] = q[i]
      BY <3>1, <1>5, <1>7
    <3> QED BY <3>1, <3>2, <1>2, <1>3
  <2> QED BY <2>1, <2>2
<1>9. Le(y, z) /\ y \in Point
  <2>1. y \in Point
    BY <1>2, <1>3
  <2> QED BY <2>1, StepLe
<1>10. \A i, j \in 0..(n + 1) : i <= j => Le(v[i], v[j])
  <2> TAKE i, j \in 0..(n + 1)
  <2> HAVE i <= j
  <2>1. CASE j = n + 1 /\ i = n + 1
    BY <2>1, <1>7 DEF Le, Point
  <2>2. CASE j = n + 1 /\ i # n + 1
    <3>1. i \in 0..n /\ n \in 0..n /\ i <= n
      BY <2>2, <1>3
    <3>2. Le(w[i], y) /\ w[i] \in Point
      BY <3>1, <1>2, <1>3
    <3>3. Le(w[i], z)
      BY <3>2, <1>9, LeTrans
    <3> QED BY <2>2, <3>1, <3>3, <1>7
  <2>3. CASE j # n + 1
    <3>1. i \in 0..n /\ j \in 0..n
      BY <2>3, <1>3
    <3> QED BY <3>1, <1>2, <1>3, <1>7
  <2> QED BY <2>1, <2>2, <2>3
<1>11. v[0] = x
  BY <1>2, <1>3, <1>7
<1> QED BY <1>4, <1>5, <1>7, <1>8, <1>10, <1>11 DEF Path

\* reading shortens it at its start.
LEMMA PathTail ==
  ASSUME NEW e, NEW q, NEW x, NEW y, NEW h, Path(e, q, x, y, h), q # <<>>
  PROVE  /\ Head(q) \in Packet
         /\ \E z \in Point : Step(e, Head(q), x, z, h) /\ Path(e, Tail(q), z, y, h)
<1>1. q \in Seq(Packet)
  BY DEF Path
<1>2. PICK w \in [0..Len(q) -> Point] :
         /\ w[0] = x /\ w[Len(q)] = y
         /\ \A i \in 1..Len(q) : Step(e, q[i], w[i - 1], w[i], h)
         /\ \A i, j \in 0..Len(q) : i <= j => Le(w[i], w[j])
  BY DEF Path
<1>3. PICK n \in Nat : n + 1 = Len(q)
  <2>1. Len(q) \in Nat /\ Len(q) # 0
    BY <1>1
  <2>2. Len(q) - 1 \in Nat /\ (Len(q) - 1) + 1 = Len(q)
    BY <2>1
  <2> QED BY <2>2
<1>4. PICK u : u = Tail(q)
  OBVIOUS
<1>5. /\ u \in Seq(Packet) /\ Len(u) = n
      /\ \A i \in 1..n : u[i] = q[i + 1]
      /\ Head(q) = q[1] /\ q[1] \in Packet
  BY <1>1, <1>3, <1>4
<1>6. PICK v : v = [i \in 0..n |-> w[i + 1]]
  OBVIOUS
<1>7. /\ v \in [0..n -> Point]
      /\ \A i \in 0..n : v[i] = w[i + 1]
  BY <1>2, <1>3, <1>6
<1>8. \A i \in 1..n : Step(e, u[i], v[i - 1], v[i], h)
  <2> TAKE i \in 1..n
  <2>1. i + 1 \in 1..(n + 1) /\ (i + 1) - 1 = i /\ i - 1 \in 0..n /\ i \in 0..n /\ (i - 1) + 1 = i
    OBVIOUS
  <2>2. Step(e, q[i + 1], w[(i + 1) - 1], w[i + 1], h)
    BY <2>1, <1>2, <1>3
  <2>3. v[i - 1] = w[(i - 1) + 1] /\ v[i] = w[i + 1] /\ u[i] = q[i + 1]
    BY <2>1, <1>5, <1>7
  <2> QED BY <2>1, <2>2, <2>3
<1>9. \A i, j \in 0..n : i <= j => Le(v[i], v[j])
  <2> TAKE i, j \in 0..n
  <2> HAVE i <= j
  <2>1. i + 1 \in 0..(n + 1) /\ j + 1 \in 0..(n + 1) /\ i + 1 <= j + 1
    OBVIOUS
  <2> QED BY <2>1, <1>2, <1>3, <1>7
<1>10. v[0] = w[1] /\ v[n] = y /\ w[1] \in Point
  BY <1>2, <1>3, <1>7
<1>11. Step(e, q[1], x, w[1], h)
  <2>1. 1 \in 1..Len(q) /\ 1 - 1 = 0
    BY <1>3
  <2> QED BY <2>1, <1>2
<1>12. Path(e, u, w[1], y, h)
  BY <1>5, <1>7, <1>8, <1>9, <1>10 DEF Path
<1> QED BY <1>4, <1>5, <1>10, <1>11, <1>12

\* What lies before round r does not change when the key of round r + 1 and
\* the guess of round r are settled.
Agree(h, k, r) ==
    /\ k.strict = h.strict
    /\ \A i \in 0..r : k.key[i] = h.key[i]
    /\ \A i \in Nat : i < r => k.good[i] = h.good[i]

\* A packet of end e that leads to y says nothing of the key of round r + 1.
Before(e, y, r) == y.r < r \/ (y.r = r /\ (y.st = 0 \/ (e = "svr" /\ y.st = 1)))

\* Such packets are the same in both histories,
LEMMA StepAgree ==
  ASSUME NEW e, NEW p, NEW x \in Point, NEW y \in Point, NEW h, NEW k, NEW r \in Nat,
         Step(e, p, x, y, h), Agree(h, k, r), Before(e, y, r)
  PROVE  Step(e, p, x, y, k)
<1>1. /\ x.r \in Nat /\ y.r \in Nat /\ x.st \in Nat /\ y.st \in Nat
      /\ x.r <= r
  BY DEF Step, Before, Point
<1>2. k.strict = h.strict /\ k.key[x.r] = h.key[x.r]
  BY <1>1 DEF Agree
<1>3. CASE x.r < r
  <2>1. k.key[x.r + 1] = h.key[x.r + 1] /\ k.good[x.r] = h.good[x.r]
    BY <1>1, <1>3 DEF Agree
  <2> QED BY <2>1, <1>2 DEF Step
<1>4. CASE x.r = r
  <2>1. /\ p.type \notin {"KEXDH_INIT", "KEXDH_REPLY", "NEWKEYS"}
        /\ p.type = "KEXINIT" => e # "cli"
    BY <1>1, <1>4 DEF Step, Before, IsApp
  <2> QED BY <2>1, <1>2 DEF Step
<1> QED BY <1>1, <1>3, <1>4

\* and so are the paths made of them.
LEMMA PathAgree ==
  ASSUME NEW e, NEW q, NEW x, NEW y, NEW h, NEW k, NEW r \in Nat,
         Path(e, q, x, y, h), Agree(h, k, r), Before(e, y, r)
  PROVE  Path(e, q, x, y, k)
<1>1. q \in Seq(Packet)
  BY DEF Path
<1>2. PICK w \in [0..Len(q) -> Point] :
         /\ w[0] = x /\ w[Len(q)] = y
         /\ \A i \in 1..Len(q) : Step(e, q[i], w[i - 1], w[i], h)
         /\ \A i, j \in 0..Len(q) : i <= j => Le(w[i], w[j])
  BY DEF Path
<1>3. \A i \in 1..Len(q) : Step(e, q[i], w[i - 1], w[i], k)
  <2> TAKE i \in 1..Len(q)
  <2>1. Len(q) \in Nat /\ i \in 0..Len(q) /\ i - 1 \in 0..Len(q) /\ Len(q) \in 0..Len(q) /\ i <= Len(q)
    BY <1>1
  <2>2. w[i] \in Point /\ w[i - 1] \in Point /\ Le(w[i], y) /\ y \in Point
    BY <2>1, <1>2
  <2>3. Before(e, w[i], r)
    BY <2>2 DEF Before, Le, Point
  <2> QED BY <2>2, <2>3, <1>2, StepAgree
<1> QED BY <1>1, <1>2, <1>3 DEF Path

-----------------------------------------------------------------------------
(* One end and the packets it has under way, from point x on *)

\* The server, whose packets under way begin at x, and the client
ServerEnd(s, h, snd, rcv, x) ==
    /\ h \in Hist /\ Rising(h) /\ snd \in Point /\ rcv \in Point
    /\ Server(s, h, snd, rcv) /\ Path("svr", s.out, x, snd, h)

ClientEnd(c, h, snd, rcv, x) ==
    /\ h \in Hist /\ Rising(h) /\ snd \in Point /\ rcv \in Point
    /\ Client(c, h, snd, rcv) /\ Path("cli", c.out, x, snd, h)

\* What the history gives for a round
LEMMA Keys ==
  ASSUME NEW h \in Hist, Rising(h), NEW r \in Nat
  PROVE  /\ h.key[r] \in Nat /\ h.key[r + 1] \in Nat
         /\ h.key[r + 1] # 0 /\ h.key[r] < h.key[r + 1]
         /\ h.good[r] \in BOOLEAN /\ h.strict \in BOOLEAN
BY DEF Hist, Rising

\* What was sent last lies behind what comes next, also across NEWKEYS.
LEMMA LastSent ==
  ASSUME NEW h \in Hist, Rising(h), NEW s, NEW snd \in Point, Unused(s, h, snd),
         s.ktrans = h.key[snd.r], s.transseq = snd.n,
         NEW t, t.last = <<s.ktrans, s.transseq>>,
         NEW z \in Point, (z.r = snd.r /\ z.n = snd.n + 1) \/ z.r = snd.r + 1
  PROVE  Unused(t, h, z) /\ Later(s.last, t.last)
<1>1. /\ snd.r \in Nat /\ snd.n \in Nat /\ z.r \in Nat
      /\ h.key[snd.r] \in Nat /\ h.key[snd.r + 1] \in Nat
      /\ h.key[snd.r] < h.key[snd.r + 1]
  BY Keys DEF Point
<1>0. PICK m : m = t.last
  OBVIOUS
<1>2. PICK k \in Nat, n \in Nat : k = h.key[snd.r] /\ n = snd.n /\ m = <<k, n>>
  BY <1>0, <1>1
<1>3. m \in Nat \X Int /\ m[1] = k /\ m[2] = n
  BY <1>2
<1>4. Unused(t, h, z)
  BY <1>0, <1>1, <1>2, <1>3 DEF Unused
<1>5. Later(s.last, m)
  BY <1>2, <1>3 DEF Unused, Later
<1> QED BY <1>0, <1>4, <1>5

\* A packet that is sent is one.
LEMMA PktIn ==
  ASSUME NEW s, s.ktrans \in Nat, s.transseq \in Nat, NEW type \in PacketType, NEW arg \in Int
  PROVE  /\ Pkt(s, type, arg) \in Packet
         /\ Pkt(s, type, arg).type = type /\ Pkt(s, type, arg).arg = arg
         /\ Pkt(s, type, arg).key = s.ktrans /\ Pkt(s, type, arg).seq = s.transseq
BY DEF Pkt, Packet

\* checktimeouts at the server
LEMMA SvrRekey ==
  ASSUME NEW s, NEW h, NEW snd, NEW rcv, NEW x, ServerEnd(s, h, snd, rcv, x),
         ~s.sentkexinit, NEW g \in {0, 1}, NEW t, t = send_msg_kexinit(s, "svr", g)
  PROVE  \E z : ServerEnd(t, h, z, rcv, x) /\ Later(s.last, t.last) /\ t.sentkexinit
<1>1. /\ h \in Hist /\ Rising(h) /\ snd \in Point /\ rcv \in Point
      /\ Server(s, h, snd, rcv) /\ Path("svr", s.out, x, snd, h)
      /\ Common(s, h, snd, rcv)
  BY DEF ServerEnd, Server
<1>2. /\ snd.r \in Nat /\ snd.st \in 0..3 /\ snd.n \in Nat /\ snd.a \in Nat
      /\ rcv.r \in Nat /\ rcv.st \in 0..3 /\ rcv.n \in Nat /\ rcv.a \in Nat
      /\ h.key[snd.r] \in Nat
  BY <1>1, Keys DEF Point
<1>3. /\ Has(s) /\ s.dataallowed /\ snd.st = 0 /\ rcv.st = 0 /\ snd.r = rcv.r
      /\ s.ktrans = h.key[snd.r] /\ s.transseq = snd.n
  BY <1>1, <1>2 DEF Common, Phase, Numbers
<1>4. /\ Has(t)
      /\ Same(s, t, {"out", "last", "transseq", "dataallowed", "sentkexinit",
                     "newtrans", "newrecv", "guess"})
      /\ t.out = Append(s.out, Pkt(s, "KEXINIT", g))
      /\ t.last = <<s.ktrans, s.transseq>>
      /\ t.transseq = s.transseq + 1
      /\ ~t.dataallowed /\ t.sentkexinit
      /\ t.newtrans = 0 /\ t.newrecv = 0 /\ t.guess = g
  BY <1>3, SvrKexinit
<1>5. PICK z : z = [r |-> snd.r, st |-> 1, n |-> snd.n + 1, a |-> snd.a]
  OBVIOUS
<1>6. z \in Point /\ z.r = snd.r /\ z.st = 1 /\ z.n = snd.n + 1 /\ z.a = snd.a
  BY <1>2, <1>5 DEF Point
<1>7. PICK p \in Packet : /\ p = Pkt(s, "KEXINIT", g)
                          /\ p.type = "KEXINIT" /\ p.key = s.ktrans /\ p.seq = s.transseq
  BY <1>2, <1>3, PktIn DEF PacketType
<1>8. Step("svr", p, snd, z, h)
  BY <1>2, <1>3, <1>6, <1>7 DEF Step, IsApp
<1>9. Path("svr", t.out, x, z, h)
  BY <1>1, <1>4, <1>6, <1>7, <1>8, PathAppend
<1>10. Unused(t, h, z) /\ Later(s.last, t.last)
  BY <1>1, <1>3, <1>4, <1>6, LastSent DEF Common
<1>11. /\ t.exit = s.exit /\ t.ktrans = s.ktrans /\ t.krecv = s.krecv
       /\ t.recvseq = s.recvseq /\ t.recvnewkeys = s.recvnewkeys
       /\ t.donefirstkex = s.donefirstkex /\ t.recvfirstnewkeys = s.recvfirstnewkeys
       /\ t.strictpeer = s.strictpeer /\ t.strict_kex = s.strict_kex
       /\ t.recvkexinit = s.recvkexinit /\ t.sentnewkeys = s.sentnewkeys
       /\ t.replyq = s.replyq /\ t.sent = s.sent /\ t.got = s.got
       /\ t.ignorenext = s.ignorenext /\ t.requirenext = s.requirenext
  BY <1>4 DEF Same, Fields
<1>12. Common(t, h, z, rcv)
  <2>1. Numbers(t, h, z, rcv)
    BY <1>1, <1>3, <1>4, <1>6, <1>11 DEF Common, Numbers
  <2>2. Phase(t, h, z, rcv)
    BY <1>1, <1>2, <1>3, <1>4, <1>6, <1>11 DEF Common, Phase
  <2>3. Waits(t, z, rcv)
    BY <1>1, <1>6, <1>11 DEF Common, Waits
  <2> QED BY <2>1, <2>2, <2>3, <1>1, <1>4, <1>10, <1>11 DEF Common
<1>13. Server(t, h, z, rcv)
  BY <1>1, <1>3, <1>6, <1>11, <1>12 DEF Server
<1> QED BY <1>1, <1>4, <1>6, <1>9, <1>10, <1>13 DEF ServerEnd

-----------------------------------------------------------------------------
(* Packets that are not part of a key exchange *)

\* y is rcv after one more packet outside the key exchange.
OneMore(rcv, y) == y.r = rcv.r /\ y.st = rcv.st /\ y.n = rcv.n + 1

\* An end that reads a packet which is not part of a key exchange
LEMMA CommonReads ==
  ASSUME NEW h \in Hist, NEW snd \in Point, NEW rcv \in Point, NEW y \in Point,
         NEW s, Common(s, h, snd, rcv), rcv.r >= 1, OneMore(rcv, y),
         NEW t, Has(t), Same(s, t, {"recvseq", "lastpacket", "got", "requirenext"}),
         t.recvseq = s.recvseq + 1, t.got = y.a
  PROVE  Common(t, h, snd, y)
<1>1. /\ t.exit = s.exit /\ t.ktrans = s.ktrans /\ t.krecv = s.krecv
      /\ t.transseq = s.transseq /\ t.recvnewkeys = s.recvnewkeys
      /\ t.newtrans = s.newtrans /\ t.newrecv = s.newrecv
      /\ t.dataallowed = s.dataallowed /\ t.sentkexinit = s.sentkexinit
      /\ t.donefirstkex = s.donefirstkex /\ t.recvfirstnewkeys = s.recvfirstnewkeys
      /\ t.strictpeer = s.strictpeer /\ t.strict_kex = s.strict_kex
      /\ t.recvkexinit = s.recvkexinit /\ t.sentnewkeys = s.sentnewkeys
      /\ t.replyq = s.replyq /\ t.sent = s.sent /\ t.last = s.last
  BY DEF Same, Fields
<1>2. Numbers(t, h, snd, y)
  BY <1>1 DEF Common, Numbers, OneMore, Point
<1>3. Phase(t, h, snd, y)
  BY <1>1 DEF Common, Phase, OneMore
<1>4. Waits(t, snd, y)
  BY <1>1 DEF Common, Waits
<1>5. Unused(t, h, snd)
  BY <1>1 DEF Common, Unused
<1> QED BY <1>1, <1>2, <1>3, <1>4, <1>5 DEF Common

\* An end that writes one
LEMMA CommonWrites ==
  ASSUME NEW h \in Hist, Rising(h), NEW snd \in Point, NEW rcv \in Point, NEW z \in Point,
         NEW s, Common(s, h, snd, rcv), OneMore(snd, z), z.a = snd.a,
         NEW t, Has(t), Same(s, t, {"out", "last", "transseq"}),
         t.last = <<s.ktrans, s.transseq>>, t.transseq = s.transseq + 1
  PROVE  Common(t, h, z, rcv) /\ Later(s.last, t.last)
<1>1. /\ t.exit = s.exit /\ t.ktrans = s.ktrans /\ t.krecv = s.krecv
      /\ t.recvseq = s.recvseq /\ t.recvnewkeys = s.recvnewkeys
      /\ t.newtrans = s.newtrans /\ t.newrecv = s.newrecv
      /\ t.dataallowed = s.dataallowed /\ t.sentkexinit = s.sentkexinit
      /\ t.donefirstkex = s.donefirstkex /\ t.recvfirstnewkeys = s.recvfirstnewkeys
      /\ t.strictpeer = s.strictpeer /\ t.strict_kex = s.strict_kex
      /\ t.recvkexinit = s.recvkexinit /\ t.sentnewkeys = s.sentnewkeys
      /\ t.replyq = s.replyq /\ t.sent = s.sent /\ t.got = s.got
  BY DEF Same, Fields
<1>2. Numbers(t, h, z, rcv)
  BY <1>1 DEF Common, Numbers, OneMore
<1>3. Phase(t, h, z, rcv)
  BY <1>1 DEF Common, Phase, OneMore
<1>4. Waits(t, z, rcv)
  BY <1>1 DEF Common, Waits, OneMore
<1>5. Unused(t, h, z) /\ Later(s.last, t.last)
  <2>1. s.ktrans = h.key[snd.r] /\ s.transseq = snd.n /\ Unused(s, h, snd)
    BY DEF Common, Numbers
  <2> QED BY <2>1, LastSent DEF OneMore
<1> QED BY <1>1, <1>2, <1>3, <1>4, <1>5 DEF Common

\* A packet outside the key exchange comes only where nothing is required,
\* UNIMPLEMENTED excepted.
LEMMA ServerReads ==
  ASSUME NEW s, NEW h, NEW snd, NEW rcv, NEW x, ServerEnd(s, h, snd, rcv, x),
         NEW y \in Point, rcv.r >= 1, OneMore(rcv, y),
         NEW t, Has(t), Same(s, t, {"recvseq", "lastpacket", "got", "requirenext"}),
         t.recvseq = s.recvseq + 1, t.got = y.a, t.requirenext = s.requirenext
  PROVE  ServerEnd(t, h, snd, y, x) /\ t.last = s.last
<1>1. t.out = s.out /\ t.ignorenext = s.ignorenext /\ t.last = s.last
  BY DEF Same, Fields
<1>2. Common(t, h, snd, y)
  BY CommonReads DEF ServerEnd, Server
<1>3. Server(t, h, snd, y)
  BY <1>1, <1>2 DEF ServerEnd, Server, OneMore
<1> QED BY <1>1, <1>3 DEF ServerEnd

\* and the client
LEMMA ClientReads ==
  ASSUME NEW s, NEW h, NEW snd, NEW rcv, NEW x, ClientEnd(s, h, snd, rcv, x),
         NEW y \in Point, rcv.r >= 1, OneMore(rcv, y),
         NEW t, Has(t), Same(s, t, {"recvseq", "lastpacket", "got", "requirenext"}),
         t.recvseq = s.recvseq + 1, t.got = y.a, t.requirenext = s.requirenext
  PROVE  ClientEnd(t, h, snd, y, x) /\ t.last = s.last /\ t.kex_state = s.kex_state
<1>1. /\ t.out = s.out /\ t.ignorenext = s.ignorenext /\ t.last = s.last
      /\ t.kex_state = s.kex_state /\ t.guess = s.guess /\ t.dh = s.dh
      /\ t.first_follows_matches = s.first_follows_matches
  BY DEF Same, Fields
<1>2. Common(t, h, snd, y)
  BY CommonReads DEF ClientEnd, Client
<1>3. Client(t, h, snd, y)
  BY <1>1, <1>2 DEF ClientEnd, Client, OneMore
<1> QED BY <1>1, <1>3 DEF ClientEnd

\* UNIMPLEMENTED, or EXT_INFO of the server: a step that keeps round and stage
LEMMA Noise ==
  ASSUME NEW e, NEW h \in Hist, Rising(h), NEW snd \in Point, NEW rcv \in Point, NEW s,
         Common(s, h, snd, rcv), NEW x, Path(e, s.out, x, snd, h), snd.r >= 1,
         NEW type, type = "UNIMPLEMENTED" \/ (type = "EXT_INFO" /\ e = "svr" /\ snd.st = 0),
         NEW arg \in Int, NEW t, t = Encrypt(s, type, arg)
  PROVE  \E z \in Point : /\ OneMore(snd, z) /\ z.a = snd.a
                          /\ Has(t) /\ Same(s, t, {"out", "last", "transseq"})
                          /\ Common(t, h, z, rcv) /\ Path(e, t.out, x, z, h)
                          /\ Later(s.last, t.last)
<1>1. /\ snd.r \in Nat /\ snd.st \in 0..3 /\ snd.n \in Nat /\ snd.a \in Nat
      /\ h.key[snd.r] \in Nat
  BY Keys DEF Point
<1>2. Has(s) /\ s.ktrans = h.key[snd.r] /\ s.transseq = snd.n
  BY DEF Common, Numbers
<1>3. packet_is_okay_kex(type) /\ type \in PacketType
  BY DEF packet_is_okay_kex, PacketType
<1>4. /\ Has(t) /\ Same(s, t, {"out", "last", "transseq"})
      /\ t.out = Append(s.out, Pkt(s, type, arg))
      /\ t.last = <<s.ktrans, s.transseq>>
      /\ t.transseq = s.transseq + 1
  BY <1>2, <1>3, EncryptSends
<1>5. PICK z : z = [r |-> snd.r, st |-> snd.st, n |-> snd.n + 1, a |-> snd.a]
  OBVIOUS
<1>6. z \in Point /\ z.r = snd.r /\ z.st = snd.st /\ z.n = snd.n + 1 /\ z.a = snd.a
  BY <1>1, <1>5 DEF Point
<1>7. PICK p \in Packet : /\ p = Pkt(s, type, arg)
                          /\ p.type = type /\ p.key = s.ktrans /\ p.seq = s.transseq
  BY <1>1, <1>2, <1>3, PktIn
<1>8. Step(e, p, snd, z, h)
  BY <1>1, <1>2, <1>6, <1>7 DEF Step, IsApp
<1>9. Path(e, t.out, x, z, h)
  BY <1>4, <1>6, <1>7, <1>8, PathAppend
<1>10. OneMore(snd, z)
  BY <1>6 DEF OneMore
<1>11. Common(t, h, z, rcv) /\ Later(s.last, t.last)
  BY <1>4, <1>6, <1>10, CommonWrites
<1> QED BY <1>4, <1>6, <1>9, <1>10, <1>11

\* at the server
LEMMA ServerNoise ==
  ASSUME NEW s, NEW h, NEW snd, NEW rcv, NEW x, ServerEnd(s, h, snd, rcv, x), snd.r >= 1,
         NEW type, type = "UNIMPLEMENTED" \/ (type = "EXT_INFO" /\ snd.st = 0),
         NEW arg \in Int, NEW t, t = Encrypt(s, type, arg)
  PROVE  \E z : ServerEnd(t, h, z, rcv, x) /\ Later(s.last, t.last)
<1>1. /\ h \in Hist /\ Rising(h) /\ snd \in Point /\ rcv \in Point
      /\ Common(s, h, snd, rcv) /\ Path("svr", s.out, x, snd, h) /\ Server(s, h, snd, rcv)
  BY DEF ServerEnd, Server
<1>2. PICK z \in Point : /\ OneMore(snd, z) /\ z.a = snd.a
                         /\ Has(t) /\ Same(s, t, {"out", "last", "transseq"})
                         /\ Common(t, h, z, rcv) /\ Path("svr", t.out, x, z, h)
                         /\ Later(s.last, t.last)
  BY <1>1, Noise, ZenonT(60)
<1>3. t.ignorenext = s.ignorenext /\ t.requirenext = s.requirenext
  BY <1>2 DEF Same, Fields
<1>4. Server(t, h, z, rcv)
  BY <1>1, <1>2, <1>3 DEF Server, OneMore
<1> QED BY <1>1, <1>2, <1>4 DEF ServerEnd

\* and at the client
LEMMA ClientNoise ==
  ASSUME NEW s, NEW h, NEW snd, NEW rcv, NEW x, ClientEnd(s, h, snd, rcv, x), snd.r >= 1,
         NEW arg \in Int, NEW t, t = Encrypt(s, "UNIMPLEMENTED", arg)
  PROVE  \E z : /\ ClientEnd(t, h, z, rcv, x) /\ Later(s.last, t.last)
                /\ t.kex_state = s.kex_state /\ t.lastpacket = s.lastpacket
<1>1. /\ h \in Hist /\ Rising(h) /\ snd \in Point /\ rcv \in Point
      /\ Common(s, h, snd, rcv) /\ Path("cli", s.out, x, snd, h) /\ Client(s, h, snd, rcv)
  BY DEF ClientEnd, Client
<1>2. PICK z \in Point : /\ OneMore(snd, z) /\ z.a = snd.a
                         /\ Has(t) /\ Same(s, t, {"out", "last", "transseq"})
                         /\ Common(t, h, z, rcv) /\ Path("cli", t.out, x, z, h)
                         /\ Later(s.last, t.last)
  BY <1>1, Noise
<1>3. /\ t.ignorenext = s.ignorenext /\ t.requirenext = s.requirenext
      /\ t.kex_state = s.kex_state /\ t.lastpacket = s.lastpacket
      /\ t.guess = s.guess /\ t.dh = s.dh
      /\ t.first_follows_matches = s.first_follows_matches
  BY <1>2 DEF Same, Fields
<1>4. Client(t, h, z, rcv)
  BY <1>1, <1>2, <1>3 DEF Client, OneMore
<1> QED BY <1>1, <1>2, <1>3, <1>4 DEF ClientEnd

-----------------------------------------------------------------------------
(* The server reads one packet of the client *)

\* Later is transitive.
LEMMA LaterTrans ==
  ASSUME NEW a \in Nat \X Int, NEW b \in Nat \X Int, NEW c \in Nat \X Int,
         Later(a, b), Later(b, c)
  PROVE  Later(a, c)
BY DEF Later

\* lastpacket, requirenext and kex_state are no part of Common.
LEMMA CommonMarked ==
  ASSUME NEW h, NEW snd, NEW rcv, NEW s, Common(s, h, snd, rcv),
         NEW t, Has(t), Same(s, t, {"lastpacket", "requirenext", "kex_state"})
  PROVE  Common(t, h, snd, rcv) /\ t.last = s.last /\ t.out = s.out
<1>1. /\ t.exit = s.exit /\ t.ktrans = s.ktrans /\ t.krecv = s.krecv
      /\ t.transseq = s.transseq /\ t.recvseq = s.recvseq /\ t.recvnewkeys = s.recvnewkeys
      /\ t.newtrans = s.newtrans /\ t.newrecv = s.newrecv
      /\ t.dataallowed = s.dataallowed /\ t.sentkexinit = s.sentkexinit
      /\ t.donefirstkex = s.donefirstkex /\ t.recvfirstnewkeys = s.recvfirstnewkeys
      /\ t.strictpeer = s.strictpeer /\ t.strict_kex = s.strict_kex
      /\ t.recvkexinit = s.recvkexinit /\ t.sentnewkeys = s.sentnewkeys
      /\ t.replyq = s.replyq /\ t.sent = s.sent /\ t.got = s.got
      /\ t.last = s.last /\ t.out = s.out
  BY DEF Same, Fields
<1>2. Numbers(t, h, snd, rcv)
  BY <1>1 DEF Common, Numbers
<1>3. Phase(t, h, snd, rcv)
  BY <1>1 DEF Common, Phase
<1>4. Waits(t, snd, rcv)
  BY <1>1 DEF Common, Waits
<1>5. Unused(t, h, snd)
  BY <1>1 DEF Common, Unused
<1> QED BY <1>1, <1>2, <1>3, <1>4, <1>5 DEF Common

\* The server does not look at lastpacket.
LEMMA ServerMarked ==
  ASSUME NEW s, NEW h, NEW snd, NEW rcv, NEW x, ServerEnd(s, h, snd, rcv, x),
         NEW t, Has(t), Same(s, t, {"lastpacket"})
  PROVE  ServerEnd(t, h, snd, rcv, x) /\ t.last = s.last
<1>1. Same(s, t, {"lastpacket", "requirenext", "kex_state"})
  BY DEF Same
<1>2. Common(t, h, snd, rcv) /\ t.last = s.last /\ t.out = s.out
  BY <1>1, CommonMarked DEF ServerEnd, Server
<1>3. t.ignorenext = s.ignorenext /\ t.requirenext = s.requirenext
  BY DEF Same, Fields
<1>4. Server(t, h, snd, rcv)
  BY <1>2, <1>3 DEF ServerEnd, Server
<1> QED BY <1>2, <1>4 DEF ServerEnd

\* What an end knows of a packet that is next.
LEMMA Arrives ==
  ASSUME NEW h, NEW snd \in Point, NEW rcv \in Point, NEW y \in Point, NEW s,
         Common(s, h, snd, rcv), NEW e, NEW p, Step(e, p, rcv, y, h)
  PROVE  /\ Has(s) /\ s.exit = None /\ p.key = s.krecv /\ p.seq = s.recvseq
         /\ s.got = rcv.a
         /\ s.recvfirstnewkeys <=> rcv.r >= 1
         /\ snd.r >= rcv.r
BY DEF Common, Numbers, Phase, Waits, Step, Point

\* The server reads UNIMPLEMENTED.
LEMMA SvrReadsUnimplemented ==
  ASSUME NEW s, NEW h, NEW snd, NEW rcv, NEW x, ServerEnd(s, h, snd, rcv, x),
         NEW p, NEW y \in Point, Step("cli", p, rcv, y, h), p.type = "UNIMPLEMENTED",
         NEW g, NEW t, t = Receive(s, "svr", p, g)
  PROVE  \E z : ServerEnd(t, h, z, y, x) /\ Later(s.last, t.last)
<1>1. /\ Has(s) /\ s.exit = None /\ p.key = s.krecv /\ p.seq = s.recvseq
      /\ s.got = rcv.a
      /\ s.recvfirstnewkeys <=> rcv.r >= 1
  BY Arrives DEF ServerEnd, Server
<1>2. rcv.r >= 1 /\ OneMore(rcv, y) /\ y.a = rcv.a
  BY DEF Step, IsApp, OneMore
<1>3. /\ Has(t) /\ Same(s, t, {"recvseq", "lastpacket"})
      /\ t.recvseq = s.recvseq + 1 /\ t.lastpacket = p.type
  BY <1>1, <1>2, PassedOver
<1>4. Same(s, t, {"recvseq", "lastpacket", "got", "requirenext"})
  BY <1>3 DEF Same
<1>5. t.got = s.got /\ t.requirenext = s.requirenext
  BY <1>3 DEF Same, Fields
<1>6. ServerEnd(t, h, snd, y, x) /\ t.last = s.last
  BY <1>1, <1>2, <1>3, <1>4, <1>5, ServerReads
<1> QED BY <1>6 DEF Later

\* The state that a handler of an application packet leaves
LEMMA GotIt ==
  ASSUME NEW s, NEW b, Has(b), Same(s, b, {"recvseq", "requirenext"}),
         b.recvseq = s.recvseq + 1, b.requirenext = None, NEW arg,
         NEW c, c = [b EXCEPT !.got = arg]
  PROVE  /\ Has(c) /\ Same(s, c, {"recvseq", "lastpacket", "got", "requirenext"})
         /\ c.recvseq = s.recvseq + 1 /\ c.requirenext = None /\ c.got = arg
<1>1. Has(c) /\ Same(b, c, {"got"})
  BY DEF Has, Same
<1>2. c.got = arg
  BY DEF Has, Fields
<1>3. c.recvseq = b.recvseq /\ c.requirenext = b.requirenext
  BY <1>1 DEF Same, Fields
<1>4. Same(s, c, {"recvseq", "lastpacket", "got", "requirenext"})
  BY <1>1 DEF Same
<1> QED BY <1>1, <1>2, <1>3, <1>4

\* The server reads an application packet, and answers one it cannot handle.
LEMMA SvrReadsApp ==
  ASSUME NEW s, NEW h, NEW snd, NEW rcv, NEW x, ServerEnd(s, h, snd, rcv, x),
         NEW p, NEW y \in Point, Step("cli", p, rcv, y, h), IsApp(p),
         NEW g, NEW t, t = Receive(s, "svr", p, g)
  PROVE  \E z : ServerEnd(t, h, z, y, x) /\ Later(s.last, t.last)
<1>1. /\ Has(s) /\ s.exit = None /\ p.key = s.krecv /\ p.seq = s.recvseq
      /\ snd \in Point /\ rcv \in Point /\ snd.r >= rcv.r
  BY Arrives DEF ServerEnd, Server
<1>2. rcv.r >= 1 /\ rcv.st = 0 /\ OneMore(rcv, y) /\ p.arg = y.a
  BY DEF Step, IsApp, OneMore
<1>3. s.requirenext = None /\ ~s.ignorenext
  BY <1>2, <1>1 DEF ServerEnd, Server, Point
<1>4. p.type # "UNIMPLEMENTED" /\ p.type \in {"DATA", "ODD"}
  BY DEF IsApp
<1>5. PICK b : /\ Has(b) /\ Same(s, b, {"recvseq", "requirenext"})
               /\ b.recvseq = s.recvseq + 1 /\ b.requirenext = None
               /\ t = [Dispatch(b, "svr", p, g) EXCEPT !.lastpacket = p.type]
  BY <1>1, <1>3, <1>4, Dispatched
<1>6. PICK c : c = [b EXCEPT !.got = p.arg]
  OBVIOUS
<1>7. /\ Has(c) /\ Same(s, c, {"recvseq", "lastpacket", "got", "requirenext"})
      /\ c.recvseq = s.recvseq + 1 /\ c.requirenext = None /\ c.got = p.arg
  BY <1>5, <1>6, GotIt
<1>8. ServerEnd(c, h, snd, y, x) /\ c.last = s.last
  BY <1>2, <1>3, <1>7, ServerReads
<1>9. CASE p.type = "DATA"
  <2>1. Dispatch(b, "svr", p, g) = c
    BY <1>9, <1>6 DEF Dispatch
  <2>2. Has(t) /\ Same(c, t, {"lastpacket"})
    BY <2>1, <1>5, <1>7, Marked
  <2>3. ServerEnd(t, h, snd, y, x) /\ t.last = c.last
    BY <2>2, <1>8, ServerMarked
  <2> QED BY <2>3, <1>8 DEF Later
<1>10. CASE p.type = "ODD"
  <2>1. PICK d : d = Encrypt(c, "UNIMPLEMENTED", c.recvseq - 1)
    OBVIOUS
  <2>2. Dispatch(b, "svr", p, g) = d
    BY <2>1, <1>10, <1>6 DEF Dispatch, recv_unimplemented
  <2>3. c.recvseq - 1 \in Int /\ snd.r >= 1
    <3>1. s.recvseq \in Nat
      BY DEF ServerEnd, Server, Common, Numbers, Point
    <3> QED BY <3>1, <1>1, <1>2, <1>7 DEF Point
  <2>4. PICK z : ServerEnd(d, h, z, y, x) /\ Later(c.last, d.last)
    BY <2>1, <2>3, <1>8, ServerNoise
  <2>5. Has(d)
    BY <2>4 DEF ServerEnd, Server, Common
  <2>6. Has(t) /\ Same(d, t, {"lastpacket"})
    BY <2>2, <2>5, <1>5, Marked
  <2>7. ServerEnd(t, h, z, y, x) /\ t.last = d.last
    BY <2>4, <2>6, ServerMarked
  <2> QED BY <2>4, <2>7, <1>8
<1> QED BY <1>4, <1>9, <1>10

\* The handler of KEXINIT at an end that has sent its own
LEMMA KexinitReceived ==
  ASSUME NEW b, Has(b), b.sentkexinit, ~b.recvkexinit, ~b.donefirstkex => b.recvseq = 1,
         NEW e \in End, NEW p, NEW g, NEW t, t = recv_msg_kexinit(b, e, p, g)
  PROVE  /\ Has(t)
         /\ Same(b, t, {"newtrans", "newrecv", "strict_kex", "ignorenext",
                        "first_follows_matches", "requirenext", "recvkexinit"})
         /\ t.newtrans = 0
         /\ t.strict_kex <=> b.strict_kex \/ (~b.donefirstkex /\ b.strictpeer)
         /\ t.ignorenext <=> b.ignorenext \/ (e = "svr" /\ p.arg # 1)
         /\ t.first_follows_matches <=>
              b.first_follows_matches \/ (e = "cli" /\ b.guess = 1)
         /\ t.requirenext = IF e = "svr" THEN "KEXDH_INIT" ELSE "KEXDH_REPLY"
         /\ t.recvkexinit
<1>1. PICK good \in BOOLEAN : good = (IF e = "svr" THEN p.arg = 1 ELSE b.guess = 1)
  OBVIOUS
<1>2. PICK a : a = read_kex_algos(b, e, good)
  OBVIOUS
<1>3. a = [b EXCEPT !.newtrans = 0, !.newrecv = 0,
              !.strict_kex = @ \/ (~b.donefirstkex /\ b.strictpeer),
              !.ignorenext = @ \/ (e = "svr" /\ ~good),
              !.first_follows_matches = @ \/ (e = "cli" /\ good)]
  BY <1>2 DEF read_kex_algos
<1>4. Has(a) /\ Same(b, a, {"newtrans", "newrecv", "strict_kex", "ignorenext",
                            "first_follows_matches"})
  BY <1>3 DEF Has, Same
<1>5. /\ a.newtrans = 0
      /\ a.strict_kex = (b.strict_kex \/ (~b.donefirstkex /\ b.strictpeer))
      /\ a.ignorenext = (b.ignorenext \/ (e = "svr" /\ ~good))
      /\ a.first_follows_matches = (b.first_follows_matches \/ (e = "cli" /\ good))
  BY <1>3 DEF Has, Fields
<1>6. PICK u : u = [a EXCEPT
                !.requirenext = IF e = "svr" THEN "KEXDH_INIT" ELSE "KEXDH_REPLY",
                !.recvkexinit = TRUE]
  OBVIOUS
<1>7. Has(u) /\ Same(a, u, {"requirenext", "recvkexinit"})
  BY <1>4, <1>6 DEF Has, Same
<1>8. /\ u.requirenext = IF e = "svr" THEN "KEXDH_INIT" ELSE "KEXDH_REPLY"
      /\ u.recvkexinit
  BY <1>4, <1>6 DEF Has, Fields
<1>9. /\ u.newtrans = a.newtrans /\ u.strict_kex = a.strict_kex
      /\ u.ignorenext = a.ignorenext
      /\ u.first_follows_matches = a.first_follows_matches
  BY <1>7 DEF Same, Fields
<1>10. u.donefirstkex = b.donefirstkex /\ u.recvseq = b.recvseq
  BY <1>4, <1>7 DEF Same, Fields
<1>11. t = u
  BY <1>1, <1>2, <1>6, <1>10 DEF recv_msg_kexinit
<1>12. Same(b, u, {"newtrans", "newrecv", "strict_kex", "ignorenext",
                   "first_follows_matches", "requirenext", "recvkexinit"})
  BY <1>4, <1>7 DEF Same
<1>13. /\ u.ignorenext <=> b.ignorenext \/ (e = "svr" /\ p.arg # 1)
       /\ u.first_follows_matches <=>
              b.first_follows_matches \/ (e = "cli" /\ b.guess = 1)
       /\ u.strict_kex <=> b.strict_kex \/ (~b.donefirstkex /\ b.strictpeer)
  BY <1>1, <1>5, <1>9 DEF End
<1> QED BY <1>5, <1>7, <1>8, <1>9, <1>11, <1>12, <1>13

\* Common at an end that has sent KEXINIT and receives the peer's
LEMMA CommonKexinit ==
  ASSUME NEW h \in Hist, NEW snd \in Point, NEW rcv \in Point, NEW y \in Point,
         NEW s, Common(s, h, snd, rcv), s.sentkexinit, NEW e \in End, NEW o \in End,
         NEW p, Step(o, p, rcv, y, h), p.type = "KEXINIT",
         s.requirenext \in {None, "KEXINIT"}, ~s.ignorenext,
         NEW g, NEW t, t = Receive(s, e, p, g)
  PROVE  /\ Common(t, h, snd, y) /\ t.last = s.last /\ t.out = s.out
         /\ t.requirenext = IF e = "svr" THEN "KEXDH_INIT" ELSE "KEXDH_REPLY"
         /\ t.ignorenext <=> e = "svr" /\ p.arg # 1
         /\ t.first_follows_matches <=>
              s.first_follows_matches \/ (e = "cli" /\ s.guess = 1)
         /\ t.lastpacket = "KEXINIT" /\ t.guess = s.guess /\ t.dh = s.dh
         /\ t.kex_state = s.kex_state
<1>1. /\ Has(s) /\ s.exit = None /\ p.key = s.krecv /\ p.seq = s.recvseq
      /\ s.got = rcv.a
  BY Arrives
<1>2. rcv.st = 0 /\ y.st = 1 /\ y.r = rcv.r /\ y.n = rcv.n + 1 /\ y.a = rcv.a
  BY DEF Step, IsApp
<1>3. /\ snd.r \in Nat /\ snd.st \in 0..3 /\ rcv.r \in Nat /\ rcv.n \in Nat
      /\ snd.r = rcv.r /\ snd.st # 0
  BY <1>2 DEF Point, Common, Phase
<1>4. PICK b : /\ Has(b) /\ Same(s, b, {"recvseq", "requirenext"})
               /\ b.recvseq = s.recvseq + 1 /\ b.requirenext = None
               /\ t = [Dispatch(b, e, p, g) EXCEPT !.lastpacket = p.type]
  BY <1>1, Dispatched
<1>5. /\ b.sentkexinit = s.sentkexinit /\ b.recvkexinit = s.recvkexinit
      /\ b.donefirstkex = s.donefirstkex /\ b.strictpeer = s.strictpeer
      /\ b.strict_kex = s.strict_kex /\ b.ignorenext = s.ignorenext
      /\ b.first_follows_matches = s.first_follows_matches /\ b.guess = s.guess
  BY <1>4 DEF Same, Fields
<1>6. ~s.donefirstkex => b.recvseq = 1
  BY <1>2, <1>3, <1>4 DEF Common, Phase, Numbers
<1>7. b.sentkexinit /\ ~b.recvkexinit /\ (~b.donefirstkex => b.recvseq = 1)
  BY <1>2, <1>5, <1>6 DEF Common, Phase
<1>8. PICK d : d = recv_msg_kexinit(b, e, p, g)
  OBVIOUS
<1>9. /\ Has(d)
      /\ Same(b, d, {"newtrans", "newrecv", "strict_kex", "ignorenext",
                     "first_follows_matches", "requirenext", "recvkexinit"})
      /\ d.newtrans = 0
      /\ d.strict_kex <=> b.strict_kex \/ (~b.donefirstkex /\ b.strictpeer)
      /\ d.ignorenext <=> b.ignorenext \/ (e = "svr" /\ p.arg # 1)
      /\ d.first_follows_matches <=>
           b.first_follows_matches \/ (e = "cli" /\ b.guess = 1)
      /\ d.requirenext = IF e = "svr" THEN "KEXDH_INIT" ELSE "KEXDH_REPLY"
      /\ d.recvkexinit
  BY <1>4, <1>7, <1>8, KexinitReceived
<1>10. t = [d EXCEPT !.lastpacket = "KEXINIT"]
  BY <1>4, <1>8 DEF Dispatch
<1>11. Has(t) /\ Same(d, t, {"lastpacket"}) /\ t.lastpacket = "KEXINIT"
  BY <1>9, <1>10, Marked
<1>12. /\ t.newtrans = d.newtrans /\ t.strict_kex = d.strict_kex
       /\ t.ignorenext = d.ignorenext /\ t.recvkexinit = d.recvkexinit
       /\ t.first_follows_matches = d.first_follows_matches
       /\ t.requirenext = d.requirenext
  BY <1>11 DEF Same, Fields
<1>13. Same(s, t, {"newtrans", "newrecv", "strict_kex", "ignorenext", "recvseq",
                   "first_follows_matches", "requirenext", "recvkexinit", "lastpacket"})
  BY <1>4, <1>9, <1>11 DEF Same
<1>14. /\ t.exit = s.exit /\ t.ktrans = s.ktrans /\ t.krecv = s.krecv
       /\ t.transseq = s.transseq /\ t.recvnewkeys = s.recvnewkeys
       /\ t.dataallowed = s.dataallowed /\ t.sentkexinit = s.sentkexinit
       /\ t.donefirstkex = s.donefirstkex /\ t.recvfirstnewkeys = s.recvfirstnewkeys
       /\ t.strictpeer = s.strictpeer /\ t.sentnewkeys = s.sentnewkeys
       /\ t.replyq = s.replyq /\ t.sent = s.sent /\ t.got = s.got
       /\ t.last = s.last /\ t.out = s.out /\ t.guess = s.guess /\ t.dh = s.dh
       /\ t.kex_state = s.kex_state
  BY <1>13 DEF Same, Fields
<1>15. t.recvseq = s.recvseq + 1
  BY <1>4, <1>9, <1>11 DEF Same, Fields
<1>16. Numbers(t, h, snd, y)
  BY <1>2, <1>3, <1>9, <1>12, <1>14, <1>15 DEF Common, Numbers
<1>17. Phase(t, h, snd, y)
  <2>1. t.strict_kex <=> h.strict
    BY <1>2, <1>3, <1>5, <1>9, <1>12 DEF Common, Phase
  <2>2. t.recvkexinit /\ t.sentkexinit
    BY <1>9, <1>12, <1>14
  <2> QED BY <2>1, <2>2, <1>2, <1>3, <1>14 DEF Common, Phase
<1>18. Waits(t, snd, y)
  BY <1>2, <1>14 DEF Common, Waits
<1>19. Unused(t, h, snd)
  BY <1>14 DEF Common, Unused
<1>20. Common(t, h, snd, y)
  BY <1>11, <1>14, <1>16, <1>17, <1>18, <1>19 DEF Common
<1> QED BY <1>5, <1>9, <1>11, <1>12, <1>14, <1>20

\* The server reads KEXINIT, its own already sent.
LEMMA SvrReadsKexinit ==
  ASSUME NEW s, NEW h, NEW snd, NEW rcv, NEW x, ServerEnd(s, h, snd, rcv, x),
         NEW p, NEW y \in Point, Step("cli", p, rcv, y, h), p.type = "KEXINIT",
         s.sentkexinit, NEW g, NEW t, t = Receive(s, "svr", p, g)
  PROVE  \E z : ServerEnd(t, h, z, y, x) /\ Later(s.last, t.last)
<1>1. /\ h \in Hist /\ Rising(h) /\ snd \in Point /\ rcv \in Point
      /\ Server(s, h, snd, rcv) /\ Path("svr", s.out, x, snd, h)
      /\ Common(s, h, snd, rcv)
  BY DEF ServerEnd, Server
<1>2. /\ rcv.st = 0 /\ y.st = 1 /\ y.r = rcv.r
      /\ p.arg = 1 <=> h.good[rcv.r]
  <2>1. rcv.st = 0 /\ y.st = 1 /\ y.r = rcv.r
    BY DEF Step, IsApp
  <2>2. p.arg = 1 <=> h.good[rcv.r]
    BY DEF Step, IsApp
  <2> QED BY <2>1, <2>2
<1>3. snd.r = rcv.r /\ snd.st = 1
  BY <1>1, <1>2 DEF Server, Common, Phase, Point
<1>4. s.requirenext \in {None, "KEXINIT"} /\ ~s.ignorenext
  BY <1>1, <1>2 DEF Server
<1>5. /\ Common(t, h, snd, y) /\ t.last = s.last /\ t.out = s.out
      /\ t.requirenext = "KEXDH_INIT"
      /\ t.ignorenext <=> p.arg # 1
  BY <1>1, <1>4, CommonKexinit DEF End
<1>6. Server(t, h, snd, y)
  BY <1>2, <1>3, <1>5 DEF Server
<1> QED BY <1>1, <1>5, <1>6 DEF ServerEnd, Later

\* A wrong guess is dropped; the real value is still to come.
LEMMA SvrIgnoresGuess ==
  ASSUME NEW s, NEW h, NEW snd, NEW rcv, NEW x, ServerEnd(s, h, snd, rcv, x),
         NEW p, NEW y \in Point, Step("cli", p, rcv, y, h), p.type = "KEXDH_INIT",
         rcv.st = 1, ~h.good[rcv.r], NEW g, NEW t, t = Receive(s, "svr", p, g)
  PROVE  \E z : ServerEnd(t, h, z, y, x) /\ Later(s.last, t.last)
<1>1. /\ h \in Hist /\ Rising(h) /\ snd \in Point /\ rcv \in Point
      /\ Server(s, h, snd, rcv) /\ Path("svr", s.out, x, snd, h)
      /\ Common(s, h, snd, rcv)
  BY DEF ServerEnd, Server
<1>2. y.st = 2 /\ y.r = rcv.r /\ y.n = rcv.n + 1 /\ y.a = rcv.a
  BY DEF Step, IsApp
<1>3. snd.r = rcv.r /\ snd.st = 1 /\ s.ignorenext /\ s.requirenext = "KEXDH_INIT"
  BY <1>1 DEF Server, Common, Phase, Point
<1>4. Has(s) /\ s.exit = None /\ p.key = s.krecv /\ p.seq = s.recvseq
  BY <1>1, Arrives
<1>5. /\ Has(t) /\ Same(s, t, {"recvseq", "lastpacket", "ignorenext"})
      /\ t.recvseq = s.recvseq + 1 /\ ~t.ignorenext
  BY <1>3, <1>4, Ignored
<1>6. /\ t.exit = s.exit /\ t.ktrans = s.ktrans /\ t.krecv = s.krecv
      /\ t.transseq = s.transseq /\ t.recvnewkeys = s.recvnewkeys
      /\ t.newtrans = s.newtrans /\ t.newrecv = s.newrecv
      /\ t.dataallowed = s.dataallowed /\ t.sentkexinit = s.sentkexinit
      /\ t.donefirstkex = s.donefirstkex /\ t.recvfirstnewkeys = s.recvfirstnewkeys
      /\ t.strictpeer = s.strictpeer /\ t.strict_kex = s.strict_kex
      /\ t.recvkexinit = s.recvkexinit /\ t.sentnewkeys = s.sentnewkeys
      /\ t.replyq = s.replyq /\ t.sent = s.sent /\ t.got = s.got
      /\ t.last = s.last /\ t.out = s.out /\ t.requirenext = s.requirenext
  BY <1>5 DEF Same, Fields
<1>7. Numbers(t, h, snd, y)
  BY <1>1, <1>2, <1>3, <1>5, <1>6 DEF Common, Numbers
<1>8. Phase(t, h, snd, y)
  BY <1>1, <1>2, <1>3, <1>6 DEF Common, Phase
<1>9. Waits(t, snd, y)
  BY <1>1, <1>2, <1>6 DEF Common, Waits
<1>10. Unused(t, h, snd)
  BY <1>1, <1>6 DEF Common, Unused
<1>11. Common(t, h, snd, y)
  BY <1>1, <1>5, <1>6, <1>7, <1>8, <1>9, <1>10 DEF Common
<1>12. Server(t, h, snd, y)
  BY <1>2, <1>3, <1>5, <1>6, <1>11 DEF Server
<1> QED BY <1>1, <1>6, <1>12 DEF ServerEnd, Later

\* KEXDH_REPLY and NEWKEYS answer the client's value, EXT_INFO follows in the
\* first exchange.
LEMMA SvrAnswersDh ==
  ASSUME NEW s, NEW h, NEW snd, NEW rcv, NEW x, ServerEnd(s, h, snd, rcv, x),
         NEW p, NEW y \in Point, Step("cli", p, rcv, y, h), p.type = "KEXDH_INIT",
         rcv.st = 2 \/ h.good[rcv.r], NEW g, NEW t, t = Receive(s, "svr", p, g)
  PROVE  \E z : ServerEnd(t, h, z, y, x) /\ Later(s.last, t.last)
<1>1. /\ h \in Hist /\ Rising(h) /\ snd \in Point /\ rcv \in Point
      /\ Server(s, h, snd, rcv) /\ Path("svr", s.out, x, snd, h)
      /\ Common(s, h, snd, rcv)
  BY DEF ServerEnd, Server
<1>2. /\ y.r = rcv.r /\ y.n = rcv.n + 1 /\ y.a = rcv.a /\ p.arg = h.key[rcv.r + 1]
      /\ rcv.st >= 1 /\ y.st = (IF h.good[rcv.r] THEN 2 ELSE 3)
      /\ rcv.st = 1 => h.good[rcv.r]
      /\ rcv.st = 2 => ~h.good[rcv.r]
      /\ rcv.st \in {1, 2}
  BY DEF Step, IsApp
<1>3. /\ snd.r = rcv.r /\ snd.st = 1 /\ ~s.ignorenext /\ s.requirenext = "KEXDH_INIT"
  BY <1>1, <1>2 DEF Server, Common, Phase, Point
<1>4. /\ snd.r \in Nat /\ snd.n \in Nat /\ snd.a \in Nat /\ rcv.r \in Nat /\ rcv.n \in Nat
      /\ h.key[snd.r] \in Nat /\ h.key[snd.r + 1] \in Nat /\ h.key[snd.r + 1] # 0
      /\ h.strict \in BOOLEAN
  BY <1>1, Keys DEF Point
<1>5. Has(s) /\ s.exit = None /\ p.key = s.krecv /\ p.seq = s.recvseq
  BY <1>1, Arrives
<1>6. PICK b : /\ Has(b) /\ Same(s, b, {"recvseq", "requirenext"})
               /\ b.recvseq = s.recvseq + 1 /\ b.requirenext = None
               /\ t = [Dispatch(b, "svr", p, g) EXCEPT !.lastpacket = p.type]
  BY <1>3, <1>5, Dispatched
<1>7. PICK k : k = h.key[snd.r + 1]
  OBVIOUS
<1>8. PICK a : a = Encrypt(b, "KEXDH_REPLY", k)
  OBVIOUS
<1>9. packet_is_okay_kex("KEXDH_REPLY")
  BY DEF packet_is_okay_kex
<1>10. /\ Has(a) /\ Same(b, a, {"out", "last", "transseq"})
       /\ a.out = Append(b.out, Pkt(b, "KEXDH_REPLY", k))
       /\ a.last = <<b.ktrans, b.transseq>>
       /\ a.transseq = b.transseq + 1
  BY <1>6, <1>8, <1>9, EncryptSends
<1>11. /\ b.ktrans = h.key[snd.r] /\ b.transseq = snd.n /\ b.out = s.out /\ b.last = s.last
       /\ b.sentkexinit = s.sentkexinit /\ b.recvkexinit = s.recvkexinit
       /\ b.recvnewkeys = s.recvnewkeys /\ b.strict_kex = s.strict_kex
  <2>1. /\ b.ktrans = s.ktrans /\ b.transseq = s.transseq /\ b.out = s.out
        /\ b.last = s.last
        /\ b.sentkexinit = s.sentkexinit /\ b.recvkexinit = s.recvkexinit
        /\ b.recvnewkeys = s.recvnewkeys /\ b.strict_kex = s.strict_kex
    BY <1>6 DEF Same, Fields
  <2> QED BY <2>1, <1>1 DEF Common, Numbers
<1>12. PICK m : m = [r |-> snd.r, st |-> 2, n |-> snd.n + 1, a |-> snd.a]
  OBVIOUS
<1>13. m \in Point /\ m.r = snd.r /\ m.st = 2 /\ m.n = snd.n + 1 /\ m.a = snd.a
  BY <1>4, <1>12 DEF Point
<1>14. Path("svr", a.out, x, m, h)
  <2>1. PICK q \in Packet : /\ q = Pkt(b, "KEXDH_REPLY", k)
                            /\ q.type = "KEXDH_REPLY" /\ q.arg = k
                            /\ q.key = b.ktrans /\ q.seq = b.transseq
    BY <1>4, <1>7, <1>11, PktIn DEF PacketType
  <2>2. Step("svr", q, snd, m, h)
    BY <2>1, <1>3, <1>4, <1>7, <1>11, <1>13 DEF Step, IsApp
  <2> QED BY <2>1, <2>2, <1>1, <1>10, <1>11, <1>13, PathAppend
<1>15. Unused(a, h, m) /\ Later(s.last, a.last)
  <2>1. Unused(b, h, snd)
    BY <1>1, <1>11 DEF Common, Unused
  <2>2. Unused(a, h, m) /\ Later(b.last, a.last)
    BY <2>1, <1>1, <1>10, <1>11, <1>13, LastSent
  <2> QED BY <2>2, <1>11
<1>16. a.sentkexinit /\ a.recvkexinit /\ ~a.recvnewkeys /\ (a.strict_kex <=> h.strict)
  <2>1. /\ a.sentkexinit = b.sentkexinit /\ a.recvkexinit = b.recvkexinit
        /\ a.recvnewkeys = b.recvnewkeys /\ a.strict_kex = b.strict_kex
    BY <1>10 DEF Same, Fields
  <2>2. b.sentkexinit /\ b.recvkexinit /\ ~b.recvnewkeys /\ (b.strict_kex <=> h.strict)
    BY <1>1, <1>2, <1>3, <1>11 DEF Common, Phase
  <2> QED BY <2>1, <2>2
<1>17. a.ktrans = h.key[m.r] /\ a.transseq = m.n
  <2>1. a.ktrans = b.ktrans
    BY <1>10 DEF Same, Fields
  <2> QED BY <2>1, <1>10, <1>11, <1>13
<1>18. PICK n : n = send_msg_newkeys(a, k)
  OBVIOUS
<1>19. /\ Has(n)
       /\ Same(a, n, {"out", "last", "transseq", "sentnewkeys", "donesecondkex",
                      "donefirstkex", "dataallowed", "newtrans", "newrecv", "ktrans"})
       /\ n.out = Append(a.out, Pkt(a, "NEWKEYS", 0))
       /\ n.last = <<a.ktrans, a.transseq>>
       /\ n.transseq = (IF a.strict_kex THEN 0 ELSE a.transseq + 1)
       /\ n.sentnewkeys /\ n.donefirstkex /\ n.dataallowed
       /\ n.newtrans = 0 /\ n.newrecv = k /\ n.ktrans = k
  <2>1. k # 0 /\ Has(a) /\ a.sentkexinit /\ a.recvkexinit /\ ~a.recvnewkeys
    BY <1>4, <1>7, <1>10, <1>16
  <2> QED BY <2>1, <1>18, NewkeysSent
<1>20. PICK z : z = [r |-> snd.r + 1, st |-> 0, n |-> (IF h.strict THEN 0 ELSE m.n + 1),
                     a |-> snd.a]
  OBVIOUS
<1>21. /\ z \in Point /\ z.r = snd.r + 1 /\ z.st = 0 /\ z.a = snd.a
       /\ z.n = (IF h.strict THEN 0 ELSE m.n + 1)
  BY <1>4, <1>13, <1>20 DEF Point
<1>22. Path("svr", n.out, x, z, h)
  <2>1. PICK q \in Packet : /\ q = Pkt(a, "NEWKEYS", 0) /\ q.type = "NEWKEYS"
                            /\ q.key = a.ktrans /\ q.seq = a.transseq
    BY <1>4, <1>13, <1>17, PktIn DEF PacketType
  <2>2. Step("svr", q, m, z, h)
    BY <2>1, <1>4, <1>13, <1>17, <1>21 DEF Step, IsApp
  <2> QED BY <2>1, <2>2, <1>14, <1>19, <1>21, PathAppend
<1>23. Unused(n, h, z) /\ Later(a.last, n.last)
  BY <1>1, <1>13, <1>15, <1>17, <1>19, <1>21, LastSent
<1>24. Later(s.last, n.last)
  BY <1>1, <1>15, <1>23, LaterTrans DEF Common, Unused
<1>25. /\ n.exit = s.exit /\ n.krecv = s.krecv /\ n.recvnewkeys = s.recvnewkeys
       /\ n.sentkexinit = s.sentkexinit /\ n.recvfirstnewkeys = s.recvfirstnewkeys
       /\ n.strictpeer = s.strictpeer /\ n.strict_kex = s.strict_kex
       /\ n.recvkexinit = s.recvkexinit
       /\ n.replyq = s.replyq /\ n.sent = s.sent /\ n.got = s.got
       /\ n.ignorenext = s.ignorenext /\ n.recvseq = s.recvseq + 1
  <2>1. Same(b, n, {"out", "last", "transseq", "sentnewkeys", "donesecondkex",
                    "donefirstkex", "dataallowed", "newtrans", "newrecv", "ktrans"})
    BY <1>10, <1>19 DEF Same
  <2>2. n.recvseq = b.recvseq
    BY <2>1 DEF Same, Fields
  <2>3. Same(s, n, {"out", "last", "transseq", "sentnewkeys", "donesecondkex",
                    "donefirstkex", "dataallowed", "newtrans", "newrecv", "ktrans",
                    "recvseq", "requirenext"})
    BY <2>1, <1>6 DEF Same
  <2> QED BY <2>2, <2>3, <1>6 DEF Same, Fields
<1>26. Common(n, h, z, y)
  <2>1. n.transseq = z.n
    BY <1>16, <1>17, <1>19, <1>21
  <2>2. Numbers(n, h, z, y)
    BY <2>1, <1>1, <1>2, <1>3, <1>4, <1>7, <1>19, <1>21, <1>25 DEF Common, Numbers
  <2>3. Phase(n, h, z, y)
    BY <1>1, <1>2, <1>3, <1>4, <1>19, <1>21, <1>25 DEF Common, Phase
  <2>4. Waits(n, z, y)
    BY <1>1, <1>2, <1>4, <1>21, <1>25 DEF Common, Waits
  <2> QED BY <2>2, <2>3, <2>4, <1>1, <1>19, <1>23, <1>25 DEF Common
<1>27. PICK u : u = IF n.donesecondkex THEN n ELSE Encrypt(n, "EXT_INFO", 0)
  OBVIOUS
<1>28. \E v \in Point : /\ v.r = z.r /\ v.st = 0 /\ Common(u, h, v, y)
                        /\ Path("svr", u.out, x, v, h) /\ Later(s.last, u.last)
                        /\ u.ignorenext = s.ignorenext
  <2>1. CASE n.donesecondkex
    BY <2>1, <1>21, <1>22, <1>24, <1>25, <1>26, <1>27
  <2>2. CASE ~n.donesecondkex
    <3>1. u = Encrypt(n, "EXT_INFO", 0)
      BY <2>2, <1>27
    <3>2. PICK v \in Point : /\ OneMore(z, v) /\ v.a = z.a
                             /\ Same(n, u, {"out", "last", "transseq"})
                             /\ Common(u, h, v, y) /\ Path("svr", u.out, x, v, h)
                             /\ Later(n.last, u.last)
      <4>1. z.r >= 1 /\ 0 \in Int
        BY <1>4, <1>21
      <4> QED BY <4>1, <3>1, <1>1, <1>21, <1>22, <1>26, Noise
    <3>3. u.ignorenext = n.ignorenext
      BY <3>2 DEF Same, Fields
    <3>4. Later(s.last, u.last)
      BY <3>2, <1>1, <1>24, <1>26, LaterTrans DEF Common, Unused
    <3> QED BY <3>2, <3>3, <3>4, <1>21, <1>25 DEF OneMore
  <2> QED BY <2>1, <2>2
<1>29. PICK v \in Point : /\ v.r = z.r /\ v.st = 0 /\ Common(u, h, v, y)
                          /\ Path("svr", u.out, x, v, h) /\ Later(s.last, u.last)
                          /\ u.ignorenext = s.ignorenext
  BY <1>28
<1>30. PICK d : d = [u EXCEPT !.requirenext = "NEWKEYS"]
  OBVIOUS
<1>31. Dispatch(b, "svr", p, g) = d
  <2>1. p.arg = k /\ b.recvkexinit
    BY <1>1, <1>2, <1>3, <1>7, <1>11 DEF Common, Phase
  <2> QED BY <2>1, <1>8, <1>18, <1>27, <1>30 DEF Dispatch, recv_msg_kexdh_init
<1>32. Has(u)
  BY <1>29 DEF Common
<1>33. Has(d) /\ Same(u, d, {"requirenext"})
  BY <1>30, <1>32 DEF Has, Same
<1>34. d.requirenext = "NEWKEYS"
  BY <1>30, <1>32 DEF Has, Fields
<1>35. Has(t) /\ Same(d, t, {"lastpacket"})
  BY <1>6, <1>31, <1>33, Marked
<1>36. t.requirenext = "NEWKEYS" /\ t.ignorenext = u.ignorenext
  BY <1>33, <1>34, <1>35 DEF Same, Fields
<1>37. Same(u, t, {"lastpacket", "requirenext", "kex_state"})
  BY <1>33, <1>35 DEF Same
<1>38. Common(t, h, v, y) /\ t.last = u.last /\ t.out = u.out
  BY <1>29, <1>35, <1>37, CommonMarked
<1>39. Server(t, h, v, y)
  <2>1. v.r # y.r /\ y.st # 0 /\ y.st # 1 /\ y.r = rcv.r
    BY <1>2, <1>3, <1>4, <1>21, <1>29
  <2>2. ~t.ignorenext
    BY <1>3, <1>29, <1>36
  <2> QED BY <2>1, <2>2, <1>2, <1>36, <1>38 DEF Server
<1> QED BY <1>1, <1>29, <1>38, <1>39 DEF ServerEnd

\* Common at an end that has sent NEWKEYS and receives the peer's
LEMMA CommonNewkeys ==
  ASSUME NEW h \in Hist, Rising(h), NEW snd \in Point, NEW rcv \in Point, NEW y \in Point,
         NEW s, Common(s, h, snd, rcv), snd.r # rcv.r, NEW e \in End, NEW o \in End,
         NEW p, Step(o, p, rcv, y, h), p.type = "NEWKEYS",
         s.requirenext = "NEWKEYS", ~s.ignorenext,
         NEW g, NEW t, t = Receive(s, e, p, g)
  PROVE  /\ Common(t, h, snd, y) /\ t.last = s.last /\ t.out = s.out
         /\ t.requirenext = None /\ ~t.ignorenext /\ ~t.first_follows_matches
         /\ t.lastpacket = "NEWKEYS" /\ t.guess = s.guess /\ t.dh = s.dh
         /\ t.kex_state = s.kex_state
<1>1. /\ Has(s) /\ s.exit = None /\ p.key = s.krecv /\ p.seq = s.recvseq
      /\ s.got = rcv.a
  BY Arrives
<1>2. /\ y.st = 0 /\ y.r = rcv.r + 1 /\ y.a = rcv.a
      /\ y.n = (IF h.strict THEN 0 ELSE rcv.n + 1)
  BY DEF Step, IsApp
<1>3. /\ snd.r \in Nat /\ rcv.r \in Nat /\ rcv.n \in Nat /\ rcv.st \in Nat
      /\ h.key[snd.r] # 0
      /\ snd.r = rcv.r + 1 /\ snd.st = 0 /\ rcv.st >= 2 /\ h.strict \in BOOLEAN
  BY Keys DEF Point, Common, Phase
<1>4. PICK b : /\ Has(b) /\ Same(s, b, {"recvseq", "requirenext"})
               /\ b.recvseq = s.recvseq + 1 /\ b.requirenext = None
               /\ t = [Dispatch(b, e, p, g) EXCEPT !.lastpacket = p.type]
  BY <1>1, Dispatched
<1>5. b.newrecv # 0 /\ b.newtrans = 0 /\ b.sentkexinit /\ b.recvkexinit /\ b.sentnewkeys
  <2>1. /\ b.newrecv = s.newrecv /\ b.newtrans = s.newtrans
        /\ b.sentkexinit = s.sentkexinit /\ b.recvkexinit = s.recvkexinit
        /\ b.sentnewkeys = s.sentnewkeys
    BY <1>4 DEF Same, Fields
  <2>2. s.newrecv # 0 /\ s.newtrans = 0
    BY <1>3 DEF Common, Numbers
  <2>3. s.sentkexinit /\ s.recvkexinit /\ s.sentnewkeys
    BY <1>3 DEF Common, Phase
  <2> QED BY <2>1, <2>2, <2>3
<1>6. PICK d : d = recv_msg_newkeys(b)
  OBVIOUS
<1>7. /\ Has(d)
      /\ Same(b, d, {"recvseq", "recvfirstnewkeys", "krecv", "newrecv",
                     "sentkexinit", "recvkexinit", "sentnewkeys", "recvnewkeys",
                     "first_follows_matches"})
      /\ d.recvseq = (IF b.strict_kex THEN 0 ELSE b.recvseq)
      /\ d.recvfirstnewkeys /\ d.krecv = b.newrecv
      /\ ~d.sentkexinit /\ ~d.recvkexinit /\ ~d.sentnewkeys /\ ~d.recvnewkeys
      /\ ~d.first_follows_matches
  BY <1>4, <1>5, <1>6, NewkeysReceived
<1>8. t = [d EXCEPT !.lastpacket = "NEWKEYS"]
  BY <1>4, <1>6 DEF Dispatch
<1>9. Has(t) /\ Same(d, t, {"lastpacket"}) /\ t.lastpacket = "NEWKEYS"
  BY <1>7, <1>8, Marked
<1>10. Same(b, t, {"recvseq", "recvfirstnewkeys", "krecv", "newrecv",
                   "sentkexinit", "recvkexinit", "sentnewkeys", "recvnewkeys",
                   "first_follows_matches", "lastpacket"})
  BY <1>7, <1>9 DEF Same
<1>11. Same(s, t, {"recvseq", "recvfirstnewkeys", "krecv", "newrecv",
                   "sentkexinit", "recvkexinit", "sentnewkeys", "recvnewkeys",
                   "first_follows_matches", "lastpacket", "requirenext"})
  BY <1>4, <1>10 DEF Same
<1>12. /\ t.exit = s.exit /\ t.ktrans = s.ktrans /\ t.newtrans = s.newtrans
       /\ t.transseq = s.transseq /\ t.dataallowed = s.dataallowed
       /\ t.donefirstkex = s.donefirstkex
       /\ t.strictpeer = s.strictpeer /\ t.strict_kex = s.strict_kex
       /\ t.replyq = s.replyq /\ t.sent = s.sent /\ t.got = s.got
       /\ t.last = s.last /\ t.out = s.out /\ t.guess = s.guess /\ t.dh = s.dh
       /\ t.kex_state = s.kex_state /\ t.ignorenext = s.ignorenext
  BY <1>11 DEF Same, Fields
<1>13. t.requirenext = None /\ b.newrecv = s.newrecv /\ b.strict_kex = s.strict_kex
  BY <1>4, <1>10 DEF Same, Fields
<1>14. /\ t.recvseq = d.recvseq /\ t.krecv = d.krecv
       /\ t.recvfirstnewkeys /\ ~t.sentkexinit /\ ~t.recvkexinit /\ ~t.sentnewkeys
       /\ ~t.recvnewkeys /\ ~t.first_follows_matches
  BY <1>7, <1>9 DEF Same, Fields
<1>15. Numbers(t, h, snd, y)
  <2>1. t.krecv = h.key[y.r]
    BY <1>2, <1>3, <1>7, <1>13, <1>14 DEF Common, Numbers
  <2>2. s.strict_kex <=> h.strict
    BY <1>3 DEF Common, Phase
  <2>3. s.recvseq = rcv.n
    BY DEF Common, Numbers
  <2>4. t.recvseq = y.n
    BY <2>2, <2>3, <1>2, <1>4, <1>7, <1>13, <1>14
  <2> QED BY <2>1, <2>4, <1>2, <1>3, <1>12 DEF Common, Numbers
<1>16. Phase(t, h, snd, y)
  <2>1. t.strict_kex <=> h.strict
    BY <1>3, <1>12 DEF Common, Phase
  <2> QED BY <2>1, <1>2, <1>3, <1>12, <1>14 DEF Common, Phase
<1>17. Waits(t, snd, y)
  BY <1>2, <1>12 DEF Common, Waits
<1>18. Unused(t, h, snd)
  BY <1>12 DEF Common, Unused
<1>19. Common(t, h, snd, y)
  BY <1>9, <1>12, <1>15, <1>16, <1>17, <1>18 DEF Common
<1> QED BY <1>9, <1>12, <1>13, <1>14, <1>19

\* The server reads NEWKEYS: its exchange is over.
LEMMA SvrReadsNewkeys ==
  ASSUME NEW s, NEW h, NEW snd, NEW rcv, NEW x, ServerEnd(s, h, snd, rcv, x),
         NEW p, NEW y \in Point, Step("cli", p, rcv, y, h), p.type = "NEWKEYS",
         NEW g, NEW t, t = Receive(s, "svr", p, g)
  PROVE  \E z : ServerEnd(t, h, z, y, x) /\ Later(s.last, t.last)
<1>1. /\ h \in Hist /\ Rising(h) /\ snd \in Point /\ rcv \in Point
      /\ Server(s, h, snd, rcv) /\ Path("svr", s.out, x, snd, h)
      /\ Common(s, h, snd, rcv)
  BY DEF ServerEnd, Server
<1>2. y.st = 0 /\ y.r = rcv.r + 1 /\ rcv.st = IF ~h.good[rcv.r] THEN 3 ELSE 2
  BY DEF Step, IsApp
<1>3. /\ snd.r # rcv.r /\ snd.r = rcv.r + 1 /\ snd.st = 0
      /\ s.requirenext = "NEWKEYS" /\ ~s.ignorenext
  BY <1>1, <1>2 DEF Server, Common, Phase
<1>4. /\ Common(t, h, snd, y) /\ t.last = s.last /\ t.out = s.out
      /\ t.requirenext = None /\ ~t.ignorenext
  BY <1>1, <1>3, CommonNewkeys DEF End
<1>5. Server(t, h, snd, y)
  BY <1>1, <1>2, <1>3, <1>4 DEF Server, Point
<1> QED BY <1>1, <1>4, <1>5 DEF ServerEnd, Later

\* Whatever the client sent next, the server accepts.
LEMMA SvrReceives ==
  ASSUME NEW s, NEW h, NEW snd, NEW rcv, NEW x, ServerEnd(s, h, snd, rcv, x),
         NEW p, NEW y \in Point, Step("cli", p, rcv, y, h),
         p.type = "KEXINIT" => s.sentkexinit,
         NEW g, NEW t, t = Receive(s, "svr", p, g)
  PROVE  \E z : ServerEnd(t, h, z, y, x) /\ Later(s.last, t.last)
<1>1. CASE p.type = "KEXINIT"
  BY <1>1, SvrReadsKexinit
<1>2. CASE p.type = "KEXDH_INIT" /\ rcv.st = 1 /\ ~h.good[rcv.r]
  BY <1>2, SvrIgnoresGuess
<1>3. CASE p.type = "KEXDH_INIT" /\ (rcv.st = 2 \/ h.good[rcv.r])
  BY <1>3, SvrAnswersDh
<1>4. CASE p.type = "NEWKEYS"
  BY <1>4, SvrReadsNewkeys
<1>5. CASE p.type = "UNIMPLEMENTED"
  BY <1>5, SvrReadsUnimplemented
<1>6. CASE IsApp(p)
  BY <1>6, SvrReadsApp
<1>7. \/ p.type \in {"KEXINIT", "NEWKEYS", "UNIMPLEMENTED"} \/ IsApp(p)
      \/ p.type = "KEXDH_INIT" /\ (rcv.st = 1 \/ rcv.st = 2)
  BY DEF Step
<1> QED BY <1>1, <1>2, <1>3, <1>4, <1>5, <1>6, <1>7

-----------------------------------------------------------------------------
(* The client reads one packet of the server *)

\* Client does not look at lastpacket.
LEMMA ClientMarked ==
  ASSUME NEW s, NEW h, NEW snd, NEW rcv, NEW x, ClientEnd(s, h, snd, rcv, x),
         NEW t, Has(t), Same(s, t, {"lastpacket"})
  PROVE  ClientEnd(t, h, snd, rcv, x) /\ t.last = s.last /\ t.kex_state = s.kex_state
<1>1. Same(s, t, {"lastpacket", "requirenext", "kex_state"})
  BY DEF Same
<1>2. Common(t, h, snd, rcv) /\ t.last = s.last /\ t.out = s.out
  BY <1>1, CommonMarked DEF ClientEnd, Client
<1>3. /\ t.ignorenext = s.ignorenext /\ t.requirenext = s.requirenext
      /\ t.kex_state = s.kex_state /\ t.guess = s.guess /\ t.dh = s.dh
      /\ t.first_follows_matches = s.first_follows_matches
  BY DEF Same, Fields
<1>4. Client(t, h, snd, rcv)
  BY <1>2, <1>3 DEF ClientEnd, Client
<1> QED BY <1>2, <1>3, <1>4 DEF ClientEnd

\* A packet that is no KEXINIT and keeps the stage leaves nothing to the loop.
LEMMA StillSettled ==
  ASSUME NEW s, NEW rcv, NEW y, Settled(s, rcv), y.st = rcv.st,
         NEW t, t.kex_state = s.kex_state, t.lastpacket # "KEXINIT"
  PROVE  Unsettled(t, y)
BY DEF Settled, Unsettled

\* The client reads UNIMPLEMENTED.
LEMMA CliReadsUnimplemented ==
  ASSUME NEW s, NEW h, NEW snd, NEW rcv, NEW x, ClientEnd(s, h, snd, rcv, x), Settled(s, rcv),
         NEW p, NEW y \in Point, Step("svr", p, rcv, y, h), p.type = "UNIMPLEMENTED",
         NEW g, NEW t, t = Receive(s, "cli", p, g)
  PROVE  \E z : ClientEnd(t, h, z, y, x) /\ Unsettled(t, y) /\ Later(s.last, t.last)
<1>1. /\ Has(s) /\ s.exit = None /\ p.key = s.krecv /\ p.seq = s.recvseq
      /\ s.got = rcv.a
      /\ s.recvfirstnewkeys <=> rcv.r >= 1
  BY Arrives DEF ClientEnd, Client
<1>2. rcv.r >= 1 /\ OneMore(rcv, y) /\ y.a = rcv.a
  BY DEF Step, IsApp, OneMore
<1>3. /\ Has(t) /\ Same(s, t, {"recvseq", "lastpacket"})
      /\ t.recvseq = s.recvseq + 1 /\ t.lastpacket = p.type
  BY <1>1, <1>2, PassedOver
<1>4. Same(s, t, {"recvseq", "lastpacket", "got", "requirenext"})
  BY <1>3 DEF Same
<1>5. t.got = s.got /\ t.requirenext = s.requirenext
  BY <1>3 DEF Same, Fields
<1>6. ClientEnd(t, h, snd, y, x) /\ t.last = s.last /\ t.kex_state = s.kex_state
  BY <1>1, <1>2, <1>3, <1>4, <1>5, ClientReads
<1>7. Unsettled(t, y)
  BY <1>2, <1>3, <1>6, StillSettled DEF OneMore
<1> QED BY <1>6, <1>7 DEF Later

\* The client reads EXT_INFO.
LEMMA CliReadsExtInfo ==
  ASSUME NEW s, NEW h, NEW snd, NEW rcv, NEW x, ClientEnd(s, h, snd, rcv, x), Settled(s, rcv),
         NEW p, NEW y \in Point, Step("svr", p, rcv, y, h), p.type = "EXT_INFO",
         NEW g, NEW t, t = Receive(s, "cli", p, g)
  PROVE  \E z : ClientEnd(t, h, z, y, x) /\ Unsettled(t, y) /\ Later(s.last, t.last)
<1>1. /\ Has(s) /\ s.exit = None /\ p.key = s.krecv /\ p.seq = s.recvseq
      /\ s.got = rcv.a /\ rcv \in Point
  BY Arrives DEF ClientEnd, Client
<1>2. rcv.r >= 1 /\ rcv.st = 0 /\ OneMore(rcv, y) /\ y.a = rcv.a
  BY DEF Step, IsApp, OneMore
<1>3. s.requirenext = None /\ ~s.ignorenext
  BY <1>1, <1>2 DEF ClientEnd, Client, Point
<1>4. PICK b : /\ Has(b) /\ Same(s, b, {"recvseq", "requirenext"})
               /\ b.recvseq = s.recvseq + 1 /\ b.requirenext = None
               /\ t = [Dispatch(b, "cli", p, g) EXCEPT !.lastpacket = p.type]
  BY <1>1, <1>3, Dispatched
<1>5. Dispatch(b, "cli", p, g) = b
  BY DEF Dispatch
<1>6. Has(t) /\ Same(b, t, {"lastpacket"}) /\ t.lastpacket = p.type
  BY <1>4, <1>5, Marked
<1>7. Same(s, t, {"recvseq", "lastpacket", "got", "requirenext"})
  BY <1>4, <1>6 DEF Same
<1>8. t.recvseq = s.recvseq + 1 /\ t.requirenext = None /\ t.got = s.got
  BY <1>4, <1>6 DEF Same, Fields
<1>9. ClientEnd(t, h, snd, y, x) /\ t.last = s.last /\ t.kex_state = s.kex_state
  BY <1>1, <1>2, <1>3, <1>6, <1>7, <1>8, ClientReads
<1>10. Unsettled(t, y)
  BY <1>2, <1>6, <1>9, StillSettled DEF OneMore
<1> QED BY <1>9, <1>10 DEF Later

\* The client reads an application packet, and answers one it cannot handle.
LEMMA CliReadsApp ==
  ASSUME NEW s, NEW h, NEW snd, NEW rcv, NEW x, ClientEnd(s, h, snd, rcv, x), Settled(s, rcv),
         NEW p, NEW y \in Point, Step("svr", p, rcv, y, h), IsApp(p),
         NEW g, NEW t, t = Receive(s, "cli", p, g)
  PROVE  \E z : ClientEnd(t, h, z, y, x) /\ Unsettled(t, y) /\ Later(s.last, t.last)
<1>1. /\ Has(s) /\ s.exit = None /\ p.key = s.krecv /\ p.seq = s.recvseq
      /\ snd \in Point /\ rcv \in Point /\ snd.r >= rcv.r
  BY Arrives DEF ClientEnd, Client
<1>2. rcv.r >= 1 /\ rcv.st = 0 /\ OneMore(rcv, y) /\ p.arg = y.a
  BY DEF Step, IsApp, OneMore
<1>3. s.requirenext = None /\ ~s.ignorenext
  BY <1>2, <1>1 DEF ClientEnd, Client, Point
<1>4. p.type # "UNIMPLEMENTED" /\ p.type \in {"DATA", "ODD"}
  BY DEF IsApp
<1>5. PICK b : /\ Has(b) /\ Same(s, b, {"recvseq", "requirenext"})
               /\ b.recvseq = s.recvseq + 1 /\ b.requirenext = None
               /\ t = [Dispatch(b, "cli", p, g) EXCEPT !.lastpacket = p.type]
  BY <1>1, <1>3, <1>4, Dispatched
<1>6. PICK c : c = [b EXCEPT !.got = p.arg]
  OBVIOUS
<1>7. /\ Has(c) /\ Same(s, c, {"recvseq", "lastpacket", "got", "requirenext"})
      /\ c.recvseq = s.recvseq + 1 /\ c.requirenext = None /\ c.got = p.arg
  BY <1>5, <1>6, GotIt
<1>8. ClientEnd(c, h, snd, y, x) /\ c.last = s.last /\ c.kex_state = s.kex_state
  BY <1>2, <1>3, <1>7, ClientReads
<1>9. CASE p.type = "DATA"
  <2>1. Dispatch(b, "cli", p, g) = c
    BY <1>9, <1>6 DEF Dispatch
  <2>2. Has(t) /\ Same(c, t, {"lastpacket"}) /\ t.lastpacket = p.type
    BY <2>1, <1>5, <1>7, Marked
  <2>3. ClientEnd(t, h, snd, y, x) /\ t.last = c.last /\ t.kex_state = c.kex_state
    BY <2>2, <1>8, ClientMarked
  <2>4. Unsettled(t, y)
    BY <2>2, <2>3, <1>2, <1>4, <1>8, StillSettled DEF OneMore
  <2> QED BY <2>3, <2>4, <1>8 DEF Later
<1>10. CASE p.type = "ODD"
  <2>1. PICK d : d = Encrypt(c, "UNIMPLEMENTED", c.recvseq - 1)
    OBVIOUS
  <2>2. Dispatch(b, "cli", p, g) = d
    BY <2>1, <1>10, <1>6 DEF Dispatch, recv_unimplemented
  <2>3. c.recvseq - 1 \in Int /\ snd.r >= 1
    <3>1. s.recvseq \in Nat
      BY DEF ClientEnd, Client, Common, Numbers, Point
    <3> QED BY <3>1, <1>1, <1>2, <1>7 DEF Point
  <2>4. PICK z : /\ ClientEnd(d, h, z, y, x) /\ Later(c.last, d.last)
                 /\ d.kex_state = c.kex_state
    BY <2>1, <2>3, <1>8, ClientNoise
  <2>5. Has(d)
    BY <2>4 DEF ClientEnd, Client, Common
  <2>6. Has(t) /\ Same(d, t, {"lastpacket"}) /\ t.lastpacket = p.type
    BY <2>2, <2>5, <1>5, Marked
  <2>7. ClientEnd(t, h, z, y, x) /\ t.last = d.last /\ t.kex_state = d.kex_state
    BY <2>4, <2>6, ClientMarked
  <2>8. Unsettled(t, y)
    BY <2>4, <2>6, <2>7, <1>2, <1>4, <1>8, StillSettled DEF OneMore
  <2> QED BY <2>4, <2>7, <2>8, <1>8
<1> QED BY <1>4, <1>9, <1>10

\* The client reads KEXINIT, its own already sent.
LEMMA CliReadsKexinit ==
  ASSUME NEW s, NEW h, NEW snd, NEW rcv, NEW x, ClientEnd(s, h, snd, rcv, x), Settled(s, rcv),
         NEW p, NEW y \in Point, Step("svr", p, rcv, y, h), p.type = "KEXINIT",
         s.sentkexinit, NEW g, NEW t, t = Receive(s, "cli", p, g)
  PROVE  \E z : ClientEnd(t, h, z, y, x) /\ Unsettled(t, y) /\ Later(s.last, t.last)
<1>1. /\ h \in Hist /\ Rising(h) /\ snd \in Point /\ rcv \in Point
      /\ Client(s, h, snd, rcv) /\ Path("cli", s.out, x, snd, h)
      /\ Common(s, h, snd, rcv)
  BY DEF ClientEnd, Client
<1>2. rcv.st = 0 /\ y.st = 1 /\ y.r = rcv.r
  BY DEF Step, IsApp
<1>3. snd.r = rcv.r /\ snd.st = 2
  BY <1>1, <1>2 DEF Client, Common, Phase, Point
<1>4. s.requirenext \in {None, "KEXINIT"} /\ ~s.ignorenext
  BY <1>1, <1>2 DEF Client
<1>5. /\ Common(t, h, snd, y) /\ t.last = s.last /\ t.out = s.out
      /\ t.requirenext = "KEXDH_REPLY" /\ ~t.ignorenext
      /\ t.first_follows_matches <=> s.first_follows_matches \/ s.guess = 1
      /\ t.lastpacket = "KEXINIT" /\ t.guess = s.guess /\ t.dh = s.dh
      /\ t.kex_state = s.kex_state
  BY <1>1, <1>4, CommonKexinit DEF End
<1>6. s.kex_state = "NOTHING" /\ ~s.first_follows_matches
  BY <1>1, <1>2 DEF Settled, Client
<1>7. s.guess = 1 <=> h.good[snd.r]
  BY <1>1, <1>3 DEF Client
<1>8. Client(t, h, snd, y)
  BY <1>1, <1>2, <1>3, <1>5, <1>6, <1>7 DEF Client
<1>9. Unsettled(t, y)
  BY <1>2, <1>5, <1>6 DEF Unsettled
<1> QED BY <1>1, <1>5, <1>8, <1>9 DEF ClientEnd, Later

\* The client reads NEWKEYS: its exchange is over.
LEMMA CliReadsNewkeys ==
  ASSUME NEW s, NEW h, NEW snd, NEW rcv, NEW x, ClientEnd(s, h, snd, rcv, x), Settled(s, rcv),
         NEW p, NEW y \in Point, Step("svr", p, rcv, y, h), p.type = "NEWKEYS",
         NEW g, NEW t, t = Receive(s, "cli", p, g)
  PROVE  \E z : ClientEnd(t, h, z, y, x) /\ Unsettled(t, y) /\ Later(s.last, t.last)
<1>1. /\ h \in Hist /\ Rising(h) /\ snd \in Point /\ rcv \in Point
      /\ Client(s, h, snd, rcv) /\ Path("cli", s.out, x, snd, h)
      /\ Common(s, h, snd, rcv)
  BY DEF ClientEnd, Client
<1>2. y.st = 0 /\ y.r = rcv.r + 1 /\ rcv.st = 2
  BY DEF Step, IsApp
<1>3. /\ snd.r # rcv.r /\ snd.r = rcv.r + 1 /\ snd.st = 0
      /\ s.requirenext = "NEWKEYS" /\ ~s.ignorenext
  BY <1>1, <1>2 DEF Client, Common, Phase
<1>4. /\ Common(t, h, snd, y) /\ t.last = s.last /\ t.out = s.out
      /\ t.requirenext = None /\ ~t.ignorenext /\ ~t.first_follows_matches
      /\ t.lastpacket = "NEWKEYS" /\ t.guess = s.guess /\ t.dh = s.dh
      /\ t.kex_state = s.kex_state
  BY <1>1, <1>3, CommonNewkeys DEF End
<1>5. Client(t, h, snd, y)
  BY <1>1, <1>2, <1>3, <1>4 DEF Client, Point
<1>6. Unsettled(t, y)
  BY <1>2, <1>4 DEF Settled, Unsettled
<1> QED BY <1>1, <1>4, <1>5, <1>6 DEF ClientEnd, Later

\* The client reads KEXDH_REPLY for the value it sent last, and sends NEWKEYS.
LEMMA CliReadsReply ==
  ASSUME NEW s, NEW h, NEW snd, NEW rcv, NEW x, ClientEnd(s, h, snd, rcv, x), Settled(s, rcv),
         NEW p, NEW y \in Point, Step("svr", p, rcv, y, h), p.type = "KEXDH_REPLY",
         NEW g, NEW t, t = Receive(s, "cli", p, g)
  PROVE  \E z : ClientEnd(t, h, z, y, x) /\ Unsettled(t, y) /\ Later(s.last, t.last)
<1>1. /\ h \in Hist /\ Rising(h) /\ snd \in Point /\ rcv \in Point
      /\ Client(s, h, snd, rcv) /\ Path("cli", s.out, x, snd, h)
      /\ Common(s, h, snd, rcv)
  BY DEF ClientEnd, Client
<1>2. /\ rcv.st = 1 /\ y.st = 2 /\ y.r = rcv.r /\ y.n = rcv.n + 1 /\ y.a = rcv.a
      /\ p.arg = h.key[rcv.r + 1]
  BY DEF Step, IsApp
<1>3. s.kex_state = "KEXDH_INIT_SENT"
  BY <1>2 DEF Settled
<1>4. /\ snd.r = rcv.r /\ snd.st = (IF ~h.good[snd.r] THEN 3 ELSE 2)
      /\ ~s.ignorenext /\ s.requirenext = "KEXDH_REPLY"
  BY <1>1, <1>2, <1>3 DEF Client
<1>5. s.dh = h.key[snd.r + 1]
  BY <1>1, <1>4 DEF Client
<1>6. /\ snd.r \in Nat /\ snd.n \in Nat /\ snd.a \in Nat /\ rcv.r \in Nat /\ rcv.n \in Nat
      /\ h.key[snd.r] \in Nat /\ h.key[snd.r + 1] \in Nat /\ h.key[snd.r + 1] # 0
      /\ h.strict \in BOOLEAN
  BY <1>1, Keys DEF Point
<1>7. Has(s) /\ s.exit = None /\ p.key = s.krecv /\ p.seq = s.recvseq
  BY <1>1, Arrives
<1>8. PICK b : /\ Has(b) /\ Same(s, b, {"recvseq", "requirenext"})
               /\ b.recvseq = s.recvseq + 1 /\ b.requirenext = None
               /\ t = [Dispatch(b, "cli", p, g) EXCEPT !.lastpacket = p.type]
  BY <1>4, <1>7, Dispatched
<1>9. PICK k : k = h.key[snd.r + 1]
  OBVIOUS
<1>10. /\ b.ktrans = h.key[snd.r] /\ b.transseq = snd.n /\ b.out = s.out /\ b.last = s.last
       /\ b.kex_state = "KEXDH_INIT_SENT" /\ b.dh = k
       /\ b.sentkexinit = s.sentkexinit /\ b.recvkexinit = s.recvkexinit
       /\ b.recvnewkeys = s.recvnewkeys /\ b.strict_kex = s.strict_kex
  <2>1. /\ b.ktrans = s.ktrans /\ b.transseq = s.transseq /\ b.out = s.out
        /\ b.last = s.last /\ b.kex_state = s.kex_state /\ b.dh = s.dh
        /\ b.sentkexinit = s.sentkexinit /\ b.recvkexinit = s.recvkexinit
        /\ b.recvnewkeys = s.recvnewkeys /\ b.strict_kex = s.strict_kex
    BY <1>8 DEF Same, Fields
  <2> QED BY <2>1, <1>1, <1>3, <1>5, <1>9 DEF Common, Numbers
<1>11. b.sentkexinit /\ b.recvkexinit /\ ~b.recvnewkeys
  BY <1>1, <1>2, <1>4, <1>10 DEF Common, Phase
<1>12. b.strict_kex <=> h.strict
  BY <1>1, <1>2, <1>4, <1>10 DEF Common, Phase
<1>13. PICK n : n = send_msg_newkeys(b, k)
  OBVIOUS
<1>14. /\ Has(n)
       /\ Same(b, n, {"out", "last", "transseq", "sentnewkeys", "donesecondkex",
                      "donefirstkex", "dataallowed", "newtrans", "newrecv", "ktrans"})
       /\ n.out = Append(b.out, Pkt(b, "NEWKEYS", 0))
       /\ n.last = <<b.ktrans, b.transseq>>
       /\ n.transseq = (IF b.strict_kex THEN 0 ELSE b.transseq + 1)
       /\ n.sentnewkeys /\ n.donefirstkex /\ n.dataallowed
       /\ n.newtrans = 0 /\ n.newrecv = k /\ n.ktrans = k
  <2>1. k # 0 /\ Has(b) /\ b.sentkexinit /\ b.recvkexinit /\ ~b.recvnewkeys
    BY <1>6, <1>8, <1>9, <1>11
  <2> QED BY <2>1, <1>13, NewkeysSent
<1>15. PICK z : z = [r |-> snd.r + 1, st |-> 0, n |-> (IF h.strict THEN 0 ELSE snd.n + 1),
                     a |-> snd.a]
  OBVIOUS
<1>16. /\ z \in Point /\ z.r = snd.r + 1 /\ z.st = 0 /\ z.a = snd.a
       /\ z.n = (IF h.strict THEN 0 ELSE snd.n + 1)
  BY <1>6, <1>15 DEF Point
<1>17. Path("cli", n.out, x, z, h)
  <2>1. PICK q \in Packet : /\ q = Pkt(b, "NEWKEYS", 0) /\ q.type = "NEWKEYS"
                            /\ q.key = b.ktrans /\ q.seq = b.transseq
    BY <1>6, <1>10, PktIn DEF PacketType
  <2>2. Step("cli", q, snd, z, h)
    BY <2>1, <1>4, <1>6, <1>10, <1>16 DEF Step, IsApp
  <2> QED BY <2>1, <2>2, <1>1, <1>10, <1>14, <1>16, PathAppend
<1>18. Unused(n, h, z) /\ Later(s.last, n.last)
  <2>1. Unused(b, h, snd)
    BY <1>1, <1>10 DEF Common, Unused
  <2>2. Unused(n, h, z) /\ Later(b.last, n.last)
    BY <2>1, <1>1, <1>10, <1>14, <1>16, LastSent
  <2> QED BY <2>2, <1>10
<1>19. PICK d : d = [n EXCEPT !.requirenext = "NEWKEYS"]
  OBVIOUS
<1>20. Dispatch(b, "cli", p, g) = d
  <2>1. p.arg = b.dh /\ b.dh = k
    BY <1>2, <1>4, <1>9, <1>10
  <2> QED BY <2>1, <1>10, <1>13, <1>19 DEF Dispatch, recv_msg_kexdh_reply
<1>21. Has(d) /\ Same(n, d, {"requirenext"})
  BY <1>14, <1>19 DEF Has, Same
<1>22. d.requirenext = "NEWKEYS"
  BY <1>14, <1>19 DEF Has, Fields
<1>23. Has(t) /\ Same(d, t, {"lastpacket"}) /\ t.lastpacket = "KEXDH_REPLY"
  BY <1>8, <1>20, <1>21, Marked
<1>24. t.requirenext = "NEWKEYS"
  BY <1>22, <1>23 DEF Same, Fields
<1>25. Same(n, t, {"requirenext", "lastpacket", "kex_state"})
  BY <1>21, <1>23 DEF Same
<1>26. n.recvseq = s.recvseq + 1
  BY <1>8, <1>14 DEF Same, Fields
<1>27. Same(s, n, {"out", "last", "transseq", "sentnewkeys", "donesecondkex",
                   "donefirstkex", "dataallowed", "newtrans", "newrecv", "ktrans",
                   "recvseq", "requirenext"})
  BY <1>8, <1>14 DEF Same
<1>28. /\ n.exit = s.exit /\ n.krecv = s.krecv /\ n.recvnewkeys = s.recvnewkeys
       /\ n.sentkexinit = s.sentkexinit /\ n.recvfirstnewkeys = s.recvfirstnewkeys
       /\ n.strictpeer = s.strictpeer /\ n.strict_kex = s.strict_kex
       /\ n.recvkexinit = s.recvkexinit
       /\ n.replyq = s.replyq /\ n.sent = s.sent /\ n.got = s.got
       /\ n.ignorenext = s.ignorenext /\ n.guess = s.guess /\ n.dh = s.dh
       /\ n.first_follows_matches = s.first_follows_matches
       /\ n.kex_state = s.kex_state
  BY <1>27 DEF Same, Fields
<1>29. Common(n, h, z, y)
  <2>1. n.transseq = z.n
    BY <1>10, <1>12, <1>14, <1>16
  <2>2. Numbers(n, h, z, y)
    BY <2>1, <1>1, <1>2, <1>4, <1>6, <1>9, <1>14, <1>16, <1>26, <1>28 DEF Common, Numbers
  <2>3. Phase(n, h, z, y)
    BY <1>1, <1>2, <1>4, <1>6, <1>14, <1>16, <1>28 DEF Common, Phase
  <2>4. Waits(n, z, y)
    BY <1>1, <1>2, <1>6, <1>16, <1>28 DEF Common, Waits
  <2> QED BY <2>2, <2>3, <2>4, <1>1, <1>14, <1>18, <1>28 DEF Common
<1>30. Common(t, h, z, y) /\ t.last = n.last /\ t.out = n.out
  BY <1>23, <1>25, <1>29, CommonMarked
<1>31. /\ t.ignorenext = n.ignorenext /\ t.guess = n.guess /\ t.dh = n.dh
       /\ t.first_follows_matches = n.first_follows_matches
       /\ t.kex_state = n.kex_state
  BY <1>21, <1>23 DEF Same, Fields
<1>32. Client(t, h, z, y)
  <2>1. ~t.ignorenext /\ (t.first_follows_matches <=> h.good[y.r])
    BY <1>1, <1>2, <1>4, <1>28, <1>31 DEF Client
  <2>2. t.dh = h.key[z.r] /\ z.r # y.r
    BY <1>2, <1>4, <1>5, <1>6, <1>16, <1>28, <1>31
  <2> QED BY <2>1, <2>2, <1>2, <1>16, <1>24, <1>30 DEF Client
<1>33. Unsettled(t, y)
  BY <1>2, <1>3, <1>23, <1>28, <1>31 DEF Unsettled
<1> QED BY <1>1, <1>16, <1>17, <1>18, <1>30, <1>32, <1>33 DEF ClientEnd

\* Whatever the server sent next, the client accepts.
LEMMA CliReceives ==
  ASSUME NEW s, NEW h, NEW snd, NEW rcv, NEW x, ClientEnd(s, h, snd, rcv, x), Settled(s, rcv),
         NEW p, NEW y \in Point, Step("svr", p, rcv, y, h),
         p.type = "KEXINIT" => s.sentkexinit,
         NEW g, NEW t, t = Receive(s, "cli", p, g)
  PROVE  \E z : ClientEnd(t, h, z, y, x) /\ Unsettled(t, y) /\ Later(s.last, t.last)
<1>1. CASE p.type = "KEXINIT"
  BY <1>1, CliReadsKexinit
<1>2. CASE p.type = "KEXDH_REPLY"
  BY <1>2, CliReadsReply
<1>3. CASE p.type = "NEWKEYS"
  BY <1>3, CliReadsNewkeys
<1>4. CASE p.type = "UNIMPLEMENTED"
  BY <1>4, CliReadsUnimplemented
<1>5. CASE p.type = "EXT_INFO"
  BY <1>5, CliReadsExtInfo
<1>6. CASE IsApp(p)
  BY <1>6, CliReadsApp
<1>7. \/ p.type \in {"KEXINIT", "KEXDH_REPLY", "NEWKEYS", "UNIMPLEMENTED", "EXT_INFO"}
      \/ IsApp(p)
  BY DEF Step
<1> QED BY <1>1, <1>2, <1>3, <1>4, <1>5, <1>6, <1>7

-----------------------------------------------------------------------------
(* A new key exchange: the client settles its guess and so the next key *)

\* h with the guess g of round r and the keys that follow from it: a wrong
\* guess costs a serial number
NextHist(h, r, g) ==
    [key |-> [i \in Nat |-> IF i <= r THEN h.key[i]
                            ELSE h.key[r] + (IF g = 1 THEN 1 ELSE 2) + (i - r - 1)],
     good |-> [i \in Nat |-> IF i = r THEN g = 1 ELSE h.good[i]],
     strict |-> h.strict]

\* k continues h with the guess g of round r.
Continues(h, k, r, g) ==
    /\ k \in Hist /\ Rising(k) /\ Agree(h, k, r)
    /\ k.key[r + 1] = h.key[r] + (IF g = 1 THEN 1 ELSE 2)
    /\ k.good[r] <=> g = 1

\* There is one.
LEMMA NextHistIs ==
  ASSUME NEW h \in Hist, Rising(h), NEW r \in Nat, NEW g \in {0, 1}
  PROVE  \E k : Continues(h, k, r, g)
<1> PICK k : k = NextHist(h, r, g)
  OBVIOUS
<1>1. /\ h.key \in [Nat -> Nat] /\ h.good \in [Nat -> BOOLEAN] /\ h.strict \in BOOLEAN
  BY DEF Hist
<1>2. PICK f, b : /\ f = [i \in Nat |-> IF i <= r THEN h.key[i]
                            ELSE h.key[r] + (IF g = 1 THEN 1 ELSE 2) + (i - r - 1)]
                  /\ b = [i \in Nat |-> IF i = r THEN g = 1 ELSE h.good[i]]
  OBVIOUS
<1>3. k = [key |-> f, good |-> b, strict |-> h.strict]
  BY <1>2 DEF NextHist
<1>4. k.key = f /\ k.good = b /\ k.strict = h.strict
  BY <1>3
<1>5. \A i \in Nat : f[i] = IF i <= r THEN h.key[i]
                            ELSE h.key[r] + (IF g = 1 THEN 1 ELSE 2) + (i - r - 1)
  BY <1>2
<1>6. \A i \in Nat : f[i] \in Nat
  BY <1>1, <1>5
<1>7. f \in [Nat -> Nat]
  BY <1>2, <1>6
<1>8. b \in [Nat -> BOOLEAN]
  BY <1>1, <1>2
<1>9. k \in Hist
  BY <1>1, <1>3, <1>7, <1>8 DEF Hist
<1>10. \A i \in Nat : f[i] < f[i + 1]
  <2> TAKE i \in Nat
  <2>1. h.key[i] < h.key[i + 1] /\ h.key[i] \in Nat /\ h.key[i + 1] \in Nat /\ h.key[r] \in Nat
    BY <1>1 DEF Rising
  <2>2. CASE i + 1 <= r
    BY <2>1, <2>2, <1>5
  <2>3. CASE i = r
    BY <2>1, <2>3, <1>5
  <2>4. CASE i > r
    BY <2>1, <2>4, <1>5
  <2> QED BY <2>2, <2>3, <2>4
<1>11. f[0] = 0
  BY <1>5 DEF Rising
<1>12. Rising(k)
  BY <1>4, <1>10, <1>11 DEF Rising
<1>13. Agree(h, k, r)
  <2>1. \A i \in 0..r : f[i] = h.key[i]
    BY <1>5
  <2>2. \A i \in Nat : i < r => b[i] = h.good[i]
    BY <1>2
  <2> QED BY <2>1, <2>2, <1>4 DEF Agree
<1>14. f[r + 1] = h.key[r] + (IF g = 1 THEN 1 ELSE 2)
  BY <1>1, <1>5
<1>15. b[r] <=> g = 1
  BY <1>2
<1> QED BY <1>4, <1>9, <1>12, <1>13, <1>14, <1>15 DEF Continues

\* checktimeouts at the client: KEXINIT and the guessed KEXDH_INIT settle the
\* history.
LEMMA CliRekey ==
  ASSUME NEW s, NEW h, NEW snd, NEW rcv, NEW x, ClientEnd(s, h, snd, rcv, x), Settled(s, rcv),
         ~s.sentkexinit, NEW g \in {0, 1}, NEW t, t = send_msg_kexinit(s, "cli", g)
  PROVE  \E k, z : /\ Agree(h, k, snd.r) /\ snd.st = 0
                   /\ ClientEnd(t, k, z, rcv, x) /\ Settled(t, rcv)
                   /\ Later(s.last, t.last) /\ t.sentkexinit
<1>1. /\ h \in Hist /\ Rising(h) /\ snd \in Point /\ rcv \in Point
      /\ Client(s, h, snd, rcv) /\ Path("cli", s.out, x, snd, h)
      /\ Common(s, h, snd, rcv)
  BY DEF ClientEnd, Client
<1>2. /\ snd.r \in Nat /\ snd.st \in 0..3 /\ snd.n \in Nat /\ snd.a \in Nat
      /\ rcv.r \in Nat /\ rcv.st \in 0..3 /\ rcv.n \in Nat /\ rcv.a \in Nat
      /\ h.key[snd.r] \in Nat
  BY <1>1, Keys DEF Point
<1>3. /\ Has(s) /\ s.dataallowed /\ snd.st = 0 /\ rcv.st = 0 /\ snd.r = rcv.r
      /\ s.ktrans = h.key[snd.r] /\ s.transseq = snd.n
  BY <1>1, <1>2 DEF Common, Phase, Numbers
<1>4. s.dh = h.key[snd.r]
  BY <1>1, <1>3 DEF Client
<1>5. /\ Has(t)
      /\ Same(s, t, {"out", "last", "transseq", "dataallowed", "sentkexinit",
                     "newtrans", "newrecv", "guess", "dh"})
      /\ t.out = Append(Append(s.out, Pkt(s, "KEXINIT", g)),
                        [type |-> "KEXDH_INIT", arg |-> s.dh + 1,
                         key |-> s.ktrans, seq |-> s.transseq + 1])
      /\ t.last = <<s.ktrans, s.transseq + 1>>
      /\ t.transseq = s.transseq + 1 + 1
      /\ ~t.dataallowed /\ t.sentkexinit
      /\ t.newtrans = 0 /\ t.newrecv = 0 /\ t.guess = g /\ t.dh = s.dh + 1
  BY <1>3, CliKexinit
<1>6. PICK k : Continues(h, k, snd.r, g)
  BY <1>1, <1>2, NextHistIs
<1>7. /\ k \in Hist /\ Rising(k) /\ Agree(h, k, snd.r)
      /\ k.key[snd.r + 1] = h.key[snd.r] + (IF g = 1 THEN 1 ELSE 2)
      /\ k.good[snd.r] <=> g = 1
  BY <1>6 DEF Continues
<1>8. k.key[snd.r] = h.key[snd.r] /\ k.strict = h.strict
  BY <1>2, <1>7 DEF Agree
<1>9. PICK m : m = [r |-> snd.r, st |-> 1, n |-> snd.n + 1, a |-> snd.a]
  OBVIOUS
<1>10. m \in Point /\ m.r = snd.r /\ m.st = 1 /\ m.n = snd.n + 1 /\ m.a = snd.a
  BY <1>2, <1>9 DEF Point
<1>11. PICK z : z = [r |-> snd.r, st |-> 2, n |-> snd.n + 1 + 1, a |-> snd.a]
  OBVIOUS
<1>12. z \in Point /\ z.r = snd.r /\ z.st = 2 /\ z.n = snd.n + 1 + 1 /\ z.a = snd.a
  BY <1>2, <1>11 DEF Point
<1>13. Path("cli", s.out, x, snd, k)
  BY <1>1, <1>2, <1>3, <1>7, PathAgree DEF Before
<1>14. PICK p \in Packet : /\ p = Pkt(s, "KEXINIT", g) /\ p.type = "KEXINIT" /\ p.arg = g
                           /\ p.key = s.ktrans /\ p.seq = s.transseq
  BY <1>2, <1>3, PktIn DEF PacketType
<1>15. Step("cli", p, snd, m, k)
  BY <1>2, <1>3, <1>7, <1>8, <1>10, <1>14 DEF Step, IsApp
<1>16. Path("cli", Append(s.out, p), x, m, k)
  BY <1>10, <1>13, <1>14, <1>15, PathAppend
<1>17. PICK q : q = [type |-> "KEXDH_INIT", arg |-> s.dh + 1,
                     key |-> s.ktrans, seq |-> s.transseq + 1]
  OBVIOUS
<1>18. /\ q \in Packet /\ q.type = "KEXDH_INIT" /\ q.arg = s.dh + 1
       /\ q.key = s.ktrans /\ q.seq = s.transseq + 1
  BY <1>2, <1>3, <1>4, <1>17 DEF Packet, PacketType
<1>19. Step("cli", q, m, z, k)
  <2>1. k.good[m.r] => q.arg = k.key[m.r + 1]
    BY <1>4, <1>7, <1>10, <1>18
  <2> QED BY <2>1, <1>2, <1>3, <1>8, <1>10, <1>12, <1>18 DEF Step, IsApp
<1>20. Path("cli", t.out, x, z, k)
  <2>1. t.out = Append(Append(s.out, p), q)
    BY <1>5, <1>14, <1>17
  <2> QED BY <2>1, <1>12, <1>16, <1>18, <1>19, PathAppend
<1>21. /\ t.exit = s.exit /\ t.ktrans = s.ktrans /\ t.krecv = s.krecv
       /\ t.recvseq = s.recvseq /\ t.recvnewkeys = s.recvnewkeys
       /\ t.donefirstkex = s.donefirstkex /\ t.recvfirstnewkeys = s.recvfirstnewkeys
       /\ t.strictpeer = s.strictpeer /\ t.strict_kex = s.strict_kex
       /\ t.recvkexinit = s.recvkexinit /\ t.sentnewkeys = s.sentnewkeys
       /\ t.replyq = s.replyq /\ t.sent = s.sent /\ t.got = s.got
       /\ t.ignorenext = s.ignorenext /\ t.requirenext = s.requirenext
       /\ t.kex_state = s.kex_state /\ t.lastpacket = s.lastpacket
       /\ t.first_follows_matches = s.first_follows_matches
  BY <1>5 DEF Same, Fields
<1>22. Unused(t, k, z) /\ Later(s.last, t.last)
  <2>1. PICK l : l = s.last
    OBVIOUS
  <2>2. /\ l \in Nat \X Int /\ l[1] <= h.key[snd.r]
        /\ l[1] = h.key[snd.r] => l[2] < snd.n
    BY <2>1, <1>1 DEF Common, Unused
  <2>0. PICK j : j = t.last
    OBVIOUS
  <2>3. PICK c \in Nat, n \in Nat : c = h.key[snd.r] /\ n = snd.n /\ j = <<c, n + 1>>
    BY <2>0, <1>2, <1>3, <1>5
  <2>4. j \in Nat \X Int /\ j[1] = c /\ j[2] = n + 1
    BY <2>3
  <2>5. Unused(t, k, z)
    BY <2>0, <2>3, <2>4, <1>8, <1>12 DEF Unused
  <2>6. Later(l, j)
    BY <2>2, <2>3, <2>4 DEF Later
  <2> QED BY <2>0, <2>1, <2>5, <2>6
<1>23. Common(t, k, z, rcv)
  <2>1. Numbers(t, k, z, rcv)
    BY <1>1, <1>2, <1>3, <1>5, <1>8, <1>12, <1>21 DEF Common, Numbers
  <2>2. Phase(t, k, z, rcv)
    BY <1>1, <1>2, <1>3, <1>5, <1>8, <1>12, <1>21 DEF Common, Phase
  <2>3. Waits(t, z, rcv)
    BY <1>1, <1>12, <1>21 DEF Common, Waits
  <2> QED BY <2>1, <2>2, <2>3, <1>1, <1>5, <1>21, <1>22 DEF Common
<1>24. Client(t, k, z, rcv)
  <2>1. t.dh = IF z.st = 2 /\ ~k.good[z.r] THEN k.key[z.r + 1] - 1 ELSE k.key[z.r + 1]
    BY <1>2, <1>4, <1>5, <1>7, <1>12, SMTT(60)
  <2>2. t.guess = 1 <=> k.good[z.r]
    BY <1>5, <1>7, <1>12
  <2> QED BY <2>1, <2>2, <1>1, <1>3, <1>12, <1>21, <1>23 DEF Client
<1>25. Settled(t, rcv)
  BY <1>21 DEF Settled
<1> QED BY <1>3, <1>5, <1>7, <1>12, <1>20, <1>22, <1>24, <1>25, <1>1 DEF ClientEnd

\* The server, which the client has not reached yet, sees no difference.
LEMMA ServerAgree ==
  ASSUME NEW s, NEW h, NEW snd, NEW rcv, NEW x, ServerEnd(s, h, snd, rcv, x),
         NEW k \in Hist, Rising(k), NEW c \in Point, c.st = 0, Le(rcv, c), Agree(h, k, c.r)
  PROVE  ServerEnd(s, k, snd, rcv, x)
<1>1. /\ h \in Hist /\ Rising(h) /\ snd \in Point /\ rcv \in Point
      /\ Server(s, h, snd, rcv) /\ Path("svr", s.out, x, snd, h)
      /\ Common(s, h, snd, rcv)
  BY DEF ServerEnd, Server
<1>2. /\ snd.r \in Nat /\ snd.st \in 0..3 /\ rcv.r \in Nat /\ rcv.st \in 0..3 /\ c.r \in Nat
  BY <1>1 DEF Point
<1>3. rcv.r <= c.r /\ (rcv.st # 0 => rcv.r < c.r)
  BY <1>2 DEF Le
<1>4. snd.r <= c.r /\ (snd.r = c.r => snd.st \in {0, 1})
  BY <1>1, <1>2, <1>3 DEF Server, Common, Phase
<1>5. k.key[snd.r] = h.key[snd.r] /\ k.key[rcv.r] = h.key[rcv.r] /\ k.strict = h.strict
  BY <1>2, <1>3, <1>4 DEF Agree
<1>6. rcv.st # 0 => k.good[rcv.r] = h.good[rcv.r]
  BY <1>2, <1>3 DEF Agree
<1>7. Path("svr", s.out, x, snd, k)
  BY <1>1, <1>2, <1>4, PathAgree DEF Before
<1>8. Numbers(s, k, snd, rcv)
  BY <1>1, <1>5 DEF Common, Numbers
<1>9. Phase(s, k, snd, rcv)
  BY <1>1, <1>5 DEF Common, Phase
<1>10. Unused(s, k, snd)
  BY <1>1, <1>5 DEF Common, Unused
<1>11. Common(s, k, snd, rcv)
  BY <1>1, <1>8, <1>9, <1>10 DEF Common
<1>12. Server(s, k, snd, rcv)
  <2>1. CASE rcv.st = 0
    BY <2>1, <1>1, <1>11, <1>2 DEF Server, Common, Phase
  <2>2. CASE rcv.st # 0
    BY <2>2, <1>1, <1>6, <1>11 DEF Server
  <2> QED BY <2>1, <2>2
<1> QED BY <1>1, <1>7, <1>12 DEF ServerEnd

-----------------------------------------------------------------------------
(* The loop handler of the client *)

\* cli_sessionloop sends the KEXDH_INIT after a wrong guess and keeps kex_state.
LEMMA CliLoop ==
  ASSUME NEW s, NEW h, NEW snd, NEW rcv, NEW x, ClientEnd(s, h, snd, rcv, x),
         Unsettled(s, rcv), NEW t, t = cli_sessionloop(s)
  PROVE  \E z : /\ ClientEnd(t, h, z, rcv, x) /\ Settled(t, rcv) /\ Later(s.last, t.last)
                /\ t.replyq = s.replyq /\ (t.dataallowed <=> s.dataallowed)
<1>1. /\ h \in Hist /\ Rising(h) /\ snd \in Point /\ rcv \in Point
      /\ Client(s, h, snd, rcv) /\ Path("cli", s.out, x, snd, h)
      /\ Common(s, h, snd, rcv) /\ Has(s)
  BY DEF ClientEnd, Client, Common
<1>2. /\ snd.r \in Nat /\ snd.st \in 0..3 /\ snd.n \in Nat /\ snd.a \in Nat
      /\ rcv.r \in Nat /\ rcv.st \in 0..3
      /\ h.key[snd.r] \in Nat /\ h.key[snd.r + 1] \in Nat /\ h.good[snd.r] \in BOOLEAN
  BY <1>1, Keys DEF Point
<1>3. rcv.st \in {0, 1, 2} /\ (rcv.st = 2 <=> snd.r # rcv.r)
  BY <1>1, <1>2 DEF Client
\* the state t that only has another kex_state
<1>4. ASSUME NEW d, NEW z, ClientEnd(d, h, z, rcv, x), NEW v,
             t = [d EXCEPT !.kex_state = v],
             \/ z.r # rcv.r
             \/ v = "KEXDH_INIT_SENT" /\ rcv.st = 1
                /\ z.st = IF h.good[rcv.r] THEN 2 ELSE 3
      PROVE  ClientEnd(t, h, z, rcv, x) /\ t.kex_state = v /\ t.last = d.last
             /\ t.lastpacket = d.lastpacket /\ t.replyq = d.replyq
             /\ t.dataallowed = d.dataallowed
  <2>1. Client(d, h, z, rcv) /\ Common(d, h, z, rcv) /\ Has(d) /\ z \in Point
    BY <1>4 DEF ClientEnd, Client, Common
  <2>2. Has(t) /\ Same(d, t, {"kex_state"})
    BY <2>1, <1>4 DEF Has, Same
  <2>3. t.kex_state = v
    BY <2>1, <1>4 DEF Has, Fields
  <2>4. Same(d, t, {"lastpacket", "requirenext", "kex_state"})
    BY <2>2 DEF Same
  <2>5. Common(t, h, z, rcv) /\ t.last = d.last /\ t.out = d.out
    BY <2>1, <2>2, <2>4, CommonMarked
  <2>6. /\ t.ignorenext = d.ignorenext /\ t.requirenext = d.requirenext
        /\ t.guess = d.guess /\ t.dh = d.dh /\ t.lastpacket = d.lastpacket
        /\ t.first_follows_matches = d.first_follows_matches
        /\ t.replyq = d.replyq /\ t.dataallowed = d.dataallowed
    BY <2>2 DEF Same, Fields
  <2>7. Client(t, h, z, rcv)
    BY <2>1, <2>3, <2>5, <2>6, <1>2, <1>4 DEF Client
  <2> QED BY <2>1, <2>3, <2>5, <2>6, <2>7, <1>4 DEF ClientEnd
<1>5. CASE s.lastpacket = "KEXINIT" /\ s.kex_state = "NOTHING"
  <2>1. rcv.st = 1 /\ snd.r = rcv.r /\ snd.st = 2
    BY <1>1, <1>2, <1>3, <1>5 DEF Unsettled, Client
  <2>2. s.first_follows_matches <=> h.good[rcv.r]
    BY <2>1, <1>1 DEF Client
  <2>3. CASE h.good[rcv.r]
    <3>1. t = [s EXCEPT !.kex_state = "KEXDH_INIT_SENT"]
      BY <2>2, <2>3, <1>5 DEF cli_sessionloop
    <3>2. ClientEnd(t, h, snd, rcv, x) /\ t.kex_state = "KEXDH_INIT_SENT" /\ t.last = s.last
          /\ t.replyq = s.replyq /\ t.dataallowed = s.dataallowed
      BY <3>1, <2>1, <2>3, <1>4
    <3>3. Settled(t, rcv)
      BY <3>2, <2>1 DEF Settled
    <3> QED BY <3>2, <3>3 DEF Later
  <2>4. CASE ~h.good[rcv.r]
    <3>1. PICK d : d = send_msg_kexdh_init(s)
      OBVIOUS
    <3>2. t = [d EXCEPT !.kex_state = "KEXDH_INIT_SENT"]
      BY <3>1, <2>2, <2>4, <1>5 DEF cli_sessionloop
    <3>3. /\ Has(d) /\ Same(s, d, {"out", "last", "transseq", "dh"})
          /\ d.out = Append(s.out, Pkt(s, "KEXDH_INIT", s.dh + 1))
          /\ d.last = <<s.ktrans, s.transseq>>
          /\ d.transseq = s.transseq + 1
          /\ d.dh = s.dh + 1
      BY <3>1, <1>1, CliDh
    <3>4. s.dh + 1 = h.key[snd.r + 1]
      BY <2>1, <2>4, <1>1, <1>2 DEF Client
    <3>5. s.ktrans = h.key[snd.r] /\ s.transseq = snd.n
      BY <1>1 DEF Common, Numbers
    <3>6. PICK z : z = [r |-> snd.r, st |-> 3, n |-> snd.n + 1, a |-> snd.a]
      OBVIOUS
    <3>7. z \in Point /\ z.r = snd.r /\ z.st = 3 /\ z.n = snd.n + 1 /\ z.a = snd.a
      BY <3>6, <1>2 DEF Point
    <3>8. Path("cli", d.out, x, z, h)
      <4>1. PICK q \in Packet : /\ q = Pkt(s, "KEXDH_INIT", s.dh + 1)
                                /\ q.type = "KEXDH_INIT" /\ q.arg = s.dh + 1
                                /\ q.key = s.ktrans /\ q.seq = s.transseq
        BY <3>4, <3>5, <1>2, PktIn DEF PacketType
      <4>2. Step("cli", q, snd, z, h)
        BY <4>1, <3>4, <3>5, <3>7, <2>1, <2>4, <1>2 DEF Step, IsApp
      <4> QED BY <4>1, <4>2, <3>3, <3>7, <1>1, PathAppend
    <3>9. /\ d.exit = s.exit /\ d.ktrans = s.ktrans /\ d.krecv = s.krecv
          /\ d.recvseq = s.recvseq /\ d.recvnewkeys = s.recvnewkeys
          /\ d.newtrans = s.newtrans /\ d.newrecv = s.newrecv
          /\ d.dataallowed = s.dataallowed /\ d.sentkexinit = s.sentkexinit
          /\ d.donefirstkex = s.donefirstkex /\ d.recvfirstnewkeys = s.recvfirstnewkeys
          /\ d.strictpeer = s.strictpeer /\ d.strict_kex = s.strict_kex
          /\ d.recvkexinit = s.recvkexinit /\ d.sentnewkeys = s.sentnewkeys
          /\ d.replyq = s.replyq /\ d.sent = s.sent /\ d.got = s.got
          /\ d.ignorenext = s.ignorenext /\ d.requirenext = s.requirenext
          /\ d.guess = s.guess /\ d.lastpacket = s.lastpacket
          /\ d.first_follows_matches = s.first_follows_matches
      BY <3>3 DEF Same, Fields
    <3>10. Unused(d, h, z) /\ Later(s.last, d.last)
      BY <3>3, <3>5, <3>7, <1>1, LastSent DEF Common
    <3>11. Common(d, h, z, rcv)
      <4>1. Numbers(d, h, z, rcv)
        BY <3>3, <3>5, <3>7, <3>9, <1>1 DEF Common, Numbers
      <4>2. Phase(d, h, z, rcv)
        BY <3>7, <3>9, <2>1, <1>1 DEF Common, Phase
      <4>3. Waits(d, z, rcv)
        BY <3>7, <3>9, <1>1 DEF Common, Waits
      <4> QED BY <4>1, <4>2, <4>3, <3>3, <3>9, <3>10, <1>1 DEF Common
    <3>13. /\ Has(t) /\ Same(d, t, {"kex_state"})
      BY <3>2, <3>3 DEF Has, Same
    <3>14. t.kex_state = "KEXDH_INIT_SENT"
      BY <3>2, <3>3 DEF Has, Fields
    <3>15. Same(d, t, {"lastpacket", "requirenext", "kex_state"})
      BY <3>13 DEF Same
    <3>16. Common(t, h, z, rcv) /\ t.last = d.last /\ t.out = d.out
      BY <3>11, <3>13, <3>15, CommonMarked
    <3>17. /\ t.ignorenext = d.ignorenext /\ t.requirenext = d.requirenext
           /\ t.guess = d.guess /\ t.dh = d.dh /\ t.replyq = d.replyq
           /\ t.first_follows_matches = d.first_follows_matches
           /\ t.dataallowed = d.dataallowed
      BY <3>13 DEF Same, Fields
    <3>18. Client(t, h, z, rcv)
      <4>1. t.dh = h.key[z.r + 1]
        BY <3>3, <3>4, <3>7, <3>17
      <4> QED BY <4>1, <3>7, <3>9, <3>14, <3>16, <3>17, <2>1, <2>4, <1>1 DEF Client
    <3>19. Settled(t, rcv)
      BY <3>14, <2>1 DEF Settled
    <3> QED BY <3>7, <3>8, <3>9, <3>10, <3>16, <3>17, <3>18, <3>19, <1>1 DEF ClientEnd
  <2> QED BY <2>3, <2>4
<1>6. CASE ~(s.lastpacket = "KEXINIT" /\ s.kex_state = "NOTHING") /\ s.sentnewkeys
  <2>1. t = [s EXCEPT !.kex_state = "NOTHING"]
    BY <1>6 DEF cli_sessionloop
  <2>2. snd.r # rcv.r /\ rcv.st = 2
    BY <1>1, <1>3, <1>6 DEF Common, Phase
  <2>3. ClientEnd(t, h, snd, rcv, x) /\ t.kex_state = "NOTHING" /\ t.last = s.last
        /\ t.lastpacket = s.lastpacket /\ t.replyq = s.replyq
        /\ t.dataallowed = s.dataallowed
    BY <2>1, <2>2, <1>4
  <2>4. Settled(t, rcv)
    BY <2>2, <2>3 DEF Settled, Unsettled
  <2> QED BY <2>3, <2>4 DEF Later
<1>7. CASE ~(s.lastpacket = "KEXINIT" /\ s.kex_state = "NOTHING") /\ ~s.sentnewkeys
  <2>1. t = s
    BY <1>7 DEF cli_sessionloop
  <2>2. rcv.st # 2
    BY <1>1, <1>3, <1>7 DEF Common, Phase
  <2>3. Settled(t, rcv)
    BY <2>1, <2>2, <1>3, <1>7 DEF Settled, Unsettled
  <2> QED BY <2>1, <2>3 DEF Later
<1> QED BY <1>5, <1>6, <1>7

-----------------------------------------------------------------------------
(* Application packets: channelio and the reply queue *)

\* f may send application packets at point z.
Ready(e, f, h, z, x) ==
    /\ Has(f) /\ f.dataallowed /\ z \in Point /\ z.r >= 1 /\ z.st = 0
    /\ f.ktrans = h.key[z.r] /\ f.transseq = z.n
    /\ Unused(f, h, z) /\ Path(e, f.out, x, z, h)

\* An application packet that is sent
LEMMA AppSent ==
  ASSUME NEW e, NEW h \in Hist, Rising(h), NEW f, NEW z, NEW x, Ready(e, f, h, z, x),
         NEW type \in {"DATA", "ODD"}, NEW arg, arg = z.a + 1,
         NEW t, t = Encrypt(f, type, arg)
  PROVE  /\ Same(f, t, {"out", "last", "transseq"}) /\ Later(f.last, t.last)
         /\ \E y \in Point : /\ Ready(e, t, h, y, x) /\ y.r = z.r /\ y.a = z.a + 1
<1>1. /\ Has(f) /\ f.dataallowed /\ z \in Point /\ z.r >= 1 /\ z.st = 0
      /\ f.ktrans = h.key[z.r] /\ f.transseq = z.n
      /\ Unused(f, h, z) /\ Path(e, f.out, x, z, h)
  BY DEF Ready
<1>2. z.r \in Nat /\ z.n \in Nat /\ z.a \in Nat /\ h.key[z.r] \in Nat
  BY <1>1, Keys DEF Point
<1>3. /\ Has(t) /\ Same(f, t, {"out", "last", "transseq"})
      /\ t.out = Append(f.out, Pkt(f, type, arg))
      /\ t.last = <<f.ktrans, f.transseq>>
      /\ t.transseq = f.transseq + 1
  BY <1>1, EncryptSends
<1>4. PICK y : y = [r |-> z.r, st |-> 0, n |-> z.n + 1, a |-> z.a + 1]
  OBVIOUS
<1>5. y \in Point /\ y.r = z.r /\ y.st = 0 /\ y.n = z.n + 1 /\ y.a = z.a + 1
  BY <1>2, <1>4 DEF Point
<1>6. PICK p \in Packet : /\ p = Pkt(f, type, arg) /\ p.type = type /\ p.arg = arg
                          /\ p.key = f.ktrans /\ p.seq = f.transseq
  BY <1>1, <1>2, PktIn DEF PacketType
<1>7. Step(e, p, z, y, h)
  BY <1>1, <1>2, <1>5, <1>6 DEF Step, IsApp
<1>8. Path(e, t.out, x, y, h)
  BY <1>1, <1>3, <1>5, <1>6, <1>7, PathAppend
<1>9. Unused(t, h, y) /\ Later(f.last, t.last)
  BY <1>1, <1>3, <1>5, LastSent
<1>10. t.ktrans = f.ktrans /\ t.dataallowed = f.dataallowed
  BY <1>3 DEF Same, Fields
<1>11. Ready(e, t, h, y, x)
  BY <1>1, <1>3, <1>5, <1>8, <1>9, <1>10 DEF Ready
<1> QED BY <1>3, <1>5, <1>9, <1>11

\* A set of numbers has a least one.
LEMMA LeastOf ==
  ASSUME NEW S, S \subseteq Nat, S # {}
  PROVE  \E m \in S : \A k \in S : m <= k
<1>1. \E m \in S : \A k \in S : ~(<<k, m>> \in OpToRel(<, Nat))
  BY WFMin, NatLessThanWellFounded
<1>2. \A m, k \in S : ~(<<k, m>> \in OpToRel(<, Nat)) => m <= k
  BY DEF OpToRel
<1> QED BY <1>1, <1>2

\* Induction up to n, for a set
LEMMA UpTo ==
  ASSUME NEW n \in Nat, NEW P, 0 \in P, \A i \in 0..n : i \in P /\ i < n => i + 1 \in P
  PROVE  \A i \in 0..n : i \in P
<1> DEFINE Bad == {i \in 0..n : i \notin P}
<1> SUFFICES ASSUME Bad # {} PROVE FALSE
  OBVIOUS
<1>1. Bad \subseteq Nat
  OBVIOUS
<1>2. PICK m \in Bad : \A k \in Bad : m <= k
  BY <1>1, LeastOf
<1>3. m \in 0..n /\ m \notin P /\ m # 0
  BY <1>2
<1>4. m - 1 \in 0..n /\ m - 1 < n /\ m - 1 \notin Bad /\ (m - 1) + 1 = m
  BY <1>2, <1>3
<1>5. m - 1 \in P
  BY <1>4
<1> QED BY <1>3, <1>4, <1>5

\* The state after packet i of q, from the state after the one before
Onward(q, i, u) == Encrypt(u, q[i].type, q[i].arg)

\* The recursive function of maybe_flush_reply_queue
Flushes(f, q, a) ==
    f = [i \in 0..Len(q) |-> IF i = 0 THEN a ELSE Onward(q, i, f[i - 1])]

\* The recursive function of maybe_flush_reply_queue has values.
LEMMA SentExists ==
  ASSUME NEW q, Len(q) \in Nat, NEW a
  PROVE  \E f : Flushes(f, q, a)
<1> DEFINE Part(f, n) == /\ f = [i \in 0..n |-> f[i]] /\ f[0] = a
                         /\ \A i \in 1..n : f[i] = Onward(q, i, f[i - 1])
           P == {n \in 0..Len(q) : \E f : Part(f, n)}
<1>1. 0 \in P
  <2>1. Part([i \in 0..0 |-> a], 0)
    OBVIOUS
  <2>2. 0 \in 0..Len(q)
    OBVIOUS
  <2> QED BY <2>1, <2>2
<1>2. ASSUME NEW n \in 0..Len(q), n \in P, n < Len(q) PROVE n + 1 \in P
  <2>1. PICK f : Part(f, n)
    BY <1>2
  <2>2. PICK v : v = Onward(q, n + 1, f[n])
    OBVIOUS
  <2>3. PICK d : d = [i \in 0..(n + 1) |-> IF i <= n THEN f[i] ELSE v]
    OBVIOUS
  <2>4. d = [i \in 0..(n + 1) |-> d[i]] /\ d[0] = a
    BY <2>1, <2>3
  <2>5. ASSUME NEW i \in 1..(n + 1) PROVE d[i] = Onward(q, i, d[i - 1])
    <3>1. i \in 0..(n + 1) /\ i - 1 \in 0..(n + 1) /\ i - 1 <= n
      OBVIOUS
    <3>2. d[i - 1] = f[i - 1]
      BY <2>3, <3>1
    <3>3. CASE i <= n
      <4>1. i \in 1..n /\ d[i] = f[i]
        BY <2>3, <3>1, <3>3
      <4> QED BY <2>1, <3>2, <4>1
    <3>4. CASE ~(i <= n)
      <4>1. i = n + 1 /\ i - 1 = n /\ d[i] = v
        BY <2>3, <3>1, <3>4
      <4> QED BY <2>2, <3>2, <4>1
    <3> QED BY <3>3, <3>4
  <2>6. n + 1 \in 0..Len(q)
    BY <1>2
  <2>7. Part(d, n + 1)
    BY <2>4, <2>5
  <2> QED BY <2>6, <2>7
<1> HIDE DEF P
<1>3. Len(q) \in P
  <2>1. \A i \in 0..Len(q) : i \in P /\ i < Len(q) => i + 1 \in P
    BY <1>2
  <2>2. \A i \in 0..Len(q) : i \in P
    BY <1>1, <2>1, UpTo
  <2>3. Len(q) \in 0..Len(q)
    OBVIOUS
  <2> QED BY <2>2, <2>3
<1>4. PICK f : Part(f, Len(q))
  BY <1>3 DEF P
<1>5. \A i \in 0..Len(q) : f[i] = IF i = 0 THEN a ELSE Onward(q, i, f[i - 1])
  BY <1>4, SMTT(60)
<1>6. f = [i \in 0..Len(q) |-> IF i = 0 THEN a ELSE Onward(q, i, f[i - 1])]
  BY <1>4, <1>5
<1> QED BY <1>6 DEF Flushes

\* f has sent application packets since it was at point snd.
SameRound(e, f, h, snd, rcv, x) ==
    \E z \in Point : /\ z.r = snd.r /\ z.st = snd.st
                     /\ Common(f, h, z, rcv) /\ Path(e, f.out, x, z, h)

\* The queue goes out as it stands.
LEMMA Flushed ==
  ASSUME NEW e, NEW h \in Hist, Rising(h), NEW s, NEW snd \in Point, NEW rcv \in Point, NEW x,
         Common(s, h, snd, rcv), Path(e, s.out, x, snd, h),
         NEW t, t = maybe_flush_reply_queue(s)
  PROVE  /\ Has(t) /\ Same(s, t, {"out", "last", "transseq", "replyq"})
         /\ Later(s.last, t.last) /\ (t.dataallowed => t.replyq = <<>>)
         /\ SameRound(e, t, h, snd, rcv, x)
<1>1. CASE ~s.dataallowed
  <2>1. t = s
    BY <1>1 DEF maybe_flush_reply_queue
  <2> QED BY <2>1, <1>1 DEF Common, Same, Later, SameRound
<1>2. CASE s.dataallowed
  <2>1. PICK q : q = s.replyq
    OBVIOUS
  <2>2. /\ q \in Seq(Held) /\ Len(q) \in Nat /\ (q # <<>> => snd.r >= 1)
        /\ s.sent = snd.a + Len(q)
        /\ \A i \in 1..Len(q) : q[i].arg = snd.a + i
    BY <2>1 DEF Common, Waits
  <2>3. /\ snd.r \in Nat /\ snd.st = 0 /\ snd.n \in Nat /\ snd.a \in Nat /\ Has(s)
        /\ s.ktrans = h.key[snd.r] /\ s.transseq = snd.n /\ Unused(s, h, snd)
        /\ s.last \in Nat \X Int
    BY <1>2 DEF Point, Common, Phase, Numbers, Unused
  <2>4. PICK a : a = [s EXCEPT !.replyq = <<>>]
    OBVIOUS
  <2>5. Has(a) /\ Same(s, a, {"replyq"})
    BY <2>3, <2>4 DEF Has, Same
  <2>6. a.replyq = <<>>
    BY <2>3, <2>4 DEF Has, Fields
  <2>7. PICK f : f = CHOOSE b : Flushes(b, q, a)
    OBVIOUS
  <2>8. f = [i \in 0..Len(q) |-> IF i = 0 THEN a ELSE Onward(q, i, f[i - 1])]
    <3>1. \E b : Flushes(b, q, a)
      BY <2>2, SentExists
    <3>2. Flushes(f, q, a)
      BY <3>1, <2>7, Zenon
    <3> QED BY <3>2 DEF Flushes
  <2>9. t = f[Len(q)]
    BY <1>2, <2>1, <2>4, <2>7 DEF maybe_flush_reply_queue, Onward, Flushes
  <2>10. /\ f[0] = a
         /\ \A i \in 1..Len(q) : f[i] = Onward(q, i, f[i - 1])
    BY <2>2, <2>8
  <2> DEFINE Good(i) == /\ Has(f[i]) /\ Same(a, f[i], {"out", "last", "transseq"})
                        /\ Later(s.last, f[i].last)
                        /\ \E z \in Point : /\ z.r = snd.r /\ z.st = 0 /\ z.a = snd.a + i
                                            /\ f[i].ktrans = h.key[z.r] /\ f[i].transseq = z.n
                                            /\ Unused(f[i], h, z)
                                            /\ Path(e, f[i].out, x, z, h)
             P == {i \in 0..Len(q) : Good(i)}
  <2>11. 0 \in P
    <3>1. a.ktrans = s.ktrans /\ a.transseq = s.transseq /\ a.last = s.last /\ a.out = s.out
      BY <2>5 DEF Same, Fields
    <3>2. Unused(a, h, snd)
      BY <3>1, <2>3 DEF Unused
    <3>3. Same(a, a, {"out", "last", "transseq"}) /\ Later(s.last, a.last)
      BY <3>1 DEF Same, Later
    <3>4. Good(0)
      BY <3>1, <3>2, <3>3, <2>3, <2>5, <2>10
    <3> QED BY <3>4, <2>2
  <2>12. ASSUME NEW i \in 0..Len(q), i \in P, i < Len(q) PROVE i + 1 \in P
    <3>1. i + 1 \in 0..Len(q) /\ i + 1 \in 1..Len(q) /\ (i + 1) - 1 = i /\ Len(q) # 0
      BY <2>2, <2>12
    <3>2. PICK u, v : u = f[i] /\ v = f[i + 1]
      OBVIOUS
    <3>3. /\ Has(u) /\ Same(a, u, {"out", "last", "transseq"}) /\ Later(s.last, u.last)
      BY <3>2, <2>12
    <3>4. PICK z \in Point : /\ z.r = snd.r /\ z.st = 0 /\ z.a = snd.a + i
                             /\ u.ktrans = h.key[z.r] /\ u.transseq = z.n
                             /\ Unused(u, h, z) /\ Path(e, u.out, x, z, h)
      BY <3>2, <2>12
    <3>5. u.dataallowed
      <4>1. a.dataallowed = s.dataallowed /\ u.dataallowed = a.dataallowed
        BY <3>3, <2>5 DEF Same, Fields
      <4> QED BY <4>1, <1>2
    <3>6. q # <<>> /\ snd.r >= 1
      BY <3>1, <2>2
    <3>7. Ready(e, u, h, z, x)
      BY <3>3, <3>4, <3>5, <3>6 DEF Ready
    <3>8. /\ q[i + 1].type \in {"DATA", "ODD"} /\ q[i + 1].arg = z.a + 1
      <4>1. q[i + 1] \in Held /\ q[i + 1].arg = snd.a + (i + 1)
        BY <3>1, <2>2
      <4>2. q[i + 1].type \in {"DATA", "ODD"}
        BY <4>1 DEF Held
      <4>3. PICK m \in Nat : m = snd.a
        BY <2>3
      <4>4. i \in Nat /\ m + (i + 1) = (m + i) + 1
        BY <2>2
      <4> QED BY <4>1, <4>2, <4>3, <4>4, <3>4
    <3>9. v = Encrypt(u, q[i + 1].type, q[i + 1].arg)
      BY <3>1, <3>2, <2>10 DEF Onward
    <3>10. /\ Same(u, v, {"out", "last", "transseq"}) /\ Later(u.last, v.last)
           /\ \E y \in Point : /\ Ready(e, v, h, y, x) /\ y.r = z.r /\ y.a = z.a + 1
      BY <3>7, <3>8, <3>9, AppSent
    <3>11. PICK y \in Point : Ready(e, v, h, y, x) /\ y.r = z.r /\ y.a = z.a + 1
      BY <3>10
    <3>12. Same(a, v, {"out", "last", "transseq"})
      BY <3>3, <3>10 DEF Same
    <3>13. Later(s.last, v.last)
      BY <3>3, <3>4, <3>10, <3>11, <2>3, LaterTrans DEF Ready, Unused
    <3>14. y.a = snd.a + (i + 1)
      BY <3>4, <3>11, <2>3
    <3>15. Good(i + 1)
      BY <3>2, <3>4, <3>11, <3>12, <3>13, <3>14 DEF Ready
    <3> QED BY <3>1, <3>15
  <2> HIDE DEF P
  <2>13. Len(q) \in P
    <3>1. \A i \in 0..Len(q) : i \in P /\ i < Len(q) => i + 1 \in P
      BY <2>12
    <3>2. \A i \in 0..Len(q) : i \in P
      BY <2>2, <2>11, <3>1, UpTo
    <3>3. Len(q) \in 0..Len(q)
      BY <2>2
    <3> QED BY <3>2, <3>3
  <2>14. Good(Len(q))
    BY <2>13 DEF P
  <2>15. /\ Has(t) /\ Same(a, t, {"out", "last", "transseq"}) /\ Later(s.last, t.last)
    BY <2>9, <2>14
  <2>16. PICK z \in Point : /\ z.r = snd.r /\ z.st = 0 /\ z.a = snd.a + Len(q)
                            /\ t.ktrans = h.key[z.r] /\ t.transseq = z.n
                            /\ Unused(t, h, z) /\ Path(e, t.out, x, z, h)
    BY <2>9, <2>14
  <2>17. Same(s, t, {"out", "last", "transseq", "replyq"})
    BY <2>5, <2>15 DEF Same
  <2>18. t.replyq = <<>>
    <3>1. t.replyq = a.replyq
      BY <2>15 DEF Same, Fields
    <3> QED BY <3>1, <2>6
  <2>19. /\ t.exit = s.exit /\ t.krecv = s.krecv
         /\ t.recvseq = s.recvseq /\ t.recvnewkeys = s.recvnewkeys
         /\ t.newtrans = s.newtrans /\ t.newrecv = s.newrecv
         /\ t.dataallowed = s.dataallowed /\ t.sentkexinit = s.sentkexinit
         /\ t.donefirstkex = s.donefirstkex /\ t.recvfirstnewkeys = s.recvfirstnewkeys
         /\ t.strictpeer = s.strictpeer /\ t.strict_kex = s.strict_kex
         /\ t.recvkexinit = s.recvkexinit /\ t.sentnewkeys = s.sentnewkeys
         /\ t.sent = s.sent /\ t.got = s.got
    BY <2>17 DEF Same, Fields
  <2>20. Numbers(t, h, z, rcv)
    BY <2>16, <2>19 DEF Common, Numbers
  <2>21. Phase(t, h, z, rcv)
    BY <2>3, <2>16, <2>19 DEF Common, Phase
  <2>22. Waits(t, z, rcv)
    <3>1. t.got = rcv.a
      BY <2>19 DEF Common, Waits
    <3>2. z.a + Len(t.replyq) = snd.a + Len(q) /\ t.replyq \in Seq(Held)
      BY <2>2, <2>3, <2>16, <2>18
    <3>3. \A i \in 1..Len(t.replyq) : FALSE
      BY <2>18
    <3> QED BY <3>1, <3>2, <3>3, <2>2, <2>18, <2>19 DEF Waits
  <2>23. Common(t, h, z, rcv)
    BY <2>15, <2>16, <2>19, <2>20, <2>21, <2>22 DEF Common
  <2>24. SameRound(e, t, h, snd, rcv, x)
    BY <2>3, <2>16, <2>23 DEF SameRound
  <2> QED BY <2>15, <2>17, <2>18, <2>24
<1> QED BY <1>1, <1>2

\* channelio: the packet goes out at once, or behind those that wait.
LEMMA Talks ==
  ASSUME NEW e, NEW h \in Hist, Rising(h), NEW s, NEW snd \in Point, NEW rcv \in Point, NEW x,
         Common(s, h, snd, rcv), Path(e, s.out, x, snd, h),
         s.donefirstkex, s.dataallowed => s.replyq = <<>>,
         NEW type \in {"DATA", "ODD"}, NEW t, t = Talk(s, type)
  PROVE  /\ Has(t) /\ Same(s, t, {"out", "last", "transseq", "replyq", "sent"})
         /\ Later(s.last, t.last)
         /\ SameRound(e, t, h, snd, rcv, x)
<1>1. /\ s.replyq \in Seq(Held) /\ Len(s.replyq) \in Nat
      /\ s.sent = snd.a + Len(s.replyq)
      /\ \A i \in 1..Len(s.replyq) : s.replyq[i].arg = snd.a + i
      /\ s.got = rcv.a
  BY DEF Common, Waits
<1>2. /\ snd.r \in Nat /\ snd.r >= 1 /\ snd.st \in 0..3 /\ snd.n \in Nat /\ snd.a \in Nat /\ Has(s)
      /\ s.ktrans = h.key[snd.r] /\ s.transseq = snd.n /\ Unused(s, h, snd)
      /\ s.dataallowed <=> snd.st = 0
  BY DEF Point, Common, Phase, Numbers
<1>3. PICK u : u = Encrypt(s, type, s.sent + 1)
  OBVIOUS
<1>4. t = [u EXCEPT !.sent = u.sent + 1]
  <2>1. type # None
    BY DEF None
  <2> QED BY <2>1, <1>3 DEF Talk
\* what follows from what Encrypt does
<1>5. ASSUME Has(u), Same(s, u, {"out", "last", "transseq", "replyq"}), Later(s.last, u.last),
             NEW z \in Point, z.r = snd.r, z.st = snd.st,
             u.transseq = z.n, Unused(u, h, z), Path(e, u.out, x, z, h),
             u.replyq \in Seq(Held), s.sent + 1 = z.a + Len(u.replyq),
             \A i \in 1..Len(u.replyq) : u.replyq[i].arg = z.a + i
      PROVE  /\ Has(t) /\ Same(s, t, {"out", "last", "transseq", "replyq", "sent"})
             /\ Later(s.last, t.last)
             /\ SameRound(e, t, h, snd, rcv, x)
  <2>1. Has(t) /\ Same(u, t, {"sent"})
    BY <1>4, <1>5 DEF Has, Same
  <2>2. t.sent = u.sent + 1
    BY <1>4, <1>5 DEF Has, Fields
  <2>3. Same(s, t, {"out", "last", "transseq", "replyq", "sent"})
    BY <2>1, <1>5 DEF Same
  <2>4. /\ t.out = u.out /\ t.last = u.last /\ t.transseq = u.transseq
        /\ t.replyq = u.replyq /\ u.sent = s.sent
    BY <2>1, <1>5 DEF Same, Fields
  <2>5. /\ t.exit = s.exit /\ t.ktrans = s.ktrans /\ t.krecv = s.krecv
        /\ t.recvseq = s.recvseq /\ t.recvnewkeys = s.recvnewkeys
        /\ t.newtrans = s.newtrans /\ t.newrecv = s.newrecv
        /\ t.dataallowed = s.dataallowed /\ t.sentkexinit = s.sentkexinit
        /\ t.donefirstkex = s.donefirstkex /\ t.recvfirstnewkeys = s.recvfirstnewkeys
        /\ t.strictpeer = s.strictpeer /\ t.strict_kex = s.strict_kex
        /\ t.recvkexinit = s.recvkexinit /\ t.sentnewkeys = s.sentnewkeys
        /\ t.got = s.got
    BY <2>3 DEF Same, Fields
  <2>6. Numbers(t, h, z, rcv)
    BY <2>4, <2>5, <1>5 DEF Common, Numbers
  <2>7. Phase(t, h, z, rcv)
    BY <2>5, <1>5 DEF Common, Phase
  <2>8. Waits(t, z, rcv)
    BY <2>2, <2>4, <2>5, <1>1, <1>2, <1>5 DEF Waits
  <2>9. Unused(t, h, z)
    BY <2>4, <1>5 DEF Unused
  <2>10. Common(t, h, z, rcv)
    BY <2>1, <2>5, <2>6, <2>7, <2>8, <2>9 DEF Common
  <2>11. SameRound(e, t, h, snd, rcv, x)
    BY <2>4, <2>10, <1>5 DEF SameRound
  <2> QED BY <2>1, <2>3, <2>4, <2>11, <1>5
<1>6. CASE s.dataallowed
  <2>1. Ready(e, s, h, snd, x)
    BY <1>2, <1>6 DEF Ready
  <2>2. s.replyq = <<>> /\ s.sent = snd.a
    BY <1>1, <1>2, <1>6
  <2>3. /\ Same(s, u, {"out", "last", "transseq"}) /\ Later(s.last, u.last)
        /\ \E y \in Point : /\ Ready(e, u, h, y, x) /\ y.r = snd.r /\ y.a = snd.a + 1
    BY <2>1, <2>2, <1>3, AppSent
  <2>4. PICK y \in Point : Ready(e, u, h, y, x) /\ y.r = snd.r /\ y.a = snd.a + 1
    BY <2>3
  <2>5. /\ Has(u) /\ y.st = snd.st /\ u.transseq = y.n /\ Unused(u, h, y)
        /\ Path(e, u.out, x, y, h)
    BY <2>4, <1>2, <1>6 DEF Ready
  <2>6. u.replyq = <<>>
    <3>1. u.replyq = s.replyq
      BY <2>3 DEF Same, Fields
    <3> QED BY <3>1, <2>2
  <2>7. /\ u.replyq \in Seq(Held) /\ s.sent + 1 = y.a + Len(u.replyq)
        /\ \A i \in 1..Len(u.replyq) : u.replyq[i].arg = y.a + i
    BY <2>2, <2>4, <2>6, <1>2
  <2>8. Same(s, u, {"out", "last", "transseq", "replyq"})
    BY <2>3 DEF Same
  <2> QED BY <2>3, <2>4, <2>5, <2>7, <2>8, <1>5
<1>7. CASE ~s.dataallowed
  <2>1. PICK p : p = [type |-> type, arg |-> s.sent + 1]
    OBVIOUS
  <2>2. Has(u) /\ Same(s, u, {"replyq"}) /\ u.replyq = Append(s.replyq, p)
    BY <2>1, <1>2, <1>3, <1>7, EncryptHolds
  <2>3. u.out = s.out /\ u.last = s.last /\ u.transseq = s.transseq
    BY <2>2 DEF Same, Fields
  <2>4. Same(s, u, {"out", "last", "transseq", "replyq"})
    BY <2>2 DEF Same
  <2>5. PICK n \in Nat, a \in Nat : n = Len(s.replyq) /\ a = snd.a
    BY <1>1, <1>2
  <2>6. p \in Held /\ p.arg = a + (n + 1)
    BY <2>1, <2>5, <1>1, SMTT(60) DEF Held
  <2>7. /\ u.replyq \in Seq(Held) /\ Len(u.replyq) = n + 1
        /\ \A i \in 1..n : u.replyq[i] = s.replyq[i]
        /\ u.replyq[n + 1] = p
    BY <2>2, <2>5, <2>6, <1>1
  <2>8. \A i \in 1..(n + 1) : u.replyq[i].arg = a + i
    <3> TAKE i \in 1..(n + 1)
    <3>1. CASE i = n + 1
      BY <3>1, <2>6, <2>7
    <3>2. CASE i # n + 1
      <4>1. i \in 1..n
        BY <3>2
      <4> QED BY <4>1, <2>5, <2>7, <1>1
    <3> QED BY <3>1, <3>2
  <2>9. s.sent + 1 = snd.a + Len(u.replyq)
    <3>1. s.sent = a + n
      BY <2>5, <1>1
    <3>2. (a + n) + 1 = a + (n + 1)
      OBVIOUS
    <3> QED BY <3>1, <3>2, <2>5, <2>7
  <2>10. Later(s.last, u.last) /\ Unused(u, h, snd)
    BY <2>3, <1>2 DEF Later, Unused
  <2>11. \A i \in 1..Len(u.replyq) : u.replyq[i].arg = snd.a + i
    BY <2>5, <2>7, <2>8
  <2>12. Path(e, u.out, x, snd, h) /\ u.transseq = snd.n
    BY <2>3, <1>2
  <2> QED BY <2>2, <2>4, <2>7, <2>9, <2>10, <2>11, <2>12, <1>5
<1> QED BY <1>6, <1>7

\* Neither of these, nor the peer's reading, moves an end in the exchange.
LEMMA ServerStays ==
  ASSUME NEW s, NEW h, NEW snd, NEW rcv, NEW x, ServerEnd(s, h, snd, rcv, x),
         NEW z \in Point, z.r = snd.r, z.st = snd.st,
         NEW t, Common(t, h, z, rcv), NEW y, Path("svr", t.out, y, z, h),
         Same(s, t, {"out", "last", "transseq", "replyq", "sent"})
  PROVE  ServerEnd(t, h, z, rcv, y)
<1>1. t.ignorenext = s.ignorenext /\ t.requirenext = s.requirenext
  BY DEF Same, Fields
<1>2. Server(t, h, z, rcv)
  BY <1>1 DEF ServerEnd, Server
<1> QED BY <1>2 DEF ServerEnd

\* and the client
LEMMA ClientStays ==
  ASSUME NEW s, NEW h, NEW snd, NEW rcv, NEW x, ClientEnd(s, h, snd, rcv, x),
         NEW z \in Point, z.r = snd.r, z.st = snd.st,
         NEW t, Common(t, h, z, rcv), NEW y, Path("cli", t.out, y, z, h),
         Same(s, t, {"out", "last", "transseq", "replyq", "sent"})
  PROVE  ClientEnd(t, h, z, rcv, y)
<1>1. /\ t.ignorenext = s.ignorenext /\ t.requirenext = s.requirenext
      /\ t.kex_state = s.kex_state /\ t.guess = s.guess /\ t.dh = s.dh
      /\ t.first_follows_matches = s.first_follows_matches
  BY DEF Same, Fields
<1>2. Client(t, h, z, rcv)
  BY <1>1 DEF ClientEnd, Client
<1> QED BY <1>2 DEF ClientEnd

\* They leave what the loop handler looks at.
LEMMA SettledStays ==
  ASSUME NEW s, NEW t, Same(s, t, {"out", "last", "transseq", "replyq", "sent"}), NEW rcv
  PROVE  /\ Settled(s, rcv) => Settled(t, rcv)
         /\ Unsettled(s, rcv) => Unsettled(t, rcv)
<1>1. t.kex_state = s.kex_state /\ t.lastpacket = s.lastpacket
  BY DEF Same, Fields
<1> QED BY <1>1 DEF Settled, Unsettled

\* The peer has read the first packet under way.
Taken(s) == [s EXCEPT !.out = Tail(@)]

\* Common does not look at the packets under way.
LEMMA TailStays ==
  ASSUME NEW s, NEW h, NEW snd, NEW rcv, Common(s, h, snd, rcv),
         NEW t, t = Taken(s)
  PROVE  /\ Common(t, h, snd, rcv) /\ t.out = Tail(s.out) /\ t.last = s.last
         /\ Same(s, t, {"out", "last", "transseq", "replyq", "sent"})
<1>1. Has(t) /\ Same(s, t, {"out"})
  BY DEF Common, Has, Same, Taken
<1>2. t.out = Tail(s.out)
  BY DEF Common, Has, Fields, Taken
<1>3. /\ t.exit = s.exit /\ t.ktrans = s.ktrans /\ t.krecv = s.krecv
      /\ t.transseq = s.transseq /\ t.recvseq = s.recvseq /\ t.recvnewkeys = s.recvnewkeys
      /\ t.newtrans = s.newtrans /\ t.newrecv = s.newrecv
      /\ t.dataallowed = s.dataallowed /\ t.sentkexinit = s.sentkexinit
      /\ t.donefirstkex = s.donefirstkex /\ t.recvfirstnewkeys = s.recvfirstnewkeys
      /\ t.strictpeer = s.strictpeer /\ t.strict_kex = s.strict_kex
      /\ t.recvkexinit = s.recvkexinit /\ t.sentnewkeys = s.sentnewkeys
      /\ t.replyq = s.replyq /\ t.sent = s.sent /\ t.got = s.got
      /\ t.last = s.last
  BY <1>1 DEF Same, Fields
<1>4. Numbers(t, h, snd, rcv)
  BY <1>3 DEF Common, Numbers
<1>5. Phase(t, h, snd, rcv)
  BY <1>3 DEF Common, Phase
<1>6. Waits(t, snd, rcv)
  BY <1>3 DEF Common, Waits
<1>7. Unused(t, h, snd)
  BY <1>3 DEF Common, Unused
<1>8. Common(t, h, snd, rcv)
  BY <1>1, <1>3, <1>4, <1>5, <1>6, <1>7 DEF Common
<1>9. Same(s, t, {"out", "last", "transseq", "replyq", "sent"})
  BY <1>1 DEF Same
<1> QED BY <1>2, <1>3, <1>8, <1>9

-----------------------------------------------------------------------------
(* The peer's KEXINIT at an end that has not sent its own: the same as if a *)
(* timeout had sent it just before the packet was read                      *)

\* The fields that send_msg_kexinit changes
SentWithKexinit == {"out", "last", "transseq", "dataallowed", "sentkexinit",
                    "newtrans", "newrecv", "guess", "dh"}

\* It changes them in the same way whether recvseq and requirenext were already
\* changed for the packet that is being read or not.
LEMMA SameKexinit ==
  ASSUME NEW s, Has(s), s.dataallowed, NEW e \in End, NEW g,
         NEW b, Has(b), Same(s, b, {"recvseq", "requirenext"}),
         NEW r, r = send_msg_kexinit(s, e, g), NEW d, d = send_msg_kexinit(b, e, g)
  PROVE  /\ Has(r) /\ Has(d) /\ r.sentkexinit
         /\ Same(s, r, SentWithKexinit) /\ Same(b, d, SentWithKexinit)
         /\ \A f \in SentWithKexinit : d[f] = r[f]
<1>1. /\ b.dataallowed = s.dataallowed /\ b.out = s.out /\ b.ktrans = s.ktrans
      /\ b.transseq = s.transseq /\ b.dh = s.dh
  BY DEF Same, Fields
<1>2. Pkt(b, "KEXINIT", g) = Pkt(s, "KEXINIT", g)
  BY <1>1 DEF Pkt
<1>3. CASE e = "svr"
  <2>1. /\ Has(r)
        /\ Same(s, r, {"out", "last", "transseq", "dataallowed", "sentkexinit",
                       "newtrans", "newrecv", "guess"})
        /\ r.out = Append(s.out, Pkt(s, "KEXINIT", g))
        /\ r.last = <<s.ktrans, s.transseq>>
        /\ r.transseq = s.transseq + 1
        /\ ~r.dataallowed /\ r.sentkexinit
        /\ r.newtrans = 0 /\ r.newrecv = 0 /\ r.guess = g
    BY <1>3, SvrKexinit
  <2>2. /\ Has(d)
        /\ Same(b, d, {"out", "last", "transseq", "dataallowed", "sentkexinit",
                       "newtrans", "newrecv", "guess"})
        /\ d.out = Append(b.out, Pkt(b, "KEXINIT", g))
        /\ d.last = <<b.ktrans, b.transseq>>
        /\ d.transseq = b.transseq + 1
        /\ ~d.dataallowed /\ d.sentkexinit
        /\ d.newtrans = 0 /\ d.newrecv = 0 /\ d.guess = g
    <3>1. b.dataallowed /\ d = send_msg_kexinit(b, "svr", g)
      BY <1>1, <1>3
    <3> QED BY <3>1, SvrKexinit
  <2>3. d.out = r.out /\ d.last = r.last /\ d.transseq = r.transseq
    BY <2>1, <2>2, <1>1, <1>2
  <2>4. d.dh = r.dh
    <3>1. d.dh = b.dh /\ r.dh = s.dh
      BY <2>1, <2>2 DEF Same, Fields
    <3> QED BY <3>1, <1>1
  <2>5. d.dataallowed = r.dataallowed /\ d.sentkexinit = r.sentkexinit
    <3>1. d.dataallowed = FALSE /\ r.dataallowed = FALSE /\ d.sentkexinit = TRUE /\ r.sentkexinit = TRUE
      <4>1. PICK i, j : i = Encrypt(s, "KEXINIT", g) /\ j = Encrypt(b, "KEXINIT", g)
        OBVIOUS
      <4>2. Has(i) /\ Has(j)
        BY <4>1, <1>1, EncryptSends
      <4>3. /\ r = [i EXCEPT !.dataallowed = FALSE, !.sentkexinit = TRUE,
                             !.newtrans = 0, !.newrecv = 0, !.guess = g]
            /\ d = [j EXCEPT !.dataallowed = FALSE, !.sentkexinit = TRUE,
                             !.newtrans = 0, !.newrecv = 0, !.guess = g]
        BY <4>1, <1>3 DEF send_msg_kexinit
      <4> QED BY <4>2, <4>3, ZenonT(60) DEF Has, Fields
    <3> QED BY <3>1
  <2>6. \A f \in SentWithKexinit : d[f] = r[f]
    BY <2>1, <2>2, <2>3, <2>4, <2>5, ZenonT(60) DEF SentWithKexinit
  <2>7. Same(s, r, SentWithKexinit) /\ Same(b, d, SentWithKexinit)
    BY <2>1, <2>2 DEF Same, SentWithKexinit
  <2> QED BY <2>1, <2>2, <2>6, <2>7
<1>4. CASE e = "cli"
  <2>1. /\ Has(r) /\ Same(s, r, SentWithKexinit)
        /\ r.out = Append(Append(s.out, Pkt(s, "KEXINIT", g)),
                           [type |-> "KEXDH_INIT", arg |-> s.dh + 1,
                            key |-> s.ktrans, seq |-> s.transseq + 1])
        /\ r.last = <<s.ktrans, s.transseq + 1>>
        /\ r.transseq = s.transseq + 1 + 1
        /\ ~r.dataallowed /\ r.sentkexinit
        /\ r.newtrans = 0 /\ r.newrecv = 0 /\ r.guess = g /\ r.dh = s.dh + 1
    BY <1>4, CliKexinit DEF SentWithKexinit
  <2>2. /\ Has(d) /\ Same(b, d, SentWithKexinit)
        /\ d.out = Append(Append(b.out, Pkt(b, "KEXINIT", g)),
                           [type |-> "KEXDH_INIT", arg |-> b.dh + 1,
                            key |-> b.ktrans, seq |-> b.transseq + 1])
        /\ d.last = <<b.ktrans, b.transseq + 1>>
        /\ d.transseq = b.transseq + 1 + 1
        /\ ~d.dataallowed /\ d.sentkexinit
        /\ d.newtrans = 0 /\ d.newrecv = 0 /\ d.guess = g /\ d.dh = b.dh + 1
    <3>1. b.dataallowed /\ d = send_msg_kexinit(b, "cli", g)
      BY <1>1, <1>4
    <3> QED BY <3>1, CliKexinit DEF SentWithKexinit
  <2>3. d.out = r.out /\ d.last = r.last /\ d.transseq = r.transseq /\ d.dh = r.dh
    BY <2>1, <2>2, <1>1, <1>2
  <2>5. d.dataallowed = r.dataallowed /\ d.sentkexinit = r.sentkexinit
    <3>1. PICK i, j : i = send_msg_kexinit(s, "svr", g) /\ j = send_msg_kexinit(b, "svr", g)
      OBVIOUS
    <3>2. /\ Has(i) /\ Has(j) /\ i.dataallowed = FALSE /\ j.dataallowed = FALSE
          /\ i.sentkexinit = TRUE /\ j.sentkexinit = TRUE
      <4>1. PICK k, l : k = Encrypt(s, "KEXINIT", g) /\ l = Encrypt(b, "KEXINIT", g)
        OBVIOUS
      <4>2. Has(k) /\ Has(l)
        BY <4>1, <1>1, EncryptSends
      <4>3. /\ i = [k EXCEPT !.dataallowed = FALSE, !.sentkexinit = TRUE,
                             !.newtrans = 0, !.newrecv = 0, !.guess = g]
            /\ j = [l EXCEPT !.dataallowed = FALSE, !.sentkexinit = TRUE,
                             !.newtrans = 0, !.newrecv = 0, !.guess = g]
        BY <4>1, <3>1 DEF send_msg_kexinit
      <4>4. Has(i) /\ Has(j)
        BY <4>2, <4>3 DEF Has
      <4> QED BY <4>2, <4>3, <4>4 DEF Has, Fields
    <3>3. r = send_msg_kexdh_init(i) /\ d = send_msg_kexdh_init(j)
      BY <3>1, <1>4 DEF send_msg_kexinit
    <3>4. /\ Same(i, r, {"out", "last", "transseq", "dh"})
          /\ Same(j, d, {"out", "last", "transseq", "dh"})
      BY <3>2, <3>3, CliDh
    <3> QED BY <3>2, <3>4 DEF Same, Fields
  <2>6. \A f \in SentWithKexinit : d[f] = r[f]
    BY <2>1, <2>2, <2>3, <2>5, ZenonT(60) DEF SentWithKexinit
  <2> QED BY <2>1, <2>2, <2>6
<1> QED BY <1>3, <1>4 DEF End

\* recv_msg_kexinit sends the missing KEXINIT itself.
LEMMA KexinitFirst ==
  ASSUME NEW s, Has(s), s.exit = None, s.dataallowed, ~s.sentkexinit, ~s.ignorenext,
         s.requirenext \in {None, "KEXINIT"}, NEW e \in End, NEW g,
         NEW p, p.key = s.krecv, p.seq = s.recvseq, p.type = "KEXINIT",
         NEW r, r = send_msg_kexinit(s, e, g)
  PROVE  Receive(s, e, p, g) = Receive(r, e, p, g)
<1>1. PICK t : t = Receive(s, e, p, g)
  OBVIOUS
<1>2. PICK b : /\ Has(b) /\ Same(s, b, {"recvseq", "requirenext"})
               /\ b.recvseq = s.recvseq + 1 /\ b.requirenext = None
               /\ t = [Dispatch(b, e, p, g) EXCEPT !.lastpacket = p.type]
  BY <1>1, Dispatched
<1>3. PICK d : d = send_msg_kexinit(b, e, g)
  OBVIOUS
<1>4. /\ Has(r) /\ Has(d) /\ r.sentkexinit
      /\ Same(s, r, SentWithKexinit) /\ Same(b, d, SentWithKexinit)
      /\ \A f \in SentWithKexinit : d[f] = r[f]
  BY <1>2, <1>3, SameKexinit
<1>5. /\ r.exit = s.exit /\ r.ignorenext = s.ignorenext /\ r.requirenext = s.requirenext
      /\ r.krecv = s.krecv /\ r.recvseq = s.recvseq
  BY <1>4 DEF Same, Fields, SentWithKexinit
<1>6. PICK v : v = Receive(r, e, p, g)
  OBVIOUS
<1>7. PICK c : /\ Has(c) /\ Same(r, c, {"recvseq", "requirenext"})
               /\ c.recvseq = r.recvseq + 1 /\ c.requirenext = None
               /\ v = [Dispatch(c, e, p, g) EXCEPT !.lastpacket = p.type]
  BY <1>4, <1>5, <1>6, Dispatched
<1>8. d = c
  <2>1. d.recvseq = c.recvseq /\ d.requirenext = c.requirenext
    <3>1. d.recvseq = b.recvseq /\ d.requirenext = b.requirenext
      BY <1>4 DEF Same, Fields, SentWithKexinit
    <3> QED BY <3>1, <1>2, <1>5, <1>7
  <2>2. ASSUME NEW f \in SentWithKexinit PROVE d[f] = c[f]
    <3>1. f \in Fields \ {"recvseq", "requirenext"}
      BY <2>2 DEF SentWithKexinit, Fields
    <3>2. c[f] = r[f]
      BY <3>1, <1>7 DEF Same
    <3> QED BY <3>2, <1>4
  <2>3. ASSUME NEW f \in Fields \ (SentWithKexinit \cup {"recvseq", "requirenext"})
        PROVE  d[f] = c[f]
    <3>1. d[f] = b[f] /\ b[f] = s[f]
      BY <1>2, <1>4 DEF Same
    <3>2. c[f] = r[f] /\ r[f] = s[f]
      BY <1>4, <1>7 DEF Same
    <3> QED BY <3>1, <3>2
  <2>4. \A f \in Fields : d[f] = c[f]
    BY <2>1, <2>2, <2>3
  <2> QED BY <2>4, <1>4, <1>7 DEF Has
<1>9. ~b.sentkexinit /\ c.sentkexinit
  <2>1. b.sentkexinit = s.sentkexinit /\ c.sentkexinit = r.sentkexinit
    BY <1>2, <1>7 DEF Same, Fields
  <2> QED BY <2>1, <1>4
<1>10. recv_msg_kexinit(b, e, p, g) = recv_msg_kexinit(c, e, p, g)
  BY <1>3, <1>8, <1>9 DEF recv_msg_kexinit
<1>11. /\ Dispatch(b, e, p, g) = recv_msg_kexinit(b, e, p, g)
       /\ Dispatch(c, e, p, g) = recv_msg_kexinit(c, e, p, g)
  BY DEF Dispatch
<1>12. t = v
  BY <1>2, <1>7, <1>10, <1>11
<1> QED BY <1>1, <1>6, <1>12

-----------------------------------------------------------------------------
(* Both ends: each one's receiving point is where the other's packets under *)
(* way begin.                                                               *)

\* the inductive invariant, as a relation of the two ends
Joint(c, s) ==
    \E h, cs, cr, ss, sr :
        ClientEnd(c, h, cs, cr, sr) /\ Settled(c, cr) /\ ServerEnd(s, h, ss, sr, cr)

\* between reading and the loop handler of the client
Halfway(c, s) ==
    \E h, cs, cr, ss, sr :
        ClientEnd(c, h, cs, cr, sr) /\ Unsettled(c, cr) /\ ServerEnd(s, h, ss, sr, cr)

\* checktimeouts at the server
LEMMA SvrJointRekey ==
  ASSUME NEW c, NEW s, Joint(c, s), ~s.sentkexinit, NEW g \in {0, 1},
         NEW t, t = send_msg_kexinit(s, "svr", g)
  PROVE  Joint(c, t) /\ Later(s.last, t.last) /\ t.sentkexinit
<1>1. PICK h, cs, cr, ss, sr :
        ClientEnd(c, h, cs, cr, sr) /\ Settled(c, cr) /\ ServerEnd(s, h, ss, sr, cr)
  BY DEF Joint
<1>2. \E z : ServerEnd(t, h, z, sr, cr) /\ Later(s.last, t.last) /\ t.sentkexinit
  BY <1>1, SvrRekey
<1> QED BY <1>1, <1>2 DEF Joint

\* checktimeouts at the client: the server has not seen the new part of the
\* history.
LEMMA CliJointRekey ==
  ASSUME NEW c, NEW s, Joint(c, s), ~c.sentkexinit, NEW g \in {0, 1},
         NEW t, t = send_msg_kexinit(c, "cli", g)
  PROVE  Joint(t, s) /\ Later(c.last, t.last) /\ t.sentkexinit
<1>1. PICK h, cs, cr, ss, sr :
        ClientEnd(c, h, cs, cr, sr) /\ Settled(c, cr) /\ ServerEnd(s, h, ss, sr, cr)
  BY DEF Joint
<1>2. PICK k, z : /\ Agree(h, k, cs.r) /\ cs.st = 0
                  /\ ClientEnd(t, k, z, cr, sr) /\ Settled(t, cr)
                  /\ Later(c.last, t.last) /\ t.sentkexinit
  BY <1>1, CliRekey
<1>3. k \in Hist /\ Rising(k) /\ cs \in Point /\ Le(sr, cs)
  BY <1>1, <1>2, PathLe DEF ClientEnd
<1>4. ServerEnd(s, k, ss, sr, cr)
  BY <1>1, <1>2, <1>3, ServerAgree
<1> QED BY <1>2, <1>4 DEF Joint

\* The server reads a packet, its own KEXINIT sent.
LEMMA SvrJointReads ==
  ASSUME NEW c, NEW s, Joint(c, s), c.out # <<>>,
         Head(c.out).type = "KEXINIT" => s.sentkexinit, NEW g,
         NEW t, t = Receive(s, "svr", Head(c.out), g),
         NEW d, d = Taken(c)
  PROVE  Joint(d, t) /\ Later(s.last, t.last) /\ d.last = c.last
<1>1. PICK h, cs, cr, ss, sr :
        ClientEnd(c, h, cs, cr, sr) /\ Settled(c, cr) /\ ServerEnd(s, h, ss, sr, cr)
  BY DEF Joint
<1>2. Path("cli", c.out, sr, cs, h) /\ Common(c, h, cs, cr) /\ cs \in Point
  BY <1>1 DEF ClientEnd, Client
<1>3. PICK y \in Point : Step("cli", Head(c.out), sr, y, h) /\ Path("cli", Tail(c.out), y, cs, h)
  BY <1>2, PathTail
<1>4. PICK z : ServerEnd(t, h, z, y, cr) /\ Later(s.last, t.last)
  BY <1>1, <1>3, SvrReceives
<1>5. /\ Common(d, h, cs, cr) /\ d.out = Tail(c.out) /\ d.last = c.last
      /\ Same(c, d, {"out", "last", "transseq", "replyq", "sent"})
  BY <1>2, TailStays
<1>6. Path("cli", d.out, y, cs, h)
  BY <1>3, <1>5
<1>7. ClientEnd(d, h, cs, cr, y) /\ Settled(d, cr)
  <2>1. ClientEnd(d, h, cs, cr, y)
    BY <1>1, <1>2, <1>5, <1>6, ClientStays
  <2> QED BY <2>1, <1>1, <1>5, SettledStays
<1> QED BY <1>1, <1>4, <1>5, <1>7 DEF Joint

\* The client reads a packet, its own KEXINIT sent.
LEMMA CliJointReads ==
  ASSUME NEW c, NEW s, Joint(c, s), s.out # <<>>,
         Head(s.out).type = "KEXINIT" => c.sentkexinit, NEW g,
         NEW t, t = Receive(c, "cli", Head(s.out), g),
         NEW d, d = Taken(s)
  PROVE  Halfway(t, d) /\ Later(c.last, t.last) /\ d.last = s.last
<1>1. PICK h, cs, cr, ss, sr :
        ClientEnd(c, h, cs, cr, sr) /\ Settled(c, cr) /\ ServerEnd(s, h, ss, sr, cr)
  BY DEF Joint
<1>2. Path("svr", s.out, cr, ss, h) /\ Common(s, h, ss, sr) /\ ss \in Point
  BY <1>1 DEF ServerEnd, Server
<1>3. PICK y \in Point : Step("svr", Head(s.out), cr, y, h) /\ Path("svr", Tail(s.out), y, ss, h)
  BY <1>2, PathTail
<1>4. PICK z : ClientEnd(t, h, z, y, sr) /\ Unsettled(t, y) /\ Later(c.last, t.last)
  BY <1>1, <1>3, CliReceives
<1>5. /\ Common(d, h, ss, sr) /\ d.out = Tail(s.out) /\ d.last = s.last
      /\ Same(s, d, {"out", "last", "transseq", "replyq", "sent"})
  BY <1>2, TailStays
<1>6. Path("svr", d.out, y, ss, h)
  BY <1>3, <1>5
<1>7. ServerEnd(d, h, ss, sr, y)
  BY <1>1, <1>2, <1>5, <1>6, ServerStays
<1> QED BY <1>4, <1>5, <1>7 DEF Halfway

\* What an end knows of a KEXINIT that comes before it has sent its own
LEMMA Unasked ==
  ASSUME NEW s, NEW h, NEW snd \in Point, NEW rcv \in Point, Common(s, h, snd, rcv),
         ~s.sentkexinit
  PROVE  Has(s) /\ s.exit = None /\ s.dataallowed /\ rcv.st = 0 /\ s.last \in Nat \X Int
BY DEF Common, Phase, Unused, Point

\* The server reads any packet,
LEMMA SvrJointReceives ==
  ASSUME NEW c, NEW s, Joint(c, s), c.out # <<>>, NEW g \in {0, 1},
         NEW t, t = Receive(s, "svr", Head(c.out), g),
         NEW d, d = Taken(c)
  PROVE  Joint(d, t) /\ Later(s.last, t.last) /\ d.last = c.last
<1>1. CASE Head(c.out).type = "KEXINIT" => s.sentkexinit
  BY <1>1, SvrJointReads
<1>2. CASE Head(c.out).type = "KEXINIT" /\ ~s.sentkexinit
  <2>1. PICK r : r = send_msg_kexinit(s, "svr", g)
    OBVIOUS
  <2>2. Joint(c, r) /\ Later(s.last, r.last) /\ r.sentkexinit
    BY <2>1, <1>2, SvrJointRekey
  <2>3. PICK h, cs, cr, ss, sr :
        ClientEnd(c, h, cs, cr, sr) /\ Settled(c, cr) /\ ServerEnd(s, h, ss, sr, cr)
    BY DEF Joint
  <2>4. /\ ss \in Point /\ sr \in Point /\ Common(s, h, ss, sr)
        /\ Path("cli", c.out, sr, cs, h)
    BY <2>3 DEF ClientEnd, ServerEnd, Server
  <2>5. Has(s) /\ s.exit = None /\ s.dataallowed /\ sr.st = 0 /\ s.last \in Nat \X Int
    BY <2>4, <1>2, Unasked
  <2>6. ~s.ignorenext /\ s.requirenext \in {None, "KEXINIT"}
    BY <2>3, <2>5 DEF ServerEnd, Server
  <2>7. PICK y \in Point : Step("cli", Head(c.out), sr, y, h)
    BY <2>4, PathTail
  <2>8. Head(c.out).key = s.krecv /\ Head(c.out).seq = s.recvseq
    BY <2>4, <2>7, Arrives
  <2>9. t = Receive(r, "svr", Head(c.out), g)
    BY <2>1, <2>5, <2>6, <2>8, <1>2, KexinitFirst DEF End
  <2>10. Joint(d, t) /\ Later(r.last, t.last) /\ d.last = c.last
    BY <2>2, <2>9, SvrJointReads
  <2>11. r.last \in Nat \X Int
    BY <2>2 DEF Joint, ServerEnd, Server, Common, Unused
  <2>12. t.last \in Nat \X Int
    BY <2>10 DEF Joint, ServerEnd, Server, Common, Unused
  <2> QED BY <2>2, <2>5, <2>10, <2>11, <2>12, LaterTrans
<1> QED BY <1>1, <1>2

\* and so does the client.
LEMMA CliJointReceives ==
  ASSUME NEW c, NEW s, Joint(c, s), s.out # <<>>, NEW g \in {0, 1},
         NEW t, t = Receive(c, "cli", Head(s.out), g),
         NEW d, d = Taken(s)
  PROVE  Halfway(t, d) /\ Later(c.last, t.last) /\ d.last = s.last
<1>1. CASE Head(s.out).type = "KEXINIT" => c.sentkexinit
  BY <1>1, CliJointReads
<1>2. CASE Head(s.out).type = "KEXINIT" /\ ~c.sentkexinit
  <2>1. PICK r : r = send_msg_kexinit(c, "cli", g)
    OBVIOUS
  <2>2. Joint(r, s) /\ Later(c.last, r.last) /\ r.sentkexinit
    BY <2>1, <1>2, CliJointRekey
  <2>3. PICK h, cs, cr, ss, sr :
        ClientEnd(c, h, cs, cr, sr) /\ Settled(c, cr) /\ ServerEnd(s, h, ss, sr, cr)
    BY DEF Joint
  <2>4. /\ cs \in Point /\ cr \in Point /\ Common(c, h, cs, cr)
        /\ Path("svr", s.out, cr, ss, h)
    BY <2>3 DEF ServerEnd, ClientEnd, Client
  <2>5. Has(c) /\ c.exit = None /\ c.dataallowed /\ cr.st = 0 /\ c.last \in Nat \X Int
    BY <2>4, <1>2, Unasked
  <2>6. ~c.ignorenext /\ c.requirenext \in {None, "KEXINIT"}
    BY <2>3, <2>5 DEF ClientEnd, Client
  <2>7. PICK y \in Point : Step("svr", Head(s.out), cr, y, h)
    BY <2>4, PathTail
  <2>8. Head(s.out).key = c.krecv /\ Head(s.out).seq = c.recvseq
    BY <2>4, <2>7, Arrives
  <2>9. t = Receive(r, "cli", Head(s.out), g)
    BY <2>1, <2>5, <2>6, <2>8, <1>2, KexinitFirst DEF End
  <2>10. Halfway(t, d) /\ Later(r.last, t.last) /\ d.last = s.last
    BY <2>2, <2>9, CliJointReads
  <2>11. r.last \in Nat \X Int
    BY <2>2 DEF Joint, ClientEnd, Client, Common, Unused
  <2>12. t.last \in Nat \X Int
    BY <2>10 DEF Halfway, ClientEnd, Client, Common, Unused
  <2> QED BY <2>2, <2>5, <2>10, <2>11, <2>12, LaterTrans
<1> QED BY <1>1, <1>2

\* maybe_flush_reply_queue at the server
LEMMA SvrJointFlush ==
  ASSUME NEW c, NEW s, Joint(c, s), NEW t, t = maybe_flush_reply_queue(s)
  PROVE  Joint(c, t) /\ Later(s.last, t.last) /\ (t.dataallowed => t.replyq = <<>>)
<1>1. PICK h, cs, cr, ss, sr :
        ClientEnd(c, h, cs, cr, sr) /\ Settled(c, cr) /\ ServerEnd(s, h, ss, sr, cr)
  BY DEF Joint
<1>2. /\ h \in Hist /\ Rising(h) /\ ss \in Point /\ sr \in Point
      /\ Common(s, h, ss, sr) /\ Path("svr", s.out, cr, ss, h)
  BY <1>1 DEF ServerEnd, Server
<1>3. /\ Has(t) /\ Same(s, t, {"out", "last", "transseq", "replyq"})
      /\ Later(s.last, t.last) /\ (t.dataallowed => t.replyq = <<>>)
      /\ SameRound("svr", t, h, ss, sr, cr)
  BY <1>2, Flushed
<1>4. Same(s, t, {"out", "last", "transseq", "replyq", "sent"})
  BY <1>3 DEF Same
<1>5. \E z : ServerEnd(t, h, z, sr, cr)
  BY <1>1, <1>3, <1>4, ServerStays DEF SameRound
<1> QED BY <1>1, <1>3, <1>5 DEF Joint

\* and at the client
LEMMA CliHalfwayFlush ==
  ASSUME NEW c, NEW s, Halfway(c, s), NEW t, t = maybe_flush_reply_queue(c)
  PROVE  Halfway(t, s) /\ Later(c.last, t.last) /\ (t.dataallowed => t.replyq = <<>>)
<1>1. PICK h, cs, cr, ss, sr :
        ClientEnd(c, h, cs, cr, sr) /\ Unsettled(c, cr) /\ ServerEnd(s, h, ss, sr, cr)
  BY DEF Halfway
<1>2. /\ h \in Hist /\ Rising(h) /\ cs \in Point /\ cr \in Point
      /\ Common(c, h, cs, cr) /\ Path("cli", c.out, sr, cs, h)
  BY <1>1 DEF ClientEnd, Client
<1>3. /\ Has(t) /\ Same(c, t, {"out", "last", "transseq", "replyq"})
      /\ Later(c.last, t.last) /\ (t.dataallowed => t.replyq = <<>>)
      /\ SameRound("cli", t, h, cs, cr, sr)
  BY <1>2, Flushed
<1>4. Same(c, t, {"out", "last", "transseq", "replyq", "sent"})
  BY <1>3 DEF Same
<1>5. \E z : ClientEnd(t, h, z, cr, sr) /\ Unsettled(t, cr)
  BY <1>1, <1>3, <1>4, ClientStays, SettledStays DEF SameRound
<1> QED BY <1>1, <1>3, <1>5 DEF Halfway

\* cli_sessionloop
LEMMA CliHalfwayLoop ==
  ASSUME NEW c, NEW s, Halfway(c, s), NEW t, t = cli_sessionloop(c)
  PROVE  /\ Joint(t, s) /\ Later(c.last, t.last)
         /\ t.replyq = c.replyq /\ (t.dataallowed <=> c.dataallowed)
<1>1. PICK h, cs, cr, ss, sr :
        ClientEnd(c, h, cs, cr, sr) /\ Unsettled(c, cr) /\ ServerEnd(s, h, ss, sr, cr)
  BY DEF Halfway
<1>2. \E z : /\ ClientEnd(t, h, z, cr, sr) /\ Settled(t, cr) /\ Later(c.last, t.last)
             /\ t.replyq = c.replyq /\ (t.dataallowed <=> c.dataallowed)
  BY <1>1, CliLoop
<1> QED BY <1>1, <1>2 DEF Joint

\* channelio at the server
LEMMA SvrJointTalk ==
  ASSUME NEW c, NEW s, Joint(c, s), s.donefirstkex, s.dataallowed => s.replyq = <<>>,
         NEW type \in {"DATA", "ODD"}, NEW t, t = Talk(s, type)
  PROVE  Joint(c, t) /\ Later(s.last, t.last)
<1>1. PICK h, cs, cr, ss, sr :
        ClientEnd(c, h, cs, cr, sr) /\ Settled(c, cr) /\ ServerEnd(s, h, ss, sr, cr)
  BY DEF Joint
<1>2. /\ h \in Hist /\ Rising(h) /\ ss \in Point /\ sr \in Point
      /\ Common(s, h, ss, sr) /\ Path("svr", s.out, cr, ss, h)
  BY <1>1 DEF ServerEnd, Server
<1>3. /\ Has(t) /\ Same(s, t, {"out", "last", "transseq", "replyq", "sent"})
      /\ Later(s.last, t.last)
      /\ SameRound("svr", t, h, ss, sr, cr)
  BY <1>2, Talks
<1>4. \E z : ServerEnd(t, h, z, sr, cr)
  BY <1>1, <1>3, ServerStays DEF SameRound
<1> QED BY <1>1, <1>3, <1>4 DEF Joint

\* and at the client
LEMMA CliJointTalk ==
  ASSUME NEW c, NEW s, Joint(c, s), c.donefirstkex, c.dataallowed => c.replyq = <<>>,
         NEW type \in {"DATA", "ODD"}, NEW t, t = Talk(c, type)
  PROVE  Joint(t, s) /\ Later(c.last, t.last)
<1>1. PICK h, cs, cr, ss, sr :
        ClientEnd(c, h, cs, cr, sr) /\ Settled(c, cr) /\ ServerEnd(s, h, ss, sr, cr)
  BY DEF Joint
<1>2. /\ h \in Hist /\ Rising(h) /\ cs \in Point /\ cr \in Point
      /\ Common(c, h, cs, cr) /\ Path("cli", c.out, sr, cs, h)
  BY <1>1 DEF ClientEnd, Client
<1>3. /\ Has(t) /\ Same(c, t, {"out", "last", "transseq", "replyq", "sent"})
      /\ Later(c.last, t.last)
      /\ SameRound("cli", t, h, cs, cr, sr)
  BY <1>2, Talks
<1>4. \E z : ClientEnd(t, h, z, cr, sr) /\ Settled(t, cr)
  BY <1>1, <1>3, ClientStays, SettledStays DEF SameRound
<1> QED BY <1>1, <1>3, <1>4 DEF Joint

\* Neither end has exited, and each has a key and number it used last.
LEMMA JointLast ==
  ASSUME NEW c, NEW s, Joint(c, s) \/ Halfway(c, s)
  PROVE  /\ c.last \in Nat \X Int /\ s.last \in Nat \X Int
         /\ c.exit = None /\ s.exit = None
<1>1. PICK h, cs, cr, ss, sr : ClientEnd(c, h, cs, cr, sr) /\ ServerEnd(s, h, ss, sr, cr)
  BY DEF Joint, Halfway
<1>2. Common(c, h, cs, cr) /\ Common(s, h, ss, sr)
  BY <1>1 DEF ClientEnd, ServerEnd, Client, Server
<1> QED BY <1>2 DEF Common, Unused

\* A turn that reads nothing leaves the loop handler nothing to do.
LEMMA SettledHalfway ==
  ASSUME NEW c, NEW s, Joint(c, s)
  PROVE  Halfway(c, s)
<1>1. PICK h, cs, cr, ss, sr :
        ClientEnd(c, h, cs, cr, sr) /\ Settled(c, cr) /\ ServerEnd(s, h, ss, sr, cr)
  BY DEF Joint
<1>2. Unsettled(c, cr)
  BY <1>1 DEF Settled, Unsettled
<1> QED BY <1>1, <1>2 DEF Halfway

\* One turn of session_loop at the server
LEMMA SvrTurn ==
  ASSUME NEW c, NEW s, Joint(c, s), NEW rekey \in BOOLEAN, NEW read \in BOOLEAN,
         NEW type \in Says, NEW g \in {0, 1},
         rekey => ~s.sentkexinit, read => c.out # <<>>,
         NEW s1, s1 = checktimeouts(s, "svr", rekey, g),
         NEW s2, s2 = IF read THEN Receive(s1, "svr", Head(c.out), g) ELSE s1,
         NEW s3, s3 = loophandler(maybe_flush_reply_queue(s2), "svr"),
         type # None => MayTalk(s3, "svr"),
         NEW t, t = (IF s2.exit # None THEN s2 ELSE Talk(s3, type)),
         NEW d, d = (IF read THEN Taken(c) ELSE c)
  PROVE  Joint(d, t) /\ Later(s.last, t.last) /\ d.last = c.last
<1>1. Joint(c, s1) /\ Later(s.last, s1.last)
  <2>1. CASE rekey
    <3>1. s1 = send_msg_kexinit(s, "svr", g) /\ ~s.sentkexinit
      BY <2>1 DEF checktimeouts
    <3> QED BY <3>1, SvrJointRekey
  <2>2. CASE ~rekey
    BY <2>2 DEF checktimeouts, Later
  <2> QED BY <2>1, <2>2
<1>2. Joint(d, s2) /\ Later(s1.last, s2.last) /\ d.last = c.last
  <2>1. CASE read
    <3>1. /\ s2 = Receive(s1, "svr", Head(c.out), g) /\ d = Taken(c)
          /\ c.out # <<>>
      BY <2>1
    <3>2. Joint(c, s1)
      BY <1>1
    <3>3. ASSUME NEW r, r = Receive(s1, "svr", Head(c.out), g), NEW b, b = Taken(c)
          PROVE  Joint(b, r) /\ Later(s1.last, r.last) /\ b.last = c.last
      BY <3>1, <3>2, <3>3, SvrJointReceives
    <3> QED BY <3>1, <3>3
  <2>2. CASE ~read
    BY <2>2, <1>1 DEF Later
  <2> QED BY <2>1, <2>2
<1>3. Joint(d, s3) /\ Later(s2.last, s3.last) /\ (s3.dataallowed => s3.replyq = <<>>)
  <2>1. s3 = maybe_flush_reply_queue(s2)
    BY DEF loophandler
  <2> QED BY <2>1, <1>2, SvrJointFlush
<1>4. t = Talk(s3, type)
  <2>1. s2.exit = None
    BY <1>2, JointLast
  <2> QED BY <2>1
<1>5. Joint(d, t) /\ Later(s3.last, t.last)
  <2>1. CASE type = None
    BY <2>1, <1>3, <1>4 DEF Talk, Later
  <2>2. CASE type # None
    <3>1. s3.donefirstkex /\ type \in {"DATA", "ODD"}
      BY <2>2 DEF MayTalk, Says
    <3> QED BY <3>1, <1>3, <1>4, SvrJointTalk
  <2> QED BY <2>1, <2>2
<1>6. /\ s.last \in Nat \X Int /\ s1.last \in Nat \X Int /\ s2.last \in Nat \X Int
      /\ s3.last \in Nat \X Int /\ t.last \in Nat \X Int
  BY <1>1, <1>2, <1>3, <1>5, JointLast
<1>7. Later(s.last, s2.last)
  BY <1>1, <1>2, <1>6, LaterTrans
<1>8. Later(s2.last, t.last)
  BY <1>3, <1>5, <1>6, LaterTrans
<1>9. Later(s.last, t.last)
  BY <1>6, <1>7, <1>8, LaterTrans
<1> QED BY <1>2, <1>5, <1>9

\* One turn of session_loop at the client
LEMMA CliTurn ==
  ASSUME NEW c, NEW s, Joint(c, s), NEW rekey \in BOOLEAN, NEW read \in BOOLEAN,
         NEW type \in Says, NEW g \in {0, 1},
         rekey => ~c.sentkexinit, read => s.out # <<>>,
         NEW c1, c1 = checktimeouts(c, "cli", rekey, g),
         NEW c2, c2 = IF read THEN Receive(c1, "cli", Head(s.out), g) ELSE c1,
         NEW c3, c3 = loophandler(maybe_flush_reply_queue(c2), "cli"),
         type # None => MayTalk(c3, "cli"),
         NEW t, t = (IF c2.exit # None THEN c2 ELSE Talk(c3, type)),
         NEW d, d = (IF read THEN Taken(s) ELSE s)
  PROVE  Joint(t, d) /\ Later(c.last, t.last) /\ d.last = s.last
<1>1. Joint(c1, s) /\ Later(c.last, c1.last)
  <2>1. CASE rekey
    <3>1. c1 = send_msg_kexinit(c, "cli", g) /\ ~c.sentkexinit
      BY <2>1 DEF checktimeouts
    <3> QED BY <3>1, CliJointRekey
  <2>2. CASE ~rekey
    BY <2>2 DEF checktimeouts, Later
  <2> QED BY <2>1, <2>2
<1>2. Halfway(c2, d) /\ Later(c1.last, c2.last) /\ d.last = s.last
  <2>1. CASE read
    <3>1. /\ c2 = Receive(c1, "cli", Head(s.out), g) /\ d = Taken(s)
          /\ s.out # <<>>
      BY <2>1
    <3>2. Joint(c1, s)
      BY <1>1
    <3> QED BY <3>1, <3>2, CliJointReceives
  <2>2. CASE ~read
    BY <2>2, <1>1, SettledHalfway DEF Later
  <2> QED BY <2>1, <2>2
<1>3. PICK f : f = maybe_flush_reply_queue(c2)
  OBVIOUS
<1>4. Halfway(f, d) /\ Later(c2.last, f.last) /\ (f.dataallowed => f.replyq = <<>>)
  BY <1>2, <1>3, CliHalfwayFlush
<1>5. c3 = cli_sessionloop(f)
  BY <1>3 DEF loophandler
<1>6. /\ Joint(c3, d) /\ Later(f.last, c3.last)
      /\ c3.replyq = f.replyq /\ (c3.dataallowed <=> f.dataallowed)
  BY <1>4, <1>5, CliHalfwayLoop
<1>7. t = Talk(c3, type)
  <2>1. c2.exit = None
    BY <1>2, JointLast
  <2> QED BY <2>1
<1>8. Joint(t, d) /\ Later(c3.last, t.last)
  <2>1. CASE type = None
    BY <2>1, <1>6, <1>7 DEF Talk, Later
  <2>2. CASE type # None
    <3>1. c3.donefirstkex /\ type \in {"DATA", "ODD"}
      BY <2>2 DEF MayTalk, Says
    <3>2. c3.dataallowed => c3.replyq = <<>>
      BY <1>4, <1>6
    <3> QED BY <3>1, <3>2, <1>6, <1>7, CliJointTalk
  <2> QED BY <2>1, <2>2
<1>9. /\ c.last \in Nat \X Int /\ c1.last \in Nat \X Int /\ c2.last \in Nat \X Int
      /\ f.last \in Nat \X Int /\ c3.last \in Nat \X Int /\ t.last \in Nat \X Int
  BY <1>1, <1>2, <1>4, <1>6, <1>8, JointLast
<1>10. Later(c.last, c2.last)
  BY <1>1, <1>2, <1>9, LaterTrans
<1>11. Later(c2.last, c3.last)
  BY <1>4, <1>6, <1>9, LaterTrans
<1>12. Later(c.last, c3.last)
  BY <1>9, <1>10, <1>11, LaterTrans
<1>13. Later(c.last, t.last)
  BY <1>8, <1>9, <1>12, LaterTrans
<1> QED BY <1>2, <1>8, <1>13

-----------------------------------------------------------------------------
(* The invariant *)

\* The inductive invariant
TransportInv == Joint(ep["cli"], ep["svr"])

\* Two sessions that have sent nothing
LEMMA FreshJoint ==
  ASSUME NEW strict \in BOOLEAN
  PROVE  Joint(Fresh(strict), Fresh(strict))
<1>1. PICK s : s = Fresh(strict)
  OBVIOUS
<1>2. Has(s)
  BY <1>1 DEF Fresh, Has, Fields
<1>3. /\ ~s.sentkexinit /\ ~s.recvkexinit /\ ~s.sentnewkeys /\ ~s.recvnewkeys
      /\ ~s.donefirstkex /\ ~s.recvfirstnewkeys /\ s.strictpeer = strict /\ ~s.strict_kex
      /\ ~s.first_follows_matches /\ s.dataallowed /\ s.requirenext = "KEXINIT"
      /\ ~s.ignorenext /\ s.lastpacket = None /\ s.kex_state = "NOTHING" /\ s.dh = 0
      /\ s.ktrans = 0 /\ s.krecv = 0 /\ s.newtrans = 0 /\ s.newrecv = 0
      /\ s.transseq = 0 /\ s.recvseq = 0 /\ s.replyq = <<>> /\ s.out = <<>>
      /\ s.last = <<0, -1>> /\ s.sent = 0 /\ s.got = 0 /\ s.exit = None
  BY <1>1 DEF Fresh
<1>4. PICK h : h = [key |-> [i \in Nat |-> i], good |-> [i \in Nat |-> TRUE], strict |-> strict]
  OBVIOUS
<1>5. /\ h \in Hist /\ h.key = [i \in Nat |-> i] /\ h.strict = strict
  BY <1>4 DEF Hist
<1>6. Rising(h) /\ h.key[0] = 0
  BY <1>5 DEF Rising
<1>7. PICK x : x = [r |-> 0, st |-> 0, n |-> 0, a |-> 0]
  OBVIOUS
<1>8. x \in Point /\ x.r = 0 /\ x.st = 0 /\ x.n = 0 /\ x.a = 0
  BY <1>7 DEF Point
<1>9. Numbers(s, h, x, x)
  BY <1>3, <1>6, <1>8 DEF Numbers
<1>10. Phase(s, h, x, x)
  BY <1>3, <1>5, <1>8 DEF Phase
<1>11. Waits(s, x, x)
  BY <1>3, <1>8 DEF Waits
<1>12. Unused(s, h, x)
  BY <1>3, <1>6, <1>8 DEF Unused
<1>13. Common(s, h, x, x)
  BY <1>2, <1>3, <1>9, <1>10, <1>11, <1>12 DEF Common
<1>14. Server(s, h, x, x)
  BY <1>3, <1>8, <1>13 DEF Server
<1>15. Client(s, h, x, x)
  BY <1>3, <1>6, <1>8, <1>13 DEF Client
<1>16. Settled(s, x)
  BY <1>3, <1>8 DEF Settled, None
<1>17. ASSUME NEW e PROVE Path(e, s.out, x, x, h)
  <2>1. PICK w : w = [i \in 0..0 |-> x]
    OBVIOUS
  <2>2. /\ w \in [0..0 -> Point] /\ w[0] = x
        /\ \A i, j \in 0..0 : i <= j => Le(w[i], w[j])
    BY <2>1, <1>8 DEF Le
  <2>3. s.out \in Seq(Packet) /\ Len(s.out) = 0 /\ 1..0 = {}
    BY <1>3
  <2> QED BY <2>2, <2>3 DEF Path
<1>18. ServerEnd(s, h, x, x, x) /\ ClientEnd(s, h, x, x, x)
  BY <1>5, <1>6, <1>8, <1>14, <1>15, <1>17 DEF ServerEnd, ClientEnd
<1> QED BY <1>1, <1>16, <1>18 DEF Joint

\* svr_session and cli_session send the first KEXINIT.
LEMMA TransportInit ==
  ASSUME Init
  PROVE  TransportInv
<1>1. PICK strict \in BOOLEAN, g \in {0, 1} :
        ep = [e \in End |-> send_msg_kexinit(Fresh(strict), e, g)]
  BY DEF Init
<1>2. PICK s : s = Fresh(strict)
  OBVIOUS
<1>3. Joint(s, s) /\ ~s.sentkexinit
  BY <1>2, FreshJoint DEF Fresh
<1>4. PICK t : t = send_msg_kexinit(s, "svr", g)
  OBVIOUS
<1>5. Joint(s, t)
  BY <1>3, <1>4, SvrJointRekey
<1>6. PICK c : c = send_msg_kexinit(s, "cli", g)
  OBVIOUS
<1>7. Joint(c, t)
  BY <1>3, <1>5, <1>6, CliJointRekey
<1>8. ep["svr"] = t /\ ep["cli"] = c
  BY <1>1, <1>2, <1>4, <1>6 DEF End
<1> QED BY <1>7, <1>8 DEF TransportInv

\* Each turn of either end keeps the invariant and uses later numbers only.
LEMMA TransportNext ==
  ASSUME TransportInv, Next
  PROVE  /\ TransportInv'
         /\ \A e \in End : Later(ep[e].last, ep'[e].last)
<1>1. PICK e \in End, rekey \in BOOLEAN, read \in BOOLEAN, type \in Says, g \in {0, 1} :
        Iterate(e, rekey, read, type, g)
  BY DEF Next
<1>2. PICK c, s : c = ep["cli"] /\ s = ep["svr"]
  OBVIOUS
<1>3. Joint(c, s)
  BY <1>2 DEF TransportInv
<1>4. PICK s1 : s1 = checktimeouts(ep[e], e, rekey, g)
  OBVIOUS
<1>5. PICK s2 : s2 = IF read THEN Receive(s1, e, Head(ep[Peer(e)].out), g) ELSE s1
  OBVIOUS
<1>6. PICK s3 : s3 = loophandler(maybe_flush_reply_queue(s2), e)
  OBVIOUS
<1>7. PICK t : t = (IF s2.exit # None THEN s2 ELSE Talk(s3, type))
  OBVIOUS
<1>8. PICK d : d = (IF read THEN Taken(ep[Peer(e)]) ELSE ep[Peer(e)])
  OBVIOUS
<1>9. /\ rekey => ~ep[e].sentkexinit
      /\ read => ep[Peer(e)].out # <<>>
      /\ type # None => MayTalk(s3, e)
  BY <1>1, <1>4, <1>5, <1>6 DEF Iterate
<1>10. ep' = [x \in End |-> IF x = e THEN (IF s2.exit # None THEN s2 ELSE Talk(s3, type))
                    ELSE IF read THEN [ep[x] EXCEPT !.out = Tail(@)] ELSE ep[x]]
  BY <1>1, <1>4, <1>5, <1>6 DEF Iterate
<1>11. ep'[e] = t /\ ep'[Peer(e)] = d
  BY <1>7, <1>8, <1>10 DEF End, Peer, Taken
<1>12. CASE e = "svr"
  <2>1. Peer(e) = "cli" /\ ep[e] = s /\ ep[Peer(e)] = c
    BY <1>2, <1>12 DEF Peer
  <2>2. Joint(d, t) /\ Later(s.last, t.last) /\ d.last = c.last
    BY <2>1, <1>3, <1>4, <1>5, <1>6, <1>7, <1>8, <1>9, <1>12, SvrTurn
  <2> QED BY <2>1, <2>2, <1>2, <1>11, <1>12 DEF TransportInv, End, Later
<1>13. CASE e = "cli"
  <2>1. Peer(e) = "svr" /\ ep[e] = c /\ ep[Peer(e)] = s
    BY <1>2, <1>13 DEF Peer
  <2>2. Joint(t, d) /\ Later(c.last, t.last) /\ d.last = s.last
    BY <2>1, <1>3, <1>4, <1>5, <1>6, <1>7, <1>8, <1>9, <1>13, CliTurn
  <2> QED BY <2>1, <2>2, <1>2, <1>11, <1>13 DEF TransportInv, End, Later
<1> QED BY <1>12, <1>13 DEF End

-----------------------------------------------------------------------------
(* Application packets are counted by the points of a path. *)

\* The positions of application packets among the first n of q
AppsOf(q, n) == {i \in 1..n : q[i].type \in {"DATA", "ODD"}}

\* v counts them.
Counting(v, q, i) == v[i] = IF IsApp(q[i]) THEN v[i - 1] + 1 ELSE v[i - 1]

\* The count is the cardinality that ReplyQueueInOrder speaks of.
LEMMA Counted ==
  ASSUME NEW q, NEW n \in Nat, NEW v \in [0..n -> Nat],
         \A i \in 1..n : Counting(v, q, i)
  PROVE  \A i \in 0..n : v[i] = v[0] + AppUpTo(q, i)
<1> DEFINE Good(i) == /\ IsFiniteSet(AppsOf(q, i)) /\ Cardinality(AppsOf(q, i)) \in Nat
                      /\ v[i] = v[0] + Cardinality(AppsOf(q, i))
           P == {i \in 0..n : Good(i)}
<1>1. 0 \in P
  <2>1. AppsOf(q, 0) = {}
    BY DEF AppsOf
  <2>2. IsFiniteSet({}) /\ Cardinality({}) = 0
    BY FS_EmptySet
  <2>3. v[0] \in Nat /\ 0 \in 0..n
    OBVIOUS
  <2>4. v[0] = v[0] + 0 /\ 0 \in Nat
    BY <2>3
  <2>5. Good(0)
    BY <2>1, <2>2, <2>4
  <2> QED BY <2>3, <2>5
<1>2. ASSUME NEW i \in 0..n, i \in P, i < n PROVE i + 1 \in P
  <2>1. i \in Nat /\ i + 1 \in 1..n /\ i + 1 \in 0..n /\ (i + 1) - 1 = i /\ 0 \in 0..n
    BY <1>2
  <2>2. PICK k \in Nat : /\ IsFiniteSet(AppsOf(q, i)) /\ k = Cardinality(AppsOf(q, i))
                         /\ v[i] = v[0] + k
    BY <1>2
  <2>3. PICK b \in Nat : b = v[0]
    BY <2>1
  <2>4. CASE IsApp(q[i + 1])
    <3>1. AppsOf(q, i + 1) = AppsOf(q, i) \cup {i + 1}
      BY <2>1, <2>4 DEF AppsOf, IsApp
    <3>2. i + 1 \notin AppsOf(q, i)
      BY <2>1 DEF AppsOf
    <3>3. IsFiniteSet(AppsOf(q, i + 1)) /\ Cardinality(AppsOf(q, i + 1)) = k + 1
      BY <3>1, <3>2, <2>2, FS_AddElement
    <3>4. v[i + 1] = v[i] + 1
      BY <2>1, <2>4 DEF Counting
    <3>5. v[i + 1] = b + (k + 1)
      BY <3>4, <2>2, <2>3
    <3>6. Good(i + 1)
      BY <3>3, <3>5, <2>3
    <3> QED BY <3>6, <2>1
  <2>5. CASE ~IsApp(q[i + 1])
    <3>1. AppsOf(q, i + 1) = AppsOf(q, i)
      BY <2>1, <2>5 DEF AppsOf, IsApp
    <3>2. v[i + 1] = v[i]
      BY <2>1, <2>5 DEF Counting
    <3>3. Good(i + 1)
      BY <3>1, <3>2, <2>2
    <3> QED BY <3>3, <2>1
  <2> QED BY <2>4, <2>5
<1> HIDE DEF P
<1>3. \A i \in 0..n : i \in P
  <2>1. \A i \in 0..n : i \in P /\ i < n => i + 1 \in P
    BY <1>2
  <2> QED BY <1>1, <2>1, UpTo
<1>4. \A i \in 0..n : v[i] = v[0] + Cardinality(AppsOf(q, i))
  BY <1>3 DEF P
<1> QED BY <1>4 DEF AppsOf, AppUpTo

\* The first "got" of "sent" packets have arrived, the others are in q.
InOrder(sent, got, q) ==
    /\ sent = got + AppUpTo(q, Len(q))
    /\ \A i \in 1..Len(q) :
         q[i].type \in {"DATA", "ODD"} => q[i].arg = got + AppUpTo(q, i)

\* What is under way and what waits carries on from where the peer is.
LEMMA Numbered ==
  ASSUME NEW e, NEW h, NEW out, NEW x, NEW snd, Path(e, out, x, snd, h),
         NEW wait \in Seq(Held), \A i \in 1..Len(wait) : wait[i].arg = snd.a + i,
         NEW q, q = out \o wait
  PROVE  InOrder(snd.a + Len(wait), x.a, q)
<1>1. out \in Seq(Packet)
  BY DEF Path
<1>2. PICK w \in [0..Len(out) -> Point] :
         /\ w[0] = x /\ w[Len(out)] = snd
         /\ \A i \in 1..Len(out) : Step(e, out[i], w[i - 1], w[i], h)
  BY DEF Path
<1>3. PICK n \in Nat, m \in Nat : n = Len(out) /\ m = Len(wait)
  BY <1>1
<1>4. /\ Len(q) = n + m
      /\ \A i \in 1..n : q[i] = out[i]
      /\ \A i \in 1..m : q[n + i] = wait[i]
  BY <1>1, <1>3
<1>5. PICK a \in Nat : a = snd.a
  <2>1. snd \in Point
    BY <1>2, <1>3
  <2> QED BY <2>1 DEF Point
<1>6. PICK v : v = [i \in 0..(n + m) |-> IF i <= n THEN w[i].a ELSE a + (i - n)]
  OBVIOUS
<1>7. \A i \in 0..n : w[i] \in Point /\ w[i].a \in Nat
  BY <1>2, <1>3 DEF Point
<1>8. v \in [0..(n + m) -> Nat]
  <2>1. \A i \in 0..(n + m) : (IF i <= n THEN w[i].a ELSE a + (i - n)) \in Nat
    BY <1>7
  <2> QED BY <2>1, <1>6
<1>9. /\ \A i \in 0..n : v[i] = w[i].a
      /\ \A i \in 1..m : v[n + i] = a + i
      /\ v[n] = a
  <2>1. \A i \in 0..n : v[i] = w[i].a
    BY <1>6
  <2>2. \A i \in 1..m : n + i \in 0..(n + m) /\ ~(n + i <= n) /\ (n + i) - n = i
    OBVIOUS
  <2>3. \A i \in 1..m : v[n + i] = a + i
    BY <2>2, <1>6
  <2>4. w[n].a = a /\ n \in 0..n
    BY <1>2, <1>3, <1>5
  <2> QED BY <2>1, <2>3, <2>4
<1>10. ASSUME NEW i \in 1..(n + m)
       PROVE  Counting(v, q, i) /\ (IsApp(q[i]) => q[i].arg = v[i])
  <2>1. CASE i <= n
    <3>1. i \in 1..n /\ i \in 0..n /\ i - 1 \in 0..n
      BY <2>1
    <3>2. Step(e, q[i], w[i - 1], w[i], h)
      BY <3>1, <1>2, <1>3, <1>4
    <3>3. v[i] = w[i].a /\ v[i - 1] = w[i - 1].a
      BY <3>1, <1>9
    <3> QED BY <3>2, <3>3 DEF Step, Counting
  <2>2. CASE i > n
    <3>1. PICK j \in 1..m : i = n + j
      <4>1. i - n \in 1..m /\ i = n + (i - n)
        BY <2>2
      <4> QED BY <4>1
    <3>2. q[i] = wait[j] /\ wait[j] \in Held /\ wait[j].arg = a + j /\ v[i] = a + j
      BY <3>1, <1>3, <1>4, <1>5, <1>9
    <3>3. IsApp(q[i])
      BY <3>2 DEF IsApp, Held
    <3>4. v[i - 1] + 1 = a + j
      <4>1. CASE j = 1
        <5>1. i - 1 = n
          BY <3>1, <4>1
        <5> QED BY <5>1, <4>1, <1>9
      <4>2. CASE j # 1
        <5>1. j - 1 \in 1..m /\ i - 1 = n + (j - 1)
          BY <3>1, <4>2
        <5>2. v[n + (j - 1)] = a + (j - 1)
          BY <5>1, <1>9
        <5>3. (a + (j - 1)) + 1 = a + j
          OBVIOUS
        <5> QED BY <5>1, <5>2, <5>3
      <4> QED BY <4>1, <4>2
    <3> QED BY <3>2, <3>3, <3>4 DEF Counting
  <2>3. i <= n \/ i > n
    OBVIOUS
  <2> QED BY <2>1, <2>2, <2>3
<1>11. \A i \in 0..(n + m) : v[i] = v[0] + AppUpTo(q, i)
  <2>1. n + m \in Nat /\ \A i \in 1..(n + m) : Counting(v, q, i)
    BY <1>10
  <2> QED BY <2>1, <1>8, Counted
<1>12. v[0] = x.a
  BY <1>2, <1>3, <1>9
<1>13. v[n + m] = a + m
  <2>1. CASE m = 0
    BY <2>1, <1>9
  <2>2. CASE m # 0
    <3>1. m \in 1..m
      BY <2>2
    <3> QED BY <3>1, <1>9
  <2> QED BY <2>1, <2>2
<1>14. snd.a + Len(wait) = x.a + AppUpTo(q, Len(q))
  <2>1. n + m \in 0..(n + m)
    OBVIOUS
  <2> QED BY <2>1, <1>3, <1>4, <1>5, <1>11, <1>12, <1>13
<1>15. ASSUME NEW i \in 1..Len(q), IsApp(q[i]) PROVE q[i].arg = x.a + AppUpTo(q, i)
  <2>1. i \in 1..(n + m) /\ i \in 0..(n + m)
    BY <1>4
  <2> QED BY <2>1, <1>10, <1>11, <1>12, <1>15
<1> QED BY <1>14, <1>15 DEF InOrder, IsApp

\* ReplyQueueInOrder for one end
LEMMA EndInOrder ==
  ASSUME NEW e, NEW h, NEW s, NEW snd, NEW rcv, NEW x, Common(s, h, snd, rcv),
         Path(e, s.out, x, snd, h), NEW got, got = x.a, NEW q, q = s.out \o s.replyq
  PROVE  InOrder(s.sent, got, q)
<1>1. /\ s.replyq \in Seq(Held) /\ s.sent = snd.a + Len(s.replyq)
      /\ \A i \in 1..Len(s.replyq) : s.replyq[i].arg = snd.a + i
  BY DEF Common, Waits
<1>2. InOrder(snd.a + Len(s.replyq), x.a, q)
  BY <1>1, Numbered
<1> QED BY <1>1, <1>2

-----------------------------------------------------------------------------
(* The theorems *)

\* Joint holds in every reachable state.
LEMMA TransportInvariant == Spec => []TransportInv
<1>1. Init => TransportInv
  BY TransportInit
<1>2. TransportInv /\ [Next]_vars => TransportInv'
  <2> SUFFICES ASSUME TransportInv, [Next]_vars PROVE TransportInv'
    OBVIOUS
  <2>1. CASE Next
    BY <2>1, TransportNext
  <2>2. CASE UNCHANGED vars
    BY <2>2 DEF vars, TransportInv
  <2> QED BY <2>1, <2>2
<1> QED BY <1>1, <1>2, PTL DEF Spec

\* Neither end ever leaves through dropbear_exit: no integrity error, no
\* packet that process_packet or a handler of the key exchange refuses,
\* however rekeys of both ends, guesses and data are timed.
THEOREM EndsNeverExit == Spec => []NoDropbearExit
<1>1. TransportInv => NoDropbearExit
  BY JointLast DEF TransportInv, NoDropbearExit, End
<1> QED BY <1>1, TransportInvariant, PTL

\* Application packets that a key exchange holds back in the reply queue are
\* neither lost, duplicated nor overtaken (packet.c).
THEOREM DataStaysInOrder == Spec => []ReplyQueueInOrder
<1>1. ASSUME TransportInv PROVE ReplyQueueInOrder
  <2>1. PICK c, s : c = ep["cli"] /\ s = ep["svr"]
    OBVIOUS
  <2>2. PICK h, cs, cr, ss, sr : ClientEnd(c, h, cs, cr, sr) /\ ServerEnd(s, h, ss, sr, cr)
    BY <2>1, <1>1 DEF TransportInv, Joint
  <2>3. /\ Common(c, h, cs, cr) /\ Path("cli", c.out, sr, cs, h)
        /\ Common(s, h, ss, sr) /\ Path("svr", s.out, cr, ss, h)
    BY <2>2 DEF ClientEnd, ServerEnd, Client, Server
  <2>4. c.got = cr.a /\ s.got = sr.a
    BY <2>3 DEF Common, Waits
  <2>5. PICK q : q = c.out \o c.replyq
    OBVIOUS
  <2>6. InOrder(c.sent, s.got, q)
    BY <2>3, <2>4, <2>5, EndInOrder
  <2>7. PICK r : r = s.out \o s.replyq
    OBVIOUS
  <2>8. InOrder(s.sent, c.got, r)
    BY <2>3, <2>4, <2>7, EndInOrder
  <2>9. Peer("cli") = "svr" /\ Peer("svr") = "cli"
    BY DEF Peer
  <2>10. InOrder(ep["cli"].sent, ep[Peer("cli")].got, ep["cli"].out \o ep["cli"].replyq)
    BY <2>1, <2>5, <2>6, <2>9
  <2>11. InOrder(ep["svr"].sent, ep[Peer("svr")].got, ep["svr"].out \o ep["svr"].replyq)
    BY <2>1, <2>7, <2>8, <2>9
  <2>12. \A e \in End : InOrder(ep[e].sent, ep[Peer(e)].got, ep[e].out \o ep[e].replyq)
    BY <2>10, <2>11 DEF End
  <2> QED BY <2>12 DEF ReplyQueueInOrder, InOrder
<1> QED BY <1>1, TransportInvariant, PTL

\* The key and sequence number of the last packet an end encrypted only ever
\* rise, so no pair is used twice, also where strict kex restarts transseq.
THEOREM NoncesNeverRepeat == Spec => NonceNeverReused
<1>1. ASSUME TransportInv, [Next]_vars
      PROVE  [\A e \in End : ep'[e].last # ep[e].last =>
                \/ ep'[e].last[1] > ep[e].last[1]
                \/ ep'[e].last[1] = ep[e].last[1] /\ ep'[e].last[2] > ep[e].last[2]]_vars
  <2>1. CASE UNCHANGED vars
    BY <2>1
  <2>2. CASE Next
    <3>1. \A e \in End : Later(ep[e].last, ep'[e].last)
      BY <2>2, <1>1, TransportNext
    <3> QED BY <3>1 DEF Later
  <2> QED BY <2>1, <2>2, <1>1
<1> QED BY <1>1, TransportInvariant, PTL DEF Spec, NonceNeverReused
=============================================================================
