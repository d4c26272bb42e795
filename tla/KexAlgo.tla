------------------------------ MODULE KexAlgo ------------------------------
(***************************************************************************)
(* Which algorithms a key exchange uses: the lists of a KEXINIT, how each  *)
(* end picks from them (common-algo.c, read_kex_algos), the client's       *)
(* guessed first packet, and the host key that the server must then have   *)
(* (svr-kex.c).  Transport takes the outcome of this for granted.          *)
(*                                                                         *)
(* The tables of algorithms are process-wide and change: host keys that    *)
(* are missing disable entries when the server starts, and the first       *)
(* exchange of a session disables all host key algorithms but its own.     *)
(* The PS4 build serves one session after the other from these tables; the *)
(* forking build gives each session a copy.                                *)
(***************************************************************************)
EXTENDS Integers, Sequences, FiniteSets

CONSTANTS
    Names,          \* the names of algorithms
    Offers,         \* the configurations of a client and a server that meet
    Clients,        \* clients that come in later sessions
    Markers,        \* entries of sshkex that are no key exchange (data is NULL)
    Guess2,         \* KEXGUESS2_ALGO_NAME, one of Markers
    Aead,           \* ciphers that bring their own integrity check
    EcdsaDefault,   \* ECDSA_DEFAULT_SIZE
    MaxSessions,    \* bound: sessions served one after the other
    MaxRekeys       \* bound: rekeys in a session

NULL == "null"
Unread == [ok |-> FALSE]            \* the peer's KEXINIT was not read yet
Ecdsa == {"e256", "e384"}           \* host key algorithms of NIST curves
Sk == {"sk"}                        \* of security keys: never a server's own
HostKeys == {"ed", "rsa"} \cup Ecdsa

\* The default host key files: all ECDSA sizes share one.  A file holds a key,
\* can still be made, or can be neither read nor made.
KeyFile(s) == IF s \in Ecdsa THEN "ecdsa" ELSE s
KeyFiles == {"ed", "rsa", "ecdsa"}
Absent == "absent"
Broken == "broken"
Holding(k) == {s \in HostKeys : KeyFile(s) = k}

\* What an end brings to a session: its table sshkex, the names in the others.
Entry == [name : Names, usable : BOOLEAN]
Side == [kex : Seq(Entry), sig : Seq(Names), cipher : Seq(Names), mac : Seq(Names),
         compression : BOOLEAN]
\* A session: who meets, the keys in memory at the server's start, whether they
\* were named (-r), the default files then, whether keys are made later (-R).
Configs == [cli : Side, svr : Side, loaded : SUBSET HostKeys, named : BOOLEAN,
            file : [KeyFiles -> HostKeys \cup {Absent, Broken}],
            delay : BOOLEAN, orbis : BOOLEAN]

\* Default files hold keys of their type, and are loaded if none was named.
FilesOk(c) ==
    /\ \A k \in KeyFiles : c.file[k] \in Holding(k) \cup {Absent, Broken}
    /\ ~c.named => \A s \in HostKeys : c.file[KeyFile(s)] = s => s \in c.loaded

\* Neither end ever disables kexguess2, and the client disables nothing but
\* the server's strict kex marker, which does not stand first in its table.
SideOk(s) == \A i \in 1..Len(s.kex) : s.kex[i].name = Guess2 => s.kex[i].usable
ClientOk(s) == SideOk(s) /\ s.kex # <<>> /\ s.kex[1].usable

ASSUME KexAlgoAssumption ==
    /\ NULL \notin Names /\ {"zlib", "none"} \cup HostKeys \cup Sk \cup Markers \subseteq Names
    /\ Guess2 \in Markers /\ EcdsaDefault \in Ecdsa
    /\ MaxSessions \in Nat \ {0} /\ MaxRekeys \in Nat
    /\ Offers \subseteq Configs /\ Clients \subseteq Side
    /\ \A c \in Clients : ClientOk(c)
    /\ \A o \in Offers : /\ ClientOk(o.cli) /\ SideOk(o.svr) /\ FilesOk(o)
                         /\ \A i \in 1..Len(o.svr.sig) : o.svr.sig[i] \in HostKeys \cup Sk

VARIABLES
    conf,           \* the client and the server of this session
    sigalgs,        \* the server's table of host key algorithms
    hostkey,        \* the host keys in the server's memory
    file,           \* the default host key files
    kexinit,        \* kexinit[e]: the lists of the KEXINIT that e sent
    newkeys,        \* newkeys[e]: what e picked
    c2s,            \* KEXDH_INITs under way: the key exchange each is for
    ignorenext, kexdh_reply,    \* the server's; the reply names a signature
    done,           \* the client accepted the reply
    exit,           \* exit[e]: why dropbear_exit was called, NULL if it was not
    sessions, rekeys

vars == <<conf, sigalgs, hostkey, file, kexinit, newkeys, c2s, ignorenext,
          kexdh_reply, done, exit, sessions, rekeys>>

Ends == {"cli", "svr"}
Kinds == {"cipher", "mac", "comp_c2s", "comp_s2c"}

-----------------------------------------------------------------------------
(* common-algo.c *)

\* Only usable names are sent.
buf_put_algolist(t) ==
    LET names[i \in 0..Len(t)] ==
            IF i = 0 THEN <<>>
            ELSE IF t[i].usable THEN Append(names[i - 1], t[i].name) ELSE names[i - 1]
    IN  names[Len(t)]

first_usable_algo(t) == buf_put_algolist(t)[1]

buf_has_algo(names, algo) == \E i \in 1..Len(names) : names[i] = algo

\* Where the first of the client's names that is also the server's stands in
\* the two lists.  The own table keeps its unusable entries, which match
\* nothing but count as positions.  No list is longer than MAX_PROPOSED_ALGO,
\* where get_algolist would exit: the tables of both ends are shorter.
Match(server, local, remote) ==
    LET mine == [i \in 1..Len(local) |-> IF local[i].usable THEN local[i].name ELSE NULL]
        cli  == IF server THEN remote ELSE mine
        serv == IF server THEN mine ELSE remote
        hits == {h \in (1..Len(cli)) \X (1..Len(serv)) :
                    cli[h[1]] # NULL /\ cli[h[1]] = serv[h[2]]}
        first == CHOOSE h \in hits :
                    \A g \in hits : h[1] < g[1] \/ (h[1] = g[1] /\ h[2] <= g[2])
    IN  IF hits = {} THEN [algo |-> NULL, i |-> 0, j |-> 0]
        ELSE [algo |-> cli[first[1]], i |-> first[1], j |-> first[2]]

\* The guess counts as good whatever was matched.
buf_match_algo_AnyGuess(server, local, remote, kexguess2) ==
    LET m == Match(server, local, remote)
    IN  [algo |-> m.algo, goodguess |-> kexguess2 \/ m.j = 1]

\* With kexguess2 a guess is good if it is the client's first name, without
\* only if it is the server's first, too.
buf_match_algo(server, local, remote, kexguess2) ==
    LET m == Match(server, local, remote)
    IN  [algo |-> m.algo, goodguess |-> m.i = 1 /\ (kexguess2 \/ m.j = 1)]

-----------------------------------------------------------------------------
(* svr-runopts.c, svr-session.c: the server's tables *)

Disable(t, S) ==
    [i \in 1..Len(t) |-> IF t[i].name \in S THEN [t[i] EXCEPT !.usable = FALSE] ELSE t[i]]
All(names) == [i \in 1..Len(names) |-> [name |-> names[i], usable |-> TRUE]]
InTable(t) == {t[i].name : i \in 1..Len(t)}

\* Algorithms without a key are disabled, unless keys are generated when
\* needed (-R); one ECDSA size at most is left, and no security key.
load_all_hostkeys_AllSizes(t, loaded, delay) ==
    Disable(t, Sk \cup (IF delay THEN {} ELSE HostKeys \ loaded))
load_all_hostkeys(t, loaded, delay) ==
    LET ecdsa == loaded \cap Ecdsa
        missing == IF delay THEN {} ELSE {"ed", "rsa"} \ loaded
        sizes == IF delay /\ ecdsa = {} THEN Ecdsa \ {EcdsaDefault} ELSE Ecdsa \ loaded
    IN  Disable(t, missing \cup sizes \cup Sk)

\* The PS4 build first makes every entry usable again.
svr_algos_initialise_NoRestore(t, orbis) == t
svr_algos_initialise(t, orbis) ==
    IF orbis THEN All([i \in 1..Len(t) |-> t[i].name]) ELSE t

disable_sig_except(t, algo) == Disable(t, InTable(t) \ {algo})

\* The table of host key algorithms that a server without history starts
\* a session with.
FreshSigalgs(c) ==
    svr_algos_initialise(load_all_hostkeys(All(c.svr.sig), c.loaded, c.delay), c.orbis)

-----------------------------------------------------------------------------
(* common-kex.c *)

\* kex_setup_compress: a server never compresses what it receives.
kex_setup_compress(e, on) ==
    [comp_c2s |-> IF on /\ e = "cli" THEN <<"zlib", "none">> ELSE <<"none">>,
     comp_s2c |-> IF on THEN <<"zlib", "none">> ELSE <<"none">>]

\* The tables of end e.  conf holds the names each build has, and for sshkex
\* the entries its options leave usable.
Tables(e, c, sig) ==
    LET comp == kex_setup_compress(e, c[e].compression)
    IN  [kex |-> c[e].kex,
         sig |-> IF e = "svr" THEN sig ELSE All(c.cli.sig),
         cipher |-> All(c[e].cipher), mac |-> All(c[e].mac),
         comp_c2s |-> All(comp.comp_c2s), comp_s2c |-> All(comp.comp_s2c)]

send_msg_kexinit(e, c, sig) ==
    [k \in {"kex", "sig"} \cup Kinds |-> buf_put_algolist(Tables(e, c, sig)[k])]

\* "Handle the asymmetry": the client sends what the server receives.
Direction_Same(server, c2s_keys, s2c_keys) == [trans |-> c2s_keys, recv |-> s2c_keys]
Direction(server, c2s_keys, s2c_keys) ==
    [trans |-> IF server THEN s2c_keys ELSE c2s_keys,
     recv  |-> IF server THEN c2s_keys ELSE s2c_keys]

\* What end e picks from its tables t and the peer's lists, and whether that
\* is what the client guessed.
read_kex_algos(e, t, theirs) ==
    LET server == e = "svr"
        kexguess2 == Guess2 \in InTable(t.kex) /\ buf_has_algo(theirs.kex, Guess2)
        kex == buf_match_algo(server, t.kex, theirs.kex, kexguess2)
        sig == buf_match_algo(server, t.sig, theirs.sig, kexguess2)
        Pick(k) == buf_match_algo(server, t[k], theirs[k], FALSE).algo
        \* one table each for ciphers and MACs, so the same in both directions
        mac == IF Pick("cipher") \in Aead THEN "implicit" ELSE Pick("mac")
        c2s_keys == [cipher |-> Pick("cipher"), mac |-> mac, comp |-> Pick("comp_c2s")]
        s2c_keys == [cipher |-> Pick("cipher"), mac |-> mac, comp |-> Pick("comp_s2c")]
    IN  [ok |-> /\ kex.algo \notin {NULL} \cup Markers /\ sig.algo # NULL
                /\ NULL \notin {Pick("cipher"), mac, Pick("comp_c2s"), Pick("comp_s2c")},
         kex |-> kex.algo, sig |-> sig.algo,
         keys |-> Direction(server, c2s_keys, s2c_keys),
         allgood |-> kex.goodguess /\ sig.goodguess]

-----------------------------------------------------------------------------
\* Both ends send a KEXINIT, the client also the packet it guesses.
Exchange(c, sig) ==
    /\ kexinit' = [e \in Ends |-> send_msg_kexinit(e, c, sig)]
    /\ c2s' = <<first_usable_algo(c.cli.kex)>>
    /\ newkeys' = [e \in Ends |-> Unread] /\ exit' = [e \in Ends |-> NULL]
    /\ ignorenext' = FALSE /\ kexdh_reply' = NULL /\ done' = FALSE

Init ==
    /\ conf \in Offers
    /\ sigalgs = FreshSigalgs(conf) /\ hostkey = conf.loaded /\ file = conf.file
    /\ kexinit = [e \in Ends |-> send_msg_kexinit(e, conf, sigalgs)]
    /\ c2s = <<first_usable_algo(conf.cli.kex)>>
    /\ newkeys = [e \in Ends |-> Unread] /\ exit = [e \in Ends |-> NULL]
    /\ ignorenext = FALSE /\ kexdh_reply = NULL /\ done = FALSE
    /\ sessions = 1 /\ rekeys = 0

Running == \A e \in Ends : exit[e] = NULL
dropbear_exit(e, why) == exit' = [exit EXCEPT ![e] = why]

\* recv_msg_kexinit at the client, then cli_sessionloop: a guess that was not
\* good is followed by the packet for what was picked.
CliKexinit ==
    LET n == read_kex_algos("cli", Tables("cli", conf, sigalgs), kexinit["svr"])
    IN  /\ Running /\ newkeys["cli"] = Unread
        /\ IF n.ok
           THEN /\ newkeys' = [newkeys EXCEPT !["cli"] = n]
                /\ c2s' = IF n.allgood THEN c2s ELSE Append(c2s, n.kex)
                /\ UNCHANGED exit
           ELSE dropbear_exit("cli", "no match") /\ UNCHANGED <<newkeys, c2s>>
        /\ UNCHANGED <<conf, sigalgs, hostkey, file, kexinit, ignorenext, kexdh_reply,
                       done, sessions, rekeys>>

\* recv_msg_kexinit at the server: first_kex_packet_follows is always set.
SvrKexinit ==
    LET n == read_kex_algos("svr", Tables("svr", conf, sigalgs), kexinit["cli"])
    IN  /\ Running /\ newkeys["svr"] = Unread
        /\ IF n.ok
           THEN /\ newkeys' = [newkeys EXCEPT !["svr"] = n]
                /\ ignorenext' = ~n.allgood /\ UNCHANGED exit
           ELSE dropbear_exit("svr", "no match") /\ UNCHANGED <<newkeys, ignorenext>>
        /\ UNCHANGED <<conf, sigalgs, hostkey, file, kexinit, c2s, kexdh_reply,
                       done, sessions, rekeys>>

\* process_packet throws the packet after a bad guess away.
SvrIgnores ==
    /\ Running /\ newkeys["svr"] # Unread /\ c2s # <<>> /\ ignorenext
    /\ ignorenext' = FALSE /\ c2s' = Tail(c2s)
    /\ UNCHANGED <<conf, sigalgs, hostkey, file, kexinit, newkeys, kexdh_reply,
                   done, exit, sessions, rekeys>>

\* svr_ensure_hostkey: with -R the key that signs with algorithm s is read from
\* its default file or made there; one that exists is never replaced.
HasKey(s) == s \in hostkey
MakesKey(s) ==
    /\ conf.delay /\ s \in HostKeys \ hostkey
    /\ file[KeyFile(s)] \in {s, Absent}

\* buf_put_pub_key and buf_put_sign find no key.  A security key has no file
\* (dropbear_assert) and, if a key of its curve is in memory, does not sign.
WhyNot(s) == IF conf.delay /\ s \in HostKeys THEN "hostkey file" ELSE "no hostkey"

\* recv_msg_kexdh_init: a value for another key exchange is garbage.
SvrKexdhInit ==
    LET n == newkeys["svr"]
        expected == kexdh_reply = NULL /\ Head(c2s) = n.kex
    IN  /\ Running /\ n # Unread /\ c2s # <<>> /\ ~ignorenext
        /\ c2s' = Tail(c2s)
        /\ \/ /\ expected /\ (HasKey(n.sig) \/ MakesKey(n.sig))
              /\ kexdh_reply' = n.sig
              /\ hostkey' = hostkey \cup {n.sig}
              /\ file' = IF HasKey(n.sig) THEN file ELSE [file EXCEPT ![KeyFile(n.sig)] = n.sig]
              /\ sigalgs' = disable_sig_except(sigalgs, n.sig)
              /\ UNCHANGED exit
           \/ /\ ~(expected /\ (HasKey(n.sig) \/ MakesKey(n.sig)))
              /\ dropbear_exit("svr", IF kexdh_reply # NULL THEN "unexpected"
                                      ELSE IF Head(c2s) # n.kex THEN "bad kex value"
                                      ELSE WhyNot(n.sig))
              /\ UNCHANGED <<kexdh_reply, hostkey, file, sigalgs>>
        /\ UNCHANGED <<conf, kexinit, newkeys, ignorenext, done, sessions, rekeys>>

\* recv_msg_kexdh_reply: key type and signature must be those picked.
CliKexdhReply ==
    /\ Running /\ newkeys["cli"] # Unread /\ kexdh_reply # NULL /\ ~done
    /\ IF kexdh_reply = newkeys["cli"].sig THEN done' = TRUE /\ UNCHANGED exit
       ELSE dropbear_exit("cli", "bad signature") /\ UNCHANGED done
    /\ UNCHANGED <<conf, sigalgs, hostkey, file, kexinit, newkeys, c2s, ignorenext,
                   kexdh_reply, sessions, rekeys>>

Rekey ==
    /\ Running /\ done /\ c2s = <<>> /\ rekeys < MaxRekeys
    /\ Exchange(conf, sigalgs)
    /\ rekeys' = rekeys + 1
    /\ UNCHANGED <<conf, sigalgs, hostkey, file, sessions>>

\* The session is over and the same server takes the next client.
NewSession ==
    /\ done \/ ~Running
    /\ sessions < MaxSessions /\ sessions' = sessions + 1 /\ rekeys' = 0
    /\ conf' \in {[conf EXCEPT !.cli = c] : c \in Clients}
    /\ IF conf.orbis
       THEN sigalgs' = svr_algos_initialise(sigalgs, TRUE) /\ UNCHANGED hostkey
       ELSE sigalgs' = FreshSigalgs(conf) /\ hostkey' = conf.loaded
    /\ Exchange(conf', sigalgs') /\ UNCHANGED file

Next == \/ CliKexinit \/ SvrKexinit \/ SvrIgnores \/ SvrKexdhInit
        \/ CliKexdhReply \/ Rekey \/ NewSession

Spec == Init /\ [][Next]_vars

-----------------------------------------------------------------------------
\* RFC 4253 7.1: a is in both lists, and no name that the client put before
\* it is in the server's.
FirstCommon(a, cli, serv) ==
    /\ buf_has_algo(serv, a)
    /\ \E i \in 1..Len(cli) : cli[i] = a /\ \A j \in 1..(i - 1) : ~buf_has_algo(serv, cli[j])

\* Although each end searches its own tables, with entries the other never
\* saw, both pick what the two lists on the wire say, and what one encrypts
\* with the other decrypts with, in both directions.
Agreed ==
    /\ \A e \in Ends : newkeys[e] # Unread =>
          /\ FirstCommon(newkeys[e].kex, kexinit["cli"].kex, kexinit["svr"].kex)
          /\ FirstCommon(newkeys[e].sig, kexinit["cli"].sig, kexinit["svr"].sig)
    /\ newkeys["cli"] # Unread /\ newkeys["svr"] # Unread =>
          /\ newkeys["cli"].keys.trans = newkeys["svr"].keys.recv
          /\ newkeys["cli"].keys.recv = newkeys["svr"].keys.trans

\* Where the two ends judge the guess alike: both have kexguess2, or no
\* unusable entry stands first in the server's tables.
GuessShared ==
    \/ \A e \in Ends : buf_has_algo(kexinit[e].kex, Guess2)
    \/ conf.svr.kex[1].usable /\ buf_has_algo(kexinit["svr"].sig, sigalgs[1].name)

\* The client's guess is used by the server and not repeated, or thrown away:
\* the server never takes a value made for another key exchange, nor a second
\* one, and a signature is always the expected one.  Where both judge the
\* guess alike one that is thrown away is replaced, so the ends do not wait
\* for each other: until the reply a packet is under way or an end has still
\* to look at a KEXINIT.
GuessNeverMisused ==
    /\ \A e \in Ends : exit[e] \notin {"bad kex value", "unexpected", "bad signature"}
    /\ GuessShared /\ Running /\ c2s = <<>> /\ (\A e \in Ends : newkeys[e] # Unread)
         => kexdh_reply # NULL

\* The server can sign with whatever it negotiated, with keys loaded at its
\* start or made when needed, also by an earlier session.  What may fail is -R
\* with a default file that can be neither read nor made, or with -r and a
\* default ECDSA file, not loaded then, of another size than the one offered.
\* The PS4 exception is ServableOnPs4 below.
Servable ==
    ~conf.orbis =>
        /\ exit["svr"] # "no hostkey"
        /\ exit["svr"] = "hostkey file" =>
              LET s == newkeys["svr"].sig
                  f == file[KeyFile(s)]
              IN  conf.delay /\ (f = Broken \/ (conf.named /\ f \in Ecdsa \ {s}))

\* A session of the PS4 server offers what the first one did: the restriction
\* that the session before left in the process-wide table is undone, and the
\* restriction of this one never makes its own rekey fail.
FreshOffer ==
    /\ rekeys = 0 => kexinit["svr"] = send_msg_kexinit("svr", conf, FreshSigalgs(conf))
    /\ rekeys > 0 => Running

-----------------------------------------------------------------------------
(* What the sources say and the code does not do. *)

\* dropbear_assert(0) in svr_ensure_hostkey: every algorithm that the server
\* offers has a host key file.
ServableOnPs4 == exit["svr"] # "no hostkey"
=============================================================================
