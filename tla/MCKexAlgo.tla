----------------------------- MODULE MCKexAlgo -----------------------------
(* Families of configurations: key exchange lists and guesses, host keys    *)
(* and their files, and ciphers.  Renaming makes one client list enough for *)
(* the first.                                                               *)
EXTENDS KexAlgo

Arrangements(S, n) ==
    {s \in UNION {[1..k -> S] : k \in 1..n} : \A i, j \in DOMAIN s : s[i] = s[j] => i = j}
Usable(names, u) == [i \in 1..Len(names) |-> [name |-> names[i], usable |-> names[i] \in u]]
Marked(t, b) == IF b THEN Append(t, [name |-> "guess2", usable |-> TRUE]) ELSE t
Plain == [kex |-> Marked(All(<<"k1", "k2">>), TRUE), sig |-> <<"ed", "rsa">>,
          cipher |-> <<"aead", "ctr">>, mac |-> <<"m1", "m2">>, compression |-> FALSE]
NoFiles == [k \in KeyFiles |-> Absent]
\* The keys were named with -r, or are those of the default files.
Offer(cli, svr, loaded, delay, orbis) ==
    [cli |-> cli, svr |-> svr, loaded |-> loaded, named |-> TRUE, file |-> NoFiles,
     delay |-> delay, orbis |-> orbis]
ByDefault(o, files) ==
    [o EXCEPT !.named = FALSE, !.file = files, !.loaded = {files[k] : k \in KeyFiles} \cap HostKeys]

KexOffers ==
    {Offer([Plain EXCEPT !.kex = Marked(All(<<"k1", "k2">>), g), !.sig = s],
           [Plain EXCEPT !.kex = Marked(Usable(names, u), h), !.sig = <<"ed", "sk", "rsa">>],
           l, FALSE, FALSE) :
        g, h \in BOOLEAN, s \in {<<"ed", "rsa">>, <<"rsa", "ed">>},
        names \in Arrangements({"k1", "k2", "k3"}, 3), u \in SUBSET {"k1", "k2", "k3"},
        l \in {{"rsa"}, {"ed", "rsa"}}}

HostOffers ==
    {Offer([Plain EXCEPT !.sig = s], [Plain EXCEPT !.sig = <<"ed", "sk", "e256", "e384", "rsa">>],
           l, d, FALSE) :
        s \in Arrangements({"ed", "sk", "e256", "e384", "rsa"}, 2),
        l \in SUBSET HostKeys, d \in BOOLEAN}

\* -r with default files that are not loaded, and the default files alone.
DefaultFiles ==
    {[ed |-> Absent, rsa |-> r, ecdsa |-> e] :
        r \in {"rsa", Absent, Broken}, e \in Ecdsa \cup {Absent, Broken}}
FileOffers ==
    {[o EXCEPT !.file = files] :
        o \in {h \in HostOffers : h.delay /\ h.loaded \in {{"ed"}, {"e384"}}}, files \in DefaultFiles}
    \cup {ByDefault(o, files) :
            o \in {h \in HostOffers : h.loaded = {}}, files \in DefaultFiles}
Ps4Offers ==
    {Offer([Plain EXCEPT !.sig = s], [Plain EXCEPT !.sig = <<"ed", "sk", "rsa">>], l, TRUE, TRUE) :
        s \in Arrangements({"ed", "sk", "rsa"}, 2), l \in SUBSET {"ed", "rsa"}}

CipherOffers ==
    {Offer([Plain EXCEPT !.cipher = c1, !.mac = m1, !.compression = z1],
           [Plain EXCEPT !.cipher = c2, !.mac = m2, !.compression = z2],
           {"ed"}, FALSE, FALSE) :
        c1, c2 \in Arrangements({"aead", "ctr"}, 2), m1, m2 \in Arrangements({"m1", "m2"}, 2),
        z1, z2 \in BOOLEAN}

MCClients == {[Plain EXCEPT !.sig = s] : s \in {<<"ed", "rsa">>, <<"rsa">>, <<"e256", "e384">>}}

\* The server has some key, or it does not start (any_keys).
Starts(o) == o.delay \/ o.loaded # {}
MCOffers == {o \in KexOffers \cup HostOffers \cup FileOffers \cup Ps4Offers \cup CipherOffers : Starts(o)}
=============================================================================
