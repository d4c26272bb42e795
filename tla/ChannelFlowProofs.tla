------------------------- MODULE ChannelFlowProofs -------------------------
(***************************************************************************)
(* That the packets, windows and circular buffers of a channel implement   *)
(* two reliable streams, and that no window or buffer assertion fails, for *)
(* every window, packet size and amount of data.                           *)
(***************************************************************************)
EXTENDS ChannelFlow, TLAPS

-----------------------------------------------------------------------------
(* The circular buffer *)

\* A position that ran past the end of the buffer comes back to its start.
Wrap(x) == IF x < RecvWindow THEN x ELSE x - RecvWindow

\* A buffer whose positions and fill level agree.
Cbuf ==
    {c \in [data : [0..(RecvWindow - 1) -> Nat], used : 0..RecvWindow,
            readpos : 0..(RecvWindow - 1), writepos : 0..(RecvWindow - 1)] :
        c.writepos = Wrap(c.readpos + c.used)}

\* The units in c are those that follow unit d.
Holds(c, d) == \A k \in 1..c.used : c.data[Wrap(c.readpos + k - 1)] = d + k

\* The sequence s is the units that follow unit d.
Follows(s, d) == s \in Seq(Nat) /\ \A k \in 1..Len(s) : s[k] = d + k

\* Modular arithmetic on positions, one turn beyond the buffer at most.
LEMMA WrapIsMod ==
    ASSUME NEW x \in 0..(2 * RecvWindow - 1)
    PROVE  x % RecvWindow = Wrap(x) /\ Wrap(x) \in 0..(RecvWindow - 1)
<1>1. CASE x < RecvWindow
    BY <1>1, FlowAssumption DEF Wrap
<1>2. CASE x >= RecvWindow
    <2>1. PICK y \in 0..(RecvWindow - 1) : x = y + RecvWindow
        BY <1>2, FlowAssumption
    <2>2. (y + RecvWindow) % RecvWindow = y
        BY FlowAssumption
    <2>3. QED
        BY <1>2, <2>1, <2>2, FlowAssumption DEF Wrap
<1>3. QED
    BY <1>1, <1>2, FlowAssumption

LEMMA WrapValue ==
    ASSUME NEW x \in Int
    PROVE  /\ x < RecvWindow => Wrap(x) = x
           /\ x >= RecvWindow => Wrap(x) = x - RecvWindow
BY FlowAssumption DEF Wrap

\* What is known of the fields of a buffer.
LEMMA CbufFields ==
    ASSUME NEW c \in Cbuf
    PROVE  /\ RecvWindow \in Nat \ {0} /\ c.data \in [0..(RecvWindow - 1) -> Nat]
           /\ c.used \in 0..RecvWindow /\ c.readpos \in 0..(RecvWindow - 1)
           /\ c.writepos \in 0..(RecvWindow - 1) /\ c.writepos = Wrap(c.readpos + c.used)
BY FlowAssumption DEF Cbuf

\* The assertions of cbuf_writelen hold of such a buffer.
LEMMA CbufOk ==
    ASSUME NEW c \in Cbuf
    PROVE  cbuf_ok(c)
<1>1. ASSUME NEW u \in 0..RecvWindow, NEW r \in 0..(RecvWindow - 1),
             NEW w \in 0..(RecvWindow - 1), w = Wrap(r + u)
      PROVE  (2 * RecvWindow + w - r) % RecvWindow = u % RecvWindow
    <2>0. /\ RecvWindow \in Nat \ {0}
          /\ \A x \in 0..(RecvWindow - 1) :
               /\ x % RecvWindow = x /\ (x + RecvWindow) % RecvWindow = x
               /\ (x + 2 * RecvWindow) % RecvWindow = x
        BY FlowAssumption
    <2>1. CASE u = RecvWindow
        <3>1. 2 * RecvWindow + w - r = 0 + 2 * RecvWindow /\ u = 0 + RecvWindow
            BY <1>1, <2>0, <2>1 DEF Wrap
        <3>2. (0 + 2 * RecvWindow) % RecvWindow = 0 /\ (0 + RecvWindow) % RecvWindow = 0
            BY <2>0
        <3>3. QED
            BY <3>1, <3>2
    <2>2. CASE u # RecvWindow
        <3>1. u \in 0..(RecvWindow - 1)
            BY <2>0, <2>2
        <3>2. 2 * RecvWindow + w - r \in {u + RecvWindow, u + 2 * RecvWindow}
            BY <1>1, <2>0 DEF Wrap
        <3>3. QED
            BY <2>0, <3>1, <3>2
    <2>3. QED
        BY <2>1, <2>2
<1>2. QED
    BY <1>1, CbufFields DEF cbuf_ok

LEMMA CbufNew == cbuf_new \in Cbuf /\ cbuf_new.used = 0
BY FlowAssumption DEF cbuf_new, Cbuf, Wrap

\* Sequences of consecutive units: joined, and cut.
LEMMA FollowsConcat ==
    ASSUME NEW s, NEW t, NEW d \in Nat, Follows(s, d), Follows(t, d + Len(s))
    PROVE  Follows(s \o t, d) /\ Len(s \o t) = Len(s) + Len(t)
<1>0. PICK a, b : a = Len(s) /\ b = Len(t)
    OBVIOUS
<1>1. s \in Seq(Nat) /\ t \in Seq(Nat) /\ a \in Nat /\ b \in Nat
    BY <1>0 DEF Follows
<1>2. s \o t \in Seq(Nat) /\ Len(s \o t) = Len(s) + Len(t)
    BY <1>1
<1>3. ASSUME NEW k \in 1..(a + b) PROVE (s \o t)[k] = d + k
    <2>1. CASE k <= a
        <3>1. k \in 1..Len(s)
            BY <1>0, <1>1, <2>1
        <3>2. (s \o t)[k] = s[k]
            BY <1>1, <3>1
        <3>3. QED
            BY <3>1, <3>2 DEF Follows
    <2>2. CASE k > a
        <3>1. k - a \in 1..Len(t) /\ a + (k - a) = k /\ (d + a) + (k - a) = d + k
            BY <1>0, <1>1, <2>2
        <3>2. (s \o t)[k] = t[k - a]
            BY <1>0, <1>1, <1>2, <2>2
        <3>3. t[k - a] = (d + a) + (k - a)
            BY <1>0, <3>1 DEF Follows
        <3>4. QED
            BY <3>1, <3>2, <3>3
    <2>3. a \in Nat /\ b \in Nat => k <= a \/ k > a
        OBVIOUS
    <2>4. QED
        BY <1>1, <2>1, <2>2, <2>3
<1>4. QED
    BY <1>0, <1>2, <1>3 DEF Follows

LEMMA FollowsSub ==
    ASSUME NEW s, NEW d \in Nat, Follows(s, d), NEW i \in 0..Len(s), NEW j \in i..Len(s)
    PROVE  Follows(SubSeq(s, i + 1, j), d + i) /\ Len(SubSeq(s, i + 1, j)) = j - i
<1>1. s \in Seq(Nat) /\ Len(s) \in Nat /\ i \in Nat /\ j \in Nat /\ i <= j /\ j <= Len(s)
    BY DEF Follows
<1>2. PICK t : t = SubSeq(s, i + 1, j)
    OBVIOUS
<1>3. t \in Seq(Nat) /\ Len(t) = j - i
    BY <1>1, <1>2
<1>4. ASSUME NEW k \in 1..(j - i) PROVE t[k] = (d + i) + k
    <2>1. i + k \in 1..Len(s) /\ d + (i + k) = (d + i) + k
        BY <1>1
    <2>2. t[k] = s[i + k]
        BY <1>1, <1>2, <1>3
    <2>3. QED
        BY <2>1, <2>2 DEF Follows
<1>5. QED
    BY <1>2, <1>3, <1>4 DEF Follows

\* cbuf_readptrs yields what is stored, in order, also where it wraps.
LEMMA ReadPtrs ==
    ASSUME NEW c \in Cbuf, NEW d \in Nat, Holds(c, d)
    PROVE  Follows(cbuf_readptrs(c), d) /\ Len(cbuf_readptrs(c)) = c.used
<1>0. PICK n, u, r, D : n = RecvWindow /\ u = c.used /\ r = c.readpos /\ D = c.data
    OBVIOUS
<1>1. n \in Nat \ {0} /\ u \in 0..n /\ r \in 0..(n - 1) /\ D \in [0..(n - 1) -> Nat]
    BY <1>0, CbufFields
<1>2. \A k \in 1..u : /\ r + k - 1 < n => D[r + k - 1] = d + k
                      /\ r + k - 1 >= n => D[r + k - 1 - n] = d + k
    <2>1. \A k \in 1..u : D[Wrap(r + k - 1)] = d + k
        BY <1>0 DEF Holds
    <2>2. \A k \in 1..u : /\ r + k - 1 < n => Wrap(r + k - 1) = r + k - 1
                          /\ r + k - 1 >= n => Wrap(r + k - 1) = r + k - 1 - n
        BY <1>0, <1>1 DEF Wrap
    <2>3. QED
        BY <2>1, <2>2
<1>3. PICK a : a = MinOf(u, n - r)
    OBVIOUS
<1>4. a \in Nat /\ a <= u /\ a <= n - r /\ (u > a => a = n - r)
    BY <1>1, <1>3 DEF MinOf
<1> DEFINE s == [i \in 1..a |-> D[r + i - 1]]
           t == [i \in 1..(u - a) |-> D[i - 1]]
<1>5. \A i \in 1..a : D[r + i - 1] = d + i
    BY <1>1, <1>2, <1>4
<1>6. \A i \in 1..(u - a) : D[i - 1] = d + (a + i)
    <2> SUFFICES ASSUME NEW i \in 1..(u - a) PROVE D[i - 1] = d + (a + i)
        OBVIOUS
    <2>1. a + i \in 1..u /\ r + (a + i) - 1 >= n /\ r + (a + i) - 1 - n = i - 1
        BY <1>1, <1>4
    <2>2. QED
        BY <1>1, <1>2, <2>1
<1>7. Follows(s, d) /\ Len(s) = a
    BY <1>4, <1>5 DEF Follows
<1>8. Follows(t, d + a) /\ Len(t) = u - a
    <2>1. u - a \in Nat /\ t \in Seq(Nat) /\ Len(t) = u - a
        BY <1>1, <1>4, <1>6
    <2>2. \A i \in 1..(u - a) : t[i] = (d + a) + i
        BY <1>4, <1>6
    <2>3. QED
        BY <2>1, <2>2 DEF Follows
<1>9. cbuf_readptrs(c) = s \o t
    BY <1>0, <1>3 DEF cbuf_readptrs
<1> HIDE DEF s, t
<1>10. Follows(s \o t, d) /\ Len(s \o t) = a + (u - a)
    BY <1>7, <1>8, FollowsConcat
<1>11. a + (u - a) = u
    BY <1>1, <1>4
<1>12. QED
    BY <1>0, <1>9, <1>10, <1>11

\* cbuf_incrread drops units from the front.
LEMMA IncrRead ==
    ASSUME NEW c \in Cbuf, NEW d \in Nat, Holds(c, d), NEW n \in 0..c.used
    PROVE  /\ cbuf_incrread(c, n) \in Cbuf
           /\ cbuf_incrread(c, n).used = c.used - n
           /\ Holds(cbuf_incrread(c, n), d + n)
<1>0. PICK b, u, r, N : b = cbuf_incrread(c, n) /\ u = c.used /\ r = c.readpos
                        /\ N = RecvWindow
    OBVIOUS
<1>1. N \in Nat \ {0} /\ u \in 0..N /\ r \in 0..(N - 1) /\ n \in 0..u
    BY <1>0, CbufFields
<1>2. (r + n) % N = Wrap(r + n) /\ Wrap(r + n) \in 0..(N - 1)
    <2>1. r + n \in 0..(2 * N - 1)
        BY <1>1
    <2>2. QED
        BY <1>0, <2>1, WrapIsMod
<1>3. b = [c EXCEPT !.used = u - n, !.readpos = Wrap(r + n)]
    BY <1>0, <1>2 DEF cbuf_incrread
<1>4. b.data = c.data /\ b.writepos = c.writepos /\ b.used = u - n /\ b.readpos = Wrap(r + n)
    BY <1>3 DEF Cbuf
<1>5. u - n \in 0..N /\ Wrap(r + u) = Wrap(Wrap(r + n) + (u - n))
    BY <1>0, <1>1 DEF Wrap
<1>6. b \in Cbuf
    <2>1. c.writepos = Wrap(r + u)
        BY <1>0, CbufFields
    <2>2. b \in [data : [0..(RecvWindow - 1) -> Nat], used : 0..RecvWindow,
                 readpos : 0..(RecvWindow - 1), writepos : 0..(RecvWindow - 1)]
        BY <1>0, <1>2, <1>3, <1>5 DEF Cbuf
    <2>3. QED
        BY <1>4, <1>5, <2>1, <2>2 DEF Cbuf
<1>7. ASSUME NEW k \in 1..(u - n) PROVE c.data[Wrap(Wrap(r + n) + k - 1)] = (d + n) + k
    <2>1. Wrap(Wrap(r + n) + k - 1) = Wrap(r + (n + k) - 1) /\ n + k \in 1..u
        BY <1>0, <1>1 DEF Wrap
    <2>2. c.data[Wrap(r + (n + k) - 1)] = d + (n + k)
        BY <1>0, <2>1 DEF Holds
    <2>3. QED
        BY <1>1, <2>1, <2>2
<1>8. QED
    BY <1>0, <1>4, <1>6, <1>7 DEF Holds

\* Writing at most cbuf_writelen units adds them at the end.
LEMMA Put ==
    ASSUME NEW c \in Cbuf, NEW d \in Nat, Holds(c, d),
           NEW s, Follows(s, d + c.used), Len(s) <= cbuf_writelen(c)
    PROVE  /\ cbuf_put(c, s) \in Cbuf
           /\ cbuf_put(c, s).used = c.used + Len(s)
           /\ Holds(cbuf_put(c, s), d)
<1>0. PICK b, n, w, r, u, l, D : b = cbuf_put(c, s) /\ n = RecvWindow /\ w = c.writepos
            /\ r = c.readpos /\ u = c.used /\ l = Len(s) /\ D = c.data
    OBVIOUS
<1>1. n \in Nat \ {0} /\ u \in 0..n /\ r \in 0..(n - 1) /\ w \in 0..(n - 1) /\ l \in Nat
      /\ D \in [0..(n - 1) -> Nat]
    BY <1>0, CbufFields DEF Follows
<1>n. n = RecvWindow
    BY <1>0
<1>2. w = IF r + u < n THEN r + u ELSE r + u - n
    BY <1>0, CbufFields DEF Wrap
<1>3. l <= IF u = n THEN 0 ELSE IF w < r THEN r - w ELSE n - w
    BY <1>0 DEF cbuf_writelen
<1>4. u + l <= n /\ w + l <= n
    BY <1>1, <1>2, <1>3
<1>5. (w + l) % n = Wrap(w + l) /\ Wrap(w + l) \in 0..(n - 1)
    <2>1. w + l \in 0..(2 * n - 1)
        BY <1>1, <1>4
    <2>2. QED
        BY <1>0, <2>1, WrapIsMod
<1>6. b = [data |-> [i \in 0..(n - 1) |-> IF i >= w /\ i < w + l THEN s[i - w + 1] ELSE D[i]],
           used |-> u + l, readpos |-> r, writepos |-> Wrap(w + l)]
    BY <1>0, <1>1, <1>5 DEF cbuf_put
<1>7. s \in Seq(Nat) /\ Len(s) = l /\ \A k \in 1..l : s[k] = (d + u) + k
    BY <1>0 DEF Follows
<1>8. b \in Cbuf
    <2>1. Wrap(w + l) = Wrap(r + (u + l))
        <3>1. CASE r + u < n
            BY <1>0, <1>1, <1>2, <3>1, SMTT(60) DEF Wrap
        <3>2. CASE r + u >= n
            <4>1. w = r + u - n /\ w + l < n
                BY <1>1, <1>2, <1>3, <3>2
            <4>2. ~(r + (u + l) < n) /\ r + (u + l) - n = w + l
                BY <1>1, <3>2, <4>1
            <4>3. QED
                BY <1>n, <1>1, <4>1, <4>2, WrapValue
        <3>3. QED
            BY <1>1, <3>1, <3>2
    <2>2. \A i \in 0..(n - 1) : i >= w /\ i < w + l => s[i - w + 1] \in Nat
        BY <1>1, <1>7
    <2>3. b.data \in [0..(n - 1) -> Nat]
        BY <1>1, <1>6, <2>2
    <2>4. u + l \in 0..n
        BY <1>1, <1>4
    <2>5. QED
        <3>1. b \in [data : [0..(n - 1) -> Nat], used : 0..n, readpos : 0..(n - 1),
                      writepos : 0..(n - 1)]
            BY <1>1, <1>5, <1>6, <2>3, <2>4
        <3>2. b.writepos = Wrap(b.readpos + b.used)
            BY <1>6, <2>1
        <3>3. QED
            BY <1>0, <3>1, <3>2 DEF Cbuf
<1>9. ASSUME NEW k \in 1..(u + l) PROVE b.data[Wrap(r + k - 1)] = d + k
    <2>p. PICK i \in 0..(n - 1) : i = Wrap(r + k - 1)
              /\ i = IF r + k - 1 < n THEN r + k - 1 ELSE r + k - 1 - n
        <3>1. r + k - 1 \in 0..(2 * n - 1)
            BY <1>1, <1>4
        <3>2. Wrap(r + k - 1) = IF r + k - 1 < n THEN r + k - 1 ELSE r + k - 1 - n
            BY <1>n, <1>1, <3>1, WrapValue
        <3>3. Wrap(r + k - 1) \in 0..(n - 1)
            BY <1>0, <3>1, WrapIsMod
        <3>4. QED
            BY <3>2, <3>3
    <2>1. CASE k <= u
        <3>1. ~(i >= w /\ i < w + l)
            BY <1>1, <1>2, <1>3, <2>p, <2>1, SMTT(60)
        <3>2. b.data[i] = D[i]
            BY <1>6, <3>1
        <3>3. D[i] = d + k
            BY <1>0, <1>1, <2>p, <2>1, SMTT(60) DEF Holds
        <3>4. QED
            BY <2>p, <3>2, <3>3
    <2>2. CASE k > u
        <3>1. i = w + (k - u) - 1 /\ k - u \in 1..l
            BY <1>1, <1>2, <1>3, <1>4, <2>p, <2>2, SMTT(60)
        <3>2. i >= w /\ i < w + l /\ i - w + 1 = k - u
            BY <1>1, <3>1
        <3>3. b.data[i] = s[k - u]
            BY <1>6, <3>2
        <3>4. s[k - u] = (d + u) + (k - u)
            BY <1>7, <3>1
        <3>5. QED
            BY <1>1, <2>p, <3>3, <3>4
    <2>3. QED
        BY <1>1, <2>1, <2>2
<1>10. b.used = u + l /\ b.readpos = r
    BY <1>6
<1>11. QED
    BY <1>0, <1>8, <1>9, <1>10 DEF Holds

\* The loop of common_recv_msg_channel_data stores all that fits, in order,
\* in one piece or in two.
LEMMA StoreAll ==
    ASSUME NEW c \in Cbuf, NEW d \in Nat, Holds(c, d),
           NEW s, Follows(s, d + c.used), Len(s) <= RecvWindow - c.used
    PROVE  /\ Store(c, s) \in Cbuf
           /\ Store(c, s).used = c.used + Len(s)
           /\ Holds(Store(c, s), d)
<1>0. PICK N, w, r, u, l, n : N = RecvWindow /\ w = c.writepos /\ r = c.readpos /\ u = c.used
          /\ l = Len(s) /\ n = MinOf(cbuf_writelen(c), Len(s))
    OBVIOUS
<1>1. N \in Nat \ {0} /\ u \in 0..N /\ r \in 0..(N - 1) /\ w \in 0..(N - 1) /\ l \in Nat
      /\ l <= N - u
    BY <1>0, CbufFields DEF Follows
<1>2. w = IF r + u < N THEN r + u ELSE r + u - N
    BY <1>0, CbufFields DEF Wrap
<1>3. cbuf_writelen(c) = IF u = N THEN 0 ELSE IF w < r THEN r - w ELSE N - w
    BY <1>0 DEF cbuf_writelen
<1>4. n \in 0..l /\ n <= cbuf_writelen(c) /\ (n # l => n = N - w /\ ~(w < r) /\ u # N)
    <2>1. cbuf_writelen(c) \in Nat /\ (cbuf_writelen(c) < l => cbuf_writelen(c) = N - w /\ ~(w < r) /\ u # N)
        BY <1>1, <1>2, <1>3
    <2>2. QED
        BY <1>0, <1>1, <2>1 DEF MinOf
<1>5. PICK p, q, e : p = SubSeq(s, 1, n) /\ q = SubSeq(s, n + 1, l) /\ e = cbuf_put(c, p)
    OBVIOUS
<1>6. s \in Seq(Nat) /\ d + u \in Nat /\ Len(s) = l /\ Follows(s, d + u)
    BY <1>0, <1>1 DEF Follows
<1>7. Follows(p, d + u) /\ Len(p) = n
    <2>1. 0 \in 0..Len(s) /\ n \in 0..Len(s) /\ 0 + 1 = 1 /\ d + u + 0 = d + u /\ n - 0 = n
        BY <1>1, <1>4, <1>6
    <2>2. Follows(SubSeq(s, 0 + 1, n), d + u + 0) /\ Len(SubSeq(s, 0 + 1, n)) = n - 0
        BY <1>6, <2>1, FollowsSub
    <2>3. QED
        BY <1>5, <2>1, <2>2
<1>8. e \in Cbuf /\ e.used = u + n /\ Holds(e, d)
    <2>1. Len(p) <= cbuf_writelen(c)
        BY <1>4, <1>7
    <2>2. QED
        BY <1>0, <1>5, <1>7, <2>1, Put
<1>9. Store(c, s) = IF n = l THEN e ELSE cbuf_put(e, q)
    BY <1>0, <1>5 DEF Store
<1>10. CASE n = l
    BY <1>0, <1>8, <1>9, <1>10
<1>11. CASE n # l
    <2>1. Follows(q, (d + u) + n) /\ Len(q) = l - n
        <3>1. n \in 0..Len(s) /\ l \in n..Len(s)
            BY <1>1, <1>4, <1>6
        <3>2. QED
            BY <1>5, <1>6, <3>1, FollowsSub
    <2>2. (d + u) + n = d + e.used /\ u + n + (l - n) = u + l
        BY <1>1, <1>4, <1>8
    <2>3. e.readpos = r /\ e.writepos = Wrap(r + (u + n)) /\ u + n # N
        <3>1. e.readpos = r
            BY <1>0, <1>5 DEF cbuf_put
        <3>2. e.writepos = Wrap(r + (u + n))
            BY <1>8, <3>1, CbufFields
        <3>3. u + n # N
            BY <1>1, <1>4, <1>11
        <3>4. QED
            BY <3>1, <3>2, <3>3
    <2>4. r + (u + n) = N
        BY <1>1, <1>2, <1>4, <1>11
    <2>5. e.writepos = 0
        BY <1>0, <1>1, <2>3, <2>4, WrapValue
    <2>6. cbuf_writelen(e) = IF 0 < r THEN r ELSE N
        BY <1>0, <1>1, <1>8, <2>3, <2>5 DEF cbuf_writelen
    <2>7. Len(q) <= cbuf_writelen(e)
        BY <1>1, <1>4, <2>1, <2>4, <2>6
    <2>8. /\ cbuf_put(e, q) \in Cbuf /\ cbuf_put(e, q).used = e.used + Len(q)
          /\ Holds(cbuf_put(e, q), d)
        BY <1>8, <2>1, <2>2, <2>7, Put
    <2>9. QED
        BY <1>0, <1>8, <1>9, <1>11, <2>1, <2>2, <2>8
<1>12. QED
    BY <1>10, <1>11

-----------------------------------------------------------------------------
(* The inductive invariant *)

Packet == [stream : Streams \cup {None}, data : Seq(Nat)]

TypeInv ==
    /\ transwindow \in Nat /\ sent \in [Streams -> Nat] /\ sent_eof \in BOOLEAN
    /\ wire \in Seq(Packet) /\ adjusts \in Seq(Nat)
    /\ cbuf \in [Streams -> Cbuf] /\ fd \in [Streams -> {"open", "broken", "closed"}]
    /\ recvwindow \in Nat /\ recvdonelen \in Nat /\ recv_eof \in BOOLEAN
    /\ exit = None /\ delivered \in [Streams -> Seq(Nat)]

\* EOF is the last packet, and once it has arrived no other is on the way.
EofInv ==
    /\ \A i \in 1..Len(wire) :
         wire[i].stream = None => i = Len(wire) /\ sent_eof /\ ~recv_eof
    /\ recv_eof => sent_eof /\ wire = <<>>
    /\ fd["err"] # "closed"

\* Packet p takes the streams from the units counted by f to those by g.
Carries(p, f, g) ==
    \/ p.stream = None /\ g = f
    \/ /\ p.stream \in Streams /\ Follows(p.data, f[p.stream])
       /\ g = [f EXCEPT ![p.stream] = @ + Len(p.data)]

\* The packets of w lead up to the units counted by f: pos[i] counts those
\* sent before the packets w[i + 1], w[i + 2], ...
SentInv(pos, w, f) ==
    /\ pos \in [0..Len(w) -> [Streams -> Nat]] /\ pos[Len(w)] = f
    /\ \A i \in 1..Len(w) : Carries(w[i], pos[i - 1], pos[i])
    /\ \A i \in 0..Len(w) : \A s \in Streams : pos[i][s] <= f[s]

\* adj[i] sums the window adjustments sent before q[i + 1], q[i + 2], ...
AdjustInv(adj, q) ==
    /\ adj \in [0..Len(q) -> Nat]
    /\ \A i \in 1..Len(q) : adj[i] = adj[i - 1] + q[i]
    /\ \A i \in 0..Len(q) : adj[i] <= adj[Len(q)]

\* Windows: p counts the units that have arrived; a is the sum of adjustments
\* that the sender knows of, z of those that the receiver has sent.
WindowInv(p, a, z) ==
    /\ transwindow + sent["out"] + sent["err"] = RecvWindow + a
    /\ z + recvdonelen = Len(delivered["out"]) + Len(delivered["err"])
    /\ recvwindow + p["out"] + p["err"] >= RecvWindow + z
    /\ recvwindow + recvdonelen + cbuf["out"].used + cbuf["err"].used <= RecvWindow

\* What has arrived is written, or held in the buffer in its order.
HeldInv(p) ==
    \A s \in Streams :
        /\ Follows(delivered[s], 0)
        /\ fd[s] = "open" => /\ p[s] = Len(delivered[s]) + cbuf[s].used
                             /\ Holds(cbuf[s], Len(delivered[s]))

Accounted(pos, adj) ==
    /\ SentInv(pos, wire, sent) /\ AdjustInv(adj, adjusts)
    /\ WindowInv(pos[0], adj[0], adj[Len(adjusts)]) /\ HeldInv(pos[0])

FlowInv == TypeInv /\ EofInv /\ \E pos, adj : Accounted(pos, adj)

-----------------------------------------------------------------------------
(* Packets and adjustments on the way *)

\* A packet is sent.
LEMMA PacketSent ==
    ASSUME NEW w \in Seq(Packet), NEW f \in [Streams -> Nat], NEW pos, SentInv(pos, w, f),
           NEW p \in Packet, NEW g \in [Streams -> Nat], Carries(p, f, g),
           \A s \in Streams : f[s] <= g[s]
    PROVE  \E q : SentInv(q, Append(w, p), g) /\ q[0] = pos[0]
<1>0. PICK n : n = Len(w)
    OBVIOUS
<1>1. n \in Nat
    BY <1>0
<1>2. PICK v : v = Append(w, p)
    OBVIOUS
<1>3. Len(v) = n + 1 /\ v[n + 1] = p /\ \A i \in 1..n : v[i] = w[i]
    BY <1>0, <1>2
<1>4. /\ pos \in [0..n -> [Streams -> Nat]] /\ pos[n] = f
      /\ \A i \in 1..n : Carries(w[i], pos[i - 1], pos[i])
      /\ \A i \in 0..n : \A s \in Streams : pos[i][s] <= f[s]
    BY <1>0 DEF SentInv
<1>5. PICK q : q = [i \in 0..(n + 1) |-> IF i <= n THEN pos[i] ELSE g]
    OBVIOUS
<1>6. /\ q \in [0..(n + 1) -> [Streams -> Nat]] /\ q[n + 1] = g
      /\ \A i \in 0..n : q[i] = pos[i]
    BY <1>1, <1>4, <1>5
<1>7. ASSUME NEW i \in 1..(n + 1) PROVE Carries(v[i], q[i - 1], q[i])
    <2>1. CASE i = n + 1
        <3>1. i - 1 = n /\ n \in 0..n
            BY <1>1, <2>1
        <3>2. q[i - 1] = f /\ q[i] = g /\ v[i] = p
            BY <1>3, <1>4, <1>6, <2>1, <3>1
        <3>3. QED
            BY <3>2
    <2>2. CASE i # n + 1
        <3>1. i \in 1..n /\ i \in 0..n /\ i - 1 \in 0..n
            BY <1>1, <2>2
        <3>2. v[i] = w[i] /\ q[i - 1] = pos[i - 1] /\ q[i] = pos[i]
            BY <1>3, <1>6, <3>1
        <3>3. QED
            BY <1>4, <3>1, <3>2
    <2>3. QED
        BY <2>1, <2>2
<1>8. ASSUME NEW i \in 0..(n + 1), NEW s \in Streams PROVE q[i][s] <= g[s]
    <2>1. CASE i = n + 1
        BY <1>6, <2>1
    <2>2. CASE i # n + 1
        <3>1. i \in 0..n
            BY <1>1, <2>2
        <3>2. q[i] = pos[i] /\ pos[i][s] <= f[s] /\ f[s] <= g[s] /\ pos[i] \in [Streams -> Nat]
            BY <1>4, <1>6, <3>1
        <3>3. pos[i][s] \in Nat /\ f[s] \in Nat /\ g[s] \in Nat
            BY <3>2
        <3>4. QED
            BY <3>2, <3>3
    <2>3. QED
        BY <2>1, <2>2
<1>9. 0 \in 0..n
    BY <1>1
<1>10. SentInv(q, v, g)
    BY <1>3, <1>6, <1>7, <1>8 DEF SentInv
<1>11. QED
    BY <1>2, <1>6, <1>9, <1>10

\* The first packet arrives.
LEMMA PacketArrives ==
    ASSUME NEW w \in Seq(Packet), NEW f \in [Streams -> Nat], NEW pos, SentInv(pos, w, f),
           w # <<>>
    PROVE  \E q : /\ SentInv(q, Tail(w), f) /\ Carries(w[1], pos[0], q[0])
                  /\ q[0] = pos[1] /\ pos[0] \in [Streams -> Nat] /\ pos[1] \in [Streams -> Nat]
                  /\ \A s \in Streams : pos[1][s] <= f[s]
<1>0. PICK n, v : n = Len(w) - 1 /\ v = Tail(w)
    OBVIOUS
<1>1. n \in Nat /\ Len(w) = n + 1 /\ Len(v) = n /\ \A i \in 1..n : v[i] = w[i + 1]
    BY <1>0
<1>2. /\ pos \in [0..(n + 1) -> [Streams -> Nat]] /\ pos[n + 1] = f
      /\ \A i \in 1..(n + 1) : Carries(w[i], pos[i - 1], pos[i])
      /\ \A i \in 0..(n + 1) : \A s \in Streams : pos[i][s] <= f[s]
    BY <1>1 DEF SentInv
<1>3. PICK q : q = [i \in 0..n |-> pos[i + 1]]
    OBVIOUS
<1>4. q \in [0..n -> [Streams -> Nat]] /\ \A i \in 0..n : q[i] = pos[i + 1]
    BY <1>1, <1>2, <1>3
<1>5. n \in 0..n /\ 0 \in 0..n /\ 0 + 1 = 1 /\ 1 - 1 = 0 /\ 1 \in 1..(n + 1) /\ 1 \in 0..(n + 1)
      /\ 0 \in 0..(n + 1)
    BY <1>1
<1>6. q[n] = f /\ q[0] = pos[1]
    BY <1>2, <1>4, <1>5
<1>7. ASSUME NEW i \in 1..n PROVE Carries(v[i], q[i - 1], q[i])
    <2>1. i + 1 \in 1..(n + 1) /\ i \in 0..n /\ i - 1 \in 0..n /\ (i - 1) + 1 = (i + 1) - 1
        BY <1>1
    <2>2. v[i] = w[i + 1] /\ q[i - 1] = pos[(i + 1) - 1] /\ q[i] = pos[i + 1]
        BY <1>1, <1>4, <2>1
    <2>3. QED
        BY <1>2, <2>1, <2>2
<1>8. ASSUME NEW i \in 0..n, NEW s \in Streams PROVE q[i][s] <= f[s]
    <2>1. i + 1 \in 0..(n + 1)
        BY <1>1
    <2>2. QED
        BY <1>2, <1>4, <2>1
<1>9. SentInv(q, v, f)
    BY <1>1, <1>4, <1>6, <1>7, <1>8 DEF SentInv
<1>10. Carries(w[1], pos[1 - 1], pos[1])
    BY <1>2, <1>5
<1>11. Carries(w[1], pos[0], q[0])
    BY <1>5, <1>6, <1>10
<1>12. QED
    BY <1>0, <1>2, <1>5, <1>6, <1>9, <1>11

\* A window adjustment of x is sent.
LEMMA AdjustSent ==
    ASSUME NEW w \in Seq(Nat), NEW adj, AdjustInv(adj, w), NEW x \in Nat
    PROVE  \E q : /\ AdjustInv(q, w \o <<x>>) /\ q[0] = adj[0]
                  /\ q[Len(w \o <<x>>)] = adj[Len(w)] + x
<1>0. PICK n, v : n = Len(w) /\ v = w \o <<x>>
    OBVIOUS
<1>1. n \in Nat /\ Len(v) = n + 1 /\ v[n + 1] = x /\ \A i \in 1..n : v[i] = w[i]
    BY <1>0
<1>2. /\ adj \in [0..n -> Nat]
      /\ \A i \in 1..n : adj[i] = adj[i - 1] + w[i]
      /\ \A i \in 0..n : adj[i] <= adj[n]
    BY <1>0 DEF AdjustInv
<1>3. PICK q : q = [i \in 0..(n + 1) |-> IF i <= n THEN adj[i] ELSE adj[n] + x]
    OBVIOUS
<1>4. n \in 0..n /\ adj[n] \in Nat /\ 0 \in 0..n
    BY <1>1, <1>2
<1>5. /\ q \in [0..(n + 1) -> Nat] /\ q[n + 1] = adj[n] + x
      /\ \A i \in 0..n : q[i] = adj[i]
    BY <1>1, <1>2, <1>3, <1>4
<1>6. ASSUME NEW i \in 1..(n + 1) PROVE q[i] = q[i - 1] + v[i]
    <2>1. CASE i = n + 1
        <3>1. i - 1 = n
            BY <1>1, <2>1
        <3>2. QED
            BY <1>1, <1>4, <1>5, <2>1, <3>1
    <2>2. CASE i # n + 1
        <3>1. i \in 1..n /\ i \in 0..n /\ i - 1 \in 0..n
            BY <1>1, <2>2
        <3>2. QED
            BY <1>1, <1>2, <1>5, <3>1
    <2>3. QED
        BY <2>1, <2>2
<1>7. ASSUME NEW i \in 0..(n + 1) PROVE q[i] <= q[n + 1]
    <2>1. CASE i = n + 1
        BY <1>4, <1>5, <2>1
    <2>2. CASE i # n + 1
        <3>1. i \in 0..n
            BY <1>1, <2>2
        <3>2. q[i] = adj[i] /\ adj[i] \in Nat /\ adj[i] <= adj[n]
            BY <1>2, <1>5, <3>1
        <3>3. QED
            BY <1>4, <1>5, <3>2
    <2>3. QED
        BY <2>1, <2>2
<1>8. AdjustInv(q, v)
    BY <1>1, <1>5, <1>6, <1>7 DEF AdjustInv
<1>9. QED
    BY <1>0, <1>1, <1>4, <1>5, <1>8

\* The first window adjustment arrives.
LEMMA AdjustArrives ==
    ASSUME NEW w \in Seq(Nat), NEW adj, AdjustInv(adj, w), w # <<>>
    PROVE  \E q : /\ AdjustInv(q, Tail(w)) /\ q[0] = adj[0] + w[1]
                  /\ q[Len(Tail(w))] = adj[Len(w)]
<1>0. PICK n, v : n = Len(w) - 1 /\ v = Tail(w)
    OBVIOUS
<1>1. n \in Nat /\ Len(w) = n + 1 /\ Len(v) = n /\ \A i \in 1..n : v[i] = w[i + 1]
    BY <1>0
<1>2. /\ adj \in [0..(n + 1) -> Nat]
      /\ \A i \in 1..(n + 1) : adj[i] = adj[i - 1] + w[i]
      /\ \A i \in 0..(n + 1) : adj[i] <= adj[n + 1]
    BY <1>1 DEF AdjustInv
<1>3. PICK q : q = [i \in 0..n |-> adj[i + 1]]
    OBVIOUS
<1>4. q \in [0..n -> Nat] /\ \A i \in 0..n : q[i] = adj[i + 1]
    BY SMTT(60), <1>1, <1>2, <1>3
<1>5. n \in 0..n /\ 0 \in 0..n /\ 0 + 1 = 1 /\ 1 - 1 = 0 /\ 1 \in 1..(n + 1)
    BY <1>1
<1>6. q[n] = adj[n + 1] /\ q[0] = adj[0] + w[1]
    BY <1>2, <1>4, <1>5
<1>7. ASSUME NEW i \in 1..n PROVE q[i] = q[i - 1] + v[i]
    <2>1. i + 1 \in 1..(n + 1) /\ i \in 0..n /\ i - 1 \in 0..n /\ (i - 1) + 1 = (i + 1) - 1
        BY <1>1
    <2>2. v[i] = w[i + 1] /\ q[i - 1] = adj[(i + 1) - 1] /\ q[i] = adj[i + 1]
        BY <1>1, <1>4, <2>1
    <2>3. QED
        BY <1>2, <2>1, <2>2
<1>8. ASSUME NEW i \in 0..n PROVE q[i] <= q[n]
    <2>1. i + 1 \in 0..(n + 1)
        BY <1>1
    <2>2. QED
        BY <1>2, <1>4, <1>6, <2>1
<1>9. AdjustInv(q, v)
    BY <1>1, <1>4, <1>7, <1>8 DEF AdjustInv
<1>10. QED
    BY <1>0, <1>1, <1>6, <1>9

-----------------------------------------------------------------------------
(* writechannel *)

LEMMA FollowsIs ==
    ASSUME NEW t, NEW d \in Nat, Follows(t, d)
    PROVE  t = [i \in 1..Len(t) |-> d + i]
BY DEF Follows

LEMMA OtherStream ==
    ASSUME NEW s \in Streams
    PROVE  /\ (CHOOSE t \in Streams : t # s) = IF s = "out" THEN "err" ELSE "out"
           /\ s = "out" \/ s = "err"
<1>1. s = "out" \/ s = "err"
    BY DEF Streams
<1>2. CASE s = "out"
    <2>1. \A t \in Streams : t # s <=> t = "err"
        BY <1>2 DEF Streams
    <2>2. "err" \in Streams
        BY DEF Streams
    <2>3. QED
        BY <1>2, <2>1, <2>2
<1>3. CASE s = "err"
    <2>1. \A t \in Streams : t # s <=> t = "out"
        BY <1>3 DEF Streams
    <2>2. "out" \in Streams
        BY DEF Streams
    <2>3. QED
        BY <1>3, <2>1, <2>2
<1>4. QED
    BY <1>1, <1>2, <1>3

\* The window that Extend leaves, and what it announces.
Extended(done, window, e) ==
    \/ e.window = window /\ e.done = done /\ e.adjust = <<>>
    \/ e.window = window + done /\ e.done = 0 /\ e.adjust = <<done>>

LEMMA ExtendCases == ASSUME NEW done, NEW window
                     PROVE  Extended(done, window, Extend(done, window))
BY DEF Extend, Extended

\* What a write of w units does, of the buffered ones and of those in hand:
\* they come out in order, the rest is buffered and no assertion fails.
Wrote(s, m, window, w, b) ==
    /\ exit' = exit /\ cbuf' = [cbuf EXCEPT ![s] = b]
    /\ b \in Cbuf /\ b.used = cbuf[s].used + Len(m) - w
    /\ Holds(b, Len(delivered[s]) + w)
    /\ delivered' = [delivered EXCEPT ![s] = @ \o [i \in 1..w |-> Len(delivered[s]) + i]]
    /\ Follows(delivered'[s], 0) /\ Len(delivered'[s]) = Len(delivered[s]) + w
    /\ \/ adjusts' = adjusts /\ recvwindow' = window /\ recvdonelen' = recvdonelen + w
       \/ /\ adjusts' = adjusts \o <<recvdonelen + w>>
          /\ recvwindow' = window + (recvdonelen + w) /\ recvdonelen' = 0

\* The arithmetic of one write: u units buffered, l in hand, w written.
LEMMA WindowCounts ==
    ASSUME NEW N \in Nat, NEW u \in Nat, NEW v \in Nat, NEW l \in Nat, NEW w \in Nat,
           NEW R \in Nat, NEW D \in Nat, NEW cw \in Nat, w <= u + l, l <= R, w - cw <= l,
           R + D + u + v <= N
    PROVE  /\ (R - l) + (D + w) <= N - (u - cw) /\ (R - l) + (D + w) <= N - v
           /\ R - l \in Nat /\ l - (w - cw) <= N - (u - cw)
OBVIOUS

LEMMA WriteWorks ==
    ASSUME TypeInv, NEW s \in Streams, NEW m, NEW w \in 0..(cbuf[s].used + Len(m)),
           Follows(delivered[s], 0), Holds(cbuf[s], Len(delivered[s])),
           Follows(m, Len(delivered[s]) + cbuf[s].used), Len(m) <= recvwindow,
           recvwindow + recvdonelen + cbuf["out"].used + cbuf["err"].used <= RecvWindow,
           NEW window, window = recvwindow - Len(m),
           WriteChannel(s, m, window, w)
    PROVE  \E b : Wrote(s, m, window, w, b)
<1>0. PICK c, o, u, v, d, l, W, R, D, N : c = cbuf[s] /\ o = (CHOOSE t \in Streams : t # s)
          /\ u = c.used /\ v = cbuf[o].used /\ d = Len(delivered[s]) /\ l = Len(m)
          /\ W = window /\ R = recvwindow /\ D = recvdonelen /\ N = RecvWindow
    OBVIOUS
<1>1. c \in Cbuf /\ o \in Streams /\ cbuf[o] \in Cbuf
    BY <1>0, OtherStream DEF TypeInv, Streams
<1>2. N \in Nat \ {0} /\ u \in 0..N /\ v \in 0..N /\ d \in Nat /\ l \in Nat /\ R \in Nat
      /\ D \in Nat /\ w \in 0..(u + l) /\ l <= R /\ W = R - l
    BY <1>0, <1>1, CbufFields DEF TypeInv, Follows
<1>3. R + D + u + v <= N
    <2>1. \/ u = cbuf["out"].used /\ v = cbuf["err"].used
          \/ v = cbuf["out"].used /\ u = cbuf["err"].used
        BY <1>0, OtherStream
    <2>2. R + D + u + v <= N \/ R + D + v + u <= N
        BY <1>0, <2>1
    <2>3. R + D + v + u = R + D + u + v
        BY <1>2
    <2>4. QED
        BY <2>2, <2>3
<1>4. PICK all, cw, e, k, r : all = cbuf_readptrs(c) \o m /\ cw = MinOf(u, w)
          /\ e = Extend(D + w, W) /\ k = cbuf_incrread(c, cw)
          /\ r = SubSeq(m, w - cw + 1, l)
    OBVIOUS
<1>5. /\ delivered' = [delivered EXCEPT ![s] = @ \o SubSeq(all, 1, w)]
      /\ recvwindow' = e.window /\ recvdonelen' = e.done
      /\ adjusts' = adjusts \o e.adjust
      /\ IF e.window <= N /\ e.window <= cbuf_getavail(k) /\ e.window <= cbuf_getavail(cbuf[o])
           THEN cbuf' = [cbuf EXCEPT ![s] = Store(k, r)] /\ exit' = exit
           ELSE exit' = "assertion" /\ cbuf' = cbuf
    BY <1>0, <1>4 DEF WriteChannel
<1>a. /\ N \in Nat /\ u \in Nat /\ v \in Nat /\ l \in Nat /\ w \in Nat /\ R \in Nat /\ D \in Nat
      /\ u <= N /\ v <= N /\ w <= u + l /\ l <= R /\ W = R - l /\ d \in Nat
    BY <1>2
<1>6. cw \in Nat /\ cw \in 0..u /\ w - cw \in 0..l /\ (cw = w \/ (cw = u /\ w > u))
    <2>1. cw = IF u < w THEN u ELSE w
        BY <1>4 DEF MinOf
    <2>2. QED
        BY <1>a, <2>1
<1>7. Follows(cbuf_readptrs(c), d) /\ Len(cbuf_readptrs(c)) = u
    BY <1>0, <1>1, <1>2, ReadPtrs
<1>8. Follows(all, d) /\ Len(all) = u + l
    BY <1>0, <1>2, <1>4, <1>7, FollowsConcat
<1>9. PICK t : t = SubSeq(all, 1, w)
    OBVIOUS
<1>10. Follows(t, d) /\ Len(t) = w
    <2>1. 0 \in 0..Len(all) /\ w \in 0..Len(all) /\ 0 + 1 = 1 /\ d + 0 = d /\ w - 0 = w
        BY <1>2, <1>8
    <2>2. Follows(SubSeq(all, 0 + 1, w), d + 0) /\ Len(SubSeq(all, 0 + 1, w)) = w - 0
        BY <1>2, <1>8, <2>1, FollowsSub
    <2>3. QED
        BY <1>9, <2>1, <2>2
<1>11. t = [i \in 1..w |-> d + i]
    BY <1>2, <1>10, FollowsIs
<1>12. /\ Follows(delivered[s] \o t, 0) /\ Len(delivered[s] \o t) = d + w
    <2>1. 0 \in Nat /\ 0 + Len(delivered[s]) = d
        BY <1>0, <1>2
    <2>2. QED
        BY <1>0, <1>10, <2>1, FollowsConcat
<1>13. k \in Cbuf /\ k.used = u - cw /\ Holds(k, d + cw)
    <2>1. c \in Cbuf /\ d \in Nat /\ Holds(c, d) /\ cw \in 0..c.used
        BY <1>0, <1>1, <1>2, <1>6
    <2>2. /\ cbuf_incrread(c, cw) \in Cbuf /\ cbuf_incrread(c, cw).used = c.used - cw
          /\ Holds(cbuf_incrread(c, cw), d + cw)
        BY <2>1, IncrRead, Zenon
    <2>3. k = cbuf_incrread(c, cw) /\ u = c.used
        BY <1>0, <1>4
    <2>4. QED
        BY <2>2, <2>3, Zenon
<1>14. Holds(k, d + w)
    <2>1. CASE cw = w
        BY <1>13, <2>1
    <2>2. CASE cw = u
        <3>1. k.used = 0
            BY <1>2, <1>13, <2>2
        <3>2. QED
            BY <3>1 DEF Holds
    <2>3. QED
        BY <1>6, <2>1, <2>2
<1>15. Follows(r, (d + w) + k.used) /\ Len(r) = l - (w - cw)
    <2>1. w - cw \in 0..Len(m) /\ l \in (w - cw)..Len(m) /\ d + u \in Nat
        <3>1. l \in (w - cw)..l /\ d + u \in Nat
            BY <1>a, <1>6
        <3>2. QED
            BY <1>0, <1>6, <3>1
    <2>2. (d + u) + (w - cw) = (d + w) + k.used
        BY <1>2, <1>6, <1>13
    <2>3. Follows(SubSeq(m, (w - cw) + 1, l), (d + u) + (w - cw))
          /\ Len(SubSeq(m, (w - cw) + 1, l)) = l - (w - cw)
        BY <1>0, <2>1, FollowsSub
    <2>4. QED
        BY <1>4, <2>2, <2>3
<1>16. Extended(D + w, W, e)
    BY <1>4, ExtendCases
<1>17. e.window \in Nat /\ e.window <= N /\ e.window <= N - (u - cw) /\ e.window <= N - v
    <2>1. e.window = W \/ e.window = W + (D + w)
        BY <1>16 DEF Extended
    <2>2. W + (D + w) <= N - (u - cw) /\ W + (D + w) <= N - v /\ W \in Nat
        <3>1. cw \in Nat /\ w - cw <= l
            BY <1>a, <1>6
        <3>2. QED
            BY <1>a, <1>3, <3>1, WindowCounts
    <2>3. W <= W + (D + w) /\ N - v <= N /\ W + (D + w) \in Nat
        BY <1>a, <2>2
    <2>4. N - (u - cw) \in Int /\ N - v \in Int /\ N \in Int
        BY <1>a, <1>6
    <2>5. CASE e.window = W
        BY <2>2, <2>3, <2>4, <2>5
    <2>6. CASE e.window = W + (D + w)
        BY <2>2, <2>3, <2>4, <2>6
    <2>7. QED
        BY <2>1, <2>5, <2>6
<1>18. cbuf' = [cbuf EXCEPT ![s] = Store(k, r)] /\ exit' = exit
    BY <1>0, <1>5, <1>13, <1>17 DEF cbuf_getavail
<1>19. PICK b : b = Store(k, r)
    OBVIOUS
<1>20. b \in Cbuf /\ b.used = k.used + Len(r) /\ Holds(b, d + w)
    <2>1. d + w \in Nat /\ Len(r) <= RecvWindow - k.used
        <3>1. d + w \in Nat /\ l - (w - cw) <= N - (u - cw)
            <4>1. w - cw <= l
                BY <1>a, <1>6
            <4>2. QED
                BY <1>a, <1>3, <1>6, <4>1, WindowCounts
        <3>2. QED
            BY <1>0, <1>13, <1>15, <3>1
    <2>2. QED
        BY <1>13, <1>14, <1>15, <1>19, <2>1, StoreAll
<1>21. k.used + Len(r) = u + l - w
    <2>1. u - cw + (l - (w - cw)) = u + l - w
        BY <1>a, <1>6
    <2>2. QED
        BY <1>13, <1>15, <2>1
<1>22. delivered' = [delivered EXCEPT ![s] = @ \o t] /\ delivered'[s] = delivered[s] \o t
    BY <1>5, <1>9 DEF TypeInv
<1>23. \/ adjusts' = adjusts /\ recvwindow' = W /\ recvdonelen' = D + w
       \/ adjusts' = adjusts \o <<D + w>> /\ recvwindow' = W + (D + w) /\ recvdonelen' = 0
    <2>1. adjusts \o <<>> = adjusts
        BY DEF TypeInv
    <2>2. QED
        BY <1>5, <1>16, <2>1 DEF Extended
<1>24. exit' = exit /\ cbuf' = [cbuf EXCEPT ![s] = b] /\ b.used = cbuf[s].used + Len(m) - w
    BY <1>0, <1>18, <1>19, <1>20, <1>21
<1>25. delivered' = [delivered EXCEPT ![s] = @ \o [i \in 1..w |-> Len(delivered[s]) + i]]
    BY <1>0, <1>11, <1>22
<1>26. Follows(delivered'[s], 0) /\ Len(delivered'[s]) = Len(delivered[s]) + w
    BY <1>0, <1>12, <1>22
<1>27. Wrote(s, m, window, w, b)
    BY <1>0, <1>20, <1>23, <1>24, <1>25, <1>26 DEF Wrote
<1>28. QED
    BY <1>27

-----------------------------------------------------------------------------
(* The invariant holds *)

LEMMA InitInv == Init => FlowInv
<1> SUFFICES ASSUME Init PROVE FlowInv
    OBVIOUS
<1>1. TypeInv
    <2>1. cbuf \in [Streams -> Cbuf]
        BY CbufNew DEF Init
    <2>2. wire \in Seq(Packet) /\ adjusts \in Seq(Nat)
        BY DEF Init
    <2>3. delivered \in [Streams -> Seq(Nat)] /\ sent \in [Streams -> Nat]
          /\ fd \in [Streams -> {"open", "broken", "closed"}]
        BY DEF Init
    <2>4. QED
        BY <2>1, <2>2, <2>3, FlowAssumption DEF Init, TypeInv
<1>2. EofInv
    BY DEF Init, EofInv, Streams
<1>3. PICK pos, adj : pos = [i \in 0..0 |-> [s \in Streams |-> 0]] /\ adj = [i \in 0..0 |-> 0]
    OBVIOUS
<1>4. pos \in [0..0 -> [Streams -> Nat]] /\ \A i \in 0..0 : pos[i] = [s \in Streams |-> 0]
    BY <1>3
<1>5. adj \in [0..0 -> Nat] /\ \A i \in 0..0 : adj[i] = 0
    BY <1>3
<1>6. Len(wire) = 0 /\ Len(adjusts) = 0 /\ 0 \in 0..0 /\ \A i \in 1..0 : FALSE
    BY DEF Init
<1>7. SentInv(pos, wire, sent)
    BY <1>4, <1>6 DEF SentInv, Init
<1>8. AdjustInv(adj, adjusts)
    BY <1>5, <1>6 DEF AdjustInv
<1>9. pos[0] = [s \in Streams |-> 0] /\ adj[0] = 0
    BY <1>4, <1>5, <1>6
<1>10. /\ delivered["out"] = <<>> /\ delivered["err"] = <<>> /\ cbuf["out"].used = 0
       /\ cbuf["err"].used = 0 /\ sent["out"] = 0 /\ sent["err"] = 0
       /\ pos[0]["out"] = 0 /\ pos[0]["err"] = 0
    BY <1>9, CbufNew DEF Init, Streams
<1>11. WindowInv(pos[0], adj[0], adj[Len(adjusts)])
    <2>1. transwindow = RecvWindow /\ recvwindow = RecvWindow /\ recvdonelen = 0
          /\ Len(delivered["out"]) = 0 /\ Len(delivered["err"]) = 0
        BY <1>10 DEF Init
    <2>2. RecvWindow \in Nat /\ adj[Len(adjusts)] = 0
        BY <1>6, <1>9, FlowAssumption
    <2>3. QED
        BY <1>9, <1>10, <2>1, <2>2 DEF WindowInv
<1>12. HeldInv(pos[0])
    <2> SUFFICES ASSUME NEW s \in Streams
                 PROVE  /\ Follows(delivered[s], 0)
                        /\ fd[s] = "open" => /\ pos[0][s] = Len(delivered[s]) + cbuf[s].used
                                             /\ Holds(cbuf[s], Len(delivered[s]))
        BY DEF HeldInv
    <2>1. delivered[s] = <<>> /\ cbuf[s] = cbuf_new /\ pos[0][s] = 0
        BY <1>9 DEF Init
    <2>2. Follows(<<>>, 0)
        BY DEF Follows
    <2>3. Holds(cbuf_new, Len(<<>>))
        BY <1>6, CbufNew DEF Holds
    <2>4. QED
        BY <2>1, <2>2, <2>3, CbufNew
<1>13. QED
    BY <1>1, <1>2, <1>7, <1>8, <1>11, <1>12 DEF FlowInv, Accounted

\* Quantities of the invariant that the action proofs reason about.
LEMMA Counts ==
    ASSUME TypeInv, NEW pos, NEW adj, Accounted(pos, adj)
    PROVE  /\ transwindow \in Nat /\ recvwindow \in Nat /\ recvdonelen \in Nat
           /\ RecvWindow \in Nat \ {0}
           /\ pos[0] \in [Streams -> Nat] /\ pos[0]["out"] \in Nat /\ pos[0]["err"] \in Nat
           /\ sent["out"] \in Nat /\ sent["err"] \in Nat
           /\ pos[0]["out"] <= sent["out"] /\ pos[0]["err"] <= sent["err"]
           /\ cbuf["out"] \in Cbuf /\ cbuf["err"] \in Cbuf
           /\ cbuf["out"].used \in Nat /\ cbuf["err"].used \in Nat
           /\ Len(delivered["out"]) \in Nat /\ Len(delivered["err"]) \in Nat
           /\ adj[0] \in Nat /\ adj[Len(adjusts)] \in Nat /\ adj[0] <= adj[Len(adjusts)]
<1>1. "out" \in Streams /\ "err" \in Streams
    BY DEF Streams
<1>2. Len(wire) \in Nat /\ Len(adjusts) \in Nat
    BY DEF TypeInv
<1>3. 0 \in 0..Len(wire) /\ 0 \in 0..Len(adjusts) /\ Len(adjusts) \in 0..Len(adjusts)
    BY <1>2
<1>4. pos[0] \in [Streams -> Nat] /\ \A s \in Streams : pos[0][s] <= sent[s]
    BY <1>3 DEF Accounted, SentInv
<1>5. adj[0] \in Nat /\ adj[Len(adjusts)] \in Nat /\ adj[0] <= adj[Len(adjusts)]
    BY <1>3 DEF Accounted, AdjustInv
<1>6. cbuf["out"] \in Cbuf /\ cbuf["err"] \in Cbuf
    BY <1>1 DEF TypeInv
<1>7. cbuf["out"].used \in Nat /\ cbuf["err"].used \in Nat
    <2>1. cbuf["out"].used \in 0..RecvWindow /\ cbuf["err"].used \in 0..RecvWindow
        BY <1>6, CbufFields
    <2>2. QED
        BY <2>1, FlowAssumption
<1>8. Len(delivered["out"]) \in Nat /\ Len(delivered["err"]) \in Nat
      /\ sent["out"] \in Nat /\ sent["err"] \in Nat
    BY <1>1 DEF TypeInv
<1>9. QED
    BY <1>1, <1>4, <1>5, <1>6, <1>7, <1>8, FlowAssumption DEF TypeInv

\* The least of the three limits of a read.
LEMMA LeastOfThree ==
    ASSUME NEW x \in Int, NEW y \in Int, NEW z \in Int
    PROVE  Min({x, y, z}) \in Int /\ Min({x, y, z}) <= x
<1>1. \E k \in {x, y, z} : \A j \in {x, y, z} : k <= j
    <2>1. CASE x <= y /\ x <= z
        BY <2>1
    <2>2. CASE y <= x /\ y <= z
        BY <2>2
    <2>3. CASE z <= x /\ z <= y
        BY <2>3
    <2>4. QED
        BY <2>1, <2>2, <2>3
<1>2. Min({x, y, z}) \in {x, y, z} /\ \A j \in {x, y, z} : Min({x, y, z}) <= j
    BY <1>1 DEF Min
<1>3. QED
    BY <1>2

\* What the window lets out fits the pool: T is the window.
LEMMA PoolCounts ==
    ASSUME NEW T \in Nat, NEW a \in Nat, NEW b \in Nat, NEW x \in Nat, NEW y \in Nat,
           NEW A \in Nat, NEW z \in Nat, NEW D \in Nat, NEW N \in Nat, NEW n \in Nat,
           A <= z, T + a + b = N + A, z + D = x + y, 1 <= n, n <= T
    PROVE  n \in 1..(N - (a + b - x - y))
OBVIOUS

LEMMA SendDataInv == FlowInv /\ SendData => FlowInv' /\ \E s \in Streams : Stream!Accept(s)
<1> SUFFICES ASSUME FlowInv, SendData
             PROVE  FlowInv' /\ \E s \in Streams : Stream!Accept(s)
    OBVIOUS
<1>1. TypeInv /\ EofInv
    BY DEF FlowInv
<1>2. PICK pos, adj : Accounted(pos, adj)
    BY DEF FlowInv
<1>0. PICK s \in Streams : \E n \in SendSizes(s) :
         /\ wire' = Append(wire, [stream |-> s, data |-> [i \in 1..n |-> sent[s] + i]])
         /\ sent' = [sent EXCEPT ![s] = @ + n]
         /\ transwindow' = transwindow - n
    BY DEF SendData
<1>3. PICK n \in SendSizes(s) :
         /\ wire' = Append(wire, [stream |-> s, data |-> [i \in 1..n |-> sent[s] + i]])
         /\ sent' = [sent EXCEPT ![s] = @ + n]
         /\ transwindow' = transwindow - n
    BY <1>0
<1>4. /\ UNCHANGED <<sent_eof, adjusts, cbuf, fd, recvwindow, recvdonelen, recv_eof, exit, delivered>>
      /\ ~sent_eof
    BY DEF SendData, recvVars
<1>5. n \in Nat /\ n >= 1 /\ n <= transwindow /\ sent[s] \in Nat
    <2>1. transwindow \in Int /\ MaxPacket \in Int /\ MaxData[s] - sent[s] \in Int /\ sent[s] \in Nat
        BY <1>1, FlowAssumption DEF TypeInv
    <2>2. PICK k : k = Min({transwindow, MaxPacket, MaxData[s] - sent[s]})
        OBVIOUS
    <2>3. k \in Int /\ k <= transwindow
        BY <2>1, <2>2, LeastOfThree
    <2>4. n \in 1..k
        BY <2>2 DEF SendSizes
    <2>5. QED
        BY <2>1, <2>3, <2>4
<1>6. PICK p, g : p = [stream |-> s, data |-> [i \in 1..n |-> sent[s] + i]] /\ g = sent'
    OBVIOUS
<1>7. p \in Packet /\ p.stream = s /\ Follows(p.data, sent[s]) /\ Len(p.data) = n
    BY <1>5, <1>6 DEF Packet, Follows
<1>8. g \in [Streams -> Nat] /\ g[s] = sent[s] + n /\ \A t \in Streams : t # s => g[t] = sent[t]
    BY <1>1, <1>3, <1>5, <1>6 DEF TypeInv
<1>9. \A t \in Streams : sent[t] <= g[t]
    <2> SUFFICES ASSUME NEW t \in Streams PROVE sent[t] <= g[t]
        OBVIOUS
    <2>1. sent[t] \in Nat
        BY <1>1 DEF TypeInv
    <2>2. g[t] = sent[t] + n \/ g[t] = sent[t]
        BY <1>8
    <2>3. QED
        BY <1>5, <2>1, <2>2
<1>10. Carries(p, sent, g)
    BY <1>3, <1>6, <1>7 DEF Carries
<1>11. PICK q : SentInv(q, Append(wire, p), g) /\ q[0] = pos[0]
    <2>1. SentInv(pos, wire, sent) /\ wire \in Seq(Packet) /\ sent \in [Streams -> Nat]
        BY <1>1, <1>2 DEF TypeInv, Accounted
    <2>2. p \in Packet /\ g \in [Streams -> Nat]
        BY <1>7, <1>8
    <2>3. QED
        BY SMTT(60), <1>9, <1>10, <2>1, <2>2, PacketSent
<1>12. SentInv(q, wire', sent')
    BY <1>3, <1>6, <1>11
<1>13. TypeInv'
    <2>1. wire' \in Seq(Packet)
        BY <1>1, <1>3, <1>6, <1>7 DEF TypeInv
    <2>2. transwindow' \in Nat
        BY <1>1, <1>3, <1>5 DEF TypeInv
    <2>3. QED
        BY <1>1, <1>4, <1>6, <1>8, <2>1, <2>2 DEF TypeInv
<1>14. EofInv'
    <2>1. ~recv_eof /\ \A i \in 1..Len(wire) : wire[i].stream # None
        BY <1>1, <1>4 DEF EofInv
    <2>2. Len(wire') = Len(wire) + 1 /\ Len(wire) \in Nat
          /\ wire'[Len(wire) + 1] = p
          /\ \A i \in 1..Len(wire) : wire'[i] = wire[i]
        BY <1>1, <1>3, <1>6 DEF TypeInv
    <2>3. p.stream # None
        BY <1>7 DEF Streams, None
    <2>4. \A i \in 1..Len(wire') : wire'[i].stream # None
        <3> SUFFICES ASSUME NEW i \in 1..Len(wire') PROVE wire'[i].stream # None
            OBVIOUS
        <3>1. i \in 1..Len(wire) \/ i = Len(wire) + 1
            BY <2>2
        <3>2. CASE i \in 1..Len(wire)
            <4>1. wire'[i] = wire[i]
                BY <2>2, <3>2
            <4>2. QED
                BY <2>1, <3>2, <4>1
        <3>3. CASE i = Len(wire) + 1
            <4>1. wire'[i] = p
                BY <2>2, <3>3
            <4>2. QED
                BY <2>3, <4>1
        <3>4. QED
            BY <3>1, <3>2, <3>3
    <2>5. QED
        BY <1>1, <1>4, <2>1, <2>4 DEF EofInv
<1>15. sent'["out"] + sent'["err"] = sent["out"] + sent["err"] + n
    <2>1. sent["out"] \in Nat /\ sent["err"] \in Nat /\ "out" \in Streams /\ "err" \in Streams
        BY <1>1 DEF TypeInv, Streams
    <2>2. CASE s = "out"
        BY <1>5, <1>6, <1>8, <2>1, <2>2
    <2>3. CASE s = "err"
        BY <1>5, <1>6, <1>8, <2>1, <2>3
    <2>4. QED
        BY <2>2, <2>3, OtherStream
<1>16. (AdjustInv(adj, adjusts) /\ WindowInv(q[0], adj[0], adj[Len(adjusts)]) /\ HeldInv(q[0]))'
    <2>1. AdjustInv(adj, adjusts') /\ HeldInv(q[0])'
        BY <1>2, <1>4, <1>11 DEF Accounted, HeldInv
    <2>2. WindowInv(q[0], adj[0], adj[Len(adjusts)])'
        <3>1. transwindow + sent["out"] + sent["err"] = RecvWindow + adj[0]
            BY <1>2 DEF Accounted, WindowInv
        <3>2. transwindow' + sent'["out"] + sent'["err"] = RecvWindow + adj[0]
            <4>1. transwindow \in Nat /\ sent["out"] \in Nat /\ sent["err"] \in Nat
                  /\ sent'["out"] \in Nat /\ sent'["err"] \in Nat
                BY <1>1, <1>13 DEF TypeInv, Streams
            <4>2. QED
                BY SMTT(60), <1>3, <1>5, <1>15, <3>1, <4>1
        <3>3. QED
            BY <1>2, <1>4, <1>11, <3>2 DEF Accounted, WindowInv
    <2>3. QED
        BY <2>1, <2>2
<1>17. FlowInv'
    <2>1. Accounted(q, adj)'
        BY <1>12, <1>16 DEF Accounted
    <2>2. QED
        BY <1>13, <1>14, <2>1 DEF FlowInv
<1>18. Stream!Accept(s)
    <2>1. n \in 1..(RecvWindow - Stream!UnderWay)
        <3>1. PICK T, a, b, x, y, A, z, D, N : T = transwindow /\ a = sent["out"] /\ b = sent["err"]
                  /\ x = Len(delivered["out"]) /\ y = Len(delivered["err"]) /\ A = adj[0]
                  /\ z = adj[Len(adjusts)] /\ D = recvdonelen /\ N = RecvWindow
            OBVIOUS
        <3>2. T \in Nat /\ a \in Nat /\ b \in Nat /\ x \in Nat /\ y \in Nat /\ A \in Nat
              /\ z \in Nat /\ D \in Nat /\ N \in Nat /\ A <= z
            BY <1>1, <1>2, <3>1, Counts
        <3>3. T + a + b = N + A /\ z + D = x + y
            BY <1>2, <3>1 DEF Accounted, WindowInv
        <3>4. n \in 1..(N - (a + b - x - y))
            <4>1. n \in Nat /\ 1 <= n /\ n <= T
                BY <1>5, <3>1
            <4>2. QED
                BY <3>2, <3>3, <4>1, PoolCounts
        <3>5. QED
            BY <3>1, <3>4 DEF Stream!UnderWay
    <2>2. QED
        BY <1>3, <1>4, <2>1 DEF Stream!Accept
<1>19. QED
    BY <1>17, <1>18

LEMMA SendEofInv == FlowInv /\ SendEof => FlowInv' /\ Stream!End
<1> SUFFICES ASSUME FlowInv, SendEof PROVE FlowInv' /\ Stream!End
    OBVIOUS
<1>1. TypeInv /\ EofInv
    BY DEF FlowInv
<1>2. PICK pos, adj : Accounted(pos, adj)
    BY DEF FlowInv
<1>3. PICK p : p = [stream |-> None, data |-> <<>>]
    OBVIOUS
<1>4. /\ ~sent_eof /\ sent_eof' = TRUE /\ wire' = Append(wire, p)
      /\ UNCHANGED <<transwindow, sent, adjusts, cbuf, fd, recvwindow, recvdonelen, recv_eof,
                     exit, delivered>>
    BY <1>3 DEF SendEof, recvVars
<1>5. p \in Packet /\ p.stream = None /\ Carries(p, sent, sent)
    BY <1>3 DEF Packet, Carries
<1>6. PICK q : SentInv(q, Append(wire, p), sent) /\ q[0] = pos[0]
    <2>1. SentInv(pos, wire, sent) /\ wire \in Seq(Packet) /\ sent \in [Streams -> Nat]
        BY <1>1, <1>2 DEF TypeInv, Accounted
    <2>2. \A s \in Streams : sent[s] <= sent[s]
        BY <2>1
    <2>3. QED
        BY <1>5, <2>1, <2>2, PacketSent
<1>7. Accounted(q, adj)'
    <2>1. SentInv(q, wire', sent') /\ AdjustInv(adj, adjusts')
        BY <1>2, <1>4, <1>6 DEF Accounted
    <2>2. WindowInv(q[0], adj[0], adj[Len(adjusts)])'
        BY <1>2, <1>4, <1>6 DEF Accounted, WindowInv
    <2>3. HeldInv(q[0])'
        BY <1>2, <1>4, <1>6 DEF Accounted, HeldInv
    <2>4. QED
        BY <2>1, <2>2, <2>3 DEF Accounted
<1>8. TypeInv'
    <2>1. wire' \in Seq(Packet)
        BY <1>1, <1>4, <1>5 DEF TypeInv
    <2>2. QED
        BY <1>1, <1>4, <2>1 DEF TypeInv
<1>9. EofInv'
    <2>1. ~recv_eof /\ \A i \in 1..Len(wire) : wire[i].stream # None
        BY <1>1, <1>4 DEF EofInv
    <2>2. Len(wire') = Len(wire) + 1 /\ Len(wire) \in Nat
          /\ \A i \in 1..Len(wire) : wire'[i] = wire[i]
        BY <1>1, <1>4 DEF TypeInv
    <2>3. ASSUME NEW i \in 1..Len(wire'), wire'[i].stream = None PROVE i = Len(wire')
        <3>1. i \in 1..Len(wire) \/ i = Len(wire) + 1
            BY <2>2
        <3>2. CASE i \in 1..Len(wire)
            <4>1. wire'[i] = wire[i]
                BY <2>2, <3>2
            <4>2. QED
                BY <2>1, <2>3, <3>2, <4>1
        <3>3. QED
            BY <2>2, <3>1, <3>2
    <2>4. QED
        BY <1>1, <1>4, <2>1, <2>3 DEF EofInv
<1>10. Stream!End
    BY <1>4 DEF Stream!End
<1>11. QED
    BY <1>7, <1>8, <1>9, <1>10 DEF FlowInv

LEMMA RecvAdjustInv == FlowInv /\ RecvAdjust => FlowInv' /\ UNCHANGED Stream!vars
<1> SUFFICES ASSUME FlowInv, RecvAdjust PROVE FlowInv' /\ UNCHANGED Stream!vars
    OBVIOUS
<1>1. TypeInv /\ EofInv
    BY DEF FlowInv
<1>2. PICK pos, adj : Accounted(pos, adj)
    BY DEF FlowInv
<1>3. PICK x : x = adjusts[1]
    OBVIOUS
<1>4. /\ adjusts # <<>> /\ transwindow' = transwindow + x /\ adjusts' = Tail(adjusts)
      /\ UNCHANGED <<sent, sent_eof, wire, cbuf, fd, recvwindow, recvdonelen, recv_eof,
                     exit, delivered>>
    BY <1>1, <1>3 DEF RecvAdjust, recvVars, TypeInv
<1>5. adjusts \in Seq(Nat) /\ x \in Nat /\ adjusts' \in Seq(Nat)
    BY <1>1, <1>3, <1>4 DEF TypeInv
<1>6. PICK q : /\ AdjustInv(q, Tail(adjusts)) /\ q[0] = adj[0] + x
               /\ q[Len(Tail(adjusts))] = adj[Len(adjusts)]
    <2>1. AdjustInv(adj, adjusts)
        BY <1>2 DEF Accounted
    <2>2. QED
        BY <1>3, <1>4, <1>5, <2>1, AdjustArrives
<1>7. Accounted(pos, q)'
    <2>1. AdjustInv(q, adjusts') /\ SentInv(pos, wire', sent')
        BY <1>2, <1>4, <1>6 DEF Accounted
    <2>2. HeldInv(pos[0])'
        BY <1>2, <1>4 DEF Accounted, HeldInv
    <2>3. q[Len(adjusts')] = adj[Len(adjusts)]
        BY <1>4, <1>6
    <2>4. transwindow' + sent'["out"] + sent'["err"] = RecvWindow + q[0]
        <3>1. transwindow + sent["out"] + sent["err"] = RecvWindow + adj[0]
            BY <1>2 DEF Accounted, WindowInv
        <3>2. transwindow \in Nat /\ sent["out"] \in Nat /\ sent["err"] \in Nat /\ adj[0] \in Nat
              /\ RecvWindow \in Nat
            BY <1>1, <1>2, Counts
        <3>3. PICK T, a, b, A, N : T = transwindow /\ a = sent["out"] /\ b = sent["err"]
                  /\ A = adj[0] /\ N = RecvWindow
            OBVIOUS
        <3>4. (transwindow + x) + sent["out"] + sent["err"] = RecvWindow + (adj[0] + x)
            <4>1. T \in Nat /\ a \in Nat /\ b \in Nat /\ A \in Nat /\ N \in Nat
                  /\ T + a + b = N + A
                BY <3>1, <3>2, <3>3
            <4>2. (T + x) + a + b = N + (A + x)
                BY <1>5, <4>1
            <4>3. QED
                BY <3>3, <4>2
        <3>5. QED
            BY <1>4, <1>6, <3>4
    <2>5. WindowInv(pos[0], q[0], q[Len(adjusts)])'
        BY <1>2, <1>4, <2>3, <2>4 DEF Accounted, WindowInv
    <2>6. QED
        BY <2>1, <2>2, <2>5 DEF Accounted
<1>8. TypeInv'
    <2>1. transwindow' \in Nat
        BY <1>1, <1>4, <1>5 DEF TypeInv
    <2>2. QED
        BY <1>1, <1>4, <1>5, <2>1 DEF TypeInv
<1>9. EofInv'
    BY <1>1, <1>4 DEF EofInv
<1>10. UNCHANGED Stream!vars
    BY <1>4 DEF Stream!vars
<1>11. QED
    BY <1>7, <1>8, <1>9, <1>10 DEF FlowInv

LEMMA CheckCloseInv == FlowInv /\ CheckClose => FlowInv' /\ Stream!Finish
<1> SUFFICES ASSUME FlowInv, CheckClose PROVE FlowInv' /\ Stream!Finish
    OBVIOUS
<1>1. TypeInv /\ EofInv
    BY DEF FlowInv
<1>2. PICK pos, adj : Accounted(pos, adj)
    BY DEF FlowInv
<1>3. /\ recv_eof /\ fd["out"] = "open" /\ \A s \in Streams : fd[s] = "open" => ~(cbuf[s].used > 0)
      /\ fd' = [fd EXCEPT !["out"] = "closed"]
      /\ UNCHANGED <<transwindow, sent, sent_eof, wire, adjusts, cbuf, recvwindow, recvdonelen,
                     recv_eof, exit, delivered>>
    BY DEF CheckClose, write_pending, sendVars
<1>4. fd' \in [Streams -> {"open", "broken", "closed"}] /\ fd'["err"] # "closed"
      /\ \A s \in Streams : fd'[s] = "open" => fd[s] = "open"
    BY <1>1, <1>3 DEF TypeInv, EofInv, Streams
<1>5. TypeInv' /\ EofInv'
    BY <1>1, <1>3, <1>4 DEF TypeInv, EofInv
<1>6. Accounted(pos, adj)'
    <2>1. HeldInv(pos[0])'
        BY <1>2, <1>3, <1>4 DEF Accounted, HeldInv
    <2>2. WindowInv(pos[0], adj[0], adj[Len(adjusts)])'
        BY <1>2, <1>3 DEF Accounted, WindowInv
    <2>3. QED
        BY <1>2, <1>3, <2>1, <2>2 DEF Accounted
<1>7. ASSUME NEW s \in Streams PROVE fd[s] = "broken" \/ Len(delivered[s]) = sent[s]
    <2>1. fd[s] \in {"open", "broken"}
        BY <1>1, <1>3 DEF TypeInv, EofInv, Streams
    <2>2. CASE fd[s] = "open"
        <3>1. Len(wire) = 0 /\ pos[0] = sent
            BY <1>1, <1>2, <1>3 DEF EofInv, Accounted, SentInv
        <3>2. sent[s] = Len(delivered[s]) + cbuf[s].used
            BY <1>2, <2>2, <3>1 DEF Accounted, HeldInv
        <3>3. cbuf[s].used = 0
            <4>1. cbuf[s].used \in 0..RecvWindow
                BY <1>1, CbufFields DEF TypeInv
            <4>2. QED
                BY <1>3, <2>2, <4>1, FlowAssumption
        <3>4. Len(delivered[s]) \in Nat
            BY <1>1 DEF TypeInv
        <3>5. QED
            BY <3>2, <3>3, <3>4
    <2>3. QED
        BY <2>1, <2>2
<1>8. Stream!Finish
    BY <1>1, <1>3, <1>7 DEF EofInv, Stream!Finish, Stream!Streams, Streams
<1>9. QED
    BY <1>5, <1>6, <1>8 DEF FlowInv

LEMMA RecvEofInv == FlowInv /\ RecvEof => FlowInv' /\ UNCHANGED Stream!vars
<1> SUFFICES ASSUME FlowInv, RecvEof PROVE FlowInv' /\ UNCHANGED Stream!vars
    OBVIOUS
<1>1. TypeInv /\ EofInv
    BY DEF FlowInv
<1>2. PICK pos, adj : Accounted(pos, adj)
    BY DEF FlowInv
<1>3. wire \in Seq(Packet) /\ wire # <<>>
    BY <1>1 DEF RecvEof, TypeInv
<1>4. /\ wire[1].stream = None /\ wire' = Tail(wire) /\ recv_eof' = TRUE
      /\ UNCHANGED <<transwindow, sent, sent_eof, adjusts, cbuf, fd, recvwindow, recvdonelen,
                     exit, delivered>>
    BY <1>3 DEF RecvEof, sendVars
<1>5. sent_eof /\ Tail(wire) = <<>>
    <2>1. 1 \in 1..Len(wire)
        BY <1>3
    <2>2. Len(wire) = 1 /\ sent_eof
        BY <1>1, <1>4, <2>1 DEF EofInv
    <2>3. Tail(wire) \in Seq(Packet) /\ Len(Tail(wire)) = 0
        BY <1>3, <2>2
    <2>4. \A w \in Seq(Packet) : Len(w) = 0 => w = <<>>
        OBVIOUS
    <2>5. QED
        BY <2>2, <2>3, <2>4
<1>6. PICK q : SentInv(q, Tail(wire), sent) /\ Carries(wire[1], pos[0], q[0])
    <2>1. SentInv(pos, wire, sent) /\ sent \in [Streams -> Nat]
        BY <1>1, <1>2 DEF TypeInv, Accounted
    <2>2. QED
        BY <1>3, <2>1, PacketArrives
<1>7. q[0] = pos[0]
    <2>1. wire[1].stream \notin Streams
        BY <1>4 DEF None, Streams
    <2>2. QED
        BY <1>6, <2>1 DEF Carries
<1>8. Accounted(q, adj)'
    <2>1. SentInv(q, wire', sent') /\ AdjustInv(adj, adjusts')
        BY <1>2, <1>4, <1>6 DEF Accounted
    <2>2. WindowInv(q[0], adj[0], adj[Len(adjusts)])'
        BY <1>2, <1>4, <1>7 DEF Accounted, WindowInv
    <2>3. HeldInv(q[0])'
        BY <1>2, <1>4, <1>7 DEF Accounted, HeldInv
    <2>4. QED
        BY <2>1, <2>2, <2>3 DEF Accounted
<1>9. TypeInv'
    <2>1. wire' \in Seq(Packet)
        BY <1>3, <1>4
    <2>2. QED
        BY <1>1, <1>4, <2>1 DEF TypeInv
<1>10. EofInv'
    <2>1. Len(wire') = 0
        BY <1>4, <1>5
    <2>2. QED
        BY <1>1, <1>4, <1>5, <2>1 DEF EofInv
<1>11. UNCHANGED Stream!vars
    BY <1>4 DEF Stream!vars
<1>12. QED
    BY <1>8, <1>9, <1>10, <1>11 DEF FlowInv

\* The windows after a write of w units, l of them just arrived: po and pe
\* count the units that have arrived, x and y those written on each stream.
LEMMA CountsKept ==
    ASSUME NEW N \in Nat, NEW R \in Nat, NEW D \in Nat, NEW z \in Nat, NEW po \in Nat,
           NEW pe \in Nat, NEW x \in Nat, NEW y \in Nat, NEW u \in Nat, NEW v \in Nat,
           NEW l \in Nat, NEW w \in Nat, l <= R, w <= u + l,
           z + D = x + y, R + po + pe >= N + z, R + D + u + v <= N
    PROVE  /\ z + (D + w) = (x + w) + y /\ (z + (D + w)) + 0 = (x + w) + y
           /\ (R - l) + (po + l) + pe >= N + z
           /\ ((R - l) + (D + w)) + (po + l) + pe >= N + (z + (D + w))
           /\ (R - l) + (D + w) + (u + l - w) + v <= N
           /\ ((R - l) + (D + w)) + 0 + (u + l - w) + v <= N
OBVIOUS

\* A write keeps the accounts, whether or not it announces its window.
LEMMA WroteKeeps ==
    ASSUME TypeInv, NEW pos, NEW adj, Accounted(pos, adj), NEW s \in Streams, NEW m \in Seq(Nat),
           NEW w \in Nat, w <= cbuf[s].used + Len(m), Len(m) <= recvwindow,
           NEW window, window = recvwindow - Len(m), NEW b, Wrote(s, m, window, w, b),
           NEW q, SentInv(q, wire', sent'), wire' \in Seq(Packet), recv_eof' = recv_eof,
           q[0] = [pos[0] EXCEPT ![s] = @ + Len(m)], fd[s] = "open", fd' = fd,
           UNCHANGED <<transwindow, sent, sent_eof>>
    PROVE  TypeInv' /\ \E a : Accounted(q, a)'
<1>0. PICK o, c, N, R, D, z, x, y, u, v, l, po, pe : o = (CHOOSE t \in Streams : t # s)
          /\ c = cbuf[s] /\ N = RecvWindow /\ R = recvwindow /\ D = recvdonelen
          /\ z = adj[Len(adjusts)]
          /\ x = Len(delivered[s]) /\ y = Len(delivered[o]) /\ u = c.used /\ v = cbuf[o].used
          /\ l = Len(m) /\ po = pos[0][s] /\ pe = pos[0][o]
    OBVIOUS
<1>1. o \in Streams /\ o # s /\ \A t \in Streams : t = s \/ t = o
    BY <1>0, OtherStream DEF Streams
<1>2. (s = "out" /\ o = "err") \/ (s = "err" /\ o = "out")
    BY <1>0, OtherStream
<1>3. N \in Nat /\ R \in Nat /\ D \in Nat /\ z \in Nat /\ x \in Nat /\ y \in Nat /\ u \in Nat
      /\ v \in Nat /\ po \in Nat /\ pe \in Nat /\ l \in Nat /\ l <= R /\ w <= u + l
    <2>1. N \in Nat /\ R \in Nat /\ D \in Nat /\ z \in Nat
        BY <1>0, Counts
    <2>2. x \in Nat /\ y \in Nat /\ u \in Nat /\ v \in Nat /\ po \in Nat /\ pe \in Nat
        <3>1. \A t \in Streams : /\ Len(delivered[t]) \in Nat /\ cbuf[t].used \in Nat
                                 /\ pos[0][t] \in Nat
            BY Counts DEF Streams
        <3>2. QED
            BY <1>0, <1>1, <3>1
    <2>3. l \in Nat /\ l <= R /\ w <= u + l
        BY <1>0
    <2>4. QED
        BY <2>1, <2>2, <2>3
<1>4. z + D = x + y /\ R + po + pe >= N + z /\ R + D + u + v <= N
    <2>1. /\ adj[Len(adjusts)] + recvdonelen = Len(delivered["out"]) + Len(delivered["err"])
          /\ recvwindow + pos[0]["out"] + pos[0]["err"] >= RecvWindow + adj[Len(adjusts)]
          /\ recvwindow + recvdonelen + cbuf["out"].used + cbuf["err"].used <= RecvWindow
        BY DEF Accounted, WindowInv
    <2>2. CASE s = "out" /\ o = "err"
        BY <1>0, <2>1, <2>2
    <2>3. CASE s = "err" /\ o = "out"
        <3>1. z + D = y + x /\ R + pe + po >= N + z /\ R + D + v + u <= N
            BY <1>0, <2>1, <2>3
        <3>2. QED
            <4>1. y + x = x + y /\ R + pe + po = R + po + pe /\ R + D + v + u = R + D + u + v
                BY <1>3
            <4>2. QED
                BY <3>1, <4>1
    <2>4. QED
        BY <1>2, <2>2, <2>3
<1>5. /\ z + (D + w) = (x + w) + y /\ (z + (D + w)) + 0 = (x + w) + y
      /\ (R - l) + (po + l) + pe >= N + z
      /\ ((R - l) + (D + w)) + (po + l) + pe >= N + (z + (D + w))
      /\ (R - l) + (D + w) + (u + l - w) + v <= N
      /\ ((R - l) + (D + w)) + 0 + (u + l - w) + v <= N
    BY <1>3, <1>4, CountsKept
<1>6. /\ exit' = exit /\ cbuf' = [cbuf EXCEPT ![s] = b] /\ b \in Cbuf
      /\ b.used = u + l - w /\ Holds(b, x + w)
      /\ Follows(delivered'[s], 0) /\ Len(delivered'[s]) = x + w
      /\ \/ adjusts' = adjusts /\ recvwindow' = R - l /\ recvdonelen' = D + w
         \/ /\ adjusts' = adjusts \o <<D + w>>
            /\ recvwindow' = (R - l) + (D + w) /\ recvdonelen' = 0
    BY <1>0 DEF Wrote
<1>7. delivered' = [delivered EXCEPT ![s] = delivered'[s]]
    BY DEF Wrote, TypeInv
<1>8. /\ cbuf'[s] = b /\ cbuf'[o] = cbuf[o] /\ delivered'[o] = delivered[o]
      /\ cbuf' \in [Streams -> Cbuf] /\ delivered' \in [Streams -> Seq(Nat)]
    <2>1. delivered'[s] \in Seq(Nat)
        BY <1>6 DEF Follows
    <2>2. QED
        BY <1>1, <1>6, <1>7, <2>1 DEF TypeInv
<1>9. q[0][s] = po + l /\ q[0][o] = pe
    BY <1>0, <1>1, Counts
<1>10. PICK a, zz : /\ AdjustInv(a, adjusts') /\ a[0] = adj[0] /\ zz = a[Len(adjusts')]
                    /\ adjusts' \in Seq(Nat)
                    /\ \/ zz = z /\ recvwindow' = R - l /\ recvdonelen' = D + w
                       \/ zz = z + (D + w) /\ recvwindow' = (R - l) + (D + w) /\ recvdonelen' = 0
    <2>1. adjusts \in Seq(Nat) /\ AdjustInv(adj, adjusts) /\ D + w \in Nat
        BY <1>3, SMTT(60) DEF TypeInv, Accounted
    <2>2. CASE adjusts' = adjusts /\ recvwindow' = R - l /\ recvdonelen' = D + w
        BY <1>0, <2>1, <2>2
    <2>3. CASE /\ adjusts' = adjusts \o <<D + w>>
               /\ recvwindow' = (R - l) + (D + w) /\ recvdonelen' = 0
        <3>1. PICK a : /\ AdjustInv(a, adjusts \o <<D + w>>) /\ a[0] = adj[0]
                       /\ a[Len(adjusts \o <<D + w>>)] = adj[Len(adjusts)] + (D + w)
            BY <2>1, AdjustSent
        <3>2. adjusts' \in Seq(Nat)
            BY <2>1, <2>3
        <3>3. QED
            BY <1>0, <2>3, <3>1, <3>2
    <2>4. QED
        BY <1>6, <2>2, <2>3
<1>11. TypeInv'
    <2>1. R - l \in Nat /\ D + w \in Nat /\ (R - l) + (D + w) \in Nat /\ 0 \in Nat
        BY <1>3
    <2>2. recvwindow' \in Nat /\ recvdonelen' \in Nat
        BY <1>10, <2>1
    <2>3. QED
        BY <1>6, <1>8, <1>10, <2>2 DEF TypeInv
<1>12. /\ zz + recvdonelen' = Len(delivered'[s]) + Len(delivered'[o])
       /\ recvwindow' + q[0][s] + q[0][o] >= N + zz
       /\ recvwindow' + recvdonelen' + cbuf'[s].used + cbuf'[o].used <= N
    <2>1. Len(delivered'[s]) = x + w /\ Len(delivered'[o]) = y /\ cbuf'[s].used = u + l - w
          /\ cbuf'[o].used = v
        BY <1>0, <1>6, <1>8
    <2>2. CASE zz = z /\ recvwindow' = R - l /\ recvdonelen' = D + w
        BY <1>5, <1>9, <2>1, <2>2
    <2>3. CASE zz = z + (D + w) /\ recvwindow' = (R - l) + (D + w) /\ recvdonelen' = 0
        BY <1>5, <1>9, <2>1, <2>3
    <2>4. QED
        BY <1>10, <2>2, <2>3
<1>13. WindowInv(q[0], a[0], a[Len(adjusts)])'
    <2>1. transwindow' + sent'["out"] + sent'["err"] = RecvWindow + a[0]
        BY <1>10 DEF Accounted, WindowInv
    <2>2. /\ zz + recvdonelen' = Len(delivered'["out"]) + Len(delivered'["err"])
          /\ recvwindow' + q[0]["out"] + q[0]["err"] >= RecvWindow + zz
          /\ recvwindow' + recvdonelen' + cbuf'["out"].used + cbuf'["err"].used <= RecvWindow
        <3>1. CASE s = "out" /\ o = "err"
            BY <1>0, <1>12, <3>1
        <3>2. CASE s = "err" /\ o = "out"
            <4>1. /\ Len(delivered'[s]) \in Nat /\ Len(delivered'[o]) \in Nat
                  /\ q[0][s] \in Nat /\ q[0][o] \in Nat
                  /\ cbuf'[s].used \in Nat /\ cbuf'[o].used \in Nat
                  /\ recvwindow' \in Nat /\ recvdonelen' \in Nat
                <5>1. b.used \in 0..RecvWindow
                    BY <1>6, CbufFields
                <5>2. x + w \in Nat /\ po + l \in Nat /\ b.used \in Nat
                    BY SMTT(60), <1>3, <5>1, FlowAssumption
                <5>3. QED
                    BY <1>0, <1>3, <1>6, <1>8, <1>9, <1>11, <5>2 DEF TypeInv
            <4>2. /\ Len(delivered'[s]) + Len(delivered'[o]) = Len(delivered'[o]) + Len(delivered'[s])
                  /\ recvwindow' + q[0][s] + q[0][o] = recvwindow' + q[0][o] + q[0][s]
                  /\ recvwindow' + recvdonelen' + cbuf'[s].used + cbuf'[o].used
                       = recvwindow' + recvdonelen' + cbuf'[o].used + cbuf'[s].used
                <5>1. PICK A, B, C, E, F, G, H, I : A = Len(delivered'[s]) /\ B = Len(delivered'[o])
                          /\ C = q[0][s] /\ E = q[0][o] /\ F = cbuf'[s].used /\ G = cbuf'[o].used
                          /\ H = recvwindow' /\ I = recvdonelen'
                    OBVIOUS
                <5>2. A \in Nat /\ B \in Nat /\ C \in Nat /\ E \in Nat /\ F \in Nat /\ G \in Nat
                      /\ H \in Nat /\ I \in Nat
                    BY <4>1, <5>1
                <5>3. A + B = B + A /\ H + C + E = H + E + C /\ H + I + F + G = H + I + G + F
                    BY SMTT(60), <5>2
                <5>4. QED
                    BY <5>1, <5>3
            <4>3. QED
                BY <1>0, <1>12, <3>2, <4>2
        <3>3. QED
            BY <1>2, <3>1, <3>2
    <2>3. QED
        BY <1>10, <2>1, <2>2 DEF WindowInv
<1>14. HeldInv(q[0])'
    <2> SUFFICES ASSUME NEW t \in Streams
                 PROVE  /\ Follows(delivered'[t], 0)
                        /\ fd'[t] = "open" => /\ q[0][t] = Len(delivered'[t]) + cbuf'[t].used
                                              /\ Holds(cbuf'[t], Len(delivered'[t]))
        BY DEF HeldInv
    <2>1. CASE t = s
        <3>1. po = x + u
            BY <1>0 DEF Accounted, HeldInv
        <3>2. po + l = (x + w) + (u + l - w)
            BY SMTT(60), <1>3, <3>1
        <3>3. QED
            BY <1>6, <1>8, <1>9, <2>1, <3>2
    <2>2. CASE t = o
        BY <1>0, <1>8, <1>9, <2>2 DEF Accounted, HeldInv
    <2>3. QED
        BY <1>1, <2>1, <2>2
<1>15. Accounted(q, a)'
    BY <1>10, <1>13, <1>14 DEF Accounted
<1>16. QED
    BY <1>11, <1>15

\* writechannel on an open descriptor delivers, or writes nothing.
LEMMA WriteStep ==
    ASSUME TypeInv, NEW pos, NEW adj, Accounted(pos, adj), NEW s \in Streams, NEW m \in Seq(Nat),
           NEW w \in 0..(cbuf[s].used + Len(m)), Follows(m, pos[0][s]), Len(m) <= recvwindow,
           NEW window, window = recvwindow - Len(m), WriteChannel(s, m, window, w),
           NEW q, SentInv(q, wire', sent'), wire' \in Seq(Packet), recv_eof' = recv_eof,
           q[0] = [pos[0] EXCEPT ![s] = @ + Len(m)], q[0][s] <= sent[s],
           fd[s] = "open", fd' = fd, UNCHANGED <<transwindow, sent, sent_eof>>
    PROVE  /\ TypeInv' /\ \E a : Accounted(q, a)'
           /\ UNCHANGED Stream!vars \/ Stream!Deliver(s)
<1>0. PICK x, u, l : x = Len(delivered[s]) /\ u = cbuf[s].used /\ l = Len(m)
    OBVIOUS
<1>1. /\ pos[0][s] = x + u /\ Holds(cbuf[s], x) /\ Follows(delivered[s], 0)
      /\ recvwindow + recvdonelen + cbuf["out"].used + cbuf["err"].used <= RecvWindow
    BY <1>0 DEF Accounted, HeldInv, WindowInv
<1>2. x \in Nat /\ u \in Nat /\ l \in Nat /\ pos[0] \in [Streams -> Nat] /\ sent[s] \in Nat
    <2>1. cbuf[s].used \in 0..RecvWindow
        BY CbufFields DEF TypeInv
    <2>2. QED
        BY SMTT(60), <1>0, <2>1, Counts, FlowAssumption DEF TypeInv
<1>3. w \in Nat /\ w <= u + l
    BY <1>0, <1>2
<1>4. PICK b : Wrote(s, m, window, w, b)
    BY <1>0, <1>1, WriteWorks
<1>5. TypeInv' /\ \E a : Accounted(q, a)'
    BY <1>0, <1>3, <1>4, WroteKeeps
<1>6. /\ delivered' = [delivered EXCEPT ![s] = @ \o [i \in 1..w |-> Len(delivered[s]) + i]]
      /\ UNCHANGED <<sent, sent_eof, fd>>
    BY <1>4 DEF Wrote
<1>7. CASE w = 0
    <2>1. [i \in 1..w |-> Len(delivered[s]) + i] = <<>>
        BY <1>7
    <2>2. delivered[s] \o <<>> = delivered[s]
        BY DEF TypeInv
    <2>3. delivered' = delivered
        BY <1>6, <2>1, <2>2 DEF TypeInv
    <2>4. QED
        BY <1>5, <1>6, <2>3 DEF Stream!vars
<1>8. CASE w # 0
    <2>1. q[0][s] = (x + u) + l
        BY <1>0, <1>1, <1>2
    <2>2. w \in 1..(sent[s] - x)
        BY SMTT(60), <1>2, <1>3, <1>8, <2>1
    <2>3. w \in 1..(sent[s] - Len(delivered[s]))
        BY <1>0, <2>2
    <2>4. Stream!Deliver(s)
        BY <1>6, <2>3 DEF Stream!Deliver
    <2>5. QED
        BY <1>5, <2>4
<1>9. QED
    BY <1>7, <1>8

\* Units that arrive for a descriptor that is gone, or fails now, are given up.
LEMMA DiscardKeeps ==
    ASSUME TypeInv, NEW pos, NEW adj, Accounted(pos, adj), NEW s \in Streams, NEW l \in Nat,
           l <= recvwindow, recvwindow' = recvwindow \/ recvwindow' = recvwindow - l,
           NEW q, SentInv(q, wire', sent'), wire' \in Seq(Packet), recv_eof' = recv_eof,
           q[0] = [pos[0] EXCEPT ![s] = @ + l],
           fd' \in [Streams -> {"open", "broken", "closed"}], fd'[s] # "open",
           \A t \in Streams : t # s => fd'[t] = fd[t],
           UNCHANGED <<transwindow, sent, sent_eof, cbuf, recvdonelen, adjusts, exit, delivered>>
    PROVE  TypeInv' /\ \E a : Accounted(q, a)'
<1>1. TypeInv'
    BY DEF TypeInv
<1>2. /\ transwindow + sent["out"] + sent["err"] = RecvWindow + adj[0]
      /\ adj[Len(adjusts)] + recvdonelen = Len(delivered["out"]) + Len(delivered["err"])
      /\ recvwindow + pos[0]["out"] + pos[0]["err"] >= RecvWindow + adj[Len(adjusts)]
      /\ recvwindow + recvdonelen + cbuf["out"].used + cbuf["err"].used <= RecvWindow
    BY DEF Accounted, WindowInv
<1>3. recvwindow' + q[0]["out"] + q[0]["err"] >= RecvWindow + adj[Len(adjusts)]
    <2>1. PICK R, po, pe, N, z, RR, qo, qe : R = recvwindow /\ po = pos[0]["out"] /\ pe = pos[0]["err"]
              /\ N = RecvWindow /\ z = adj[Len(adjusts)] /\ RR = recvwindow'
              /\ qo = q[0]["out"] /\ qe = q[0]["err"]
        OBVIOUS
    <2>2. R \in Nat /\ po \in Nat /\ pe \in Nat /\ N \in Nat /\ z \in Nat
        BY <2>1, Counts
    <2>3. (qo = po + l /\ qe = pe) \/ (qo = po /\ qe = pe + l)
        BY <2>1, Counts DEF Streams
    <2>4. R + po + pe >= N + z /\ (RR = R \/ RR = R - l)
        BY <1>2, <2>1
    <2>5. RR + qo + qe >= N + z
        BY SMTT(60), <2>2, <2>3, <2>4
    <2>6. QED
        BY <2>1, <2>5
<1>4. recvwindow' + recvdonelen + cbuf["out"].used + cbuf["err"].used <= RecvWindow
    <2>1. PICK R, D, u, v, N, RR : R = recvwindow /\ D = recvdonelen /\ u = cbuf["out"].used
              /\ v = cbuf["err"].used /\ N = RecvWindow /\ RR = recvwindow'
        OBVIOUS
    <2>2. R \in Nat /\ D \in Nat /\ u \in Nat /\ v \in Nat /\ N \in Nat
        BY <2>1, Counts
    <2>3. R + D + u + v <= N /\ (RR = R \/ RR = R - l)
        BY <1>2, <2>1
    <2>4. RR + D + u + v <= N
        BY SMTT(60), <2>2, <2>3
    <2>5. QED
        BY <2>1, <2>4
<1>5. WindowInv(q[0], adj[0], adj[Len(adjusts)])'
    BY <1>2, <1>3, <1>4 DEF WindowInv
<1>6. HeldInv(q[0])'
    <2> SUFFICES ASSUME NEW t \in Streams
                 PROVE  /\ Follows(delivered'[t], 0)
                        /\ fd'[t] = "open" => /\ q[0][t] = Len(delivered'[t]) + cbuf'[t].used
                                              /\ Holds(cbuf'[t], Len(delivered'[t]))
        BY DEF HeldInv
    <2>1. CASE t = s
        BY <2>1 DEF Accounted, HeldInv
    <2>2. CASE t # s
        <3>1. q[0][t] = pos[0][t]
            BY <2>2, Counts
        <3>2. QED
            BY <2>2, <3>1 DEF Accounted, HeldInv
    <2>3. QED
        BY <2>1, <2>2
<1>7. Accounted(q, adj)'
    BY <1>5, <1>6 DEF Accounted
<1>8. QED
    BY <1>1, <1>7

\* EOF stays the last packet while others are taken off.
LEMMA EofStays ==
    ASSUME TypeInv, EofInv, wire # <<>>, wire[1].stream # None, wire' = Tail(wire),
           UNCHANGED <<sent_eof, recv_eof>>, fd'["err"] # "closed"
    PROVE  EofInv'
<1>1. PICK n : n = Len(wire) - 1
    OBVIOUS
<1>2. n \in Nat /\ Len(wire) = n + 1 /\ Len(wire') = n /\ \A i \in 1..n : wire'[i] = wire[i + 1]
    BY <1>1 DEF TypeInv
<1>3. ~recv_eof
    BY DEF EofInv
<1>4. ASSUME NEW i \in 1..n, wire'[i].stream = None PROVE i = n /\ sent_eof
    <2>1. i + 1 \in 1..Len(wire) /\ wire[i + 1].stream = None
        BY <1>2, <1>4
    <2>2. i + 1 = n + 1 /\ sent_eof
        BY <1>2, <2>1 DEF EofInv
    <2>3. QED
        BY <1>2, <2>2
<1>5. QED
    BY <1>2, <1>3, <1>4 DEF EofInv

\* What the sender may send never exceeds the window of the receiver: T is the
\* sender's window, a and b what it has sent, po and pe what has arrived.
LEMMA FitsCounts ==
    ASSUME NEW T \in Nat, NEW a \in Nat, NEW b \in Nat, NEW A \in Nat, NEW z \in Nat,
           NEW N \in Nat, NEW R \in Nat, NEW po \in Nat, NEW pe \in Nat, NEW l \in Nat,
           T + a + b = N + A, A <= z, R + po + pe >= N + z, po + pe + l <= a + b
    PROVE  l <= R
OBVIOUS

LEMMA RecvDataInv ==
    FlowInv /\ RecvData =>
        /\ FlowInv'
        /\ \/ UNCHANGED Stream!vars
           \/ \E s \in Streams : Stream!Deliver(s) \/ Stream!Break(s)
<1> SUFFICES ASSUME FlowInv, RecvData
             PROVE  /\ FlowInv'
                    /\ \/ UNCHANGED Stream!vars
                       \/ \E s \in Streams : Stream!Deliver(s) \/ Stream!Break(s)
    OBVIOUS
<1>1. TypeInv /\ EofInv
    BY DEF FlowInv
<1>2. PICK pos, adj : Accounted(pos, adj)
    BY DEF FlowInv
<1>3. PICK s, m, l : s = wire[1].stream /\ m = wire[1].data /\ l = Len(m)
    OBVIOUS
<1>4. /\ wire \in Seq(Packet) /\ wire # <<>> /\ s # None /\ wire' = Tail(wire)
      /\ wire' \in Seq(Packet) /\ s \in Streams /\ m \in Seq(Nat) /\ l \in Nat
      /\ Head(wire) = wire[1] /\ sent' = sent /\ sent_eof' = sent_eof /\ transwindow' = transwindow
    <2>1. wire \in Seq(Packet) /\ wire # <<>> /\ Head(wire) = wire[1] /\ wire[1] \in Packet
        BY <1>1 DEF RecvData, TypeInv
    <2>2. s # None /\ wire' = Tail(wire) /\ UNCHANGED <<transwindow, sent, sent_eof>>
        BY <1>3, <2>1 DEF RecvData, sendVars
    <2>3. wire' \in Seq(Packet) /\ s \in Streams /\ m \in Seq(Nat)
        BY <1>3, <2>1, <2>2 DEF Packet
    <2>4. QED
        BY <1>3, <2>1, <2>2, <2>3
<1>5. PICK q : /\ SentInv(q, Tail(wire), sent) /\ Carries(wire[1], pos[0], q[0])
               /\ q[0] = pos[1] /\ pos[0] \in [Streams -> Nat] /\ pos[1] \in [Streams -> Nat]
               /\ \A t \in Streams : pos[1][t] <= sent[t]
    <2>1. SentInv(pos, wire, sent) /\ sent \in [Streams -> Nat]
        BY <1>1, <1>2 DEF TypeInv, Accounted
    <2>2. QED
        BY <1>4, <2>1, PacketArrives
<1>6. /\ SentInv(q, wire', sent') /\ Follows(m, pos[0][s])
      /\ q[0] = [pos[0] EXCEPT ![s] = @ + l] /\ \A t \in Streams : q[0][t] <= sent[t]
    BY <1>3, <1>4, <1>5 DEF Carries
<1>7. l <= recvwindow
    <2>1. PICK T, a, b, A, z, N, R, po, pe, qo, qe : T = transwindow /\ a = sent["out"]
              /\ b = sent["err"] /\ A = adj[0] /\ z = adj[Len(adjusts)] /\ N = RecvWindow
              /\ R = recvwindow /\ po = pos[0]["out"] /\ pe = pos[0]["err"]
              /\ qo = q[0]["out"] /\ qe = q[0]["err"]
        OBVIOUS
    <2>2. T \in Nat /\ a \in Nat /\ b \in Nat /\ A \in Nat /\ z \in Nat /\ N \in Nat /\ R \in Nat
          /\ po \in Nat /\ pe \in Nat /\ A <= z
        BY <1>1, <1>2, <2>1, Counts
    <2>3. qo <= a /\ qe <= b /\ ((qo = po + l /\ qe = pe) \/ (qo = po /\ qe = pe + l))
        BY <1>4, <1>5, <1>6, <2>1 DEF Streams
    <2>4. T + a + b = N + A /\ R + po + pe >= N + z
        BY <1>2, <2>1 DEF Accounted, WindowInv
    <2>5. po + pe + l <= a + b
        BY <1>4, <2>2, <2>3
    <2>6. l \in Nat
        BY <1>4
    <2>7. l <= R
        BY <2>2, <2>4, <2>5, <2>6, FitsCounts
    <2>8. QED
        BY <2>1, <2>7
<1>8. l <= cbuf_getavail(cbuf[s])
    <2>1. PICK R, D, u, v, N : R = recvwindow /\ D = recvdonelen /\ u = cbuf["out"].used
              /\ v = cbuf["err"].used /\ N = RecvWindow
        OBVIOUS
    <2>2. R \in Nat /\ D \in Nat /\ u \in Nat /\ v \in Nat /\ N \in Nat
        BY <1>1, <1>2, <2>1, Counts
    <2>3. R + D + u + v <= N /\ l <= R
        BY <1>2, <1>7, <2>1 DEF Accounted, WindowInv
    <2>4. l <= N - u /\ l <= N - v
        BY <1>4, <2>2, <2>3
    <2>5. cbuf[s].used = u \/ cbuf[s].used = v
        BY <1>4, <2>1 DEF Streams
    <2>6. QED
        BY <2>1, <2>4, <2>5 DEF cbuf_getavail
<1>9. CASE fd[s] # "open" /\ UNCHANGED <<adjusts, recvVars>>
    <2>1. UNCHANGED <<adjusts, cbuf, fd, recvwindow, recvdonelen, recv_eof, exit, delivered>>
        BY <1>9 DEF recvVars
    <2>2. fd' \in [Streams -> {"open", "broken", "closed"}] /\ fd'[s] # "open"
          /\ fd'["err"] # "closed"
        BY <1>1, <1>9, <2>1 DEF TypeInv, EofInv
    <2>3. TypeInv' /\ \E a : Accounted(q, a)'
        BY <1>1, <1>2, <1>4, <1>6, <1>7, <2>1, <2>2, DiscardKeeps
    <2>4. EofInv'
        BY <1>1, <1>3, <1>4, <2>1, <2>2, EofStays
    <2>5. UNCHANGED Stream!vars
        BY <1>4, <2>1 DEF Stream!vars
    <2>6. QED
        BY <2>3, <2>4, <2>5 DEF FlowInv
<1>10. CASE /\ fd[s] = "open" /\ WriteFails(s) /\ recvwindow' = recvwindow - l
            /\ recv_eof' = recv_eof
    <2>1. /\ fd' = [fd EXCEPT ![s] = "broken"]
          /\ UNCHANGED <<cbuf, recvdonelen, adjusts, exit, delivered>>
        BY <1>10 DEF WriteFails
    <2>2. fd' \in [Streams -> {"open", "broken", "closed"}] /\ fd'[s] # "open"
          /\ fd'["err"] # "closed" /\ \A t \in Streams : t # s => fd'[t] = fd[t]
        BY <1>1, <1>4, <2>1 DEF TypeInv, EofInv, Streams
    <2>3. TypeInv' /\ \E a : Accounted(q, a)'
        <3>1. /\ s \in Streams /\ l \in Nat /\ SentInv(q, wire', sent') /\ wire' \in Seq(Packet)
              /\ q[0] = [pos[0] EXCEPT ![s] = @ + l] /\ recv_eof' = recv_eof
              /\ recvwindow' = recvwindow \/ recvwindow' = recvwindow - l
              /\ UNCHANGED <<transwindow, sent, sent_eof, cbuf, recvdonelen, adjusts, exit, delivered>>
            BY <1>4, <1>6, <1>10, <2>1
        <3>2. QED
            BY <1>1, <1>2, <1>7, <2>2, <3>1, DiscardKeeps
    <2>4. EofInv'
        BY <1>1, <1>3, <1>4, <1>10, <2>2, EofStays
    <2>5. Stream!Break(s)
        BY <1>4, <1>10, <2>1 DEF Stream!Break
    <2>6. QED
        BY <1>4, <2>3, <2>4, <2>5 DEF FlowInv
<1>11. CASE /\ fd[s] = "open" /\ \E w \in 0..(cbuf[s].used + l) : WriteChannel(s, m, recvwindow - l, w)
            /\ fd' = fd /\ recv_eof' = recv_eof
    <2>1. PICK w \in 0..(cbuf[s].used + Len(m)) : WriteChannel(s, m, recvwindow - Len(m), w)
        BY <1>3, <1>11
    <2>2. /\ TypeInv' /\ \E a : Accounted(q, a)'
          /\ UNCHANGED Stream!vars \/ Stream!Deliver(s)
        <3>1. q[0][s] <= sent[s] /\ q[0] = [pos[0] EXCEPT ![s] = @ + Len(m)] /\ Len(m) <= recvwindow
            BY <1>3, <1>4, <1>6, <1>7
        <3>2. PICK window : window = recvwindow - Len(m)
            OBVIOUS
        <3>3. QED
            BY <1>1, <1>2, <1>4, <1>6, <1>11, <2>1, <3>1, <3>2, WriteStep
    <2>3. EofInv'
        <3>1. fd'["err"] # "closed"
            BY <1>1, <1>11 DEF EofInv
        <3>2. QED
            BY <1>1, <1>3, <1>4, <1>11, <3>1, EofStays
    <2>4. QED
        BY <1>4, <2>2, <2>3 DEF FlowInv
<1>12. \/ fd[s] # "open" /\ UNCHANGED <<adjusts, recvVars>>
       \/ /\ fd[s] = "open" /\ WriteFails(s) /\ recvwindow' = recvwindow - l
          /\ recv_eof' = recv_eof
       \/ /\ fd[s] = "open" /\ \E w \in 0..(cbuf[s].used + l) : WriteChannel(s, m, recvwindow - l, w)
          /\ fd' = fd /\ recv_eof' = recv_eof
    <2>1. ~(l > cbuf_getavail(cbuf[s]) \/ l > recvwindow)
        <3>1. recvwindow \in Nat /\ cbuf_getavail(cbuf[s]) \in Int
            <4>1. cbuf[s].used \in 0..RecvWindow
                BY <1>1, <1>4, CbufFields DEF TypeInv
            <4>2. QED
                BY <1>1, <4>1, FlowAssumption DEF TypeInv, cbuf_getavail
        <3>2. QED
            BY <1>4, <1>7, <1>8, <3>1
    <2>2. QED
        BY <1>3, <1>4, <2>1 DEF RecvData
<1>13. QED
    BY <1>9, <1>10, <1>11, <1>12

LEMMA WriteOutInv ==
    FlowInv /\ WriteOut =>
        /\ FlowInv'
        /\ \/ UNCHANGED Stream!vars
           \/ \E s \in Streams : Stream!Deliver(s) \/ Stream!Break(s)
<1> SUFFICES ASSUME FlowInv, WriteOut
             PROVE  /\ FlowInv'
                    /\ \/ UNCHANGED Stream!vars
                       \/ \E s \in Streams : Stream!Deliver(s) \/ Stream!Break(s)
    OBVIOUS
<1>1. TypeInv /\ EofInv
    BY DEF FlowInv
<1>2. PICK pos, adj : Accounted(pos, adj)
    BY DEF FlowInv
<1>3. PICK s \in Streams :
         /\ fd[s] = "open" /\ cbuf[s].used > 0
         /\ \/ /\ \E w \in 1..cbuf[s].used : WriteChannel(s, <<>>, recvwindow, w)
               /\ fd' = fd
            \/ WriteFails(s) /\ recvwindow' = recvwindow
    BY DEF WriteOut
<1>4. UNCHANGED <<transwindow, sent, sent_eof, wire, recv_eof>>
    BY DEF WriteOut, sendVars
<1>5. /\ pos[0] \in [Streams -> Nat] /\ pos[0][s] <= sent[s] /\ pos[0][s] \in Nat
      /\ SentInv(pos, wire', sent') /\ wire' \in Seq(Packet)
    <2>1. SentInv(pos, wire, sent) /\ wire \in Seq(Packet)
        BY <1>1, <1>2 DEF Accounted, TypeInv
    <2>2. 0 \in 0..Len(wire)
        BY <2>1
    <2>3. pos[0] \in [Streams -> Nat] /\ pos[0][s] <= sent[s]
        BY <2>1, <2>2 DEF SentInv
    <2>4. QED
        BY <1>4, <2>1, <2>3
<1>a. pos[0] = [pos[0] EXCEPT ![s] = @ + 0]
    <2>1. pos[0][s] + 0 = pos[0][s]
        BY <1>5
    <2>2. pos[0] = [pos[0] EXCEPT ![s] = pos[0][s]]
        BY <1>5
    <2>3. QED
        BY <2>1, <2>2
<1>6. CASE WriteFails(s) /\ recvwindow' = recvwindow
    <2>1. /\ fd' = [fd EXCEPT ![s] = "broken"]
          /\ UNCHANGED <<cbuf, recvdonelen, adjusts, exit, delivered>>
        BY <1>6 DEF WriteFails
    <2>2. fd' \in [Streams -> {"open", "broken", "closed"}] /\ fd'[s] # "open"
          /\ fd'["err"] # "closed" /\ \A t \in Streams : t # s => fd'[t] = fd[t]
        BY <1>1, <2>1 DEF TypeInv, EofInv, Streams
    <2>3. 0 \in Nat /\ 0 <= recvwindow /\ pos[0] = [pos[0] EXCEPT ![s] = @ + 0]
        BY <1>a, <1>1, <1>5 DEF TypeInv
    <2>4. TypeInv' /\ \E a : Accounted(pos, a)'
        BY <1>1, <1>2, <1>4, <1>5, <1>6, <2>1, <2>2, <2>3, DiscardKeeps
    <2>5. EofInv'
        BY <1>1, <1>4, <2>2 DEF EofInv
    <2>6. Stream!Break(s)
        BY <1>3, <1>4, <2>1 DEF Stream!Break
    <2>7. QED
        BY <2>4, <2>5, <2>6 DEF FlowInv
<1>7. CASE (\E w \in 1..cbuf[s].used : WriteChannel(s, <<>>, recvwindow, w)) /\ fd' = fd
    <2>1. PICK w \in 1..cbuf[s].used : WriteChannel(s, <<>>, recvwindow, w)
        BY <1>7
    <2>2. PICK m : m = <<>>
        OBVIOUS
    <2>3. m \in Seq(Nat) /\ Len(m) = 0 /\ Follows(m, pos[0][s])
        BY <2>2 DEF Follows
    <2>4. recvwindow - Len(m) = recvwindow /\ Len(m) <= recvwindow
          /\ pos[0] = [pos[0] EXCEPT ![s] = @ + Len(m)]
        BY <1>a, <1>1, <2>3 DEF TypeInv
    <2>5. w \in 0..(cbuf[s].used + Len(m))
        <3>1. cbuf[s].used \in 0..RecvWindow
            BY <1>1, CbufFields DEF TypeInv
        <3>2. QED
            BY <2>3, <3>1, FlowAssumption
    <2>6. /\ TypeInv' /\ \E a : Accounted(pos, a)'
          /\ UNCHANGED Stream!vars \/ Stream!Deliver(s)
        <3>1. PICK window : window = recvwindow
            OBVIOUS
        <3>2. WriteChannel(s, m, window, w) /\ window = recvwindow - Len(m)
            BY <2>1, <2>2, <2>4, <3>1
        <3>3. QED
            BY <1>1, <1>2, <1>3, <1>4, <1>5, <1>7, <2>3, <2>4, <2>5, <3>2, WriteStep
    <2>7. EofInv'
        BY <1>1, <1>4, <1>7 DEF EofInv
    <2>8. QED
        BY <2>6, <2>7 DEF FlowInv
<1>8. QED
    BY <1>3, <1>6, <1>7

-----------------------------------------------------------------------------
(* Theorems *)

\* One step of the system keeps the invariant and is a step of the streams.
LEMMA StepInv == FlowInv /\ [Next]_vars => FlowInv' /\ [Stream!Next]_(Stream!vars)
<1> SUFFICES ASSUME FlowInv, [Next]_vars PROVE FlowInv' /\ [Stream!Next]_(Stream!vars)
    OBVIOUS
<1>1. CASE SendData
    BY <1>1, SendDataInv DEF Stream!Next, Stream!Streams, Streams
<1>2. CASE SendEof
    BY <1>2, SendEofInv DEF Stream!Next
<1>3. CASE RecvAdjust
    BY <1>3, RecvAdjustInv
<1>4. CASE RecvData
    BY <1>4, RecvDataInv DEF Stream!Next, Stream!Streams, Streams
<1>5. CASE WriteOut
    BY <1>5, WriteOutInv DEF Stream!Next, Stream!Streams, Streams
<1>6. CASE RecvEof
    BY <1>6, RecvEofInv
<1>7. CASE CheckClose
    BY <1>7, CheckCloseInv DEF Stream!Next
<1>8. CASE UNCHANGED vars
    <2>1. UNCHANGED <<transwindow, sent, sent_eof, wire, adjusts, cbuf, fd, recvwindow,
                      recvdonelen, recv_eof, exit, delivered>>
        BY <1>8 DEF vars, sendVars, recvVars
    <2>2. UNCHANGED Stream!vars
        BY <2>1 DEF Stream!vars
    <2>3. TypeInv' /\ EofInv'
        BY <2>1 DEF FlowInv, TypeInv, EofInv
    <2>4. PICK pos, adj : Accounted(pos, adj)
        BY DEF FlowInv
    <2>5. Accounted(pos, adj)'
        BY <2>1, <2>4 DEF Accounted, WindowInv, HeldInv
    <2>6. QED
        BY <2>2, <2>3, <2>5 DEF FlowInv
<1>9. QED
    BY <1>1, <1>2, <1>3, <1>4, <1>5, <1>6, <1>7, <1>8 DEF Next, Receiver

\* No window or buffer assertion of writechannel or cbuf_writelen fails and no
\* packet is refused as oversized, for every window, packet size and amount of
\* data.
THEOREM NoAssertionFails == Spec => []NoExit
<1>1. FlowInv => NoExit
    <2> SUFFICES ASSUME FlowInv PROVE NoExit
        OBVIOUS
    <2>1. exit = None /\ \A s \in Streams : cbuf[s] \in Cbuf
        BY DEF FlowInv, TypeInv
    <2>2. QED
        BY <2>1, CbufOk DEF NoExit
<1>2. QED
    BY <1>1, InitInv, StepInv, PTL DEF Spec

\* Packets, windows, the shared receive window and the circular buffers
\* implement two reliable streams over one pool of RecvWindow units.
THEOREM FlowImplementsStream == Spec => ImplementsStream
<1>1. Init => Stream!Init
    BY DEF Init, Stream!Init, Streams, Stream!Streams
<1>2. QED
    BY <1>1, InitInv, StepInv, PTL DEF Spec, ImplementsStream, Stream!Spec
=============================================================================
