--------------------------- MODULE KexAlgoProofs ---------------------------
(***************************************************************************)
(* Proofs about KexAlgo, for all tables and option sets that an end can    *)
(* have (KexAlgoAssumption) and any number of rekeys and sessions:         *)
(*  - Agreed: both ends pick what the two lists on the wire say;           *)
(*  - GuessNeverMisused: a guess is used once or replaced;                 *)
(*  - Servable: the server has the host key for what it negotiated, or its  *)
(*    default file is at fault;                                            *)
(*  - FreshOffer: no session is restricted by the one before, and no       *)
(*    rekey fails.                                                         *)
(*                                                                         *)
(* Everything an exchange does follows from the configuration and from the *)
(* host key algorithms that were disabled when it began.  The first parts  *)
(* show what the two ends then pick; the last part is the invariant.       *)
(***************************************************************************)
EXTENDS KexAlgo, WellFoundedInduction, TLAPS

-----------------------------------------------------------------------------
(* Lists *)

LEMMA LeastOf ==
    ASSUME NEW S, S \subseteq Nat, S # {}
    PROVE  \E m \in S : \A k \in S : m <= k
<1>1. \E m \in S : \A k \in S : ~(<<k, m>> \in OpToRel(<, Nat))
    BY WFMin, NatLessThanWellFounded
<1>2. \A m, k \in S : ~(<<k, m>> \in OpToRel(<, Nat)) => m <= k
    BY DEF OpToRel
<1>3. QED
    BY <1>1, <1>2

\* Induction up to n, for a set.
LEMMA UpTo ==
    ASSUME NEW n \in Nat, NEW P, 0 \in P, \A i \in 0..n : i \in P /\ i < n => i + 1 \in P
    PROVE  \A i \in 0..n : i \in P
<1> DEFINE Bad == {i \in 0..n : i \notin P}
<1> SUFFICES ASSUME Bad # {} PROVE FALSE
    OBVIOUS
<1>1. Bad \subseteq Nat
    OBVIOUS
<1>2. PICK m \in Bad : \A k \in Bad : m <= k
    BY <1>1, LeastOf
<1>3. m \in 0..n /\ m \notin P /\ m # 0
    BY <1>2
<1>4. m - 1 \in 0..n /\ m - 1 < n /\ m - 1 \notin Bad /\ (m - 1) + 1 = m
    BY <1>2, <1>3
<1>5. m - 1 \in P
    BY <1>4
<1>6. QED
    BY <1>3, <1>4, <1>5

\* The first pair of a set, by its first and then by its second component.
LEMMA FirstPair ==
    ASSUME NEW S, S \subseteq Nat \X Nat, S # {}
    PROVE  \E h \in S : \A g \in S : h[1] < g[1] \/ (h[1] = g[1] /\ h[2] <= g[2])
<1> DEFINE A == {h[1] : h \in S}
<1>1. A \subseteq Nat /\ A # {}
    OBVIOUS
<1>2. PICK a \in A : \A k \in A : a <= k
    BY <1>1, LeastOf
<1> DEFINE B == {h[2] : h \in {g \in S : g[1] = a}}
<1>3. B \subseteq Nat /\ B # {}
    OBVIOUS
<1>4. PICK b \in B : \A k \in B : b <= k
    BY <1>3, LeastOf
<1>5. PICK h \in S : h[1] = a /\ h[2] = b
    OBVIOUS
<1>6. ASSUME NEW g \in S PROVE h[1] < g[1] \/ (h[1] = g[1] /\ h[2] <= g[2])
    <2>1. g[1] \in A /\ a <= g[1] /\ g[1] \in Nat /\ a \in Nat
        BY <1>1, <1>2
    <2>2. CASE g[1] = a
        <3>1. g[2] \in B /\ b <= g[2]
            BY <1>4, <2>2
        <3>2. QED
            BY <1>5, <2>2, <3>1
    <2>3. CASE g[1] # a
        BY <1>5, <2>1, <2>3
    <2>4. QED
        BY <2>2, <2>3
<1>7. QED
    BY <1>6

\* The list l names the usable ones of the first n entries of t, in order: f
\* says where each stands.
Picks(f, l, t, n) ==
    /\ l \in Seq(Names) /\ f \in [1..Len(l) -> 1..n]
    /\ \A i \in 1..Len(l) : t[f[i]].usable /\ l[i] = t[f[i]].name
    /\ \A i, j \in 1..Len(l) : i < j => f[i] < f[j]
    /\ \A k \in 1..n : t[k].usable => \E i \in 1..Len(l) : f[i] = k

\* The list up to entry i from the list up to the one before.
Longer(t, i, l) == IF t[i].usable THEN Append(l, t[i].name) ELSE l

LEMMA NamesExist ==
    ASSUME NEW t \in Seq(Entry)
    PROVE  \E h : h = [i \in 0..Len(t) |-> IF i = 0 THEN <<>> ELSE Longer(t, i, h[i - 1])]
<1> DEFINE Part(g, n) == /\ g = [i \in 0..n |-> g[i]] /\ g[0] = <<>>
                         /\ \A i \in 1..n : g[i] = Longer(t, i, g[i - 1])
           P == {n \in 0..Len(t) : \E g : Part(g, n)}
<1>0. Len(t) \in Nat
    OBVIOUS
<1>1. 0 \in P
    <2>1. Part([i \in 0..0 |-> <<>>], 0)
        OBVIOUS
    <2>2. 0 \in 0..Len(t)
        BY <1>0
    <2>3. QED
        BY <2>1, <2>2
<1>2. ASSUME NEW n \in 0..Len(t), n \in P, n < Len(t) PROVE n + 1 \in P
    <2>1. PICK g : Part(g, n)
        BY <1>2
    <2>2. PICK x : x = Longer(t, n + 1, g[n])
        OBVIOUS
    <2>3. PICK h : h = [i \in 0..(n + 1) |-> IF i <= n THEN g[i] ELSE x]
        OBVIOUS
    <2>4. h = [i \in 0..(n + 1) |-> h[i]] /\ h[0] = <<>>
        BY <1>0, <2>1, <2>3
    <2>5. ASSUME NEW i \in 1..(n + 1) PROVE h[i] = Longer(t, i, h[i - 1])
        <3>1. i \in 0..(n + 1) /\ i - 1 \in 0..(n + 1) /\ i - 1 <= n
            BY <1>0
        <3>2. h[i - 1] = g[i - 1]
            BY <2>3, <3>1
        <3>3. CASE i <= n
            <4>1. i \in 1..n /\ h[i] = g[i]
                BY <1>0, <2>3, <3>1, <3>3
            <4>2. QED
                BY <2>1, <3>2, <4>1
        <3>4. CASE ~(i <= n)
            <4>1. i = n + 1 /\ i - 1 = n /\ h[i] = x
                BY <1>0, <2>3, <3>1, <3>4
            <4>2. QED
                BY <2>2, <3>2, <4>1
        <3>5. QED
            BY <3>3, <3>4
    <2>6. n + 1 \in 0..Len(t)
        BY <1>0, <1>2
    <2>7. Part(h, n + 1)
        BY <2>4, <2>5
    <2>8. QED
        BY <2>6, <2>7
<1> HIDE DEF P
<1>3. Len(t) \in P
    <2>1. \A i \in 0..Len(t) : i \in P /\ i < Len(t) => i + 1 \in P
        BY <1>2
    <2>2. \A i \in 0..Len(t) : i \in P
        BY <1>0, <1>1, <2>1, UpTo
    <2>3. Len(t) \in 0..Len(t)
        BY <1>0
    <2>4. QED
        BY <2>2, <2>3
<1>4. PICK g : Part(g, Len(t))
    BY <1>3 DEF P
<1>5. \A i \in 0..Len(t) : g[i] = IF i = 0 THEN <<>> ELSE Longer(t, i, g[i - 1])
    BY <1>0, <1>4
<1>6. g = [i \in 0..Len(t) |-> IF i = 0 THEN <<>> ELSE Longer(t, i, g[i - 1])]
    BY <1>4, <1>5
<1>7. QED
    BY <1>6

\* What is sent of a table.
LEMMA ListIs ==
    ASSUME NEW t \in Seq(Entry)
    PROVE  \E f : Picks(f, buf_put_algolist(t), t, Len(t))
<1> DEFINE h == CHOOSE g : g = [i \in 0..Len(t) |->
                    IF i = 0 THEN <<>>
                    ELSE IF t[i].usable THEN Append(g[i - 1], t[i].name) ELSE g[i - 1]]
<1>0. Len(t) \in Nat
    OBVIOUS
<1>1. h = [i \in 0..Len(t) |-> IF i = 0 THEN <<>>
              ELSE IF t[i].usable THEN Append(h[i - 1], t[i].name) ELSE h[i - 1]]
    BY NamesExist DEF Longer
<1>2. buf_put_algolist(t) = h[Len(t)]
    BY DEF buf_put_algolist
<1> HIDE DEF h
<1>3. h[0] = <<>> /\ \A i \in 1..Len(t) :
        h[i] = IF t[i].usable THEN Append(h[i - 1], t[i].name) ELSE h[i - 1]
    <2>1. 0 \in 0..Len(t) /\ \A i \in 1..Len(t) : i \in 0..Len(t) /\ i # 0
        BY <1>0
    <2>2. \A i \in 0..Len(t) : h[i] = IF i = 0 THEN <<>>
              ELSE IF t[i].usable THEN Append(h[i - 1], t[i].name) ELSE h[i - 1]
        <3>1. PICK F : F = [i \in 0..Len(t) |-> IF i = 0 THEN <<>>
              ELSE IF t[i].usable THEN Append(h[i - 1], t[i].name) ELSE h[i - 1]]
            OBVIOUS
        <3>2. h = F
            BY <1>1, <3>1
        <3>3. \A i \in 0..Len(t) : F[i] = IF i = 0 THEN <<>>
              ELSE IF t[i].usable THEN Append(h[i - 1], t[i].name) ELSE h[i - 1]
            BY <3>1
        <3>4. QED
            BY <3>2, <3>3
    <2>3. QED
        BY <2>1, <2>2
<1> DEFINE P == {n \in 0..Len(t) : \E f : Picks(f, h[n], t, n)}
<1>4. 0 \in P
    <2>1. PICK f : f = [i \in 1..0 |-> 0]
        OBVIOUS
    <2>2. <<>> \in Seq(Names) /\ Len(<<>>) = 0 /\ f \in [1..0 -> 1..0]
        BY <2>1
    <2>3. Picks(f, <<>>, t, 0)
        BY <2>2 DEF Picks
    <2>4. 0 \in 0..Len(t)
        BY <1>0
    <2>5. QED
        BY <1>3, <2>3, <2>4
<1>5. ASSUME NEW n \in 0..Len(t), n \in P, n < Len(t) PROVE n + 1 \in P
    <2>1. PICK f, l : Picks(f, l, t, n) /\ l = h[n]
        BY <1>5
    <2>2. n + 1 \in 0..Len(t) /\ n + 1 \in 1..Len(t) /\ (n + 1) - 1 = n /\ n \in Nat
        BY <1>0, <1>5
    <2>3. h[n + 1] = IF t[n + 1].usable THEN Append(l, t[n + 1].name) ELSE l
        BY <1>3, <2>1, <2>2
    <2>4. CASE ~t[n + 1].usable
        <3>1. f \in [1..Len(l) -> 1..(n + 1)] /\ \A k \in 1..(n + 1) : k \in 1..n \/ k = n + 1
            BY <2>1, <2>2 DEF Picks
        <3>2. Picks(f, l, t, n + 1)
            BY <2>1, <2>4, <3>1 DEF Picks
        <3>3. QED
            BY <2>2, <2>3, <2>4, <3>2
    <2>5. CASE t[n + 1].usable
        <3>1. PICK x, m, a : x = t[n + 1].name /\ m = Len(l) /\ a = Append(l, x)
            OBVIOUS
        <3>2. x \in Names /\ l \in Seq(Names) /\ m \in Nat
            <4>1. t[n + 1] \in Entry
                BY <2>2
            <4>2. QED
                BY <2>1, <3>1, <4>1 DEF Picks, Entry
        <3>3. /\ a \in Seq(Names) /\ Len(a) = m + 1 /\ a[m + 1] = x
              /\ \A i \in 1..m : a[i] = l[i]
            BY <3>1, <3>2
        <3>4. PICK g : g = [i \in 1..(m + 1) |-> IF i <= m THEN f[i] ELSE n + 1]
            OBVIOUS
        <3>5. /\ f \in [1..m -> 1..n]
              /\ \A i \in 1..m : t[f[i]].usable /\ l[i] = t[f[i]].name
              /\ \A i, j \in 1..m : i < j => f[i] < f[j]
              /\ \A k \in 1..n : t[k].usable => \E i \in 1..m : f[i] = k
            BY <2>1, <3>1 DEF Picks
        <3>6. (\A i \in 1..m : g[i] = f[i]) /\ g[m + 1] = n + 1
            BY <3>2, <3>4
        <3>7. \A i \in 1..(m + 1) : i \in 1..m \/ i = m + 1
            BY <3>2
        <3>8. g \in [1..(m + 1) -> 1..(n + 1)]
            BY <2>2, <3>2, <3>4, <3>5
        <3>9. \A i \in 1..(m + 1) : t[g[i]].usable /\ a[i] = t[g[i]].name
            BY <2>5, <3>1, <3>3, <3>5, <3>6, <3>7
        <3>10. ASSUME NEW i \in 1..(m + 1), NEW j \in 1..(m + 1), i < j PROVE g[i] < g[j]
            <4>1. i \in 1..m
                BY <3>2, <3>10
            <4>2. CASE j \in 1..m
                BY <3>5, <3>6, <3>10, <4>1, <4>2
            <4>3. CASE j = m + 1
                <5>1. g[i] \in 1..n /\ g[j] = n + 1
                    BY <3>5, <3>6, <4>1, <4>3
                <5>2. QED
                    BY <2>2, <5>1
            <4>4. QED
                BY <3>7, <4>2, <4>3
        <3>11. ASSUME NEW k \in 1..(n + 1), t[k].usable PROVE \E i \in 1..(m + 1) : g[i] = k
            <4>1. CASE k = n + 1
                <5>1. m + 1 \in 1..(m + 1)
                    BY <3>2
                <5>2. QED
                    BY <3>6, <4>1, <5>1
            <4>2. CASE k # n + 1
                <5>1. k \in 1..n
                    BY <2>2, <4>2
                <5>2. PICK i \in 1..m : f[i] = k
                    BY <3>5, <3>11, <5>1
                <5>3. i \in 1..(m + 1)
                    BY <3>2
                <5>4. QED
                    BY <3>6, <5>2, <5>3
            <4>3. QED
                BY <4>1, <4>2
        <3>12. Picks(g, a, t, n + 1)
            BY <3>3, <3>8, <3>9, <3>10, <3>11 DEF Picks
        <3>13. QED
            BY <2>2, <2>3, <2>5, <3>1, <3>12
    <2>6. QED
        BY <2>4, <2>5
<1>6. Len(t) \in P
    <2> HIDE DEF P
    <2>1. \A i \in 0..Len(t) : i \in P /\ i < Len(t) => i + 1 \in P
        BY <1>5
    <2>2. \A i \in 0..Len(t) : i \in P
        BY <1>0, <1>4, <2>1, UpTo
    <2>3. Len(t) \in 0..Len(t)
        BY <1>0
    <2>4. QED
        BY <2>2, <2>3
<1>7. QED
    BY <1>2, <1>6

\* The same, in terms of who is named.
LEMMA ListHas ==
    ASSUME NEW t \in Seq(Entry), NEW a
    PROVE  buf_has_algo(buf_put_algolist(t), a)
             <=> \E k \in 1..Len(t) : t[k].usable /\ t[k].name = a
<1>1. PICK f, l : Picks(f, l, t, Len(t)) /\ l = buf_put_algolist(t)
    BY ListIs
<1>2. /\ f \in [1..Len(l) -> 1..Len(t)]
      /\ \A i \in 1..Len(l) : t[f[i]].usable /\ l[i] = t[f[i]].name
      /\ \A k \in 1..Len(t) : t[k].usable => \E i \in 1..Len(l) : f[i] = k
    BY <1>1 DEF Picks
<1>3. buf_has_algo(l, a) => \E k \in 1..Len(t) : t[k].usable /\ t[k].name = a
    BY <1>2 DEF buf_has_algo
<1>4. ASSUME NEW k \in 1..Len(t), t[k].usable, t[k].name = a PROVE buf_has_algo(l, a)
    <2>1. PICK i \in 1..Len(l) : f[i] = k
        BY <1>2, <1>4
    <2>2. l[i] = a
        BY <1>2, <1>4, <2>1
    <2>3. QED
        BY <2>2 DEF buf_has_algo
<1>5. QED
    BY <1>1, <1>3, <1>4

\* A usable first entry is the first name sent.
LEMMA ListFirst ==
    ASSUME NEW t \in Seq(Entry), t # <<>>, t[1].usable
    PROVE  /\ Len(buf_put_algolist(t)) \in Nat /\ Len(buf_put_algolist(t)) >= 1
           /\ buf_put_algolist(t)[1] = t[1].name
<1>1. PICK f, l : Picks(f, l, t, Len(t)) /\ l = buf_put_algolist(t)
    BY ListIs
<1>2. /\ l \in Seq(Names)
      /\ f \in [1..Len(l) -> 1..Len(t)]
      /\ \A i \in 1..Len(l) : t[f[i]].usable /\ l[i] = t[f[i]].name
      /\ \A i, j \in 1..Len(l) : i < j => f[i] < f[j]
      /\ \A k \in 1..Len(t) : t[k].usable => \E i \in 1..Len(l) : f[i] = k
    BY <1>1 DEF Picks
<1>3. 1 \in 1..Len(t)
    OBVIOUS
<1>4. PICK i \in 1..Len(l) : f[i] = 1
    BY <1>2, <1>3
<1>5. Len(l) \in Nat
    BY <1>2
<1>6. Len(l) >= 1 /\ 1 \in 1..Len(l)
    BY <1>4, <1>5
<1>7. f[1] = 1
    <2>1. f[1] \in 1..Len(t) /\ i \in Nat /\ Len(t) \in Nat
        BY <1>2, <1>6
    <2>2. 1 < i => f[1] < f[i]
        BY <1>2, <1>6
    <2>3. f[1] >= 1 /\ f[1] \in Nat /\ i >= 1
        BY <2>1
    <2>4. QED
        BY <1>4, <2>1, <2>2, <2>3
<1>8. l[1] = t[1].name
    BY <1>2, <1>6, <1>7
<1>9. QED
    BY <1>1, <1>5, <1>6, <1>8

LEMMA ListType ==
    ASSUME NEW t \in Seq(Entry)
    PROVE  /\ buf_put_algolist(t) \in Seq(Names)
           /\ Len(buf_put_algolist(t)) \in Nat
           /\ \A i \in 1..Len(buf_put_algolist(t)) : buf_put_algolist(t)[i] \in Names
<1>1. PICK f, l : Picks(f, l, t, Len(t)) /\ l = buf_put_algolist(t)
    BY ListIs
<1>2. l \in Seq(Names)
    BY <1>1 DEF Picks
<1>3. Len(l) \in Nat /\ \A i \in 1..Len(l) : l[i] \in Names
    BY <1>2
<1>4. QED
    BY <1>1, <1>2, <1>3

-----------------------------------------------------------------------------
(* What is picked from two lists *)

\* Entry k of table t is for name r[i].
Hit(t, k, r, i) == t[k].usable /\ t[k].name = r[i]

\* m is what the server finds in its table t for the list r.
SvrFinds(m, t, r) ==
    \/ /\ m.algo = NULL /\ m.i = 0 /\ m.j = 0
       /\ \A i \in 1..Len(r), k \in 1..Len(t) : ~Hit(t, k, r, i)
    \/ /\ m.i \in 1..Len(r) /\ m.j \in 1..Len(t)
       /\ m.algo = r[m.i] /\ Hit(t, m.j, r, m.i)
       /\ \A i \in 1..Len(r), k \in 1..Len(t) :
             Hit(t, k, r, i) => m.i < i \/ (m.i = i /\ m.j <= k)

\* And the client, whose own table comes first.
CliFinds(m, t, r) ==
    \/ /\ m.algo = NULL /\ m.i = 0 /\ m.j = 0
       /\ \A k \in 1..Len(t), j \in 1..Len(r) : ~Hit(t, k, r, j)
    \/ /\ m.i \in 1..Len(t) /\ m.j \in 1..Len(r)
       /\ m.algo = r[m.j] /\ Hit(t, m.i, r, m.j)
       /\ \A k \in 1..Len(t), j \in 1..Len(r) :
             Hit(t, k, r, j) => m.i < k \/ (m.i = k /\ m.j <= j)

LEMMA SvrMatch ==
    ASSUME NEW t \in Seq(Entry), NEW r \in Seq(Names)
    PROVE  SvrFinds(Match(TRUE, t, r), t, r)
<1> DEFINE mine == [i \in 1..Len(t) |-> IF t[i].usable THEN t[i].name ELSE NULL]
           hits == {h \in (1..Len(r)) \X (1..Len(mine)) : r[h[1]] # NULL /\ r[h[1]] = mine[h[2]]}
           first == CHOOSE h \in hits : \A g \in hits : h[1] < g[1] \/ (h[1] = g[1] /\ h[2] <= g[2])
<1>1. Match(TRUE, t, r) = IF hits = {} THEN [algo |-> NULL, i |-> 0, j |-> 0]
                          ELSE [algo |-> r[first[1]], i |-> first[1], j |-> first[2]]
    BY DEF Match
<1>2. Len(t) \in Nat /\ Len(r) \in Nat /\ \A i \in 1..Len(r) : r[i] \in Names
    OBVIOUS
<1>3. Len(mine) = Len(t)
    BY <1>2
<1>4. \A i \in 1..Len(r), k \in 1..Len(t) : <<i, k>> \in hits <=> Hit(t, k, r, i)
    <2>1. \A i \in 1..Len(r) : r[i] # NULL
        BY <1>2, KexAlgoAssumption
    <2>2. QED
        BY <1>2, <1>3, <2>1 DEF Hit
<1>5. hits \subseteq (1..Len(r)) \X (1..Len(t))
    BY <1>3
<1> HIDE DEF hits, mine
<1>6. CASE hits = {}
    <2>1. \A i \in 1..Len(r), k \in 1..Len(t) : ~Hit(t, k, r, i)
        BY <1>4, <1>6
    <2>2. PICK m : m = Match(TRUE, t, r)
        OBVIOUS
    <2>3. m = [algo |-> NULL, i |-> 0, j |-> 0]
        BY <1>1, <1>6, <2>2, Zenon
    <2>4. SvrFinds(m, t, r)
        BY <2>1, <2>3 DEF SvrFinds
    <2>5. QED
        BY <2>2, <2>4
<1>7. CASE hits # {}
    <2>1. /\ first \in hits
          /\ \A g \in hits : first[1] < g[1] \/ (first[1] = g[1] /\ first[2] <= g[2])
        <3>1. hits \subseteq Nat \X Nat
            BY <1>2, <1>5
        <3>2. \E h \in hits : \A g \in hits : h[1] < g[1] \/ (h[1] = g[1] /\ h[2] <= g[2])
            BY <1>7, <3>1, FirstPair
        <3>3. QED
            BY <3>2
    <2> HIDE DEF first
    <2>2. PICK a \in 1..Len(r), b \in 1..Len(t) : first = <<a, b>>
        BY <1>5, <2>1
    <2>3. Hit(t, b, r, a)
        BY <1>4, <2>1, <2>2
    <2>4. ASSUME NEW i \in 1..Len(r), NEW k \in 1..Len(t), Hit(t, k, r, i)
          PROVE  a < i \/ (a = i /\ b <= k)
        <3>1. <<i, k>> \in hits
            BY <1>4, <2>4
        <3>2. QED
            BY <2>1, <2>2, <3>1
    <2>5. PICK m : m = Match(TRUE, t, r)
        OBVIOUS
    <2>6. m.algo = r[a] /\ m.i = a /\ m.j = b
        <3>1. m = [algo |-> r[first[1]], i |-> first[1], j |-> first[2]]
            BY <1>1, <1>7, <2>5, Zenon
        <3>2. QED
            BY <2>2, <3>1
    <2>7. SvrFinds(m, t, r)
        BY <2>3, <2>4, <2>6 DEF SvrFinds
    <2>8. QED
        BY <2>5, <2>7
<1>8. QED
    BY <1>6, <1>7

LEMMA CliMatch ==
    ASSUME NEW t \in Seq(Entry), NEW r \in Seq(Names)
    PROVE  CliFinds(Match(FALSE, t, r), t, r)
<1> DEFINE mine == [i \in 1..Len(t) |-> IF t[i].usable THEN t[i].name ELSE NULL]
           hits == {h \in (1..Len(mine)) \X (1..Len(r)) : mine[h[1]] # NULL /\ mine[h[1]] = r[h[2]]}
           first == CHOOSE h \in hits : \A g \in hits : h[1] < g[1] \/ (h[1] = g[1] /\ h[2] <= g[2])
<1>1. Match(FALSE, t, r) = IF hits = {} THEN [algo |-> NULL, i |-> 0, j |-> 0]
                           ELSE [algo |-> mine[first[1]], i |-> first[1], j |-> first[2]]
    BY DEF Match
<1>2. /\ Len(t) \in Nat /\ Len(r) \in Nat
      /\ \A i \in 1..Len(r) : r[i] \in Names
      /\ \A i \in 1..Len(t) : t[i] \in Entry
    OBVIOUS
<1>3. Len(mine) = Len(t)
    BY <1>2
<1>4. \A k \in 1..Len(t), j \in 1..Len(r) : <<k, j>> \in hits <=> Hit(t, k, r, j)
    <2>1. \A i \in 1..Len(r) : r[i] # NULL
        BY <1>2, KexAlgoAssumption
    <2>2. QED
        BY <1>2, <1>3, <2>1 DEF Hit
<1>5. hits \subseteq (1..Len(t)) \X (1..Len(r))
    BY <1>3
<1>6. \A k \in 1..Len(t) : t[k].usable => mine[k] = t[k].name
    OBVIOUS
<1> HIDE DEF hits, mine
<1>7. CASE hits = {}
    <2>1. \A k \in 1..Len(t), j \in 1..Len(r) : ~Hit(t, k, r, j)
        BY <1>4, <1>7
    <2>2. PICK m : m = Match(FALSE, t, r)
        OBVIOUS
    <2>3. m = [algo |-> NULL, i |-> 0, j |-> 0]
        BY <1>1, <1>7, <2>2, Zenon
    <2>4. CliFinds(m, t, r)
        BY <2>1, <2>3 DEF CliFinds
    <2>5. QED
        BY <2>2, <2>4
<1>8. CASE hits # {}
    <2>1. /\ first \in hits
          /\ \A g \in hits : first[1] < g[1] \/ (first[1] = g[1] /\ first[2] <= g[2])
        <3>1. hits \subseteq Nat \X Nat
            BY <1>2, <1>5
        <3>2. \E h \in hits : \A g \in hits : h[1] < g[1] \/ (h[1] = g[1] /\ h[2] <= g[2])
            BY <1>8, <3>1, FirstPair
        <3>3. QED
            BY <3>2
    <2> HIDE DEF first
    <2>2. PICK a \in 1..Len(t), b \in 1..Len(r) : first = <<a, b>>
        BY <1>5, <2>1
    <2>3. Hit(t, a, r, b)
        BY <1>4, <2>1, <2>2
    <2>4. ASSUME NEW k \in 1..Len(t), NEW j \in 1..Len(r), Hit(t, k, r, j)
          PROVE  a < k \/ (a = k /\ b <= j)
        <3>1. <<k, j>> \in hits
            BY <1>4, <2>4
        <3>2. QED
            BY <2>1, <2>2, <3>1
    <2>5. PICK m : m = Match(FALSE, t, r)
        OBVIOUS
    <2>6. m.algo = r[b] /\ m.i = a /\ m.j = b
        <3>1. m = [algo |-> mine[first[1]], i |-> first[1], j |-> first[2]]
            BY <1>1, <1>8, <2>5, Zenon
        <3>2. m.algo = mine[a] /\ m.i = a /\ m.j = b
            BY <2>2, <3>1
        <3>3. QED
            BY <1>6, <2>3, <3>2 DEF Hit
    <2>7. CliFinds(m, t, r)
        BY <2>3, <2>4, <2>6 DEF CliFinds
    <2>8. QED
        BY <2>5, <2>7
<1>9. QED
    BY <1>7, <1>8

\* a is what RFC 4253 picks from the two lists, NULL if there is nothing.
Picked(a, cw, sw) ==
    /\ a = NULL => \A i \in 1..Len(cw) : ~buf_has_algo(sw, cw[i])
    /\ a # NULL => FirstCommon(a, cw, sw)

LEMMA PickedUnique ==
    ASSUME NEW cw \in Seq(Names), NEW sw, NEW a, NEW b, Picked(a, cw, sw), Picked(b, cw, sw)
    PROVE  a = b
<1>1. Len(cw) \in Nat
    OBVIOUS
<1>2. CASE a = NULL
    BY <1>2 DEF Picked, FirstCommon
<1>3. CASE b = NULL
    BY <1>3 DEF Picked, FirstCommon
<1>4. CASE a # NULL /\ b # NULL
    <2>1. PICK i \in 1..Len(cw) : cw[i] = a /\ \A j \in 1..(i - 1) : ~buf_has_algo(sw, cw[j])
        BY <1>4 DEF Picked, FirstCommon
    <2>2. PICK k \in 1..Len(cw) : cw[k] = b /\ \A j \in 1..(k - 1) : ~buf_has_algo(sw, cw[j])
        BY <1>4 DEF Picked, FirstCommon
    <2>3. buf_has_algo(sw, a) /\ buf_has_algo(sw, b)
        BY <1>4 DEF Picked, FirstCommon
    <2>4. ~(i < k)
        <3>1. i < k => i \in 1..(k - 1)
            BY <1>1
        <3>2. QED
            BY <2>1, <2>2, <2>3, <3>1
    <2>5. ~(k < i)
        <3>1. k < i => k \in 1..(i - 1)
            BY <1>1
        <3>2. QED
            BY <2>1, <2>2, <2>3, <3>1
    <2>6. i = k
        BY <1>1, <2>4, <2>5
    <2>7. QED
        BY <2>1, <2>2, <2>6
<1>5. QED
    BY <1>2, <1>3, <1>4

LEMMA SvrPicks ==
    ASSUME NEW ts \in Seq(Entry), NEW cw \in Seq(Names), NEW m, SvrFinds(m, ts, cw)
    PROVE  /\ Picked(m.algo, cw, buf_put_algolist(ts))
           /\ m.algo = NULL => m.i = 0 /\ m.j = 0
           /\ Len(cw) >= 1 => (m.i = 1 <=> buf_has_algo(buf_put_algolist(ts), cw[1]))
           /\ m.i = 1 => m.algo = cw[1]
<1>1. PICK sw : sw = buf_put_algolist(ts)
    OBVIOUS
<1>2. \A i \in 1..Len(cw) : buf_has_algo(sw, cw[i]) <=> \E k \in 1..Len(ts) : Hit(ts, k, cw, i)
    BY <1>1, ListHas DEF Hit
<1>3. Len(cw) \in Nat /\ Len(ts) \in Nat /\ \A i \in 1..Len(cw) : cw[i] # NULL
    <2>1. \A i \in 1..Len(cw) : cw[i] \in Names
        OBVIOUS
    <2>2. QED
        BY <2>1, KexAlgoAssumption
<1>4. CASE m.algo = NULL
    <2>1. /\ m.i = 0 /\ m.j = 0
          /\ \A i \in 1..Len(cw), k \in 1..Len(ts) : ~Hit(ts, k, cw, i)
        BY <1>3, <1>4 DEF SvrFinds
    <2>2. \A i \in 1..Len(cw) : ~buf_has_algo(sw, cw[i])
        BY <1>2, <2>1
    <2>3. Len(cw) >= 1 => 1 \in 1..Len(cw)
        BY <1>3
    <2>4. QED
        BY <1>1, <1>4, <2>1, <2>2, <2>3 DEF Picked
<1>5. CASE m.algo # NULL
    <2>1. PICK i \in 1..Len(cw), k \in 1..Len(ts) :
             /\ m.i = i /\ m.j = k /\ m.algo = cw[i] /\ Hit(ts, k, cw, i)
             /\ \A g \in 1..Len(cw), l \in 1..Len(ts) :
                   Hit(ts, l, cw, g) => i < g \/ (i = g /\ k <= l)
        BY <1>5 DEF SvrFinds
    <2>2. buf_has_algo(sw, cw[i])
        BY <1>2, <2>1
    <2>3. \A g \in 1..Len(cw) : buf_has_algo(sw, cw[g]) => i < g \/ i = g
        BY <1>2, <2>1
    <2>4. ASSUME NEW g \in 1..(i - 1) PROVE ~buf_has_algo(sw, cw[g])
        <3>1. g \in 1..Len(cw) /\ ~(i < g \/ i = g)
            BY <1>3
        <3>2. QED
            BY <2>3, <3>1
    <2>5. FirstCommon(m.algo, cw, sw)
        BY <2>1, <2>2, <2>4 DEF FirstCommon
    <2>6. Len(cw) >= 1 => (i = 1 <=> buf_has_algo(sw, cw[1]))
        <3>1. Len(cw) >= 1 => 1 \in 1..Len(cw) /\ ~(i < 1)
            BY <1>3
        <3>2. QED
            BY <2>2, <2>3, <3>1
    <2>7. QED
        BY <1>1, <1>5, <2>1, <2>5, <2>6 DEF Picked
<1>6. QED
    BY <1>4, <1>5

LEMMA CliPicks ==
    ASSUME NEW tc \in Seq(Entry), NEW sw \in Seq(Names), NEW m, CliFinds(m, tc, sw)
    PROVE  /\ Picked(m.algo, buf_put_algolist(tc), sw)
           /\ m.algo = NULL => m.i = 0 /\ m.j = 0
           /\ tc # <<>> /\ tc[1].usable => (m.i = 1 <=> buf_has_algo(sw, tc[1].name))
<1>1. PICK f, cw : Picks(f, cw, tc, Len(tc)) /\ cw = buf_put_algolist(tc)
    BY ListIs
<1>2. /\ cw \in Seq(Names)
      /\ f \in [1..Len(cw) -> 1..Len(tc)]
      /\ \A i \in 1..Len(cw) : tc[f[i]].usable /\ cw[i] = tc[f[i]].name
      /\ \A i, j \in 1..Len(cw) : i < j => f[i] < f[j]
      /\ \A k \in 1..Len(tc) : tc[k].usable => \E i \in 1..Len(cw) : f[i] = k
    BY <1>1 DEF Picks
<1>3. Len(cw) \in Nat /\ Len(tc) \in Nat /\ Len(sw) \in Nat /\ \A j \in 1..Len(sw) : sw[j] # NULL
    <2>1. \A j \in 1..Len(sw) : sw[j] \in Names
        OBVIOUS
    <2>2. QED
        BY <1>2, <2>1, KexAlgoAssumption
<1>4. \A k \in 1..Len(tc) : tc[k].usable =>
         (buf_has_algo(sw, tc[k].name) <=> \E j \in 1..Len(sw) : Hit(tc, k, sw, j))
    BY DEF Hit, buf_has_algo
<1>5. CASE m.algo = NULL
    <2>1. /\ m.i = 0 /\ m.j = 0
          /\ \A k \in 1..Len(tc), j \in 1..Len(sw) : ~Hit(tc, k, sw, j)
        BY <1>3, <1>5 DEF CliFinds
    <2>2. \A k \in 1..Len(tc) : tc[k].usable => ~buf_has_algo(sw, tc[k].name)
        BY <1>4, <2>1
    <2>3. \A i \in 1..Len(cw) : ~buf_has_algo(sw, cw[i])
        BY <1>2, <2>2
    <2>4. tc # <<>> => 1 \in 1..Len(tc)
        BY <1>3
    <2>5. QED
        BY <1>1, <1>5, <2>1, <2>2, <2>3, <2>4 DEF Picked
<1>6. CASE m.algo # NULL
    <2>1. PICK k \in 1..Len(tc), j \in 1..Len(sw) :
             /\ m.i = k /\ m.j = j /\ m.algo = sw[j] /\ Hit(tc, k, sw, j)
             /\ \A g \in 1..Len(tc), l \in 1..Len(sw) :
                   Hit(tc, g, sw, l) => k < g \/ (k = g /\ j <= l)
        BY <1>6 DEF CliFinds
    <2>2. tc[k].usable /\ tc[k].name = m.algo /\ buf_has_algo(sw, m.algo)
        BY <2>1 DEF Hit, buf_has_algo
    <2>3. \A g \in 1..Len(tc) : tc[g].usable /\ buf_has_algo(sw, tc[g].name) => k < g \/ k = g
        BY <1>4, <2>1
    <2>4. PICK i \in 1..Len(cw) : f[i] = k
        BY <1>2, <2>2
    <2>5. cw[i] = m.algo
        BY <1>2, <2>2, <2>4
    <2>6. ASSUME NEW h \in 1..(i - 1) PROVE ~buf_has_algo(sw, cw[h])
        <3>1. h \in 1..Len(cw) /\ h < i
            BY <1>3
        <3>2. f[h] \in 1..Len(tc) /\ f[h] < k
            BY <1>2, <2>4, <3>1
        <3>3. ~(k < f[h] \/ k = f[h])
            BY <1>3, <3>2
        <3>4. tc[f[h]].usable /\ cw[h] = tc[f[h]].name
            BY <1>2, <3>1
        <3>5. QED
            BY <2>3, <3>2, <3>3, <3>4
    <2>7. FirstCommon(m.algo, cw, sw)
        BY <2>2, <2>5, <2>6 DEF FirstCommon
    <2>8. tc # <<>> /\ tc[1].usable => (k = 1 <=> buf_has_algo(sw, tc[1].name))
        <3>1. tc # <<>> => 1 \in 1..Len(tc) /\ ~(k < 1)
            BY <1>3
        <3>2. QED
            BY <2>2, <2>3, <3>1
    <2>9. QED
        BY <1>1, <1>6, <2>1, <2>7, <2>8 DEF Picked
<1>7. QED
    BY <1>5, <1>6

\* Both ends pick the same; whether it is what the client guessed they judge
\* alike, except that the server may find it later in its table than in the
\* list it sent.
Alike(tc, ts, cw, sw, ms, mc) ==
    /\ ms.algo = mc.algo /\ Picked(ms.algo, cw, sw)
    /\ tc = <<>> \/ tc[1].usable => (ms.i = 1 <=> mc.i = 1)
    /\ ms.i = 1 => ms.algo = cw[1]
    /\ ms.j = 1 => mc.j = 1
    /\ mc.j = 1 /\ ts[1].usable => ms.j = 1

LEMMA SameFind ==
    ASSUME NEW tc \in Seq(Entry), NEW ts \in Seq(Entry), NEW ms, NEW mc, NEW cw, NEW sw,
           cw = buf_put_algolist(tc), sw = buf_put_algolist(ts),
           SvrFinds(ms, ts, cw), CliFinds(mc, tc, sw)
    PROVE  Alike(tc, ts, cw, sw, ms, mc)
<1>1. /\ cw \in Seq(Names) /\ Len(cw) \in Nat
      /\ sw \in Seq(Names) /\ Len(sw) \in Nat
      /\ \A i \in 1..Len(sw) : sw[i] \in Names
    BY ListType
<1>2. SvrFinds(ms, ts, cw) /\ CliFinds(mc, tc, sw)
    OBVIOUS
<1>3. /\ Picked(ms.algo, cw, sw)
      /\ ms.algo = NULL => ms.i = 0 /\ ms.j = 0
      /\ Len(cw) >= 1 => (ms.i = 1 <=> buf_has_algo(sw, cw[1]))
      /\ ms.i = 1 => ms.algo = cw[1]
    BY <1>1, <1>2, SvrPicks
<1>4. /\ Picked(mc.algo, cw, sw)
      /\ mc.algo = NULL => mc.i = 0 /\ mc.j = 0
      /\ tc # <<>> /\ tc[1].usable => (mc.i = 1 <=> buf_has_algo(sw, tc[1].name))
    BY <1>1, <1>2, CliPicks
<1>5. ms.algo = mc.algo
    BY <1>1, <1>3, <1>4, PickedUnique
<1>6. tc # <<>> /\ tc[1].usable => Len(cw) >= 1 /\ cw[1] = tc[1].name
    BY ListFirst
<1>7. ts # <<>> /\ ts[1].usable => Len(sw) >= 1 /\ sw[1] = ts[1].name
    BY ListFirst
<1>8. ASSUME ms.j = 1 PROVE mc.j = 1
    <2>1. ms.algo # NULL
        BY <1>3, <1>8
    <2>2. 1 \in 1..Len(ts) /\ ts[1].usable /\ ts[1].name = ms.algo
        BY <1>2, <1>8, <2>1 DEF SvrFinds, Hit
    <2>3. ts # <<>>
        BY <2>2
    <2>4. Len(sw) >= 1 /\ sw[1] = mc.algo /\ 1 \in 1..Len(sw)
        BY <1>1, <1>5, <1>7, <2>2, <2>3
    <2>5. PICK k \in 1..Len(tc), j \in 1..Len(sw) :
             /\ mc.j = j /\ mc.algo = sw[j] /\ Hit(tc, k, sw, j)
             /\ \A g \in 1..Len(tc), l \in 1..Len(sw) :
                   Hit(tc, g, sw, l) => k < g \/ (k = g /\ j <= l)
        BY <1>2, <1>5, <2>1 DEF CliFinds
    <2>6. Hit(tc, k, sw, 1)
        BY <2>4, <2>5 DEF Hit
    <2>7. k < k \/ j <= 1
        BY <2>4, <2>5, <2>6
    <2>8. QED
        BY <1>1, <2>5, <2>7
<1>9. ASSUME mc.j = 1, ts[1].usable PROVE ms.j = 1
    <2>1. mc.algo # NULL
        BY <1>4, <1>9
    <2>2. 1 \in 1..Len(sw) /\ mc.algo = sw[1]
        BY <1>2, <1>9, <2>1 DEF CliFinds
    <2>3. ts # <<>>
        <3>1. buf_has_algo(sw, sw[1])
            BY <2>2 DEF buf_has_algo
        <3>2. \E k \in 1..Len(ts) : ts[k].usable
            BY <3>1, ListHas
        <3>3. QED
            BY <3>2
    <2>4. ts[1].name = ms.algo /\ 1 \in 1..Len(ts)
        BY <1>5, <1>7, <1>9, <2>2, <2>3
    <2>5. PICK i \in 1..Len(cw), k \in 1..Len(ts) :
             /\ ms.j = k /\ ms.algo = cw[i]
             /\ \A g \in 1..Len(cw), l \in 1..Len(ts) :
                   Hit(ts, l, cw, g) => i < g \/ (i = g /\ k <= l)
        BY <1>2, <1>5, <2>1 DEF SvrFinds
    <2>6. Hit(ts, 1, cw, i)
        BY <1>9, <2>4, <2>5 DEF Hit
    <2>7. i < i \/ k <= 1
        BY <2>4, <2>5, <2>6
    <2>8. QED
        BY <1>1, <2>5, <2>7
<1>10. tc = <<>> => ms.i # 1 /\ mc.i # 1
    <2> SUFFICES ASSUME tc = <<>> PROVE ms.i # 1 /\ mc.i # 1
        OBVIOUS
    <2>1. ASSUME NEW a PROVE ~buf_has_algo(cw, a)
        <3>1. ~\E k \in 1..Len(tc) : tc[k].usable /\ tc[k].name = a
            OBVIOUS
        <3>2. QED
            BY <3>1, ListHas
    <2>2. \A i : i \notin 1..Len(cw)
        BY <2>1 DEF buf_has_algo
    <2>3. ms.i = 0
        BY <1>2, <2>2 DEF SvrFinds
    <2>4. mc.i = 0
        BY <1>2 DEF CliFinds
    <2>5. QED
        BY <2>3, <2>4
<1>11. QED
    BY <1>3, <1>4, <1>5, <1>6, <1>8, <1>9, <1>10 DEF Alike

LEMMA SamePick ==
    ASSUME NEW tc \in Seq(Entry), NEW ts \in Seq(Entry), NEW cw, NEW sw,
           cw = buf_put_algolist(tc), sw = buf_put_algolist(ts)
    PROVE  Alike(tc, ts, cw, sw, Match(TRUE, ts, cw), Match(FALSE, tc, sw))
<1>1. cw \in Seq(Names) /\ sw \in Seq(Names)
    BY ListType
<1>2. SvrFinds(Match(TRUE, ts, cw), ts, cw) /\ CliFinds(Match(FALSE, tc, sw), tc, sw)
    BY <1>1, SvrMatch, CliMatch
<1>3. QED
    BY <1>2, SameFind

AlikeAlgo(tc, ts, cw, sw) == Match(TRUE, ts, cw).algo = Match(FALSE, tc, sw).algo

LEMMA SameAlgo ==
    ASSUME NEW tc \in Seq(Entry), NEW ts \in Seq(Entry), NEW cw, NEW sw,
           cw = buf_put_algolist(tc), sw = buf_put_algolist(ts)
    PROVE  AlikeAlgo(tc, ts, cw, sw)
<1>1. PICK ms, mc : ms = Match(TRUE, ts, cw) /\ mc = Match(FALSE, tc, sw)
    OBVIOUS
<1>2. Alike(tc, ts, cw, sw, ms, mc)
    BY <1>1, SamePick
<1>3. ms.algo = mc.algo
    BY <1>2 DEF Alike
<1>4. QED
    BY <1>1, <1>3 DEF AlikeAlgo

-----------------------------------------------------------------------------
(* What an exchange comes to *)

\* What read_kex_algos makes of what it picked.
Whole(kex, sig, keys) ==
    /\ kex \notin {NULL} \cup Markers /\ sig # NULL
    /\ NULL \notin {keys.cipher, keys.mac, keys.comp_c2s, keys.comp_s2c}
Way(keys, comp) == [cipher |-> keys.cipher, mac |-> keys.mac, comp |-> comp]
Picks4(ci, m, cc, sc) ==
    [cipher |-> ci, mac |-> IF ci \in Aead THEN "implicit" ELSE m, comp_c2s |-> cc, comp_s2c |-> sc]
Good(m, g) == m.i = 1 /\ (g \/ m.j = 1)
Guessing(t, r) == Guess2 \in InTable(t.kex) /\ buf_has_algo(r.kex, Guess2)
Keys(b, t, r) == Picks4(Match(b, t.cipher, r.cipher).algo, Match(b, t.mac, r.mac).algo,
                        Match(b, t.comp_c2s, r.comp_c2s).algo, Match(b, t.comp_s2c, r.comp_s2c).algo)

Sums(n, kex, sig, keys, g, sent, received) ==
    /\ n.kex = kex.algo /\ n.sig = sig.algo
    /\ n.ok = Whole(kex.algo, sig.algo, keys)
    /\ n.keys.trans = Way(keys, sent) /\ n.keys.recv = Way(keys, received)
    /\ n.allgood = (Good(kex, g) /\ Good(sig, g))

LEMMA SvrReads ==
    ASSUME NEW t, NEW r, NEW kex, NEW sig, NEW keys, NEW n,
           kex = Match(TRUE, t.kex, r.kex), sig = Match(TRUE, t.sig, r.sig),
           keys = Keys(TRUE, t, r), n = read_kex_algos("svr", t, r)
    PROVE  Sums(n, kex, sig, keys, Guessing(t, r), keys.comp_s2c, keys.comp_c2s)
    BY DEF read_kex_algos, buf_match_algo, Direction, Whole, Way, Picks4, Good, Guessing, Keys, Sums

LEMMA CliReads ==
    ASSUME NEW t, NEW r, NEW kex, NEW sig, NEW keys, NEW n,
           kex = Match(FALSE, t.kex, r.kex), sig = Match(FALSE, t.sig, r.sig),
           keys = Keys(FALSE, t, r), n = read_kex_algos("cli", t, r)
    PROVE  Sums(n, kex, sig, keys, Guessing(t, r), keys.comp_c2s, keys.comp_s2c)
    BY DEF read_kex_algos, buf_match_algo, Direction, Whole, Way, Picks4, Good, Guessing, Keys, Sums

ConfOk(c) ==
    /\ c \in Configs /\ ClientOk(c.cli) /\ SideOk(c.svr)
    /\ \A i \in 1..Len(c.svr.sig) : c.svr.sig[i] \in HostKeys \cup Sk

\* s is the server's table of host key algorithms with some names disabled.
SigTable(c, s) ==
    /\ s \in Seq(Entry) /\ Len(s) = Len(c.svr.sig)
    /\ \A i \in 1..Len(s) : s[i].name = c.svr.sig[i]
    /\ \A i, j \in 1..Len(s) : s[i].name = s[j].name => s[i].usable = s[j].usable

LEMMA AllIs ==
    ASSUME NEW names \in Seq(Names)
    PROVE  /\ All(names) \in Seq(Entry) /\ Len(All(names)) = Len(names)
           /\ \A i \in 1..Len(names) : All(names)[i].name = names[i] /\ All(names)[i].usable
<1>1. Len(names) \in Nat /\ \A i \in 1..Len(names) : names[i] \in Names
    OBVIOUS
<1>2. PICK l : l = All(names)
    OBVIOUS
<1>3. l = [i \in 1..Len(names) |-> [name |-> names[i], usable |-> TRUE]]
    BY <1>2 DEF All
<1>4. \A i \in 1..Len(names) : l[i] \in Entry
    BY <1>1, <1>3 DEF Entry
<1>5. l \in [1..Len(names) -> Entry]
    BY <1>3, <1>4
<1>6. l \in Seq(Entry) /\ Len(l) = Len(names)
    BY <1>1, <1>5
<1>7. \A i \in 1..Len(names) : l[i].name = names[i] /\ l[i].usable
    BY <1>3
<1>8. QED
    BY <1>2, <1>6, <1>7

LEMMA CompressIs ==
    ASSUME NEW e \in Ends, NEW on
    PROVE  /\ kex_setup_compress(e, on).comp_c2s \in Seq(Names)
           /\ kex_setup_compress(e, on).comp_s2c \in Seq(Names)
<1>1. "zlib" \in Names /\ "none" \in Names
    BY KexAlgoAssumption
<1>2. <<"zlib", "none">> \in Seq(Names) /\ <<"none">> \in Seq(Names)
    BY <1>1
<1>3. QED
    BY <1>2 DEF kex_setup_compress

AreTables(t) ==
    /\ t.kex \in Seq(Entry) /\ t.sig \in Seq(Entry)
    /\ t.cipher \in Seq(Entry) /\ t.mac \in Seq(Entry)
    /\ t.comp_c2s \in Seq(Entry) /\ t.comp_s2c \in Seq(Entry)

\* The tables are tables, and nothing disabled stands first in the client's.
LEMMA TablesAre ==
    ASSUME NEW c, NEW s, ConfOk(c), SigTable(c, s), NEW e \in Ends,
           NEW t, t = Tables(e, c, s)
    PROVE  /\ t.kex = c[e].kex
           /\ t.sig = IF e = "svr" THEN s ELSE All(c.cli.sig)
           /\ AreTables(t)
           /\ e = "cli" => t.kex # <<>> /\ t.kex[1].usable /\ (t.sig = <<>> \/ t.sig[1].usable)
<1>1. c.cli \in Side /\ c.svr \in Side /\ c["cli"] \in Side /\ c["svr"] \in Side
    BY DEF ConfOk, Configs
<1>2. PICK d : d = c[e]
    OBVIOUS
<1>3. /\ d \in Side /\ d.kex \in Seq(Entry) /\ d.cipher \in Seq(Names) /\ d.mac \in Seq(Names)
      /\ c.cli.sig \in Seq(Names)
    BY <1>1, <1>2 DEF Ends, Side
<1>4. PICK x : x = kex_setup_compress(e, d.compression)
    OBVIOUS
<1>5. t = [kex |-> d.kex, sig |-> IF e = "svr" THEN s ELSE All(c.cli.sig),
           cipher |-> All(d.cipher), mac |-> All(d.mac),
           comp_c2s |-> All(x.comp_c2s), comp_s2c |-> All(x.comp_s2c)]
    BY <1>2, <1>4 DEF Tables
<1>6. /\ t.kex = d.kex /\ t.sig = IF e = "svr" THEN s ELSE All(c.cli.sig)
      /\ t.cipher = All(d.cipher) /\ t.mac = All(d.mac)
      /\ t.comp_c2s = All(x.comp_c2s) /\ t.comp_s2c = All(x.comp_s2c)
    BY <1>5
<1>7. x.comp_c2s \in Seq(Names) /\ x.comp_s2c \in Seq(Names)
    BY <1>4, CompressIs
<1>8. /\ t.cipher \in Seq(Entry) /\ t.mac \in Seq(Entry)
      /\ t.comp_c2s \in Seq(Entry) /\ t.comp_s2c \in Seq(Entry)
    BY <1>3, <1>6, <1>7, AllIs
<1>9. t.sig \in Seq(Entry)
    BY <1>3, <1>6, AllIs DEF SigTable
<1>10. ASSUME e = "cli" PROVE t.kex # <<>> /\ t.kex[1].usable /\ (t.sig = <<>> \/ t.sig[1].usable)
    <2>1. t.kex # <<>> /\ t.kex[1].usable
        BY <1>2, <1>6, <1>10 DEF ConfOk, ClientOk
    <2>2. t.sig = All(c.cli.sig)
        BY <1>6, <1>10
    <2>3. t.sig # <<>> => 1 \in 1..Len(t.sig)
        BY <1>9
    <2>4. Len(t.sig) = Len(c.cli.sig) /\ \A i \in 1..Len(c.cli.sig) : t.sig[i].usable
        BY <1>3, <2>2, AllIs
    <2>5. QED
        BY <2>1, <2>3, <2>4
<1>11. QED
    BY <1>2, <1>3, <1>6, <1>8, <1>9, <1>10 DEF AreTables


\* What each end picks when the server's host key algorithms are s.
CliPick(c, s) == read_kex_algos("cli", Tables("cli", c, s), send_msg_kexinit("svr", c, s))
SvrPick(c, s) == read_kex_algos("svr", Tables("svr", c, s), send_msg_kexinit("cli", c, s))

\* w is sent of the tables t.
Sent(t, w) ==
    /\ w.kex = buf_put_algolist(t.kex) /\ w.sig = buf_put_algolist(t.sig)
    /\ w.cipher = buf_put_algolist(t.cipher) /\ w.mac = buf_put_algolist(t.mac)
    /\ w.comp_c2s = buf_put_algolist(t.comp_c2s) /\ w.comp_s2c = buf_put_algolist(t.comp_s2c)

LEMMA WireIs ==
    ASSUME NEW c, NEW s, NEW e
    PROVE  Sent(Tables(e, c, s), send_msg_kexinit(e, c, s))
    BY DEF send_msg_kexinit, Kinds, Sent

\* An end that has kexguess2 says so.
LEMMA Guess2Sent ==
    ASSUME NEW d \in Side, SideOk(d)
    PROVE  Guess2 \in InTable(d.kex) <=> buf_has_algo(buf_put_algolist(d.kex), Guess2)
<1>1. PICK t : t = d.kex /\ t \in Seq(Entry)
    BY DEF Side
<1>2. \A i \in 1..Len(t) : t[i].name = Guess2 => t[i].usable
    BY <1>1 DEF SideOk
<1>3. Guess2 \in InTable(t) <=> \E k \in 1..Len(t) : t[k].usable /\ t[k].name = Guess2
    BY <1>2 DEF InTable
<1>4. buf_has_algo(buf_put_algolist(t), Guess2)
         <=> \E k \in 1..Len(t) : t[k].usable /\ t[k].name = Guess2
    BY <1>1, ListHas
<1>5. QED
    BY <1>1, <1>3, <1>4

LEMMA SameKeys ==
    ASSUME NEW tc, NEW ts, NEW cw, NEW sw, AreTables(tc), AreTables(ts), Sent(tc, cw), Sent(ts, sw)
    PROVE  Keys(TRUE, ts, cw) = Keys(FALSE, tc, sw)
<1>1. AlikeAlgo(tc.cipher, ts.cipher, cw.cipher, sw.cipher)
    BY SameAlgo DEF AreTables, Sent
<1>2. AlikeAlgo(tc.mac, ts.mac, cw.mac, sw.mac)
    BY SameAlgo DEF AreTables, Sent
<1>3. AlikeAlgo(tc.comp_c2s, ts.comp_c2s, cw.comp_c2s, sw.comp_c2s)
    BY SameAlgo DEF AreTables, Sent
<1>4. AlikeAlgo(tc.comp_s2c, ts.comp_s2c, cw.comp_s2c, sw.comp_s2c)
    BY SameAlgo DEF AreTables, Sent
<1>5. QED
    BY <1>1, <1>2, <1>3, <1>4, Zenon DEF Keys, AlikeAlgo

\* Where both judge the guess alike.
Shared(c, s) ==
    \/ /\ buf_has_algo(send_msg_kexinit("cli", c, s).kex, Guess2)
       /\ buf_has_algo(send_msg_kexinit("svr", c, s).kex, Guess2)
    \/ /\ c.svr.kex[1].usable
       /\ buf_has_algo(send_msg_kexinit("svr", c, s).sig, s[1].name)

\* Both ends agree on everything, and on the guess as far as they can.
LEMMA Negotiate ==
    ASSUME NEW c, NEW s, ConfOk(c), SigTable(c, s), NEW cw, NEW sw, NEW C, NEW S,
           cw = send_msg_kexinit("cli", c, s), sw = send_msg_kexinit("svr", c, s),
           C = CliPick(c, s), S = SvrPick(c, s)
    PROVE  /\ C.ok = S.ok /\ C.ok \in BOOLEAN
           /\ C.kex = S.kex /\ C.sig = S.sig
           /\ C.keys.trans = S.keys.recv /\ C.keys.recv = S.keys.trans
           /\ Picked(S.kex, cw.kex, sw.kex) /\ Picked(S.sig, cw.sig, sw.sig)
           /\ S.ok => S.kex # NULL /\ S.sig # NULL
           /\ C.allgood \in BOOLEAN /\ S.allgood \in BOOLEAN
           /\ S.allgood => C.allgood /\ S.kex = first_usable_algo(c.cli.kex)
           /\ C.allgood /\ Shared(c, s) => S.allgood
<1>1. PICK tc : tc = Tables("cli", c, s)
    OBVIOUS
<1>2. PICK ts : ts = Tables("svr", c, s)
    OBVIOUS
<1>3. /\ tc.kex = c.cli.kex /\ AreTables(tc)
      /\ tc.kex # <<>> /\ tc.kex[1].usable /\ (tc.sig = <<>> \/ tc.sig[1].usable)
    BY <1>1, TablesAre DEF Ends
<1>4. ts.kex = c.svr.kex /\ ts.sig = s /\ AreTables(ts)
    BY <1>2, TablesAre DEF Ends
<1>5. Sent(tc, cw)
    BY <1>1, WireIs
<1>6. Sent(ts, sw)
    BY <1>2, WireIs
<1>7. PICK ks, kc : ks = Match(TRUE, ts.kex, cw.kex) /\ kc = Match(FALSE, tc.kex, sw.kex)
    OBVIOUS
<1>8. PICK gs, gc : gs = Match(TRUE, ts.sig, cw.sig) /\ gc = Match(FALSE, tc.sig, sw.sig)
    OBVIOUS
<1>9. PICK keys : keys = Keys(TRUE, ts, cw)
    OBVIOUS
<1>10. Alike(tc.kex, ts.kex, cw.kex, sw.kex, ks, kc) /\ Alike(tc.sig, ts.sig, cw.sig, sw.sig, gs, gc)
    BY <1>3, <1>4, <1>5, <1>6, <1>7, <1>8, SamePick DEF AreTables, Sent
<1>11. keys = Keys(FALSE, tc, sw)
    BY <1>3, <1>4, <1>5, <1>6, <1>9, SameKeys
<1>12. /\ S.kex = ks.algo /\ S.sig = gs.algo
       /\ S.ok = Whole(ks.algo, gs.algo, keys)
       /\ S.keys.recv = Way(keys, keys.comp_c2s) /\ S.keys.trans = Way(keys, keys.comp_s2c)
       /\ S.allgood = (Good(ks, Guessing(ts, cw)) /\ Good(gs, Guessing(ts, cw)))
    <2>1. S = read_kex_algos("svr", ts, cw)
        BY <1>2 DEF SvrPick
    <2>2. Sums(S, ks, gs, keys, Guessing(ts, cw), keys.comp_s2c, keys.comp_c2s)
        BY <1>7, <1>8, <1>9, <2>1, SvrReads
    <2>3. QED
        BY <2>2 DEF Sums
<1>13. /\ C.kex = kc.algo /\ C.sig = gc.algo
       /\ C.ok = Whole(kc.algo, gc.algo, keys)
       /\ C.keys.trans = Way(keys, keys.comp_c2s) /\ C.keys.recv = Way(keys, keys.comp_s2c)
       /\ C.allgood = (Good(kc, Guessing(tc, sw)) /\ Good(gc, Guessing(tc, sw)))
    <2>1. C = read_kex_algos("cli", tc, sw)
        BY <1>1 DEF CliPick
    <2>2. Sums(C, kc, gc, keys, Guessing(tc, sw), keys.comp_c2s, keys.comp_s2c)
        BY <1>7, <1>8, <1>11, <2>1, CliReads
    <2>3. QED
        BY <2>2 DEF Sums
<1>14. PICK g : /\ g = (buf_has_algo(cw.kex, Guess2) /\ buf_has_algo(sw.kex, Guess2))
                /\ Guessing(ts, cw) = g /\ Guessing(tc, sw) = g
    <2>1. c.cli \in Side /\ c.svr \in Side /\ SideOk(c.cli) /\ SideOk(c.svr)
        BY DEF ConfOk, Configs, ClientOk
    <2>2. Guess2 \in InTable(ts.kex) <=> buf_has_algo(sw.kex, Guess2)
        BY <1>4, <1>6, <2>1, Guess2Sent DEF Sent
    <2>3. Guess2 \in InTable(tc.kex) <=> buf_has_algo(cw.kex, Guess2)
        BY <1>3, <1>5, <2>1, Guess2Sent DEF Sent
    <2>4. QED
        BY <2>2, <2>3 DEF Guessing
<1>15. ks.algo = kc.algo /\ gs.algo = gc.algo
    BY <1>10 DEF Alike
<1>16. Picked(ks.algo, cw.kex, sw.kex) /\ Picked(gs.algo, cw.sig, sw.sig)
    BY <1>10 DEF Alike
<1>17. S.ok => S.kex # NULL /\ S.sig # NULL
    BY <1>12 DEF Whole
<1>18. Whole(ks.algo, gs.algo, keys) \in BOOLEAN
    BY DEF Whole
<1>19. S.allgood = (Good(ks, g) /\ Good(gs, g)) /\ C.allgood = (Good(kc, g) /\ Good(gc, g))
    BY <1>12, <1>13, <1>14, Zenon
<1>20. /\ ks.i = 1 <=> kc.i = 1
       /\ gs.i = 1 <=> gc.i = 1
       /\ ks.i = 1 => ks.algo = cw.kex[1]
       /\ ks.j = 1 => kc.j = 1
       /\ gs.j = 1 => gc.j = 1
    BY <1>3, <1>10 DEF Alike
<1>21. S.allgood => C.allgood /\ S.kex = first_usable_algo(c.cli.kex)
    <2>1. S.allgood => C.allgood /\ S.kex = cw.kex[1]
        BY <1>12, <1>19, <1>20 DEF Good
    <2>2. QED
        BY <1>3, <1>5, <2>1 DEF first_usable_algo, Sent
<1>22. ASSUME C.allgood, Shared(c, s) PROVE S.allgood
    <2>1. kc.i = 1 /\ gc.i = 1 /\ (g \/ (kc.j = 1 /\ gc.j = 1))
        BY <1>19, <1>22 DEF Good
    <2>2. CASE g
        BY <1>19, <1>20, <2>1, <2>2 DEF Good
    <2>3. CASE ~g
        <3>1. c.svr.kex[1].usable /\ buf_has_algo(sw.sig, s[1].name)
            BY <1>14, <1>22, <2>3 DEF Shared
        <3>2. s[1].usable
            <4>1. s \in Seq(Entry) /\ \A i, j \in 1..Len(s) : s[i].name = s[j].name => s[i].usable = s[j].usable
                BY DEF SigTable
            <4>2. PICK k \in 1..Len(s) : s[k].usable /\ s[k].name = s[1].name
                BY <1>4, <1>6, <3>1, <4>1, ListHas DEF Sent
            <4>3. 1 \in 1..Len(s)
                BY <4>1, <4>2
            <4>4. QED
                BY <4>1, <4>2, <4>3
        <3>3. ks.j = 1 /\ gs.j = 1
            BY <1>4, <1>10, <2>1, <2>3, <3>1, <3>2 DEF Alike
        <3>4. QED
            BY <1>19, <1>20, <2>1, <3>3 DEF Good
    <2>4. QED
        BY <2>2, <2>3
<1>23. C.allgood \in BOOLEAN /\ S.allgood \in BOOLEAN
    BY <1>19
<1>24. QED
    BY <1>12, <1>13, <1>15, <1>16, <1>17, <1>18, <1>21, <1>22, <1>23

-----------------------------------------------------------------------------
(* The server's table of host key algorithms *)

LEMMA DisableIs ==
    ASSUME NEW t \in Seq(Entry), NEW D
    PROVE  /\ Disable(t, D) \in Seq(Entry) /\ Len(Disable(t, D)) = Len(t)
           /\ \A i \in 1..Len(t) : Disable(t, D)[i].name = t[i].name
           /\ \A i \in 1..Len(t) : Disable(t, D)[i].usable = (t[i].usable /\ t[i].name \notin D)
<1>1. Len(t) \in Nat /\ \A i \in 1..Len(t) : t[i] \in Entry
    OBVIOUS
<1>2. PICK l : l = Disable(t, D)
    OBVIOUS
<1>3. l = [i \in 1..Len(t) |-> IF t[i].name \in D THEN [t[i] EXCEPT !.usable = FALSE] ELSE t[i]]
    BY <1>2 DEF Disable
<1>4. ASSUME NEW i \in 1..Len(t)
      PROVE  /\ l[i] \in Entry /\ l[i].name = t[i].name
             /\ l[i].usable = (t[i].usable /\ t[i].name \notin D)
    <2>1. PICK x : x = t[i] /\ x \in Entry
        BY <1>1
    <2>2. l[i] = IF x.name \in D THEN [x EXCEPT !.usable = FALSE] ELSE x
        BY <1>3, <2>1
    <2>3. QED
        BY <2>1, <2>2 DEF Entry
<1>5. l \in [1..Len(t) -> Entry]
    BY <1>3, <1>4
<1>6. l \in Seq(Entry) /\ Len(l) = Len(t)
    BY <1>1, <1>5
<1>7. QED
    BY <1>2, <1>4, <1>6

LEMMA StaysTable ==
    ASSUME NEW c, NEW s, SigTable(c, s), NEW D
    PROVE  SigTable(c, Disable(s, D))
<1>1. PICK l : l = Disable(s, D)
    OBVIOUS
<1>2. s \in Seq(Entry) /\ Len(s) = Len(c.svr.sig) /\ Len(s) \in Nat
    BY DEF SigTable
<1>3. /\ l \in Seq(Entry) /\ Len(l) = Len(s)
      /\ \A i \in 1..Len(s) : l[i].name = s[i].name
      /\ \A i \in 1..Len(s) : l[i].usable = (s[i].usable /\ s[i].name \notin D)
    BY <1>1, <1>2, DisableIs
<1>4. \A i \in 1..Len(l) : l[i].name = c.svr.sig[i]
    BY <1>2, <1>3 DEF SigTable
<1>5. ASSUME NEW i \in 1..Len(l), NEW j \in 1..Len(l), l[i].name = l[j].name
      PROVE  l[i].usable = l[j].usable
    <2>1. i \in 1..Len(s) /\ j \in 1..Len(s) /\ s[i].name = s[j].name
        BY <1>3, <1>5
    <2>2. s[i].usable = s[j].usable
        BY <2>1 DEF SigTable
    <2>3. QED
        BY <1>3, <2>1, <2>2
<1>6. SigTable(c, l)
    BY <1>2, <1>3, <1>4, <1>5 DEF SigTable
<1>7. QED
    BY <1>1, <1>6

LEMMA AllTable ==
    ASSUME NEW c, ConfOk(c)
    PROVE  SigTable(c, All(c.svr.sig)) /\ c.svr.sig \in Seq(Names)
<1>1. PICK n, l : n = c.svr.sig /\ l = All(n)
    OBVIOUS
<1>2. n \in Seq(Names)
    BY <1>1 DEF ConfOk, Configs, Side
<1>3. /\ l \in Seq(Entry) /\ Len(l) = Len(n)
      /\ \A i \in 1..Len(n) : l[i].name = n[i] /\ l[i].usable
    BY <1>1, <1>2, AllIs
<1>4. l = [i \in 1..Len(n) |-> [name |-> n[i], usable |-> TRUE]]
    BY <1>1 DEF All
<1>5. \A i \in 1..Len(n) : l[i].usable = TRUE
    BY <1>4
<1>6. SigTable(c, l)
    <2>1. \A i, j \in 1..Len(l) : l[i].usable = l[j].usable
        BY <1>3, <1>5
    <2>2. \A i \in 1..Len(l) : l[i].name = n[i]
        BY <1>3
    <2>3. QED
        BY <1>1, <1>3, <2>1, <2>2 DEF SigTable
<1>7. QED
    BY <1>1, <1>2, <1>6

\* The PS4 build forgets what was disabled.
LEMMA Restored ==
    ASSUME NEW c, NEW s, ConfOk(c), SigTable(c, s)
    PROVE  svr_algos_initialise(s, TRUE) = All(c.svr.sig)
<1>1. PICK n : n = c.svr.sig
    OBVIOUS
<1>2. n \in Seq(Names)
    BY <1>1, AllTable
<1>3. Len(s) = Len(n) /\ \A i \in 1..Len(s) : s[i].name = n[i]
    BY <1>1 DEF SigTable
<1>4. [i \in 1..Len(s) |-> s[i].name] = [i \in 1..Len(n) |-> n[i]]
    BY <1>3
<1>5. [i \in 1..Len(n) |-> n[i]] = n
    BY <1>2
<1>6. [i \in 1..Len(s) |-> s[i].name] = n
    BY <1>4, <1>5
<1>7. QED
    BY <1>1, <1>6 DEF svr_algos_initialise

LEMMA FreshTable ==
    ASSUME NEW c, ConfOk(c)
    PROVE  /\ SigTable(c, FreshSigalgs(c))
           /\ c.orbis => FreshSigalgs(c) = All(c.svr.sig)
<1>1. PICK l : l = load_all_hostkeys(All(c.svr.sig), c.loaded, c.delay)
    OBVIOUS
<1>2. SigTable(c, l)
    BY <1>1, AllTable, StaysTable DEF load_all_hostkeys
<1>3. c.orbis \in BOOLEAN
    BY DEF ConfOk, Configs
<1>4. FreshSigalgs(c) = svr_algos_initialise(l, c.orbis)
    BY <1>1 DEF FreshSigalgs
<1>5. CASE c.orbis = TRUE
    BY <1>2, <1>4, <1>5, Restored, AllTable
<1>6. CASE c.orbis = FALSE
    BY <1>2, <1>4, <1>6 DEF svr_algos_initialise
<1>7. QED
    BY <1>3, <1>5, <1>6

\* Of the algorithms that a server offers at first it has the key, or it is to
\* make one if needed.
LEMMA FreshServes ==
    ASSUME NEW c, ConfOk(c), ~c.orbis, NEW s, s = FreshSigalgs(c),
           NEW k \in 1..Len(s), s[k].usable, NEW a, a = s[k].name
    PROVE  /\ a \in HostKeys
           /\ a \in c.loaded \/ (c.delay /\ ~(a \in Ecdsa /\ c.loaded \cap Ecdsa # {}))
           /\ a \in Ecdsa /\ a \notin c.loaded => a = EcdsaDefault
<1>1. PICK t : t = All(c.svr.sig)
    OBVIOUS
<1>2. /\ t \in Seq(Entry) /\ Len(t) = Len(c.svr.sig)
      /\ \A i \in 1..Len(t) : t[i].name = c.svr.sig[i]
    BY <1>1, AllTable DEF SigTable
<1>3. s = load_all_hostkeys(t, c.loaded, c.delay)
    BY <1>1 DEF FreshSigalgs, svr_algos_initialise
<1> DEFINE missing == IF c.delay THEN {} ELSE {"ed", "rsa"} \ c.loaded
           sizes == IF c.delay /\ c.loaded \cap Ecdsa = {} THEN Ecdsa \ {EcdsaDefault}
                    ELSE Ecdsa \ c.loaded
<1>4. s = Disable(t, missing \cup sizes \cup Sk)
    BY <1>3 DEF load_all_hostkeys
<1>5. k \in 1..Len(t) /\ s[k].name = t[k].name /\ s[k].name \notin missing \cup sizes \cup Sk
    <2>1. PICK D : D = missing \cup sizes \cup Sk
        OBVIOUS
    <2>2. /\ Len(s) = Len(t)
          /\ \A i \in 1..Len(t) : s[i].name = t[i].name
          /\ \A i \in 1..Len(t) : s[i].usable = (t[i].usable /\ t[i].name \notin D)
        BY <1>2, <1>4, <2>1, DisableIs
    <2>3. k \in 1..Len(t)
        BY <2>2
    <2>4. s[k].name = t[k].name /\ t[k].name \notin D
        BY <2>2, <2>3
    <2>5. QED
        BY <2>1, <2>3, <2>4
<1>6. a \in HostKeys \cup Sk
    BY <1>2, <1>5 DEF ConfOk
<1>7. a \in HostKeys /\ a \notin missing /\ a \notin sizes
    BY <1>5, <1>6
<1>8. QED
    BY <1>7 DEF HostKeys, Ecdsa

\* What the server picked is usable in its table.
LEMMA SigUsable ==
    ASSUME NEW c, NEW s, ConfOk(c), SigTable(c, s), SvrPick(c, s).ok
    PROVE  \E k \in 1..Len(s) : s[k].usable /\ s[k].name = SvrPick(c, s).sig
<1>1. PICK cw, sw, S : /\ cw = send_msg_kexinit("cli", c, s) /\ sw = send_msg_kexinit("svr", c, s)
                       /\ S = SvrPick(c, s)
    OBVIOUS
<1>2. Picked(S.sig, cw.sig, sw.sig) /\ S.sig # NULL
    BY <1>1, Negotiate
<1>3. buf_has_algo(sw.sig, S.sig)
    BY <1>2 DEF Picked, FirstCommon
<1>4. PICK t : t = Tables("svr", c, s)
    OBVIOUS
<1>5. t.sig = s /\ s \in Seq(Entry)
    BY <1>4, TablesAre DEF Ends, SigTable
<1>6. sw.sig = buf_put_algolist(s)
    BY <1>1, <1>4, <1>5, WireIs DEF Sent
<1>7. QED
    BY <1>1, <1>3, <1>5, <1>6, ListHas

\* With the table restricted to what was picked, the same is picked again.
LEMMA RekeyPicks ==
    ASSUME NEW c, NEW s, ConfOk(c), SigTable(c, s), NEW S, S = SvrPick(c, s), S.ok,
           NEW r, r = disable_sig_except(s, S.sig), NEW R, R = SvrPick(c, r)
    PROVE  SigTable(c, r) /\ R.ok /\ R.sig = S.sig
<1>1. SigTable(c, r)
    BY StaysTable DEF disable_sig_except
<1>2. PICK t, u : t = Tables("svr", c, s) /\ u = Tables("svr", c, r)
    OBVIOUS
<1>3. PICK cw : cw = send_msg_kexinit("cli", c, s)
    OBVIOUS
<1>4. cw = send_msg_kexinit("cli", c, r)
    BY <1>3 DEF send_msg_kexinit, Tables
<1>5. /\ t.sig = s /\ u.sig = r /\ u.kex = t.kex /\ u.cipher = t.cipher /\ u.mac = t.mac
      /\ u.comp_c2s = t.comp_c2s /\ u.comp_s2c = t.comp_s2c
    BY <1>2 DEF Tables
<1>6. PICK kex, sig, keys : /\ kex = Match(TRUE, t.kex, cw.kex) /\ sig = Match(TRUE, s, cw.sig)
                            /\ keys = Keys(TRUE, t, cw)
    OBVIOUS
<1>7. PICK new : new = Match(TRUE, r, cw.sig)
    OBVIOUS
<1>8. Keys(TRUE, u, cw) = keys
    BY <1>5, <1>6, Zenon DEF Keys
<1>9. S.sig = sig.algo /\ S.ok = Whole(kex.algo, sig.algo, keys)
    <2>1. S = read_kex_algos("svr", t, cw)
        BY <1>2, <1>3 DEF SvrPick
    <2>2. Sums(S, kex, sig, keys, Guessing(t, cw), keys.comp_s2c, keys.comp_c2s)
        BY <1>5, <1>6, <2>1, SvrReads
    <2>3. QED
        BY <2>2 DEF Sums
<1>10. R.sig = new.algo /\ R.ok = Whole(kex.algo, new.algo, keys)
    <2>1. R = read_kex_algos("svr", u, cw)
        BY <1>2, <1>4 DEF SvrPick
    <2>2. Sums(R, kex, new, keys, Guessing(u, cw), keys.comp_s2c, keys.comp_c2s)
        BY <1>5, <1>6, <1>7, <1>8, <2>1, SvrReads
    <2>3. QED
        BY <2>2 DEF Sums
<1>11. PICK sw, rw : sw = buf_put_algolist(s) /\ rw = buf_put_algolist(r)
    OBVIOUS
<1>12. s \in Seq(Entry) /\ r \in Seq(Entry)
    BY <1>1 DEF SigTable
<1>13. /\ Len(r) = Len(s)
       /\ \A i \in 1..Len(s) : r[i].name = s[i].name
       /\ \A i \in 1..Len(s) : r[i].usable = (s[i].usable /\ s[i].name = S.sig)
    <2>1. PICK D : D = InTable(s) \ {S.sig}
        OBVIOUS
    <2>2. r = Disable(s, D)
        BY <2>1 DEF disable_sig_except
    <2>3. \A i \in 1..Len(s) : s[i].name \in D <=> s[i].name # S.sig
        BY <2>1 DEF InTable
    <2>4. /\ Len(r) = Len(s)
          /\ \A i \in 1..Len(s) : r[i].name = s[i].name
          /\ \A i \in 1..Len(s) : r[i].usable = (s[i].usable /\ s[i].name \notin D)
        BY <1>12, <2>2, DisableIs
    <2>5. QED
        BY <2>3, <2>4
<1>14. \A a : buf_has_algo(rw, a) <=> a = S.sig /\ buf_has_algo(sw, a)
    <2> TAKE a
    <2>1. buf_has_algo(rw, a) <=> \E k \in 1..Len(r) : r[k].usable /\ r[k].name = a
        BY <1>11, <1>12, ListHas
    <2>2. buf_has_algo(sw, a) <=> \E k \in 1..Len(s) : s[k].usable /\ s[k].name = a
        BY <1>11, <1>12, ListHas
    <2>3. \A k \in 1..Len(s) : r[k].usable /\ r[k].name = a
                               <=> a = S.sig /\ s[k].usable /\ s[k].name = a
        BY <1>13
    <2>4. Len(r) = Len(s)
        BY <1>13
    <2>5. QED
        BY <2>1, <2>2, <2>3, <2>4, Zenon
<1>15. cw.sig \in Seq(Names)
    <2>1. PICK tc : tc = Tables("cli", c, s)
        OBVIOUS
    <2>2. tc.sig \in Seq(Entry)
        BY <2>1, TablesAre DEF Ends, AreTables
    <2>3. cw.sig = buf_put_algolist(tc.sig)
        BY <1>3, <2>1, WireIs DEF Sent
    <2>4. QED
        BY <2>2, <2>3, ListType
<1>16. Picked(sig.algo, cw.sig, sw)
    <2>1. SvrFinds(sig, s, cw.sig)
        BY <1>6, <1>12, <1>15, SvrMatch
    <2>2. QED
        BY <1>11, <1>12, <1>15, <2>1, SvrPicks
<1>17. Picked(new.algo, cw.sig, rw)
    <2>1. SvrFinds(new, r, cw.sig)
        BY <1>7, <1>12, <1>15, SvrMatch
    <2>2. QED
        BY <1>11, <1>12, <1>15, <2>1, SvrPicks
<1>18. S.sig # NULL
    BY <1>9 DEF Whole
<1>19. Picked(S.sig, cw.sig, rw)
    <2>1. FirstCommon(S.sig, cw.sig, sw)
        BY <1>9, <1>16, <1>18 DEF Picked
    <2>2. FirstCommon(S.sig, cw.sig, rw)
        BY <1>14, <2>1 DEF FirstCommon
    <2>3. QED
        BY <1>18, <2>2 DEF Picked
<1>20. new.algo = S.sig
    BY <1>15, <1>17, <1>19, PickedUnique
<1>21. QED
    BY <1>1, <1>9, <1>10, <1>20

-----------------------------------------------------------------------------
(* The invariant: everything follows from the configuration and from s, the *)
(* server's table of host key algorithms when this exchange began.          *)

Lists(s) ==
    /\ ConfOk(conf) /\ SigTable(conf, s)
    /\ kexinit = [e \in Ends |-> send_msg_kexinit(e, conf, s)]

ReadOk(s) ==
    /\ newkeys = [e \in Ends |-> newkeys[e]]
    /\ newkeys["cli"] # Unread => newkeys["cli"] = CliPick(conf, s) /\ CliPick(conf, s).ok
    /\ newkeys["svr"] # Unread => newkeys["svr"] = SvrPick(conf, s) /\ SvrPick(conf, s).ok

Replied(s) ==
    /\ kexdh_reply = NULL => sigalgs = s
    /\ kexdh_reply # NULL =>
         /\ newkeys["svr"] # Unread /\ kexdh_reply = SvrPick(conf, s).sig /\ kexdh_reply \in hostkey
         /\ sigalgs = disable_sig_except(s, kexdh_reply)
         /\ SvrPick(conf, s).allgood \/ newkeys["cli"] # Unread
    /\ done => kexdh_reply # NULL /\ newkeys["cli"] # Unread

\* The client has sent another packet for its guess.
Again(s) == newkeys["cli"] # Unread /\ ~CliPick(conf, s).allgood

\* The server has not yet taken the guess.
Guessed(s) == newkeys["svr"] = Unread \/ SvrPick(conf, s).allgood \/ ignorenext

Queue(s) ==
    /\ ignorenext => newkeys["svr"] # Unread /\ ~SvrPick(conf, s).allgood /\ kexdh_reply = NULL
    /\ kexdh_reply # NULL => c2s = <<>>
    /\ Running /\ kexdh_reply = NULL /\ Guessed(s) =>
         c2s = IF Again(s) THEN <<first_usable_algo(conf.cli.kex), CliPick(conf, s).kex>>
               ELSE <<first_usable_algo(conf.cli.kex)>>
    /\ Running /\ kexdh_reply = NULL /\ ~Guessed(s) =>
         c2s = IF Again(s) THEN <<CliPick(conf, s).kex>> ELSE <<>>

\* The default file is why there is no key for algorithm a.
AtFault(a) ==
    /\ conf.delay
    /\ file[KeyFile(a)] = Broken \/ (conf.named /\ file[KeyFile(a)] \in Ecdsa \ {a})

Exits ==
    /\ exit = [e \in Ends |-> exit[e]]
    /\ exit["cli"] \in {NULL, "no match"}
    /\ exit["svr"] \in {NULL, "no match", "no hostkey", "hostkey file"}
    /\ exit["svr"] = "no hostkey" => conf.orbis
    /\ exit["svr"] = "hostkey file" => conf.orbis \/ AtFault(newkeys["svr"].sig)

\* The default files are those of the start, but for keys made since; of ECDSA
\* keys only one size is ever made.
Files ==
    /\ FilesOk(conf) /\ file \in [KeyFiles -> HostKeys \cup {Absent, Broken}]
    /\ \A k \in KeyFiles : file[k] \in Holding(k) \cup {Absent, Broken}
    /\ ~conf.orbis => \A k \in KeyFiles :
         \/ file[k] = conf.file[k]
         \/ conf.file[k] = Absent /\ (k = "ecdsa" => file[k] = EcdsaDefault)

Past(s) ==
    /\ hostkey \subseteq HostKeys /\ rekeys \in Nat
    /\ rekeys = 0 => /\ s = FreshSigalgs(conf)
                     /\ ~conf.orbis /\ kexdh_reply = NULL => hostkey = conf.loaded
    /\ rekeys > 0 => Running /\ SvrPick(conf, s).ok /\ SvrPick(conf, s).sig \in hostkey

Holds(s) == Lists(s) /\ ReadOk(s) /\ Replied(s) /\ Queue(s) /\ Exits /\ Past(s) /\ Files

IInv == \E s : Holds(s)

\* What the steps of an exchange read.
LEMMA Reads ==
    ASSUME NEW s, Holds(s)
    PROVE  /\ read_kex_algos("cli", Tables("cli", conf, sigalgs), kexinit["svr"]) = CliPick(conf, s)
           /\ kexdh_reply = NULL =>
                read_kex_algos("svr", Tables("svr", conf, sigalgs), kexinit["cli"]) = SvrPick(conf, s)
<1>1. /\ kexinit["cli"] = send_msg_kexinit("cli", conf, s)
      /\ kexinit["svr"] = send_msg_kexinit("svr", conf, s)
    BY DEF Holds, Lists, Ends
<1>2. Tables("cli", conf, sigalgs) = Tables("cli", conf, s)
    BY DEF Tables
<1>3. kexdh_reply = NULL => sigalgs = s
    BY DEF Holds, Replied
<1>4. QED
    BY <1>1, <1>2, <1>3 DEF CliPick, SvrPick

LEMMA PicksAre ==
    ASSUME NEW s, Holds(s), NEW C, NEW S, C = CliPick(conf, s), S = SvrPick(conf, s)
    PROVE  /\ C.ok = S.ok /\ C.ok \in BOOLEAN
           /\ C.kex = S.kex /\ C.sig = S.sig
           /\ S.ok => S.kex # NULL /\ S.sig # NULL
           /\ C.allgood \in BOOLEAN /\ S.allgood \in BOOLEAN
           /\ S.allgood => C.allgood /\ S.kex = first_usable_algo(conf.cli.kex)
           /\ C.ok => C # Unread
           /\ S.ok => S # Unread
<1>1. ConfOk(conf) /\ SigTable(conf, s)
    BY DEF Holds, Lists
<1>2. (C.ok => C # Unread) /\ (S.ok => S # Unread)
    BY DEF Unread
<1>3. PICK cw, sw : cw = send_msg_kexinit("cli", conf, s) /\ sw = send_msg_kexinit("svr", conf, s)
    OBVIOUS
<1>4. /\ C.ok = S.ok /\ C.ok \in BOOLEAN
      /\ C.kex = S.kex /\ C.sig = S.sig
      /\ S.ok => S.kex # NULL /\ S.sig # NULL
      /\ C.allgood \in BOOLEAN /\ S.allgood \in BOOLEAN
      /\ S.allgood => C.allgood /\ S.kex = first_usable_algo(conf.cli.kex)
    BY <1>1, <1>3, Negotiate
<1>5. QED
    BY <1>2, <1>4

\* Short queues.
LEMMA AppendIs ==
    ASSUME NEW a, NEW b
    PROVE  Append(<<a>>, b) = <<a, b>> /\ Append(<<>>, b) = <<b>>
<1> DEFINE S == {a, b}
<1>0. a \in S /\ b \in S
    OBVIOUS
<1> HIDE DEF S
<1>1. \A p \in Seq(S) : /\ Append(p, b) \in Seq(S) /\ Len(Append(p, b)) = Len(p) + 1
                        /\ Append(p, b)[Len(p) + 1] = b
                        /\ \A i \in 1..Len(p) : Append(p, b)[i] = p[i]
    BY <1>0
<1>2. <<a>> \in Seq(S) /\ Len(<<a>>) = 1 /\ <<a>>[1] = a
    BY <1>0
<1>3. PICK q : q = Append(<<a>>, b)
    OBVIOUS
<1>4. /\ q \in Seq(S) /\ Len(q) = Len(<<a>>) + 1
      /\ q[Len(<<a>>) + 1] = b
      /\ \A i \in 1..Len(<<a>>) : q[i] = <<a>>[i]
    BY <1>1, <1>2, <1>3, Zenon
<1>5. 1 \in 1..Len(<<a>>) /\ Len(<<a>>) + 1 = 2
    BY <1>2
<1>6. q \in Seq(S) /\ Len(q) = 2 /\ q[2] = b /\ q[1] = a
    BY <1>2, <1>4, <1>5, Zenon
<1>7. q = <<a, b>>
    BY <1>6
<1>8. Append(<<>>, b) = <<b>>
    OBVIOUS
<1>9. QED
    BY <1>3, <1>7, <1>8

LEMMA FilesKeep ==
    ASSUME NEW s, Holds(s), conf' = conf, file' = file
    PROVE  Files'
BY DEF Holds, Files, FilesOk

LEMMA CliKexinitKeeps ==
    ASSUME NEW s, Holds(s), CliKexinit
    PROVE  Holds(s)'
<1>1. PICK C, S : C = CliPick(conf, s) /\ S = SvrPick(conf, s)
    OBVIOUS
<1>2. /\ C.ok = S.ok /\ C.ok \in BOOLEAN
      /\ C.kex = S.kex /\ C.allgood \in BOOLEAN /\ S.allgood \in BOOLEAN
      /\ S.allgood => C.allgood
      /\ C.ok => C # Unread
    BY <1>1, PicksAre
<1>3. /\ Running /\ newkeys["cli"] = Unread
      /\ \/ /\ C.ok /\ newkeys' = [newkeys EXCEPT !["cli"] = C]
            /\ c2s' = IF C.allgood THEN c2s ELSE Append(c2s, C.kex)
            /\ exit' = exit
         \/ ~C.ok /\ exit' = [exit EXCEPT !["cli"] = "no match"] /\ newkeys' = newkeys /\ c2s' = c2s
      /\ UNCHANGED <<conf, sigalgs, hostkey, file, kexinit, ignorenext, kexdh_reply, done, sessions, rekeys>>
    <2>1. C = read_kex_algos("cli", Tables("cli", conf, sigalgs), kexinit["svr"])
        BY <1>1, Reads
    <2>2. QED
        BY <2>1 DEF CliKexinit, dropbear_exit
<1>4. /\ UNCHANGED <<conf, sigalgs, hostkey, file, kexinit, ignorenext, kexdh_reply, done, rekeys>>
      /\ C = CliPick(conf', s) /\ S = SvrPick(conf', s)
    BY <1>1, <1>3
<1>5. Lists(s)'
    BY <1>4 DEF Holds, Lists
<1>6. newkeys = [e \in Ends |-> newkeys[e]] /\ exit = [e \in Ends |-> exit[e]]
    BY DEF Holds, ReadOk, Exits
<1>7. newkeys'["svr"] = newkeys["svr"] /\ (newkeys'["cli"] # Unread => C.ok /\ newkeys'["cli"] = C)
    BY <1>3, <1>6 DEF Ends
<1>8. ReadOk(s)'
    <2>1. newkeys' = [e \in Ends |-> newkeys'[e]]
        BY <1>3, <1>6
    <2>2. QED
        BY <1>1, <1>4, <1>7, <2>1 DEF Holds, ReadOk
<1>9. Replied(s)'
    <2>1. newkeys["cli"] = Unread /\ ~done
        BY <1>3 DEF Holds, Replied
    <2>2. QED
        BY <1>1, <1>4, <1>7, <2>1 DEF Holds, Replied
<1>10. Exits'
    <2>1. exit' = [e \in Ends |-> exit'[e]] /\ exit'["svr"] = NULL
        BY <1>3, <1>6 DEF Ends, Running
    <2>2. exit'["cli"] \in {exit["cli"], "no match"}
        BY <1>3, <1>6 DEF Ends
    <2>3. QED
        BY <2>1, <2>2 DEF Holds, Exits, NULL
<1>11. Past(s)'
    <2>1. rekeys > 0 => C.ok /\ exit' = exit
        BY <1>1, <1>2, <1>3 DEF Holds, Past
    <2>2. QED
        BY <1>1, <1>4, <2>1 DEF Holds, Past, Running
<1>12. Queue(s)'
    <2>1. ignorenext => newkeys["svr"] # Unread /\ ~S.allgood /\ kexdh_reply = NULL
        BY <1>1 DEF Holds, Queue
    <2>2. Guessed(s)' <=> Guessed(s)
        BY <1>1, <1>4, <1>7 DEF Guessed
    <2>3. ~Again(s)
        BY <1>3 DEF Again
    <2>4. Running' => C.ok
        BY <1>3, <1>6 DEF Running, Ends, NULL
    <2>5. CASE C.ok
        <3>1. c2s' = IF C.allgood THEN c2s ELSE Append(c2s, C.kex)
            BY <1>3, <2>5
        <3>2. Again(s)' <=> ~C.allgood
            BY <1>2, <1>3, <1>4, <1>6, <2>5 DEF Again, Ends
        <3>3. kexdh_reply # NULL => c2s = <<>> /\ C.allgood
            BY <1>1, <1>2, <1>3 DEF Holds, Queue, Replied
        <3>4. PICK g : g = first_usable_algo(conf.cli.kex)
            OBVIOUS
        <3>5. /\ kexdh_reply = NULL /\ Guessed(s) => c2s = <<g>>
              /\ kexdh_reply = NULL /\ ~Guessed(s) => c2s = <<>>
            BY <1>3, <2>3, <3>4 DEF Holds, Queue
        <3>6. Append(<<g>>, C.kex) = <<g, C.kex>> /\ Append(<<>>, C.kex) = <<C.kex>>
            BY AppendIs
        <3>7. /\ kexdh_reply' = NULL /\ Guessed(s)' => c2s' = IF Again(s)' THEN <<g, C.kex>> ELSE <<g>>
              /\ kexdh_reply' = NULL /\ ~Guessed(s)' => c2s' = IF Again(s)' THEN <<C.kex>> ELSE <<>>
            BY <1>2, <1>4, <2>2, <3>1, <3>2, <3>5, <3>6
        <3>8. /\ ignorenext' => newkeys'["svr"] # Unread /\ ~S.allgood /\ kexdh_reply' = NULL
              /\ kexdh_reply' # NULL => c2s' = <<>>
            BY <1>4, <1>7, <2>1, <3>1, <3>3
        <3>9. QED
            BY <1>4, <3>4, <3>7, <3>8 DEF Queue
    <2>6. CASE ~C.ok
        <3>1. c2s' = c2s /\ ~Running'
            BY <1>3, <2>4, <2>6
        <3>2. kexdh_reply # NULL => c2s = <<>>
            BY DEF Holds, Queue
        <3>3. QED
            BY <1>4, <1>7, <2>1, <3>1, <3>2 DEF Queue
    <2>7. QED
        BY <2>5, <2>6
<1>13. QED
    BY <1>4, <1>5, <1>8, <1>9, <1>10, <1>11, <1>12, FilesKeep DEF Holds

LEMMA SvrKexinitKeeps ==
    ASSUME NEW s, Holds(s), SvrKexinit
    PROVE  Holds(s)'
<1>1. PICK C, S : C = CliPick(conf, s) /\ S = SvrPick(conf, s)
    OBVIOUS
<1>2. /\ C.ok = S.ok /\ C.ok \in BOOLEAN /\ S.allgood \in BOOLEAN
      /\ S.ok => S # Unread
    BY <1>1, PicksAre
<1>3. kexdh_reply = NULL
    BY DEF SvrKexinit, Holds, Replied
<1>4. /\ Running /\ newkeys["svr"] = Unread
      /\ \/ /\ S.ok /\ newkeys' = [newkeys EXCEPT !["svr"] = S]
            /\ ignorenext' = ~S.allgood /\ exit' = exit
         \/ /\ ~S.ok /\ exit' = [exit EXCEPT !["svr"] = "no match"]
            /\ newkeys' = newkeys /\ ignorenext' = ignorenext
      /\ UNCHANGED <<conf, sigalgs, hostkey, file, kexinit, c2s, kexdh_reply, done, rekeys>>
    <2>1. S = read_kex_algos("svr", Tables("svr", conf, sigalgs), kexinit["cli"])
        BY <1>1, <1>3, Reads
    <2>2. QED
        BY <2>1 DEF SvrKexinit, dropbear_exit
<1>5. /\ UNCHANGED <<conf, sigalgs, hostkey, file, kexinit, c2s, kexdh_reply, done, rekeys>>
      /\ C = CliPick(conf', s) /\ S = SvrPick(conf', s)
    BY <1>1, <1>4
<1>6. Lists(s)'
    BY <1>5 DEF Holds, Lists
<1>7. newkeys = [e \in Ends |-> newkeys[e]] /\ exit = [e \in Ends |-> exit[e]]
    BY DEF Holds, ReadOk, Exits
<1>8. newkeys'["cli"] = newkeys["cli"] /\ (newkeys'["svr"] # Unread => S.ok /\ newkeys'["svr"] = S)
    BY <1>4, <1>7 DEF Ends
<1>9. ReadOk(s)'
    <2>1. newkeys' = [e \in Ends |-> newkeys'[e]]
        BY <1>4, <1>7
    <2>2. QED
        BY <1>1, <1>5, <1>8, <2>1 DEF Holds, ReadOk
<1>10. Replied(s)'
    BY <1>1, <1>3, <1>5, <1>8 DEF Holds, Replied
<1>11. Exits'
    <2>1. exit' = [e \in Ends |-> exit'[e]] /\ exit'["cli"] = exit["cli"]
        BY <1>4, <1>7 DEF Ends
    <2>2. exit'["svr"] \in {NULL, "no match"}
        BY <1>4, <1>7 DEF Ends, Running
    <2>3. QED
        BY <2>1, <2>2 DEF Holds, Exits, NULL
<1>12. Past(s)'
    <2>1. rekeys > 0 => S.ok /\ exit' = exit
        BY <1>1, <1>4 DEF Holds, Past
    <2>2. QED
        BY <1>1, <1>5, <2>1 DEF Holds, Past, Running
<1>13. Queue(s)'
    <2>1. Again(s)' <=> Again(s)
        BY <1>1, <1>5, <1>8 DEF Again
    <2>2. Guessed(s) /\ ~ignorenext
        BY <1>4 DEF Guessed, Holds, Queue
    <2>3. CASE S.ok
        <3>1. newkeys'["svr"] = S /\ newkeys'["svr"] # Unread /\ ignorenext' = ~S.allgood
            BY <1>2, <1>4, <1>7, <2>3 DEF Ends
        <3>2. Guessed(s)'
            BY <1>2, <1>5, <3>1 DEF Guessed
        <3>3. c2s = IF Again(s) THEN <<first_usable_algo(conf.cli.kex), C.kex>>
                    ELSE <<first_usable_algo(conf.cli.kex)>>
            BY <1>1, <1>3, <1>4, <2>2 DEF Holds, Queue
        <3>4. ignorenext' => newkeys'["svr"] # Unread /\ ~S.allgood /\ kexdh_reply' = NULL
            BY <1>2, <1>3, <1>5, <3>1
        <3>5. c2s' = IF Again(s)' THEN <<first_usable_algo(conf'.cli.kex), C.kex>>
                     ELSE <<first_usable_algo(conf'.cli.kex)>>
            BY <1>5, <2>1, <3>3
        <3>6. QED
            BY <1>3, <1>5, <3>2, <3>4, <3>5 DEF Queue
    <2>4. CASE ~S.ok
        <3>1. ignorenext' = ignorenext /\ ~Running'
            BY <1>4, <1>7, <2>4 DEF Running, Ends, NULL
        <3>2. QED
            BY <1>3, <1>5, <2>2, <3>1 DEF Queue
    <2>5. QED
        BY <2>3, <2>4
<1>14. QED
    BY <1>5, <1>6, <1>9, <1>10, <1>11, <1>12, <1>13, FilesKeep DEF Holds

LEMMA SvrIgnoresKeeps ==
    ASSUME NEW s, Holds(s), SvrIgnores
    PROVE  Holds(s)'
<1>1. PICK C, S : C = CliPick(conf, s) /\ S = SvrPick(conf, s)
    OBVIOUS
<1>2. /\ Running /\ newkeys["svr"] # Unread /\ ignorenext /\ ignorenext' = FALSE /\ c2s' = Tail(c2s)
      /\ UNCHANGED <<conf, sigalgs, hostkey, file, kexinit, newkeys, kexdh_reply, done, exit, rekeys>>
    BY DEF SvrIgnores
<1>3. C = CliPick(conf', s) /\ S = SvrPick(conf', s)
    BY <1>1, <1>2
<1>4. Lists(s)' /\ ReadOk(s)'
    BY <1>2 DEF Holds, Lists, ReadOk
<1>5. Replied(s)' /\ Exits'
    BY <1>2 DEF Holds, Replied, Exits, AtFault
<1>6. Past(s)'
    BY <1>2 DEF Holds, Past, Running
<1>7. ~S.allgood /\ kexdh_reply = NULL
    BY <1>1, <1>2 DEF Holds, Queue
<1>8. Guessed(s) /\ ~Guessed(s)' /\ (Again(s)' <=> Again(s))
    BY <1>2, <1>3, <1>7 DEF Guessed, Again
<1>9. PICK g : g = first_usable_algo(conf.cli.kex)
    OBVIOUS
<1>10. c2s = IF Again(s) THEN <<g, C.kex>> ELSE <<g>>
    BY <1>1, <1>2, <1>7, <1>8, <1>9 DEF Holds, Queue
<1>11. Tail(<<g, C.kex>>) = <<C.kex>> /\ Tail(<<g>>) = <<>>
    OBVIOUS
<1>12. c2s' = IF Again(s)' THEN <<C.kex>> ELSE <<>>
    BY <1>2, <1>8, <1>10, <1>11
<1>13. Queue(s)'
    BY <1>2, <1>3, <1>7, <1>8, <1>12 DEF Queue
<1>14. QED
    BY <1>2, <1>4, <1>5, <1>6, <1>13, FilesKeep DEF Holds

\* The server has or makes the key, except perhaps on the PS4 in a first
\* exchange, or where the default file is at fault.
LEMMA CanSign ==
    ASSUME NEW s, Holds(s), newkeys["svr"] # Unread, kexdh_reply = NULL,
           NEW a, a = newkeys["svr"].sig
    PROVE  /\ \/ HasKey(a) \/ MakesKey(a)
              \/ rekeys = 0 /\ (conf.orbis \/ (WhyNot(a) = "hostkey file" /\ AtFault(a)))
           /\ HasKey(a) => a \in HostKeys
           /\ MakesKey(a) /\ ~conf.orbis /\ a \in Ecdsa => a = EcdsaDefault
<1>1. PICK S : S = SvrPick(conf, s)
    OBVIOUS
<1>2. newkeys["svr"] = S /\ S.ok /\ ConfOk(conf) /\ SigTable(conf, s)
    BY <1>1 DEF Holds, ReadOk, Lists
<1>3. rekeys \in Nat /\ hostkey \subseteq HostKeys
    BY DEF Holds, Past
<1>4. CASE rekeys > 0
    <2>1. S.sig \in hostkey
        BY <1>1, <1>4 DEF Holds, Past
    <2>2. QED
        BY <1>2, <1>3, <2>1 DEF HasKey, MakesKey
<1>5. CASE rekeys = 0 /\ ~conf.orbis
    <2>1. s = FreshSigalgs(conf) /\ hostkey = conf.loaded
        BY <1>5 DEF Holds, Past
    <2>2. PICK k \in 1..Len(s) : s[k].usable /\ s[k].name = S.sig
        BY <1>1, <1>2, SigUsable
    <2>3. /\ a \in HostKeys
          /\ a \in conf.loaded \/ (conf.delay /\ ~(a \in Ecdsa /\ conf.loaded \cap Ecdsa # {}))
          /\ a \in Ecdsa /\ a \notin conf.loaded => a = EcdsaDefault
        BY <1>2, <1>5, <2>1, <2>2, FreshServes
    <2>4. CASE a \in conf.loaded
        BY <2>1, <2>3, <2>4 DEF HasKey, MakesKey
    <2>5. CASE a \notin conf.loaded
        <3>1. PICK f : f = file[KeyFile(a)]
            OBVIOUS
        <3>2. KeyFile(a) \in KeyFiles
            BY <2>3 DEF KeyFile, KeyFiles, HostKeys
        <3>3. /\ f \in Holding(KeyFile(a)) \cup {Absent, Broken}
              /\ \/ f = conf.file[KeyFile(a)]
                 \/ KeyFile(a) = "ecdsa" => f = EcdsaDefault
            BY <1>5, <3>1, <3>2 DEF Holds, Files
        <3>4. CASE f \in {a, Absent}
            BY <2>1, <2>3, <2>5, <3>1, <3>4 DEF MakesKey, HasKey
        <3>5. CASE f = Broken
            BY <1>5, <2>1, <2>3, <2>5, <3>1, <3>5 DEF WhyNot, AtFault, HasKey
        <3>6. CASE f \in Holding(KeyFile(a)) /\ f # a
            <4>1. a \in Ecdsa /\ f \in Ecdsa /\ KeyFile(a) = "ecdsa" /\ KeyFile(f) = "ecdsa"
                  /\ f \in HostKeys
                BY <2>3, <3>6 DEF Holding, KeyFile, HostKeys, Ecdsa
            <4>2. f = conf.file["ecdsa"]
                BY <2>3, <2>5, <3>3, <3>6, <4>1
            <4>3. f \notin conf.loaded
                BY <2>3, <2>5, <4>1
            <4>4. FilesOk(conf) /\ conf.named \in BOOLEAN
                BY <1>2 DEF Holds, Files, ConfOk, Configs
            <4>5. conf.named
                BY <4>1, <4>2, <4>3, <4>4 DEF FilesOk
            <4>6. QED
                BY <1>5, <2>1, <2>3, <2>5, <3>1, <3>6, <4>1, <4>5 DEF WhyNot, AtFault, HasKey
        <3>7. QED
            BY <3>3, <3>4, <3>5, <3>6
    <2>6. QED
        BY <2>4, <2>5
<1>6. CASE rekeys = 0 /\ conf.orbis
    BY <1>3, <1>6 DEF HasKey
<1>7. rekeys > 0 \/ (rekeys = 0 /\ ~conf.orbis) \/ (rekeys = 0 /\ conf.orbis)
    BY <1>3
<1>8. QED
    BY <1>4, <1>5, <1>6, <1>7, Zenon

LEMMA SvrKexdhInitKeeps ==
    ASSUME NEW s, Holds(s), SvrKexdhInit
    PROVE  Holds(s)'
<1>1. PICK C, S : C = CliPick(conf, s) /\ S = SvrPick(conf, s)
    OBVIOUS
<1>2. /\ C.kex = S.kex /\ C.allgood \in BOOLEAN /\ S.allgood \in BOOLEAN
      /\ S.allgood => C.allgood /\ S.kex = first_usable_algo(conf.cli.kex)
      /\ S.ok => S.sig # NULL
    BY <1>1, PicksAre
<1>3. /\ Running /\ newkeys["svr"] # Unread /\ c2s # <<>> /\ ~ignorenext /\ c2s' = Tail(c2s)
      /\ UNCHANGED <<conf, kexinit, newkeys, ignorenext, done, rekeys>>
    BY DEF SvrKexdhInit
<1>4. newkeys["svr"] = S /\ S.ok
    BY <1>1, <1>3 DEF Holds, ReadOk
<1>5. kexdh_reply = NULL /\ sigalgs = s /\ ~done
    BY <1>3 DEF Holds, Queue, Replied
<1>6. C = CliPick(conf', s) /\ S = SvrPick(conf', s)
    BY <1>1, <1>3
<1>7. c2s = <<S.kex>> /\ (S.allgood \/ newkeys["cli"] # Unread)
    <2>1. CASE S.allgood
        <3>1. Guessed(s) /\ ~Again(s)
            BY <1>1, <1>2, <2>1 DEF Guessed, Again
        <3>2. c2s = <<first_usable_algo(conf.cli.kex)>>
            BY <1>3, <1>5, <3>1 DEF Holds, Queue
        <3>3. QED
            BY <1>2, <2>1, <3>2
    <2>2. CASE ~S.allgood
        <3>1. ~Guessed(s)
            BY <1>1, <1>3, <2>2 DEF Guessed
        <3>2. c2s = IF Again(s) THEN <<C.kex>> ELSE <<>>
            BY <1>1, <1>3, <1>5, <3>1 DEF Holds, Queue
        <3>3. QED
            BY <1>2, <1>3, <3>2 DEF Again
    <2>3. QED
        BY <2>1, <2>2
<1>8. Head(c2s) = S.kex /\ c2s' = <<>>
    <2>1. Head(<<S.kex>>) = S.kex /\ Tail(<<S.kex>>) = <<>>
        OBVIOUS
    <2>2. QED
        BY <1>3, <1>7, <2>1
<1>9. Lists(s)' /\ ReadOk(s)'
    BY <1>3 DEF Holds, Lists, ReadOk
<1>10. exit = [e \in Ends |-> exit[e]]
    BY DEF Holds, Exits
<1>14. PICK a : a = S.sig
    OBVIOUS
<1>15. /\ \/ HasKey(a) \/ MakesKey(a)
          \/ rekeys = 0 /\ (conf.orbis \/ (WhyNot(a) = "hostkey file" /\ AtFault(a)))
       /\ HasKey(a) => a \in HostKeys
       /\ MakesKey(a) /\ ~conf.orbis /\ a \in Ecdsa => a = EcdsaDefault
    BY <1>3, <1>4, <1>5, <1>14, CanSign
<1>11. CASE HasKey(a) \/ MakesKey(a)
    <2>1. /\ kexdh_reply' = S.sig /\ hostkey' = hostkey \cup {S.sig}
          /\ sigalgs' = disable_sig_except(s, S.sig) /\ exit' = exit
          /\ file' = IF HasKey(a) THEN file ELSE [file EXCEPT ![KeyFile(a)] = a]
        BY <1>4, <1>5, <1>8, <1>11, <1>14 DEF SvrKexdhInit
    <2>2. S.sig # NULL /\ S.sig \in HostKeys
        BY <1>2, <1>4, <1>11, <1>14, <1>15 DEF MakesKey
    <2>3. Replied(s)'
        BY <1>3, <1>5, <1>6, <1>7, <2>1, <2>2 DEF Replied
    <2>4. Queue(s)'
        BY <1>3, <1>8, <2>1, <2>2 DEF Queue
    <2>5. Exits'
        <3>1. exit'["svr"] = NULL
            BY <1>3, <2>1 DEF Running, Ends
        <3>2. QED
            BY <2>1, <3>1 DEF Holds, Exits, NULL
    <2>6. Past(s)'
        <3>1. hostkey' \subseteq HostKeys /\ S.sig \in hostkey' /\ rekeys' \in Nat
            BY <1>3, <2>1, <2>2 DEF Holds, Past
        <3>2. Running'
            BY <1>3, <2>1 DEF Running
        <3>3. rekeys' = 0 => s = FreshSigalgs(conf')
            BY <1>3 DEF Holds, Past
        <3>4. QED
            BY <1>4, <1>6, <2>1, <2>2, <3>1, <3>2, <3>3 DEF Past
    <2>8. Files'
        <3>1. CASE HasKey(a)
            BY <1>3, <2>1, <3>1, FilesKeep
        <3>2. CASE ~HasKey(a)
            <4>1. PICK k : k = KeyFile(a)
                OBVIOUS
            <4>2. /\ k \in KeyFiles /\ a \in Holding(k) /\ a \in HostKeys
                  /\ k = "ecdsa" => a \in Ecdsa
                BY <1>14, <2>2, <4>1 DEF KeyFile, KeyFiles, HostKeys, Holding, Ecdsa
            <4>3. MakesKey(a) /\ file[k] \in {a, Absent} /\ file' = [file EXCEPT ![k] = a]
                BY <1>11, <2>1, <3>2, <4>1 DEF MakesKey
            <4>4. file \in [KeyFiles -> HostKeys \cup {Absent, Broken}]
                BY DEF Holds, Files
            <4>5. /\ file' \in [KeyFiles -> HostKeys \cup {Absent, Broken}]
                  /\ file'[k] = a /\ \A l \in KeyFiles : l # k => file'[l] = file[l]
                BY <4>2, <4>3, <4>4
            <4>6. \A l \in KeyFiles : file'[l] \in Holding(l) \cup {Absent, Broken}
                BY <4>2, <4>5 DEF Holds, Files
            <4>7. ASSUME ~conf.orbis, NEW l \in KeyFiles
                  PROVE  \/ file'[l] = conf.file[l]
                         \/ conf.file[l] = Absent /\ (l = "ecdsa" => file'[l] = EcdsaDefault)
                <5>1. \/ file[l] = conf.file[l]
                      \/ conf.file[l] = Absent /\ (l = "ecdsa" => file[l] = EcdsaDefault)
                    BY <4>7 DEF Holds, Files
                <5>2. CASE l # k
                    BY <4>5, <5>1, <5>2
                <5>3. CASE l = k
                    BY <1>15, <4>2, <4>3, <4>5, <4>7, <5>1, <5>3
                <5>4. QED
                    BY <5>2, <5>3
            <4>8. FilesOk(conf')
                BY <1>3 DEF Holds, Files
            <4>9. QED
                BY <1>3, <4>5, <4>6, <4>7, <4>8 DEF Files
        <3>3. QED
            BY <3>1, <3>2
    <2>7. QED
        BY <1>9, <2>3, <2>4, <2>5, <2>6, <2>8 DEF Holds
<1>12. CASE ~(HasKey(a) \/ MakesKey(a))
    <2>1. /\ UNCHANGED <<kexdh_reply, hostkey, file, sigalgs>>
          /\ exit' = [exit EXCEPT !["svr"] = WhyNot(a)]
        BY <1>4, <1>5, <1>8, <1>12, <1>14 DEF SvrKexdhInit, dropbear_exit
    <2>2. rekeys = 0 /\ (conf.orbis \/ (WhyNot(a) = "hostkey file" /\ AtFault(a)))
        BY <1>12, <1>15
    <2>3. Replied(s)'
        BY <1>3, <1>5, <2>1 DEF Replied
    <2>4. /\ exit' = [e \in Ends |-> exit'[e]] /\ exit'["svr"] = WhyNot(a)
          /\ exit'["svr"] \in {"no hostkey", "hostkey file"} /\ exit'["cli"] = exit["cli"]
        BY <1>10, <2>1 DEF Ends, WhyNot
    <2>5. Queue(s)'
        <3>1. ~Running'
            BY <2>4 DEF Running, Ends, NULL
        <3>2. QED
            BY <1>3, <1>5, <2>1, <3>1 DEF Queue
    <2>6. Exits'
        <3>1. newkeys'["svr"].sig = a /\ (AtFault(a) => AtFault(a)')
            BY <1>3, <1>4, <1>14, <2>1 DEF AtFault
        <3>2. AtFault(a)' => AtFault(newkeys["svr"].sig)'
            BY <3>1 DEF AtFault
        <3>3. conf' = conf /\ exit["cli"] \in {NULL, "no match"}
            BY <1>3 DEF Holds, Exits
        <3>4. QED
            BY <2>2, <2>4, <3>1, <3>2, <3>3 DEF Exits
    <2>7. Past(s)'
        <3>4. rekeys' = 0
            BY <1>3, <2>2, Zenon
        <3>1. rekeys' = 0 /\ ~(rekeys' > 0) /\ rekeys' \in Nat
            BY <3>4
        <3>2. /\ hostkey' \subseteq HostKeys /\ s = FreshSigalgs(conf')
              /\ ~conf'.orbis => hostkey' = conf'.loaded
            BY <1>3, <1>5, <2>1, <2>2 DEF Holds, Past
        <3>3. QED
            BY <3>1, <3>2 DEF Past
    <2>8. QED
        BY <1>3, <1>9, <2>1, <2>3, <2>5, <2>6, <2>7, FilesKeep DEF Holds
<1>13. QED
    BY <1>11, <1>12

LEMMA CliKexdhReplyKeeps ==
    ASSUME NEW s, Holds(s), CliKexdhReply
    PROVE  Holds(s)'
<1>1. /\ newkeys["cli"] # Unread /\ kexdh_reply # NULL
      /\ UNCHANGED <<conf, sigalgs, hostkey, file, kexinit, newkeys, c2s, ignorenext, kexdh_reply, rekeys>>
    BY DEF CliKexdhReply
<1>2. kexdh_reply = newkeys["cli"].sig
    <2>1. PICK C, S : C = CliPick(conf, s) /\ S = SvrPick(conf, s)
        OBVIOUS
    <2>2. C.sig = S.sig
        BY <2>1, PicksAre
    <2>3. newkeys["cli"] = C /\ kexdh_reply = S.sig
        BY <1>1, <2>1 DEF Holds, ReadOk, Replied
    <2>4. QED
        BY <2>2, <2>3
<1>3. done' = TRUE /\ exit' = exit
    BY <1>2 DEF CliKexdhReply
<1>4. Lists(s)' /\ ReadOk(s)'
    BY <1>1 DEF Holds, Lists, ReadOk
<1>5. Replied(s)'
    BY <1>1, <1>3 DEF Holds, Replied
<1>6. Queue(s)'
    BY <1>1, <1>3 DEF Holds, Queue
<1>7. Exits' /\ Past(s)'
    BY <1>1, <1>3 DEF Holds, Exits, Past, Running, AtFault
<1>8. QED
    BY <1>1, <1>4, <1>5, <1>6, <1>7, FilesKeep DEF Holds

\* An exchange that begins.
LEMMA Begins ==
    ASSUME NEW s, ConfOk(conf'), SigTable(conf', s), Exchange(conf', s), sigalgs' = s, Past(s)', Files'
    PROVE  Holds(s)'
<1>1. /\ kexinit' = [e \in Ends |-> send_msg_kexinit(e, conf', s)]
      /\ c2s' = <<first_usable_algo(conf'.cli.kex)>>
      /\ newkeys' = [e \in Ends |-> Unread] /\ exit' = [e \in Ends |-> NULL]
      /\ ignorenext' = FALSE /\ kexdh_reply' = NULL /\ done' = FALSE
    BY DEF Exchange
<1>2. /\ newkeys' = [e \in Ends |-> newkeys'[e]] /\ exit' = [e \in Ends |-> exit'[e]]
      /\ newkeys'["cli"] = Unread /\ newkeys'["svr"] = Unread
      /\ exit'["cli"] = NULL /\ exit'["svr"] = NULL
    BY <1>1 DEF Ends
<1>3. Lists(s)'
    BY <1>1 DEF Lists
<1>4. ReadOk(s)' /\ Replied(s)'
    BY <1>1, <1>2 DEF ReadOk, Replied
<1>5. Queue(s)'
    <2>1. Guessed(s)' /\ ~Again(s)'
        BY <1>2 DEF Guessed, Again
    <2>2. QED
        BY <1>1, <2>1 DEF Queue
<1>6. Exits'
    BY <1>2 DEF Exits, NULL
<1>7. QED
    BY <1>3, <1>4, <1>5, <1>6 DEF Holds

LEMMA RekeyKeeps ==
    ASSUME NEW s, Holds(s), Rekey
    PROVE  IInv'
<1>1. /\ Running /\ done /\ Exchange(conf, sigalgs) /\ rekeys' = rekeys + 1
      /\ UNCHANGED <<conf, sigalgs, hostkey, file>>
    BY DEF Rekey
<1>2. PICK S : S = SvrPick(conf, s)
    OBVIOUS
<1>3. /\ newkeys["svr"] # Unread /\ kexdh_reply = S.sig /\ S.sig \in hostkey
      /\ sigalgs = disable_sig_except(s, S.sig)
    BY <1>1, <1>2 DEF Holds, Replied
<1>4. S.ok /\ ConfOk(conf) /\ SigTable(conf, s)
    BY <1>2, <1>3 DEF Holds, ReadOk, Lists
<1>5. PICK r : r = sigalgs
    OBVIOUS
<1>6. PICK R : R = SvrPick(conf, r)
    OBVIOUS
<1>7. SigTable(conf, r) /\ R.ok /\ R.sig = S.sig
    BY <1>2, <1>3, <1>4, <1>5, <1>6, RekeyPicks
<1>8. Past(r)'
    <2>1. rekeys \in Nat /\ hostkey \subseteq HostKeys
        BY DEF Holds, Past
    <2>2. rekeys' \in Nat /\ rekeys' # 0
        BY <1>1, <2>1
    <2>3. Running'
        BY <1>1 DEF Exchange, Running, Ends
    <2>4. SvrPick(conf', r).ok /\ SvrPick(conf', r).sig \in hostkey'
        BY <1>1, <1>3, <1>6, <1>7
    <2>5. QED
        BY <1>1, <2>1, <2>2, <2>3, <2>4 DEF Past
<1>9. ConfOk(conf') /\ SigTable(conf', r) /\ Exchange(conf', r) /\ sigalgs' = r
    BY <1>1, <1>4, <1>5, <1>7
<1>10. Holds(r)'
    BY <1>1, <1>8, <1>9, Begins, FilesKeep
<1>11. QED
    BY <1>10 DEF IInv

LEMMA NewSessionKeeps ==
    ASSUME NEW s, Holds(s), NewSession
    PROVE  IInv'
<1>1. PICK c \in Clients : conf' = [conf EXCEPT !.cli = c]
    BY DEF NewSession
<1>2. /\ rekeys' = 0 /\ Exchange(conf', sigalgs') /\ file' = file
      /\ IF conf.orbis
         THEN sigalgs' = svr_algos_initialise(sigalgs, TRUE) /\ hostkey' = hostkey
         ELSE sigalgs' = FreshSigalgs(conf) /\ hostkey' = conf.loaded
    BY DEF NewSession
<1>3. ConfOk(conf) /\ SigTable(conf, s)
    BY DEF Holds, Lists
<1>4. c \in Side /\ ClientOk(c)
    BY <1>1, KexAlgoAssumption
<1>5. /\ conf' \in Configs /\ conf'.cli = c /\ conf'.svr = conf.svr /\ conf'.loaded = conf.loaded
      /\ conf'.delay = conf.delay /\ conf'.orbis = conf.orbis
      /\ conf'.named = conf.named /\ conf'.file = conf.file
    <2>1. conf \in Configs
        BY <1>3 DEF ConfOk
    <2>2. QED
        BY <1>1, <1>4, <2>1 DEF Configs
<1>6. ConfOk(conf')
    BY <1>3, <1>4, <1>5 DEF ConfOk
<1>7. FreshSigalgs(conf') = FreshSigalgs(conf)
    BY <1>5, Zenon DEF FreshSigalgs
<1>8. PICK r : r = FreshSigalgs(conf)
    OBVIOUS
<1>9. sigalgs' = r
    <2>1. CASE conf.orbis
        <3>1. SigTable(conf, sigalgs)
            <4>1. sigalgs = s \/ sigalgs = disable_sig_except(s, kexdh_reply)
                BY DEF Holds, Replied
            <4>2. QED
                BY <1>3, <4>1, StaysTable DEF disable_sig_except
        <3>2. svr_algos_initialise(sigalgs, TRUE) = All(conf.svr.sig)
            BY <1>3, <3>1, Restored
        <3>3. r = All(conf.svr.sig)
            BY <1>3, <1>8, <2>1, FreshTable
        <3>4. QED
            BY <1>2, <2>1, <3>2, <3>3
    <2>2. CASE ~conf.orbis
        BY <1>2, <1>8, <2>2
    <2>3. QED
        BY <2>1, <2>2
<1>10. SigTable(conf', r)
    BY <1>6, <1>7, <1>8, FreshTable
<1>11. Past(r)'
    <2>1. hostkey \subseteq HostKeys /\ conf.loaded \subseteq HostKeys
        BY <1>3 DEF Holds, Past, ConfOk, Configs
    <2>2. hostkey' \subseteq HostKeys
        BY <1>2, <2>1
    <2>3. rekeys' \in Nat /\ ~(rekeys' > 0)
        BY <1>2
    <2>4. ~conf'.orbis => hostkey' = conf'.loaded
        BY <1>2, <1>5
    <2>5. r = FreshSigalgs(conf')
        BY <1>7, <1>8
    <2>6. QED
        BY <2>2, <2>3, <2>4, <2>5 DEF Past
<1>12. Exchange(conf', r)
    BY <1>2, <1>9
<1>15. Files'
    BY <1>2, <1>5 DEF Holds, Files, FilesOk
<1>13. Holds(r)'
    BY <1>6, <1>9, <1>10, <1>11, <1>12, <1>15, Begins
<1>14. QED
    BY <1>13 DEF IInv

LEMMA Start ==
    ASSUME Init
    PROVE  IInv
<1>1. PICK s : s = sigalgs
    OBVIOUS
<1>2. /\ conf \in Offers /\ sigalgs = FreshSigalgs(conf) /\ hostkey = conf.loaded /\ file = conf.file
      /\ kexinit = [e \in Ends |-> send_msg_kexinit(e, conf, sigalgs)]
      /\ c2s = <<first_usable_algo(conf.cli.kex)>>
      /\ newkeys = [e \in Ends |-> Unread] /\ exit = [e \in Ends |-> NULL]
      /\ ignorenext = FALSE /\ kexdh_reply = NULL /\ done = FALSE /\ rekeys = 0
    BY DEF Init
<1>3. ConfOk(conf)
    BY <1>2, KexAlgoAssumption DEF ConfOk
<1>4. SigTable(conf, s)
    BY <1>1, <1>2, <1>3, FreshTable
<1>5. /\ newkeys = [e \in Ends |-> newkeys[e]] /\ exit = [e \in Ends |-> exit[e]]
      /\ newkeys["cli"] = Unread /\ newkeys["svr"] = Unread
      /\ exit["cli"] = NULL /\ exit["svr"] = NULL
    BY <1>2 DEF Ends
<1>6. Lists(s)
    BY <1>1, <1>2, <1>3, <1>4 DEF Lists
<1>7. ReadOk(s) /\ Replied(s)
    BY <1>1, <1>2, <1>5 DEF ReadOk, Replied
<1>8. Queue(s)
    <2>1. Guessed(s) /\ ~Again(s)
        BY <1>5 DEF Guessed, Again
    <2>2. QED
        BY <1>2, <2>1 DEF Queue
<1>9. Exits
    BY <1>5 DEF Exits, NULL
<1>10. Past(s)
    <2>1. conf.loaded \subseteq HostKeys
        BY <1>3 DEF ConfOk, Configs
    <2>2. rekeys \in Nat /\ ~(rekeys > 0)
        BY <1>2
    <2>3. QED
        BY <1>1, <1>2, <2>1, <2>2 DEF Past
<1>13. Files
    <2>1. FilesOk(conf) /\ conf.file \in [KeyFiles -> HostKeys \cup {Absent, Broken}]
        BY <1>2, <1>3, KexAlgoAssumption DEF ConfOk, Configs
    <2>2. QED
        BY <1>2, <2>1 DEF Files, FilesOk
<1>11. Holds(s)
    BY <1>6, <1>7, <1>8, <1>9, <1>10, <1>13 DEF Holds
<1>12. QED
    BY <1>11 DEF IInv

LEMMA Stutter ==
    ASSUME NEW s, Holds(s), UNCHANGED vars
    PROVE  Holds(s)'
<1>1. UNCHANGED <<conf, sigalgs, hostkey, file, kexinit, newkeys, c2s, ignorenext,
                  kexdh_reply, done, exit, sessions, rekeys>>
    BY DEF vars
<1>2. Lists(s)' /\ ReadOk(s)'
    BY <1>1 DEF Holds, Lists, ReadOk
<1>3. Replied(s)' /\ Exits'
    BY <1>1 DEF Holds, Replied, Exits, AtFault
<1>4. Queue(s)'
    BY <1>1 DEF Holds, Queue, Running, Guessed, Again
<1>5. Past(s)'
    BY <1>1 DEF Holds, Past, Running
<1>6. QED
    BY <1>1, <1>2, <1>3, <1>4, <1>5, FilesKeep DEF Holds

LEMMA Inductive == Spec => []IInv
<1>1. Init => IInv
    BY Start
<1>2. IInv /\ [Next]_vars => IInv'
    <2> SUFFICES ASSUME IInv, [Next]_vars PROVE IInv'
        OBVIOUS
    <2>1. PICK s : Holds(s)
        BY DEF IInv
    <2>2. CASE CliKexinit
        BY <2>1, <2>2, CliKexinitKeeps DEF IInv
    <2>3. CASE SvrKexinit
        BY <2>1, <2>3, SvrKexinitKeeps DEF IInv
    <2>4. CASE SvrIgnores
        BY <2>1, <2>4, SvrIgnoresKeeps DEF IInv
    <2>5. CASE SvrKexdhInit
        BY <2>1, <2>5, SvrKexdhInitKeeps DEF IInv
    <2>6. CASE CliKexdhReply
        BY <2>1, <2>6, CliKexdhReplyKeeps DEF IInv
    <2>7. CASE Rekey
        BY <2>1, <2>7, RekeyKeeps
    <2>8. CASE NewSession
        BY <2>1, <2>8, NewSessionKeeps
    <2>9. CASE UNCHANGED vars
        BY <2>1, <2>9, Stutter DEF IInv
    <2>10. QED
        BY <2>2, <2>3, <2>4, <2>5, <2>6, <2>7, <2>8, <2>9 DEF Next
<1>3. QED
    BY <1>1, <1>2, PTL DEF Spec

-----------------------------------------------------------------------------
(* The theorems *)

LEMMA InvAgreed ==
    ASSUME IInv
    PROVE  Agreed
<1>1. PICK s : Holds(s)
    BY DEF IInv
<1>2. PICK C, S : C = CliPick(conf, s) /\ S = SvrPick(conf, s)
    OBVIOUS
<1>3. PICK cw, sw : cw = send_msg_kexinit("cli", conf, s) /\ sw = send_msg_kexinit("svr", conf, s)
    OBVIOUS
<1>4. ConfOk(conf) /\ SigTable(conf, s) /\ kexinit["cli"] = cw /\ kexinit["svr"] = sw
    BY <1>1, <1>3 DEF Holds, Lists, Ends
<1>5. /\ C.ok = S.ok /\ C.kex = S.kex /\ C.sig = S.sig
      /\ C.keys.trans = S.keys.recv /\ C.keys.recv = S.keys.trans
      /\ Picked(S.kex, cw.kex, sw.kex) /\ Picked(S.sig, cw.sig, sw.sig)
      /\ S.ok => S.kex # NULL /\ S.sig # NULL
    BY <1>2, <1>3, <1>4, Negotiate
<1>6. S.ok => FirstCommon(S.kex, cw.kex, sw.kex) /\ FirstCommon(S.sig, cw.sig, sw.sig)
    BY <1>5 DEF Picked
<1>7. /\ newkeys["cli"] # Unread => newkeys["cli"] = C /\ C.ok
      /\ newkeys["svr"] # Unread => newkeys["svr"] = S /\ S.ok
    BY <1>1, <1>2 DEF Holds, ReadOk
<1>8. \A e \in Ends : newkeys[e] # Unread => S.ok /\ newkeys[e].kex = S.kex /\ newkeys[e].sig = S.sig
    BY <1>5, <1>7 DEF Ends
<1>9. QED
    BY <1>4, <1>5, <1>6, <1>7, <1>8 DEF Agreed

LEMMA InvGuess ==
    ASSUME IInv
    PROVE  GuessNeverMisused
<1>1. PICK s : Holds(s)
    BY DEF IInv
<1>2. \A e \in Ends : exit[e] \notin {"bad kex value", "unexpected", "bad signature"}
    BY <1>1 DEF Holds, Exits, Ends, NULL
<1>3. ASSUME GuessShared, Running, c2s = <<>>, \A e \in Ends : newkeys[e] # Unread, kexdh_reply = NULL
      PROVE  FALSE
    <2>1. PICK C, S : C = CliPick(conf, s) /\ S = SvrPick(conf, s)
        OBVIOUS
    <2>2. PICK cw, sw : cw = send_msg_kexinit("cli", conf, s) /\ sw = send_msg_kexinit("svr", conf, s)
        OBVIOUS
    <2>3. ConfOk(conf) /\ SigTable(conf, s) /\ kexinit["cli"] = cw /\ kexinit["svr"] = sw
        BY <1>1, <2>2 DEF Holds, Lists, Ends
    <2>4. sigalgs = s
        BY <1>1, <1>3 DEF Holds, Replied
    <2>5. Shared(conf, s)
        BY <1>3, <2>2, <2>3, <2>4 DEF GuessShared, Shared, Ends
    <2>6. C.allgood => S.allgood
        BY <2>1, <2>2, <2>3, <2>5, Negotiate
    <2>7. newkeys["cli"] # Unread /\ newkeys["svr"] # Unread
        BY <1>3 DEF Ends
    <2>8. ~Guessed(s)
        BY <1>1, <1>3 DEF Holds, Queue
    <2>9. ~Again(s)
        BY <1>1, <1>3, <2>8 DEF Holds, Queue
    <2>10. QED
        BY <2>1, <2>6, <2>7, <2>8, <2>9 DEF Guessed, Again
<1>4. QED
    BY <1>2, <1>3 DEF GuessNeverMisused

LEMMA InvServable ==
    ASSUME IInv
    PROVE  Servable
<1>1. PICK s : Holds(s)
    BY DEF IInv
<1>2. QED
    BY <1>1 DEF Holds, Exits, Servable, AtFault

LEMMA InvFresh ==
    ASSUME IInv
    PROVE  FreshOffer
<1>1. PICK s : Holds(s)
    BY DEF IInv
<1>2. kexinit["svr"] = send_msg_kexinit("svr", conf, s)
    BY <1>1 DEF Holds, Lists, Ends
<1>3. QED
    BY <1>1, <1>2 DEF Holds, Past, FreshOffer

\* For every pair of tables and options: what each end picks from its own
\* table and the other's list (buf_match_algo, read_kex_algos) is what
\* RFC 4253 says of the two lists sent, and the keys of the two ends fit.
THEOREM EndsAgree == Spec => []Agreed
<1>1. IInv => Agreed
    BY InvAgreed
<1>2. QED
    BY <1>1, Inductive, PTL

\* The packet that the client guesses (first_kex_packet_follows) is used at
\* most once, never for another key exchange, and replaced when the server
\* throws it away, if the two judge it alike.
THEOREM GuessIsSafe == Spec => []GuessNeverMisused
<1>1. IInv => GuessNeverMisused
    BY InvGuess
<1>2. QED
    BY <1>1, Inductive, PTL

\* Whatever keys were loaded and whether or not keys are made when needed
\* (load_all_hostkeys, svr_ensure_hostkey), also by earlier sessions, and
\* unless the default file is at fault as Servable says, a server of the forking
\* build can sign with the algorithm it negotiated, in rekeys, too.
THEOREM ServerCanSign == Spec => []Servable
<1>1. IInv => Servable
    BY InvServable
<1>2. QED
    BY <1>1, Inductive, PTL

\* Every session offers the same host key algorithms (svr_algos_initialise),
\* and no rekey fails because of the restriction to one (disable_sig_except).
THEOREM OfferIsFresh == Spec => []FreshOffer
<1>1. IInv => FreshOffer
    BY InvFresh
<1>2. QED
    BY <1>1, Inductive, PTL
=============================================================================
