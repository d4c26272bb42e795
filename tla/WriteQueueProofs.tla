-------------------------- MODULE WriteQueueProofs --------------------------
(***************************************************************************)
(* Proofs about WriteQueue, for every window, packet size, queue limit and *)
(* socket capacity that QueueAssumption admits:                            *)
(*  - CreditConserved: no credit is lost or made between the two ends;     *)
(*  - QueueBounded: how far a write queue can go over its limit;           *)
(*  - the ends cannot both wait for the other to read, where one of them   *)
(*    cannot have more under way than its queue and its socket hold.       *)
(*                                                                         *)
(* What the model sums over a queue is a recursive function.  The first    *)
(* part shows that such a function exists, is unique and adds up over      *)
(* concatenations, by the least counterexample; the rest only uses that.   *)
(***************************************************************************)
EXTENDS WriteQueue, WellFoundedInduction, TLAPS

-----------------------------------------------------------------------------
(* Running sums. *)

LEMMA LeastOf ==
    ASSUME NEW S, S \subseteq Nat, S # {}
    PROVE  \E m \in S : \A k \in S : m <= k
<1>1. \E m \in S : \A k \in S : ~(<<k, m>> \in OpToRel(<, Nat))
    BY WFMin, NatLessThanWellFounded
<1>2. \A m, k \in S : ~(<<k, m>> \in OpToRel(<, Nat)) => m <= k
    BY DEF OpToRel
<1>3. QED
    BY <1>1, <1>2

\* Induction up to n, for a set.
LEMMA UpTo ==
    ASSUME NEW n \in Nat, NEW P, 0 \in P, \A i \in 0..n : i \in P /\ i < n => i + 1 \in P
    PROVE  \A i \in 0..n : i \in P
<1> DEFINE Bad == {i \in 0..n : i \notin P}
<1> SUFFICES ASSUME Bad # {} PROVE FALSE
    OBVIOUS
<1>1. Bad \subseteq Nat
    OBVIOUS
<1>2. PICK m \in Bad : \A k \in Bad : m <= k
    BY <1>1, LeastOf
<1>3. m \in 0..n /\ m \notin P /\ m # 0
    BY <1>2
<1>4. m - 1 \in 0..n /\ m - 1 < n /\ m - 1 \notin Bad /\ (m - 1) + 1 = m
    BY <1>2, <1>3
<1>5. m - 1 \in P
    BY <1>4
<1>6. QED
    BY <1>3, <1>4, <1>5

LEMMA SameSeq ==
    ASSUME NEW S, NEW a \in Seq(S), NEW b \in Seq(S), Len(a) = Len(b),
           \A i \in 1..Len(a) : a[i] = b[i]
    PROVE  a = b
<1>1. a = [i \in 1..Len(a) |-> a[i]] /\ b = [i \in 1..Len(b) |-> b[i]]
    OBVIOUS
<1>2. QED
    BY <1>1

\* A concatenation, item by item.
LEMMA ConcatIs ==
    ASSUME NEW S, NEW a \in Seq(S), NEW b \in Seq(S)
    PROVE  /\ a \o b \in Seq(S) /\ Len(a \o b) = Len(a) + Len(b)
           /\ \A i \in 1..(Len(a) + Len(b)) :
                (a \o b)[i] = IF i <= Len(a) THEN a[i] ELSE b[i - Len(a)]
OBVIOUS

LEMMA Items ==
    ASSUME NEW s \in Seq(Nat)
    PROVE  \A j \in 1..Len(s) : s[j] \in Nat
OBVIOUS

\* f is the running sum of the numbers s.
Run(f, s) ==
    /\ f \in [0..Len(s) -> Nat] /\ f[0] = 0
    /\ \A i \in 1..Len(s) : f[i] = f[i - 1] + s[i]

LEMMA RunExists ==
    ASSUME NEW s \in Seq(Nat)
    PROVE  \E f : Run(f, s)
<1> DEFINE Part(f, n) == /\ f \in [0..n -> Nat] /\ f[0] = 0
                         /\ \A i \in 1..n : f[i] = f[i - 1] + s[i]
           P == {n \in 0..Len(s) : \E f : Part(f, n)}
<1>1. 0 \in P
    <2>1. Part([i \in 0..0 |-> 0], 0)
        OBVIOUS
    <2>2. 0 \in 0..Len(s)
        OBVIOUS
    <2>3. QED
        BY <2>1, <2>2
<1>2. ASSUME NEW n \in 0..Len(s), n \in P, n < Len(s) PROVE n + 1 \in P
    <2>1. PICK f : Part(f, n)
        BY <1>2
    <2>2. PICK g : g = [i \in 0..(n + 1) |-> IF i <= n THEN f[i] ELSE f[n] + s[n + 1]]
        OBVIOUS
    <2>3. s[n + 1] \in Nat /\ f[n] \in Nat
        BY <1>2, <2>1
    <2>4. g \in [0..(n + 1) -> Nat] /\ g[0] = 0
        BY <2>1, <2>2, <2>3
    <2>5. ASSUME NEW i \in 1..(n + 1) PROVE g[i] = g[i - 1] + s[i]
        <3>1. CASE i <= n
            <4>1. i \in 1..n /\ i \in 0..(n + 1) /\ i - 1 \in 0..(n + 1) /\ i - 1 <= n
                BY <3>1
            <4>2. QED
                BY <2>1, <2>2, <3>1, <4>1
        <3>2. CASE ~(i <= n)
            <4>1. i = n + 1 /\ i - 1 = n /\ n \in 0..(n + 1) /\ n <= n /\ i \in 0..(n + 1)
                BY <3>2
            <4>2. QED
                BY <2>2, <3>2, <4>1
        <3>3. QED
            BY <3>1, <3>2
    <2>6. Part(g, n + 1)
        BY <2>4, <2>5
    <2>7. n + 1 \in 0..Len(s)
        BY <1>2
    <2>8. QED
        BY <2>6, <2>7
<1> HIDE DEF P
<1>3. Len(s) \in Nat /\ Len(s) \in 0..Len(s)
    OBVIOUS
<1>4. Len(s) \in P
    BY <1>1, <1>2, <1>3, UpTo
<1>5. QED
    BY <1>4 DEF P, Run

\* Whatever satisfies the recursion, typed or not, is the running sum.
LEMMA RunUnique ==
    ASSUME NEW s \in Seq(Nat), NEW f, Run(f, s),
           NEW h, h = [i \in 0..Len(s) |-> IF i = 0 THEN 0 ELSE h[i - 1] + s[i]]
    PROVE  h = f
<1> DEFINE P == {n \in 0..Len(s) : h[n] = f[n]}
<1>0. Len(s) \in Nat
    OBVIOUS
<1>1. 0 \in P
    <2>1. 0 \in 0..Len(s)
        BY <1>0
    <2>2. h[0] = 0
        BY <2>1
    <2>3. QED
        BY <2>1, <2>2 DEF Run
<1>2. ASSUME NEW n \in 0..Len(s), n \in P, n < Len(s) PROVE n + 1 \in P
    <2>1. n + 1 \in 0..Len(s) /\ n + 1 \in 1..Len(s) /\ (n + 1) - 1 = n /\ n + 1 # 0
        BY <1>0, <1>2
    <2>2. h[n + 1] = h[n] + s[n + 1]
        BY <2>1
    <2>3. f[n + 1] = f[n] + s[n + 1]
        BY <2>1 DEF Run
    <2>4. QED
        BY <1>2, <2>1, <2>2, <2>3
<1>3. \A n \in 0..Len(s) : n \in P
    <2> HIDE DEF P
    <2>1. QED
        BY <1>0, <1>1, <1>2, UpTo
<1>4. \A n \in 0..Len(s) : h[n] = f[n]
    BY <1>3
<1>5. f = [n \in 0..Len(s) |-> f[n]] /\ h = [n \in 0..Len(s) |-> h[n]]
    BY DEF Run
<1>6. QED
    BY <1>4, <1>5

\* The running sum written as the recursion it satisfies.
LEMMA RunIsRecursive ==
    ASSUME NEW s \in Seq(Nat), NEW f, Run(f, s)
    PROVE  f = [i \in 0..Len(s) |-> IF i = 0 THEN 0 ELSE f[i - 1] + s[i]]
<1>1. \A i \in 0..Len(s) : f[i] = IF i = 0 THEN 0 ELSE f[i - 1] + s[i]
    BY DEF Run
<1>2. f = [i \in 0..Len(s) |-> f[i]]
    BY DEF Run
<1>3. QED
    BY <1>1, <1>2

Total(s) == CHOOSE x : \E f : Run(f, s) /\ x = f[Len(s)]

LEMMA TotalIs ==
    ASSUME NEW s \in Seq(Nat), NEW f, Run(f, s)
    PROVE  Total(s) = f[Len(s)] /\ Total(s) \in Nat
<1>1. \E x : \E g : Run(g, s) /\ x = g[Len(s)]
    OBVIOUS
<1>2. PICK g : Run(g, s) /\ Total(s) = g[Len(s)]
    BY <1>1 DEF Total
<1>3. g = f
    BY <1>2, RunIsRecursive, RunUnique
<1>4. f[Len(s)] \in Nat
    BY DEF Run
<1>5. QED
    BY <1>2, <1>3, <1>4

LEMMA TotalNat ==
    ASSUME NEW s \in Seq(Nat)
    PROVE  Total(s) \in Nat
BY RunExists, TotalIs

LEMMA TotalEmpty == Total(<<>>) = 0
<1>1. <<>> \in Seq(Nat) /\ Len(<<>>) = 0
    OBVIOUS
<1>2. PICK f : Run(f, <<>>)
    BY <1>1, RunExists
<1>3. QED
    BY <1>1, <1>2, TotalIs DEF Run

LEMMA TotalOne ==
    ASSUME NEW v \in Nat
    PROVE  Total(<<v>>) = v
<1>1. <<v>> \in Seq(Nat) /\ Len(<<v>>) = 1 /\ <<v>>[1] = v
    OBVIOUS
<1>2. PICK f : Run(f, <<v>>)
    BY <1>1, RunExists
<1>3. f[0] = 0 /\ f[1] = f[1 - 1] + v /\ 1 - 1 = 0
    BY <1>1, <1>2 DEF Run
<1>4. f[1] = v
    BY <1>3
<1>5. QED
    BY <1>1, <1>2, <1>4, TotalIs

LEMMA TotalConcat ==
    ASSUME NEW a \in Seq(Nat), NEW b \in Seq(Nat)
    PROVE  Total(a \o b) = Total(a) + Total(b)
<1>1. PICK f : Run(f, a)
    BY RunExists
<1>2. PICK g : Run(g, b)
    BY RunExists
<1>3. PICK m, n : m = Len(a) /\ n = Len(b)
    OBVIOUS
<1>4. m \in Nat /\ n \in Nat /\ a \o b \in Seq(Nat) /\ Len(a \o b) = m + n
    BY <1>3
<1>5. PICK h : h = [i \in 0..(m + n) |-> IF i <= m THEN f[i] ELSE f[m] + g[i - m]]
    OBVIOUS
<1>6. /\ f \in [0..m -> Nat] /\ f[0] = 0 /\ \A i \in 1..m : f[i] = f[i - 1] + a[i]
      /\ g \in [0..n -> Nat] /\ g[0] = 0 /\ \A i \in 1..n : g[i] = g[i - 1] + b[i]
    BY <1>1, <1>2, <1>3 DEF Run
<1>7. h \in [0..(m + n) -> Nat] /\ h[0] = 0
    <2>1. ASSUME NEW i \in 0..(m + n) PROVE h[i] \in Nat
        <3>1. CASE i <= m
            BY <1>4, <1>5, <1>6, <3>1
        <3>2. CASE ~(i <= m)
            <4>1. i - m \in 0..n /\ m \in 0..m
                BY <1>4, <3>2
            <4>2. h[i] = f[m] + g[i - m]
                BY <1>5, <3>2
            <4>3. QED
                BY <1>6, <4>1, <4>2
        <3>3. QED
            BY <3>1, <3>2
    <2>2. QED
        BY <1>4, <1>5, <1>6, <2>1
<1>8. ASSUME NEW i \in 1..(m + n) PROVE h[i] = h[i - 1] + (a \o b)[i]
    <2>0. i \in 0..(m + n) /\ i - 1 \in 0..(m + n)
        BY <1>4
    <2>1. CASE i <= m
        <3>1. i \in 1..m /\ i - 1 <= m
            BY <1>4, <2>1
        <3>2. h[i] = f[i] /\ h[i - 1] = f[i - 1]
            BY <1>5, <2>0, <2>1, <3>1
        <3>3. (a \o b)[i] = a[i]
            BY <1>3, <3>1
        <3>4. QED
            BY <1>6, <3>1, <3>2, <3>3
    <2>2. CASE ~(i <= m)
        <3>1. i - m \in 1..n /\ (i - 1) - m = (i - m) - 1 /\ i - m - 1 \in 0..n
            BY <1>4, <2>2
        <3>2. (a \o b)[i] = b[i - m]
            BY <1>3, <1>4, <2>2
        <3>3. h[i] = f[m] + g[i - m] /\ g[i - m] = g[(i - m) - 1] + b[i - m]
            BY <1>5, <1>6, <2>0, <2>2, <3>1
        <3>4. h[i - 1] = f[m] + g[(i - m) - 1]
            <4>1. CASE i - 1 <= m
                <5>1. i - 1 = m /\ (i - m) - 1 = 0
                    BY <1>4, <2>2, <4>1
                <5>2. h[i - 1] = f[m] /\ f[m] \in Nat
                    BY <1>4, <1>5, <1>6, <2>0, <4>1, <5>1
                <5>3. QED
                    BY <1>6, <5>1, <5>2
            <4>2. CASE ~(i - 1 <= m)
                BY <1>5, <2>0, <3>1, <4>2
            <4>3. QED
                BY <4>1, <4>2
        <3>5. f[m] \in Nat /\ g[(i - m) - 1] \in Nat /\ b[i - m] \in Nat
            <4>1. \A j \in 1..n : b[j] \in Nat
                BY <1>3
            <4>2. m \in 0..m /\ (i - m) - 1 \in 0..n
                BY <1>4, <3>1
            <4>3. QED
                BY <1>6, <3>1, <4>1, <4>2
        <3>6. QED
            BY <3>2, <3>3, <3>4, <3>5
    <2>3. QED
        BY <2>1, <2>2
<1>9. Run(h, a \o b)
    BY <1>4, <1>7, <1>8 DEF Run
<1>10. h[m + n] = f[m] + g[n]
    <2>1. CASE n = 0
        <3>1. m + n = m /\ m \in 0..(m + n) /\ m <= m /\ f[m] \in Nat
            BY <1>4, <1>6, <2>1
        <3>2. h[m + n] = f[m]
            BY <1>5, <3>1
        <3>3. QED
            BY <1>6, <2>1, <3>1, <3>2
    <2>2. CASE n # 0
        <3>1. m + n \in 0..(m + n) /\ ~(m + n <= m) /\ (m + n) - m = n
            BY <1>4, <2>2
        <3>2. QED
            BY <1>5, <3>1
    <2>3. QED
        BY <2>1, <2>2
<1>11. Total(a) = f[m] /\ Total(b) = g[n] /\ Total(a \o b) = h[m + n]
    BY <1>1, <1>2, <1>3, <1>4, <1>9, TotalIs
<1>12. QED
    BY <1>10, <1>11

\* Item by item k of one is at most l of the other, and so in total.
LEMMA TotalCompare ==
    ASSUME NEW a \in Seq(Nat), NEW b \in Seq(Nat), Len(a) = Len(b),
           NEW k \in Nat, NEW l \in Nat, \A i \in 1..Len(a) : k * a[i] <= l * b[i]
    PROVE  k * Total(a) <= l * Total(b)
<1>1. PICK f : Run(f, a)
    BY RunExists
<1>2. PICK g : Run(g, b)
    BY RunExists
<1>3. PICK n : n = Len(a)
    OBVIOUS
<1>4. /\ n \in Nat /\ n = Len(b) /\ n \in 0..n
      /\ f \in [0..n -> Nat] /\ f[0] = 0 /\ \A i \in 1..n : f[i] = f[i - 1] + a[i]
      /\ g \in [0..n -> Nat] /\ g[0] = 0 /\ \A i \in 1..n : g[i] = g[i - 1] + b[i]
    BY <1>1, <1>2, <1>3 DEF Run
<1> DEFINE P == {i \in 0..n : k * f[i] <= l * g[i]}
<1>5. 0 \in P
    BY <1>4
<1>6. ASSUME NEW i \in 0..n, i \in P, i < n PROVE i + 1 \in P
    <2>1. i + 1 \in 1..n /\ i + 1 \in 0..n /\ (i + 1) - 1 = i
        BY <1>4, <1>6
    <2>2. PICK x, y, u, v : x = f[i] /\ y = g[i] /\ u = a[i + 1] /\ v = b[i + 1]
        OBVIOUS
    <2>3. x \in Nat /\ y \in Nat /\ u \in Nat /\ v \in Nat
        <3>0. (\A j \in 1..Len(a) : a[j] \in Nat) /\ (\A j \in 1..Len(b) : b[j] \in Nat)
            BY Items
        <3>1. \A j \in 1..n : a[j] \in Nat /\ b[j] \in Nat
            BY <1>3, <1>4, <3>0
        <3>2. QED
            BY <1>4, <2>1, <2>2, <3>1
    <2>4. k * x <= l * y /\ k * u <= l * v
        BY <1>3, <1>6, <2>1, <2>2
    <2>5. k * (x + u) = k * x + k * u /\ l * (y + v) = l * y + l * v
        BY <2>3
    <2>6. k * x \in Nat /\ k * u \in Nat /\ l * y \in Nat /\ l * v \in Nat
        BY <2>3
    <2>7. k * (x + u) <= l * (y + v)
        BY <2>4, <2>5, <2>6
    <2>8. f[i + 1] = x + u /\ g[i + 1] = y + v
        BY <1>4, <2>1, <2>2
    <2>9. QED
        BY <2>1, <2>7, <2>8
<1>7. n \in P
    <2> HIDE DEF P
    <2>1. QED
        BY <1>4, <1>5, <1>6, UpTo
<1>8. Total(a) = f[n] /\ Total(b) = g[n]
    BY <1>1, <1>2, <1>3, <1>4, TotalIs
<1>9. QED
    BY <1>7, <1>8

\* The total of sums is the sum of the totals.
LEMMA TotalPlus ==
    ASSUME NEW a \in Seq(Nat), NEW b \in Seq(Nat), NEW c \in Seq(Nat),
           Len(a) = Len(c), Len(b) = Len(c), \A i \in 1..Len(c) : c[i] = a[i] + b[i]
    PROVE  Total(c) = Total(a) + Total(b)
<1>1. PICK f : Run(f, a)
    BY RunExists
<1>2. PICK g : Run(g, b)
    BY RunExists
<1>3. PICK n : n = Len(c)
    OBVIOUS
<1>4. /\ n \in Nat /\ n = Len(a) /\ n = Len(b) /\ n \in 0..n
      /\ f \in [0..n -> Nat] /\ f[0] = 0 /\ \A i \in 1..n : f[i] = f[i - 1] + a[i]
      /\ g \in [0..n -> Nat] /\ g[0] = 0 /\ \A i \in 1..n : g[i] = g[i - 1] + b[i]
    BY <1>1, <1>2, <1>3 DEF Run
<1>5. PICK h : h = [i \in 0..n |-> f[i] + g[i]]
    OBVIOUS
<1>6. h \in [0..n -> Nat] /\ h[0] = 0
    BY <1>4, <1>5
<1>7. ASSUME NEW i \in 1..n PROVE h[i] = h[i - 1] + c[i]
    <2>1. i \in 0..n /\ i - 1 \in 0..n
        BY <1>4
    <2>2. PICK x, y, u, v : x = f[i - 1] /\ y = g[i - 1] /\ u = a[i] /\ v = b[i]
        OBVIOUS
    <2>3. x \in Nat /\ y \in Nat /\ u \in Nat /\ v \in Nat
        <3>0. (\A j \in 1..Len(a) : a[j] \in Nat) /\ (\A j \in 1..Len(b) : b[j] \in Nat)
            BY Items
        <3>1. \A j \in 1..n : a[j] \in Nat /\ b[j] \in Nat
            BY <1>4, <3>0
        <3>2. QED
            BY <1>4, <2>1, <2>2, <3>1
    <2>4. h[i] = (x + u) + (y + v) /\ h[i - 1] = x + y /\ c[i] = u + v
        BY <1>3, <1>4, <1>5, <2>1, <2>2
    <2>5. (x + u) + (y + v) = (x + y) + (u + v)
        BY <2>3
    <2>6. QED
        BY <2>4, <2>5
<1>8. Run(h, c)
    BY <1>3, <1>6, <1>7 DEF Run
<1>9. Total(a) = f[n] /\ Total(b) = g[n] /\ Total(c) = h[n]
    BY <1>1, <1>2, <1>3, <1>4, <1>8, TotalIs
<1>10. QED
    BY <1>4, <1>5, <1>9

-----------------------------------------------------------------------------
(* Weights of packets. *)

Packet == [type : {"data", "adjust"}, n : Nat]

Units(t) == [p \in Packet |-> IF p.type = t THEN p.n ELSE 0]
Sizes == [p \in Packet |-> Size(p)]
DataSizes == [p \in Packet |-> IF p.type = "data" THEN p.n + Overhead ELSE 0]
Adjusts == [p \in Packet |-> IF p.type = "adjust" THEN 1 ELSE 0]

\* The packets of q weighed by w, one by one and together.
Weights(w, q) == [i \in 1..Len(q) |-> w[q[i]]]
Weight(w, q) == Total(Weights(w, q))

LEMMA WeightTypes ==
    /\ Units("data") \in [Packet -> Nat] /\ Units("adjust") \in [Packet -> Nat]
    /\ Sizes \in [Packet -> Nat] /\ DataSizes \in [Packet -> Nat] /\ Adjusts \in [Packet -> Nat]
<1>1. Overhead \in Nat
    BY QueueAssumption
<1>2. \A p \in Packet : Size(p) \in Nat
    BY <1>1 DEF Packet, Size
<1>3. Units("data") \in [Packet -> Nat] /\ Units("adjust") \in [Packet -> Nat]
    BY DEF Units, Packet
<1>4. Sizes \in [Packet -> Nat]
    BY <1>2 DEF Sizes
<1>5. DataSizes \in [Packet -> Nat]
    BY <1>1 DEF DataSizes, Packet
<1>6. Adjusts \in [Packet -> Nat]
    BY DEF Adjusts
<1>7. QED
    BY <1>3, <1>4, <1>5, <1>6

LEMMA WeightsSeq ==
    ASSUME NEW w \in [Packet -> Nat], NEW q \in Seq(Packet)
    PROVE  /\ Weights(w, q) \in Seq(Nat) /\ Len(Weights(w, q)) = Len(q)
           /\ \A i \in 1..Len(q) : Weights(w, q)[i] = w[q[i]]
<1>1. \A i \in 1..Len(q) : q[i] \in Packet
    OBVIOUS
<1>2. \A i \in 1..Len(q) : w[q[i]] \in Nat
    BY <1>1
<1>3. QED
    BY <1>2 DEF Weights

LEMMA WeightNat ==
    ASSUME NEW w \in [Packet -> Nat], NEW q \in Seq(Packet)
    PROVE  Weight(w, q) \in Nat
BY WeightsSeq, TotalNat DEF Weight

LEMMA WeightEmpty ==
    ASSUME NEW w \in [Packet -> Nat]
    PROVE  Weight(w, <<>>) = 0
<1>1. Weights(w, <<>>) = <<>>
    BY DEF Weights
<1>2. QED
    BY <1>1, TotalEmpty DEF Weight

LEMMA WeightConcat ==
    ASSUME NEW w \in [Packet -> Nat], NEW q \in Seq(Packet), NEW r \in Seq(Packet)
    PROVE  Weight(w, q \o r) = Weight(w, q) + Weight(w, r)
<1>1. q \o r \in Seq(Packet) /\ Len(q \o r) = Len(q) + Len(r)
    OBVIOUS
<1>2. PICK a, b, c : a = Weights(w, q) /\ b = Weights(w, r) /\ c = Weights(w, q \o r)
    OBVIOUS
<1>3. /\ a \in Seq(Nat) /\ Len(a) = Len(q) /\ \A i \in 1..Len(q) : a[i] = w[q[i]]
      /\ b \in Seq(Nat) /\ Len(b) = Len(r) /\ \A i \in 1..Len(r) : b[i] = w[r[i]]
      /\ c \in Seq(Nat) /\ Len(c) = Len(q) + Len(r)
    BY <1>1, <1>2, WeightsSeq
<1>4. \A i \in 1..(Len(q) + Len(r)) : c[i] = w[(q \o r)[i]]
    BY <1>1, <1>2, WeightsSeq
<1>5. ASSUME NEW i \in 1..(Len(q) + Len(r)) PROVE c[i] = (a \o b)[i]
    <2>1. CASE i <= Len(q)
        BY <1>3, <1>4, <2>1
    <2>2. CASE ~(i <= Len(q))
        <3>1. i - Len(q) \in 1..Len(r)
            BY <2>2
        <3>2. (q \o r)[i] = r[i - Len(q)]
            BY <1>1, <2>2
        <3>3. (a \o b)[i] = b[i - Len(a)]
            <4>1. i \in 1..(Len(a) + Len(b)) /\ ~(i <= Len(a))
                BY <1>3, <2>2
            <4>2. a \in Seq(Nat) /\ b \in Seq(Nat)
                BY <1>3
            <4>3. QED
                BY <4>1, <4>2
        <3>4. QED
            BY <1>3, <1>4, <3>1, <3>2, <3>3
    <2>3. QED
        BY <2>1, <2>2
<1>6. c = a \o b
    <2>1. a \in Seq(Nat) /\ b \in Seq(Nat)
        BY <1>3
    <2>2. a \o b \in Seq(Nat) /\ Len(a \o b) = Len(a) + Len(b)
        BY <2>1
    <2>3. c \in Seq(Nat) /\ Len(c) = Len(a \o b) /\ \A i \in 1..Len(c) : c[i] = (a \o b)[i]
        BY <1>3, <1>5, <2>2
    <2>4. QED
        BY <2>2, <2>3, SameSeq
<1>7. QED
    BY <1>2, <1>3, <1>6, TotalConcat DEF Weight

LEMMA WeightOne ==
    ASSUME NEW w \in [Packet -> Nat], NEW p \in Packet
    PROVE  Weight(w, <<p>>) = w[p]
<1>1. Weights(w, <<p>>) = <<w[p]>>
    BY DEF Weights
<1>2. QED
    BY <1>1, TotalOne DEF Weight

LEMMA WeightAppend ==
    ASSUME NEW w \in [Packet -> Nat], NEW q \in Seq(Packet), NEW p \in Packet
    PROVE  Weight(w, Append(q, p)) = Weight(w, q) + w[p]
<1>1. Append(q, p) = q \o <<p>> /\ <<p>> \in Seq(Packet)
    OBVIOUS
<1>2. QED
    BY <1>1, WeightConcat, WeightOne

LEMMA WeightSplit ==
    ASSUME NEW w \in [Packet -> Nat], NEW q \in Seq(Packet), NEW k \in 0..Len(q)
    PROVE  Weight(w, q) = Weight(w, SubSeq(q, 1, k)) + Weight(w, SubSeq(q, k + 1, Len(q)))
<1>1. /\ SubSeq(q, 1, k) \in Seq(Packet) /\ SubSeq(q, k + 1, Len(q)) \in Seq(Packet)
      /\ Len(SubSeq(q, 1, k)) = k /\ Len(SubSeq(q, k + 1, Len(q))) = Len(q) - k
    OBVIOUS
<1>2. q = SubSeq(q, 1, k) \o SubSeq(q, k + 1, Len(q))
    <2>1. PICK a, b : a = SubSeq(q, 1, k) /\ b = SubSeq(q, k + 1, Len(q))
        OBVIOUS
    <2>2. a \in Seq(Packet) /\ b \in Seq(Packet) /\ Len(a) = k /\ Len(b) = Len(q) - k
        BY <1>1, <2>1
    <2>3. /\ a \o b \in Seq(Packet) /\ Len(a \o b) = Len(a) + Len(b)
          /\ \A i \in 1..(Len(a) + Len(b)) :
               (a \o b)[i] = IF i <= Len(a) THEN a[i] ELSE b[i - Len(a)]
        BY <2>2, ConcatIs
    <2>4. Len(a \o b) = Len(q)
        BY <2>2, <2>3
    <2>5. ASSUME NEW i \in 1..Len(q) PROVE q[i] = (a \o b)[i]
        <3>1. CASE i <= k
            <4>1. i \in 1..(Len(a) + Len(b)) /\ i <= Len(a)
                BY <2>2, <3>1
            <4>2. (a \o b)[i] = a[i]
                BY <2>3, <4>1
            <4>3. a[i] = q[i]
                BY <2>1, <3>1
            <4>4. QED
                BY <4>2, <4>3
        <3>2. CASE ~(i <= k)
            <4>1. i - k \in 1..(Len(q) - k) /\ i \in 1..(Len(a) + Len(b)) /\ ~(i <= Len(a))
                BY <2>2, <3>2
            <4>2. (a \o b)[i] = b[i - Len(a)]
                BY <2>3, <4>1
            <4>3. b[i - k] = q[(k + 1) + (i - k) - 1]
                BY <2>1, <4>1
            <4>4. (k + 1) + (i - k) - 1 = i
                OBVIOUS
            <4>5. QED
                BY <2>2, <4>2, <4>3, <4>4
        <3>3. QED
            BY <3>1, <3>2
    <2>6. QED
        BY <2>1, <2>3, <2>4, <2>5, SameSeq
<1>3. QED
    BY <1>1, <1>2, WeightConcat

LEMMA WeightHead ==
    ASSUME NEW w \in [Packet -> Nat], NEW q \in Seq(Packet), q # <<>>
    PROVE  Weight(w, q) = w[Head(q)] + Weight(w, Tail(q))
<1>1. Head(q) \in Packet /\ Tail(q) \in Seq(Packet) /\ <<Head(q)>> \in Seq(Packet)
    OBVIOUS
<1>2. q = <<Head(q)>> \o Tail(q)
    OBVIOUS
<1>3. Weight(w, <<Head(q)>> \o Tail(q)) = Weight(w, <<Head(q)>>) + Weight(w, Tail(q))
    BY <1>1, WeightConcat
<1>4. QED
    BY <1>1, <1>2, <1>3, WeightOne

\* The sums of the model are weights.
LEMMA PrefixesIs ==
    ASSUME NEW q \in Seq(Packet)
    PROVE  Run(Prefixes(q), Weights(Sizes, q))
<1>1. PICK s : s = Weights(Sizes, q)
    OBVIOUS
<1>2. s \in Seq(Nat) /\ Len(s) = Len(q) /\ \A i \in 1..Len(q) : s[i] = Size(q[i])
    <2>1. \A i \in 1..Len(q) : q[i] \in Packet /\ Sizes[q[i]] = Size(q[i])
        BY DEF Sizes
    <2>2. QED
        BY <1>1, <2>1, WeightTypes, WeightsSeq
<1>3. PICK f : Run(f, s)
    BY <1>2, RunExists
<1>4. ASSUME NEW h
      PROVE  [i \in 0..Len(s) |-> IF i = 0 THEN 0 ELSE h[i - 1] + s[i]]
             = [i \in 0..Len(q) |-> IF i = 0 THEN 0 ELSE h[i - 1] + Size(q[i])]
    BY <1>2
<1>5. f = [i \in 0..Len(q) |-> IF i = 0 THEN 0 ELSE f[i - 1] + Size(q[i])]
    BY <1>2, <1>3, <1>4, RunIsRecursive
<1>6. Prefixes(q) = [i \in 0..Len(q) |-> IF i = 0 THEN 0 ELSE Prefixes(q)[i - 1] + Size(q[i])]
    BY <1>5 DEF Prefixes
<1>7. Prefixes(q) = f
    BY <1>2, <1>3, <1>4, <1>6, RunUnique
<1>8. QED
    BY <1>1, <1>3, <1>7

LEMMA BytesIs ==
    ASSUME NEW q \in Seq(Packet)
    PROVE  Bytes(q) = Weight(Sizes, q) /\ Bytes(q) \in Nat
<1>1. Weights(Sizes, q) \in Seq(Nat) /\ Len(Weights(Sizes, q)) = Len(q)
    BY WeightTypes, WeightsSeq
<1>2. QED
    BY <1>1, PrefixesIs, TotalIs DEF Bytes, Weight

LEMMA SumOfIs ==
    ASSUME NEW q \in Seq(Packet), NEW t \in {"data", "adjust"}
    PROVE  SumOf(t, q) = Weight(Units(t), q)
<1>1. PICK s : s = Weights(Units(t), q)
    OBVIOUS
<1>2. s \in Seq(Nat) /\ Len(s) = Len(q)
      /\ \A i \in 1..Len(q) : s[i] = IF q[i].type = t THEN q[i].n ELSE 0
    <2>1. \A i \in 1..Len(q) : q[i] \in Packet
              /\ Units(t)[q[i]] = IF q[i].type = t THEN q[i].n ELSE 0
        BY DEF Units
    <2>2. Units(t) \in [Packet -> Nat]
        BY WeightTypes
    <2>3. s \in Seq(Nat) /\ Len(s) = Len(q) /\ \A i \in 1..Len(q) : s[i] = Units(t)[q[i]]
        BY <1>1, <2>2, WeightsSeq
    <2>4. QED
        BY <2>1, <2>3
<1>3. PICK f : Run(f, s)
    BY <1>2, RunExists
<1>4. ASSUME NEW h
      PROVE  [i \in 0..Len(s) |-> IF i = 0 THEN 0 ELSE h[i - 1] + s[i]]
             = [i \in 0..Len(q) |->
                   IF i = 0 THEN 0 ELSE h[i - 1] + (IF q[i].type = t THEN q[i].n ELSE 0)]
    BY <1>2
<1>5. f = [i \in 0..Len(q) |->
              IF i = 0 THEN 0 ELSE f[i - 1] + (IF q[i].type = t THEN q[i].n ELSE 0)]
    BY <1>2, <1>3, <1>4, RunIsRecursive
<1> DEFINE sum == CHOOSE h : h = [i \in 0..Len(q) |->
              IF i = 0 THEN 0 ELSE h[i - 1] + (IF q[i].type = t THEN q[i].n ELSE 0)]
<1>6. sum = [i \in 0..Len(q) |->
              IF i = 0 THEN 0 ELSE sum[i - 1] + (IF q[i].type = t THEN q[i].n ELSE 0)]
    BY <1>5
<1>7. SumOf(t, q) = sum[Len(q)]
    BY DEF SumOf
<1> HIDE DEF sum
<1>8. sum = f
    <2>1. sum = [i \in 0..Len(s) |-> IF i = 0 THEN 0 ELSE sum[i - 1] + s[i]]
        BY <1>4, <1>6
    <2>2. QED
        BY <1>2, <1>3, <2>1, RunUnique
<1>9. QED
    BY <1>1, <1>2, <1>3, <1>7, <1>8, TotalIs DEF Weight

-----------------------------------------------------------------------------
(* What one end keeps, and what its operations do to it. *)

\* The packets e sends: data is never empty, and an adjustment gives back a
\* third of the window or more.
From(e) == {p \in Packet : IF p.type = "data" THEN p.n \in 1..MaxPacket
                                              ELSE p.n >= RECV_WINDOWEXTEND(e)}

End(e) == [transwindow : Nat, writequeue : Seq(From(e)), buffered : Nat,
           recvdonelen : Nat, left : Nat, out : Nat]

\* The credit r may use or has used, as a sender; the credit it has not given
\* back, as a receiver; the bytes of its queued data packets.
Sending(r) == r.transwindow + Weight(Units("data"), r.writequeue)
Owing(r) == r.buffered + r.recvdonelen + Weight(Units("adjust"), r.writequeue)
Queued(r) == Weight(DataSizes, r.writequeue)

LEMMA ConstTypes ==
    /\ MaxPacket \in Nat /\ Overhead \in Nat /\ QueueLimit \in Nat /\ SockCap \in Nat
    /\ \A e \in Ends : /\ MaxData[e] \in Nat /\ Window[e] \in Nat
                       /\ RECV_WINDOWEXTEND(e) \in Nat /\ RECV_WINDOWEXTEND(e) >= 1
<1>1. \A w \in Nat : w >= 3 => w \div 3 \in Nat /\ w \div 3 >= 1
    OBVIOUS
<1>2. QED
    BY <1>1, QueueAssumption DEF RECV_WINDOWEXTEND

LEMMA PeerIs ==
    ASSUME NEW e \in Ends
    PROVE  Peer(e) \in Ends /\ Peer(e) # e /\ Peer(Peer(e)) = e
           /\ \A g \in Ends : g = e \/ g = Peer(e)
<1>1. \E f \in Ends : f # e
    BY DEF Ends
<1>2. Peer(e) \in Ends /\ Peer(e) # e
    BY <1>1 DEF Peer
<1>3. \E f \in Ends : f # Peer(e)
    BY <1>2
<1>4. Peer(Peer(e)) \in Ends /\ Peer(Peer(e)) # Peer(e)
    BY <1>3 DEF Peer
<1>5. QED
    BY <1>2, <1>4 DEF Ends

LEMMA SubSeqType ==
    ASSUME NEW S, NEW T, S \subseteq T, NEW q \in Seq(S)
    PROVE  q \in Seq(T)
<1>1. \A i \in 1..Len(q) : q[i] \in T
    OBVIOUS
<1>2. Len(q) \in Nat /\ q = [i \in 1..Len(q) |-> q[i]]
    OBVIOUS
<1>3. QED
    BY <1>1, <1>2

LEMMA FromPackets ==
    ASSUME NEW e \in Ends, NEW q \in Seq(From(e))
    PROVE  q \in Seq(Packet)
<1>1. From(e) \subseteq Packet
    BY DEF From
<1>2. QED
    BY <1>1, SubSeqType

\* The weights of one packet.
LEMMA DataWeighs ==
    ASSUME NEW n \in Nat
    PROVE  /\ Data(n) \in Packet /\ Units("data")[Data(n)] = n /\ Units("adjust")[Data(n)] = 0
           /\ DataSizes[Data(n)] = n + Overhead
BY DEF Data, Packet, Units, DataSizes

LEMMA AdjustWeighs ==
    ASSUME NEW n \in Nat
    PROVE  /\ Adjust(n) \in Packet /\ Units("data")[Adjust(n)] = 0
           /\ Units("adjust")[Adjust(n)] = n /\ DataSizes[Adjust(n)] = 0
BY DEF Adjust, Packet, Units, DataSizes

\* The weights of a queue with one packet more.
LEMMA QueueData ==
    ASSUME NEW e \in Ends, NEW q \in Seq(From(e)), NEW n \in 1..MaxPacket
    PROVE  /\ Append(q, Data(n)) \in Seq(From(e))
           /\ Weight(Units("data"), Append(q, Data(n))) = Weight(Units("data"), q) + n
           /\ Weight(Units("adjust"), Append(q, Data(n))) = Weight(Units("adjust"), q) + 0
           /\ Weight(DataSizes, Append(q, Data(n))) = Weight(DataSizes, q) + (n + Overhead)
<1>1. n \in Nat
    BY ConstTypes
<1>2. Data(n) \in From(e)
    BY <1>1, DataWeighs DEF From, Data
<1>3. Append(q, Data(n)) \in Seq(From(e))
    BY <1>2
<1>4. q \in Seq(Packet) /\ Data(n) \in Packet
    BY <1>1, DataWeighs, FromPackets
<1>5. \A w \in [Packet -> Nat] : Weight(w, Append(q, Data(n))) = Weight(w, q) + w[Data(n)]
    BY <1>4, WeightAppend
<1>6. QED
    BY <1>1, <1>3, <1>5, DataWeighs, WeightTypes

LEMMA QueueAdjust ==
    ASSUME NEW e \in Ends, NEW q \in Seq(From(e)), NEW n \in Nat, n >= RECV_WINDOWEXTEND(e)
    PROVE  /\ Append(q, Adjust(n)) \in Seq(From(e))
           /\ Weight(Units("data"), Append(q, Adjust(n))) = Weight(Units("data"), q) + 0
           /\ Weight(Units("adjust"), Append(q, Adjust(n))) = Weight(Units("adjust"), q) + n
           /\ Weight(DataSizes, Append(q, Adjust(n))) = Weight(DataSizes, q) + 0
<1>1. Adjust(n) \in From(e)
    BY AdjustWeighs DEF From, Adjust
<1>2. Append(q, Adjust(n)) \in Seq(From(e))
    BY <1>1
<1>3. q \in Seq(Packet) /\ Adjust(n) \in Packet
    BY AdjustWeighs, FromPackets
<1>4. \A w \in [Packet -> Nat] : Weight(w, Append(q, Adjust(n))) = Weight(w, q) + w[Adjust(n)]
    BY <1>3, WeightAppend
<1>5. QED
    BY <1>2, <1>4, AdjustWeighs, WeightTypes

LEMMA EndWeights ==
    ASSUME NEW e \in Ends, NEW q \in Seq(From(e))
    PROVE  /\ Weight(Units("data"), q) \in Nat /\ Weight(Units("adjust"), q) \in Nat
           /\ Weight(DataSizes, q) \in Nat
BY FromPackets, WeightNat, WeightTypes

LEMMA SumsNat ==
    ASSUME NEW e \in Ends, NEW r \in End(e)
    PROVE  Sending(r) \in Nat /\ Owing(r) \in Nat /\ Queued(r) \in Nat
<1>1. r.writequeue \in Seq(From(e)) /\ r.transwindow \in Nat /\ r.buffered \in Nat
      /\ r.recvdonelen \in Nat
    BY DEF End
<1>2. PICK d, a, z : /\ d = Weight(Units("data"), r.writequeue)
                     /\ a = Weight(Units("adjust"), r.writequeue)
                     /\ z = Weight(DataSizes, r.writequeue)
    OBVIOUS
<1>3. d \in Nat /\ a \in Nat /\ z \in Nat
    BY <1>1, <1>2, EndWeights
<1>4. Sending(r) = r.transwindow + d /\ Owing(r) = r.buffered + r.recvdonelen + a /\ Queued(r) = z
    BY <1>2 DEF Sending, Owing, Queued
<1>5. QED
    BY <1>1, <1>3, <1>4

LEMMA GiveBack ==
    ASSUME NEW b \in Nat, NEW c \in Nat, NEW a \in Nat, NEW w \in 0..b
    PROVE  (b - w) + 0 + (a + (c + w)) = b + c + a /\ (b - w) + (c + w) + a = b + c + a
OBVIOUS

\* Writing to the program keeps all three: what is written is owed until the
\* adjustment is queued, and from then on is on its way.
LEMMA WriteKeeps ==
    ASSUME NEW e \in Ends, NEW r \in End(e), NEW w \in 0..r.buffered
    PROVE  LET s == writechannel(e, r, w)
           IN  /\ s \in End(e) /\ Sending(s) = Sending(r) /\ Owing(s) = Owing(r)
               /\ Queued(s) = Queued(r)
<1>1. /\ r.writequeue \in Seq(From(e)) /\ r.transwindow \in Nat /\ r.buffered \in Nat
      /\ r.recvdonelen \in Nat /\ r.left \in Nat /\ r.out \in Nat
    BY DEF End
<1>2. PICK s, n, b, q : s = writechannel(e, r, w) /\ n = r.recvdonelen + w
                        /\ b = r.buffered /\ q = r.writequeue
    OBVIOUS
<1>3. w \in Nat /\ n \in Nat /\ b - w \in Nat /\ r.out + w \in Nat /\ w <= b
    <2>1. w \in Nat /\ w <= b /\ b \in Nat
        BY <1>1, <1>2
    <2>2. QED
        BY <1>1, <1>2, <2>1
<1>4. PICK d, a, z : /\ d = Weight(Units("data"), q) /\ a = Weight(Units("adjust"), q)
                     /\ z = Weight(DataSizes, q)
    OBVIOUS
<1>5. d \in Nat /\ a \in Nat /\ z \in Nat
    BY <1>1, <1>2, <1>4, EndWeights
<1>6. /\ Sending(r) = r.transwindow + d /\ Owing(r) = b + r.recvdonelen + a /\ Queued(r) = z
    BY <1>2, <1>4 DEF Sending, Owing, Queued
<1>7. CASE n >= RECV_WINDOWEXTEND(e)
    <2>1. s = [r EXCEPT !.buffered = b - w, !.out = r.out + w, !.recvdonelen = 0,
                        !.writequeue = Append(q, Adjust(n))]
        BY <1>2, <1>7 DEF writechannel, End
    <2>2. /\ s.buffered = b - w /\ s.recvdonelen = 0 /\ s.transwindow = r.transwindow
          /\ s.writequeue = Append(q, Adjust(n))
        BY <2>1 DEF End
    <2>3. /\ Append(q, Adjust(n)) \in Seq(From(e))
          /\ Weight(Units("data"), Append(q, Adjust(n))) = d + 0
          /\ Weight(Units("adjust"), Append(q, Adjust(n))) = a + n
          /\ Weight(DataSizes, Append(q, Adjust(n))) = z + 0
        BY <1>1, <1>2, <1>3, <1>4, <1>7, QueueAdjust
    <2>4. s \in End(e)
        BY <1>3, <2>1, <2>3 DEF End
    <2>5. /\ Sending(s) = r.transwindow + (d + 0) /\ Owing(s) = (b - w) + 0 + (a + n)
          /\ Queued(s) = z + 0
        BY <2>2, <2>3 DEF Sending, Owing, Queued
    <2>6. (b - w) + 0 + (a + n) = b + r.recvdonelen + a
        BY <1>1, <1>2, <1>5, GiveBack
    <2>7. QED
        BY <1>1, <1>2, <1>5, <1>6, <2>4, <2>5, <2>6
<1>8. CASE ~(n >= RECV_WINDOWEXTEND(e))
    <2>1. s = [r EXCEPT !.buffered = b - w, !.out = r.out + w, !.recvdonelen = n]
        BY <1>2, <1>8 DEF writechannel, End
    <2>2. /\ s.buffered = b - w /\ s.recvdonelen = n /\ s.transwindow = r.transwindow
          /\ s.writequeue = q
        BY <1>2, <2>1 DEF End
    <2>3. s \in End(e)
        BY <1>3, <2>1 DEF End
    <2>4. Sending(s) = r.transwindow + d /\ Owing(s) = (b - w) + n + a /\ Queued(s) = z
        BY <1>4, <2>2 DEF Sending, Owing, Queued
    <2>5. (b - w) + n + a = b + r.recvdonelen + a
        BY <1>1, <1>2, <1>5, GiveBack
    <2>6. QED
        BY <1>2, <1>6, <2>3, <2>4, <2>5
<1>9. QED
    BY <1>7, <1>8

\* Reading from the program uses credit that the queued packet then holds.
LEMMA SendKeeps ==
    ASSUME NEW e \in Ends, NEW r \in End(e), NEW s \in send_msg_channel_data(r)
    PROVE  /\ s \in End(e) /\ Sending(s) = Sending(r) /\ Owing(s) = Owing(r)
           /\ s.buffered = r.buffered /\ Queued(s) <= Queued(r) + (MaxPacket + Overhead)
<1>1. /\ r.writequeue \in Seq(From(e)) /\ r.transwindow \in Nat /\ r.buffered \in Nat
      /\ r.recvdonelen \in Nat /\ r.left \in Nat /\ r.out \in Nat
    BY DEF End
<1>2. PICK n \in 1..MaxPacket :
          /\ n <= r.transwindow /\ n <= r.left
          /\ s = [r EXCEPT !.transwindow = @ - n, !.left = @ - n, !.writequeue = Append(@, Data(n))]
    BY DEF send_msg_channel_data
<1>3. PICK t, q : t = r.transwindow /\ q = r.writequeue
    OBVIOUS
<1>4. n \in Nat /\ MaxPacket \in Nat /\ Overhead \in Nat /\ n <= MaxPacket
    BY ConstTypes
<1>5. PICK d, a, z : /\ d = Weight(Units("data"), q) /\ a = Weight(Units("adjust"), q)
                     /\ z = Weight(DataSizes, q)
    OBVIOUS
<1>6. d \in Nat /\ a \in Nat /\ z \in Nat
    BY <1>1, <1>3, <1>5, EndWeights
<1>7. /\ Append(q, Data(n)) \in Seq(From(e))
      /\ Weight(Units("data"), Append(q, Data(n))) = d + n
      /\ Weight(Units("adjust"), Append(q, Data(n))) = a + 0
      /\ Weight(DataSizes, Append(q, Data(n))) = z + (n + Overhead)
    BY <1>1, <1>3, <1>5, QueueData
<1>8. /\ s.transwindow = t - n /\ s.writequeue = Append(q, Data(n)) /\ s.buffered = r.buffered
      /\ s.recvdonelen = r.recvdonelen
    BY <1>2, <1>3 DEF End
<1>9. t - n \in Nat /\ r.left - n \in Nat
    BY <1>1, <1>2, <1>3, <1>4
<1>10. s \in End(e)
    <2>1. s = [r EXCEPT !.transwindow = t - n, !.left = r.left - n,
                        !.writequeue = Append(q, Data(n))]
        BY <1>2, <1>3 DEF End
    <2>2. QED
        BY <1>7, <1>9, <2>1 DEF End
<1>11. /\ Sending(s) = (t - n) + (d + n) /\ Owing(s) = r.buffered + r.recvdonelen + (a + 0)
       /\ Queued(s) = z + (n + Overhead)
    BY <1>7, <1>8 DEF Sending, Owing, Queued
<1>12. Sending(r) = t + d /\ Owing(r) = r.buffered + r.recvdonelen + a /\ Queued(r) = z
    BY <1>3, <1>5 DEF Sending, Owing, Queued
<1>13. (t - n) + (d + n) = t + d
    BY <1>1, <1>3, <1>4, <1>6
<1>14. z + (n + Overhead) <= z + (MaxPacket + Overhead)
    BY <1>4, <1>6
<1>15. QED
    BY <1>6, <1>8, <1>10, <1>11, <1>12, <1>13, <1>14

\* A packet from the peer brings credit or is owed.
LEMMA ProcessAdds ==
    ASSUME NEW e \in Ends, NEW r \in End(e), NEW p \in Packet, NEW s \in process_packet(e, r, p)
    PROVE  /\ s \in End(e) /\ Sending(s) = Sending(r) + Units("adjust")[p]
           /\ Owing(s) = Owing(r) + Units("data")[p] /\ Queued(s) = Queued(r)
<1>1. /\ r.writequeue \in Seq(From(e)) /\ r.transwindow \in Nat /\ r.buffered \in Nat
      /\ r.recvdonelen \in Nat /\ r.left \in Nat /\ r.out \in Nat
    BY DEF End
<1>2. p.n \in Nat /\ p.type \in {"data", "adjust"}
    BY DEF Packet
<1>3. PICK d, a, z, n : /\ d = Weight(Units("data"), r.writequeue)
                        /\ a = Weight(Units("adjust"), r.writequeue)
                        /\ z = Weight(DataSizes, r.writequeue) /\ n = p.n
    OBVIOUS
<1>4. d \in Nat /\ a \in Nat /\ z \in Nat /\ n \in Nat
    BY <1>1, <1>2, <1>3, EndWeights
<1>5. Sending(r) = r.transwindow + d /\ Owing(r) = r.buffered + r.recvdonelen + a /\ Queued(r) = z
    BY <1>3 DEF Sending, Owing, Queued
<1>6. CASE p.type = "adjust"
    <2>1. s = [r EXCEPT !.transwindow = r.transwindow + n]
        BY <1>3, <1>6 DEF process_packet, End
    <2>2. /\ s.transwindow = r.transwindow + n /\ s.writequeue = r.writequeue
          /\ s.buffered = r.buffered /\ s.recvdonelen = r.recvdonelen
        BY <2>1 DEF End
    <2>3. r.transwindow + n \in Nat
        BY <1>1, <1>4
    <2>4. s \in End(e)
        BY <2>1, <2>3 DEF End
    <2>5. Sending(s) = (r.transwindow + n) + d /\ Owing(s) = Owing(r) /\ Queued(s) = z
        BY <1>3, <2>2 DEF Sending, Owing, Queued
    <2>6. Units("adjust")[p] = n /\ Units("data")[p] = 0
        BY <1>3, <1>6 DEF Units
    <2>7. (r.transwindow + n) + d = (r.transwindow + d) + n
        BY <1>1, <1>4
    <2>8. Owing(r) = Owing(r) + 0
        BY SumsNat
    <2>9. QED
        BY <1>5, <2>4, <2>5, <2>6, <2>7, <2>8
<1>7. CASE p.type # "adjust"
    <2>1. PICK r1 : r1 = [r EXCEPT !.buffered = r.buffered + n]
        OBVIOUS
    <2>2. PICK w \in 0..r1.buffered : s = writechannel(e, r1, w)
        BY <1>3, <1>7, <2>1 DEF process_packet, End
    <2>3. /\ r1.transwindow = r.transwindow /\ r1.writequeue = r.writequeue
          /\ r1.buffered = r.buffered + n /\ r1.recvdonelen = r.recvdonelen
        BY <2>1 DEF End
    <2>4. r.buffered + n \in Nat
        BY <1>1, <1>4
    <2>5. r1 \in End(e)
        BY <2>1, <2>4 DEF End
    <2>6. /\ s \in End(e) /\ Sending(s) = Sending(r1) /\ Owing(s) = Owing(r1)
          /\ Queued(s) = Queued(r1)
        BY <2>2, <2>5, WriteKeeps
    <2>7. /\ Sending(r1) = Sending(r) /\ Queued(r1) = Queued(r)
          /\ Owing(r1) = (r.buffered + n) + r.recvdonelen + a
        BY <1>3, <2>3 DEF Sending, Owing, Queued
    <2>8. (r.buffered + n) + r.recvdonelen + a = (r.buffered + r.recvdonelen + a) + n
        BY <1>1, <1>4
    <2>9. Units("adjust")[p] = 0 /\ Units("data")[p] = n
        BY <1>2, <1>3, <1>7 DEF Units
    <2>10. Sending(r) = Sending(r) + 0
        BY SumsNat
    <2>11. QED
        BY <1>5, <2>6, <2>7, <2>8, <2>9, <2>10
<1>8. QED
    BY <1>6, <1>7

LEMMA MaybeSendKeeps ==
    ASSUME NEW e \in Ends, NEW r \in End(e), NEW s \in MaybeSend({r})
    PROVE  /\ s \in End(e) /\ Sending(s) = Sending(r) /\ Owing(s) = Owing(r)
           /\ s.buffered = r.buffered /\ Queued(s) <= Queued(r) + (MaxPacket + Overhead)
<1>1. s = r \/ s \in send_msg_channel_data(r)
    BY DEF MaybeSend
<1>2. CASE s = r
    BY <1>2, SumsNat, ConstTypes
<1>3. CASE s \in send_msg_channel_data(r)
    BY <1>3, SendKeeps
<1>4. QED
    BY <1>1, <1>2, <1>3

LEMMA MostReadIs ==
    ASSUME NEW e \in Ends
    PROVE  /\ MostRead(e) \in Nat
           /\ ReadFds(e) = 2 => MostRead(e) = (MaxPacket + Overhead) + (MaxPacket + Overhead)
           /\ ReadFds(e) # 2 => MostRead(e) = MaxPacket + Overhead
<1>1. MaxPacket + Overhead \in Nat
    BY ConstTypes
<1>2. ReadFds(e) = 2 \/ ReadFds(e) = 1
    BY DEF ReadFds
<1>3. QED
    BY <1>1, <1>2 DEF MostRead

\* The reads of one turn, of stdout and of stderr where there are both.
LEMMA ReadsKeep ==
    ASSUME NEW e \in Ends, NEW r \in End(e),
           NEW s \in IF ReadFds(e) = 2 THEN MaybeSend(MaybeSend({r})) ELSE MaybeSend({r})
    PROVE  /\ s \in End(e) /\ Sending(s) = Sending(r) /\ Owing(s) = Owing(r)
           /\ s.buffered = r.buffered /\ Queued(s) <= Queued(r) + MostRead(e)
<1>1. CASE ReadFds(e) = 2
    <2>1. PICK r1 \in MaybeSend({r}) : s = r1 \/ s \in send_msg_channel_data(r1)
        BY <1>1 DEF MaybeSend
    <2>2. s \in MaybeSend({r1})
        BY <2>1 DEF MaybeSend
    <2>3. /\ r1 \in End(e) /\ Sending(r1) = Sending(r) /\ Owing(r1) = Owing(r)
          /\ r1.buffered = r.buffered /\ Queued(r1) <= Queued(r) + (MaxPacket + Overhead)
        BY MaybeSendKeeps
    <2>4. /\ s \in End(e) /\ Sending(s) = Sending(r1) /\ Owing(s) = Owing(r1)
          /\ s.buffered = r1.buffered /\ Queued(s) <= Queued(r1) + (MaxPacket + Overhead)
        BY <2>2, <2>3, MaybeSendKeeps
    <2>5. PICK a, b, c, p : /\ a = Queued(r) /\ b = Queued(r1) /\ c = Queued(s)
                            /\ p = MaxPacket + Overhead
        OBVIOUS
    <2>6. a \in Nat /\ b \in Nat /\ c \in Nat /\ p \in Nat /\ MostRead(e) = p + p
        BY <1>1, <2>3, <2>4, <2>5, SumsNat, ConstTypes, MostReadIs
    <2>7. c <= a + MostRead(e)
        BY <2>3, <2>4, <2>5, <2>6
    <2>8. QED
        BY <2>3, <2>4, <2>5, <2>7
<1>2. CASE ReadFds(e) # 2
    BY <1>2, MaybeSendKeeps, MostReadIs
<1>3. QED
    BY <1>1, <1>2

LEMMA ChannelioKeeps ==
    ASSUME NEW e \in Ends, NEW r \in End(e), NEW readfd \in BOOLEAN, NEW writefd \in BOOLEAN,
           NEW s \in channelio(e, r, readfd, writefd)
    PROVE  /\ s \in End(e) /\ Sending(s) = Sending(r) /\ Owing(s) = Owing(r)
           /\ Queued(s) = Queued(r) \/ (readfd /\ Queued(s) <= Queued(r) + MostRead(e))
<1>0. r.buffered \in Nat
    BY DEF End
<1> DEFINE most == IF writefd THEN r.buffered ELSE 0
           read == IF ~readfd THEN {r}
                   ELSE IF ReadFds(e) = 2 THEN MaybeSend(MaybeSend({r})) ELSE MaybeSend({r})
<1>1. most \in Nat /\ most <= r.buffered
    BY <1>0
<1>2. PICK r1 \in read : s \in Writes(e, r1, most)
    BY DEF channelio
<1>3. PICK x \in 0..most :
        \E v \in 0..(IF ReadFds(e) = 2 THEN 0 ELSE most - x) :
          s = writechannel(e, writechannel(e, r1, x), v)
    BY <1>2 DEF Writes
<1>4. PICK y : /\ x \in Nat /\ y \in Nat /\ x + y <= most
               /\ s = writechannel(e, writechannel(e, r1, x), y)
    BY <1>1, <1>3
<1> HIDE DEF most
<1>5. /\ r1 \in End(e) /\ Sending(r1) = Sending(r) /\ Owing(r1) = Owing(r)
      /\ r1.buffered = r.buffered
      /\ Queued(r1) = Queued(r) \/ (readfd /\ Queued(r1) <= Queued(r) + MostRead(e))
    <2>1. CASE ~readfd
        BY <1>2, <2>1
    <2>2. CASE readfd
        <3>1. r1 \in IF ReadFds(e) = 2 THEN MaybeSend(MaybeSend({r})) ELSE MaybeSend({r})
            BY <1>2, <2>2
        <3>2. QED
            BY <2>2, <3>1, ReadsKeep
    <2>3. QED
        BY <2>1, <2>2
<1>6. PICK r2 : r2 = writechannel(e, r1, x)
    OBVIOUS
<1>7. x \in 0..r1.buffered
    BY <1>0, <1>1, <1>4, <1>5
<1>8. /\ r2 \in End(e) /\ Sending(r2) = Sending(r1) /\ Owing(r2) = Owing(r1)
      /\ Queued(r2) = Queued(r1)
    BY <1>5, <1>6, <1>7, WriteKeeps
<1>9. r2.buffered = r1.buffered - x
    BY <1>5, <1>6 DEF writechannel, End
<1>10. y \in 0..r2.buffered
    BY <1>0, <1>1, <1>4, <1>5, <1>9
<1>11. /\ s \in End(e) /\ Sending(s) = Sending(r2) /\ Owing(s) = Owing(r2)
       /\ Queued(s) = Queued(r2)
    BY <1>4, <1>6, <1>8, <1>10, WriteKeeps
<1>12. QED
    BY <1>5, <1>8, <1>11

\* There is a longest part of the queue that fits into the socket.
LEMMA FittingIs ==
    ASSUME NEW q \in Seq(Packet), NEW s \in Seq(Packet), Weight(Sizes, s) <= SockCap
    PROVE  /\ Fitting(q, s) \in 0..Len(q)
           /\ Weight(Sizes, s) + Weight(Sizes, SubSeq(q, 1, Fitting(q, s))) <= SockCap
<1>1. PICK f, n, c : f = Prefixes(q) /\ n = Len(q) /\ c = SockCap - Bytes(s)
    OBVIOUS
<1>2. Bytes(s) = Weight(Sizes, s) /\ Bytes(s) \in Nat /\ SockCap \in Nat
    BY BytesIs, ConstTypes
<1>3. n \in Nat /\ c \in Nat
    BY <1>1, <1>2
<1>4. PICK v : v = Weights(Sizes, q)
    OBVIOUS
<1>5. v \in Seq(Nat) /\ Len(v) = n /\ \A i \in 1..n : v[i] = Sizes[q[i]]
    BY <1>1, <1>4, WeightTypes, WeightsSeq
<1>6. f \in [0..n -> Nat] /\ f[0] = 0 /\ \A i \in 1..n : f[i] = f[i - 1] + v[i]
    BY <1>1, <1>4, <1>5, PrefixesIs DEF Run
<1> DEFINE S == {k \in 0..n : k = n \/ f[k + 1] > c}
<1>7. S \subseteq Nat /\ S # {}
    BY <1>3
<1>8. PICK m \in S : \A k \in S : m <= k
    BY <1>7, LeastOf
<1>9. m \in 0..n /\ (m = n \/ f[m + 1] > c)
    BY <1>8
<1>10. f[m] <= c
    <2>1. CASE m = 0
        BY <1>3, <1>6, <2>1
    <2>2. CASE m # 0
        <3>1. m - 1 \in 0..n /\ m - 1 # n /\ ~(m <= m - 1) /\ (m - 1) + 1 = m
            BY <1>3, <1>9, <2>2
        <3>2. ~(m - 1 \in S)
            BY <1>8, <3>1
        <3>3. ~(f[m] > c)
            BY <3>1, <3>2
        <3>4. f[m] \in Nat
            BY <1>6, <1>9
        <3>5. QED
            BY <1>3, <3>3, <3>4
    <2>3. QED
        BY <2>1, <2>2
<1>11. PICK k : k = Fitting(q, s)
    OBVIOUS
<1>12. k \in 0..n /\ f[k] <= c
    <2>1. k = CHOOSE j \in 0..n : f[j] <= c /\ (j = n \/ f[j + 1] > c)
        BY <1>1, <1>11 DEF Fitting
    <2>2. QED
        BY <1>9, <1>10, <2>1
<1>13. f[k] = Weight(Sizes, SubSeq(q, 1, k))
    <2>1. PICK a, u : a = SubSeq(q, 1, k) /\ u = Weights(Sizes, SubSeq(q, 1, k))
        OBVIOUS
    <2>2. a \in Seq(Packet) /\ Len(a) = k /\ \A i \in 1..k : a[i] = q[i]
        BY <1>1, <1>12, <2>1
    <2>3. u \in Seq(Nat) /\ Len(u) = k /\ \A i \in 1..k : u[i] = Sizes[a[i]]
        <3>1. u = Weights(Sizes, a) /\ a \in Seq(Packet)
            BY <2>1, <2>2
        <3>2. u \in Seq(Nat) /\ Len(u) = Len(a) /\ \A i \in 1..Len(a) : u[i] = Sizes[a[i]]
            BY <3>1, WeightTypes, WeightsSeq
        <3>3. QED
            BY <2>2, <3>2
    <2>4. PICK g : g = [i \in 0..k |-> f[i]]
        OBVIOUS
    <2>5. k \in Nat /\ k \in 0..k /\ k <= n
        BY <1>3, <1>12
    <2>6. \A i \in 1..k : i \in 1..n /\ i - 1 \in 0..k /\ i \in 0..k
        BY <1>3, <2>5
    <2>7. g \in [0..k -> Nat] /\ g[0] = 0
        BY <1>3, <1>6, <2>4, <2>5
    <2>8. ASSUME NEW i \in 1..k PROVE g[i] = g[i - 1] + u[i]
        <3>1. i \in 1..n /\ i - 1 \in 0..k /\ i \in 0..k
            BY <2>6
        <3>2. g[i] = f[i] /\ g[i - 1] = f[i - 1]
            BY <2>4, <3>1
        <3>3. u[i] = Sizes[q[i]]
            BY <2>2, <2>3
        <3>4. v[i] = Sizes[q[i]] /\ f[i] = f[i - 1] + v[i]
            BY <1>5, <1>6, <3>1
        <3>5. QED
            BY <3>2, <3>3, <3>4
    <2>9. Run(g, u)
        BY <2>3, <2>7, <2>8 DEF Run
    <2>10. Total(u) = g[k]
        BY <2>3, <2>9, TotalIs
    <2>11. QED
        BY <2>1, <2>4, <2>5, <2>10 DEF Weight
<1>14. f[k] \in Nat /\ Bytes(s) + f[k] <= SockCap
    <2>1. f[k] \in Nat
        BY <1>6, <1>12
    <2>2. QED
        BY <1>1, <1>2, <1>12, <2>1
<1>15. QED
    BY <1>1, <1>2, <1>11, <1>12, <1>13, <1>14

\* Sizes are those of the data packets and those of the adjustments.
LEMMA SizesSplit ==
    ASSUME NEW q \in Seq(Packet)
    PROVE  Weight(Sizes, q) = Weight(DataSizes, q) + Overhead * Weight(Adjusts, q)
<1>1. Overhead \in Nat
    BY ConstTypes
<1>2. PICK w : w = [p \in Packet |-> IF p.type = "adjust" THEN Overhead ELSE 0]
    OBVIOUS
<1>3. w \in [Packet -> Nat]
    BY <1>1, <1>2
<1>4. PICK a, b, c, d : /\ a = Weights(DataSizes, q) /\ b = Weights(w, q)
                        /\ c = Weights(Sizes, q) /\ d = Weights(Adjusts, q)
    OBVIOUS
<1>5. /\ a \in Seq(Nat) /\ Len(a) = Len(q) /\ \A i \in 1..Len(q) : a[i] = DataSizes[q[i]]
      /\ b \in Seq(Nat) /\ Len(b) = Len(q) /\ \A i \in 1..Len(q) : b[i] = w[q[i]]
    BY <1>3, <1>4, WeightTypes, WeightsSeq
<1>6. /\ c \in Seq(Nat) /\ Len(c) = Len(q) /\ \A i \in 1..Len(q) : c[i] = Sizes[q[i]]
      /\ d \in Seq(Nat) /\ Len(d) = Len(q) /\ \A i \in 1..Len(q) : d[i] = Adjusts[q[i]]
    BY <1>4, WeightTypes, WeightsSeq
<1>7. ASSUME NEW i \in 1..Len(q)
      PROVE  /\ Sizes[q[i]] = DataSizes[q[i]] + w[q[i]]
             /\ w[q[i]] = Overhead * Adjusts[q[i]]
    <2>1. PICK p : p = q[i]
        OBVIOUS
    <2>2. p \in Packet /\ p.n \in Nat /\ p.type \in {"data", "adjust"}
        <3>1. p \in Packet
            BY <2>1
        <3>2. QED
            BY <3>1 DEF Packet
    <2>3. /\ Sizes[p] = Size(p) /\ w[p] = IF p.type = "adjust" THEN Overhead ELSE 0
          /\ DataSizes[p] = IF p.type = "data" THEN p.n + Overhead ELSE 0
          /\ Adjusts[p] = IF p.type = "adjust" THEN 1 ELSE 0
        BY <1>2, <2>2 DEF Sizes, DataSizes, Adjusts
    <2>4. Size(p) = IF p.type = "data" THEN p.n + Overhead ELSE Overhead
        BY DEF Size
    <2>5. QED
        BY <1>1, <2>1, <2>2, <2>3, <2>4
<1>8. Total(c) = Total(a) + Total(b)
    <2>1. \A i \in 1..Len(c) : c[i] = a[i] + b[i]
        BY <1>5, <1>6, <1>7
    <2>2. QED
        BY <1>5, <1>6, <2>1, TotalPlus
<1>9. Total(a) \in Nat /\ Total(b) \in Nat /\ Total(d) \in Nat
    BY <1>5, <1>6, TotalNat
<1>10. 1 * Total(b) <= Overhead * Total(d)
    <2>1. \A i \in 1..Len(b) : b[i] \in Nat
        BY <1>5, Items
    <2>2. ASSUME NEW i \in 1..Len(b) PROVE 1 * b[i] <= Overhead * d[i]
        <3>0. i \in 1..Len(q) /\ b[i] = w[q[i]] /\ d[i] = Adjusts[q[i]]
            BY <1>5, <1>6
        <3>1. b[i] = Overhead * d[i] /\ b[i] \in Nat
            BY <1>7, <2>1, <3>0
        <3>2. QED
            BY <3>1
    <2>3. QED
        BY <1>1, <1>5, <1>6, <2>2, TotalCompare
<1>11. Overhead * Total(d) <= 1 * Total(b)
    <2>0. \A i \in 1..Len(b) : b[i] \in Nat
        BY <1>5, Items
    <2>1. \A i \in 1..Len(d) : b[i] \in Nat
        BY <1>5, <1>6, <2>0
    <2>2. ASSUME NEW i \in 1..Len(d) PROVE Overhead * d[i] <= 1 * b[i]
        <3>0. i \in 1..Len(q) /\ b[i] = w[q[i]] /\ d[i] = Adjusts[q[i]]
            BY <1>5, <1>6
        <3>1. b[i] = Overhead * d[i] /\ b[i] \in Nat
            BY <1>7, <2>1, <3>0
        <3>2. QED
            BY <3>1
    <2>3. QED
        BY <1>1, <1>5, <1>6, <2>2, TotalCompare
<1>12. Total(b) = Overhead * Total(d)
    <2>1. Overhead * Total(d) \in Nat
        BY <1>1, <1>9
    <2>2. QED
        BY <1>9, <1>10, <1>11, <2>1
<1>13. QED
    BY <1>4, <1>8, <1>12 DEF Weight

LEMMA DataFirst ==
    ASSUME NEW q \in Seq(Packet)
    PROVE  Weight(DataSizes, q) <= Weight(Sizes, q)
<1>1. Weight(DataSizes, q) \in Nat /\ Weight(Adjusts, q) \in Nat /\ Overhead \in Nat
    BY WeightTypes, WeightNat, ConstTypes
<1>2. Overhead * Weight(Adjusts, q) \in Nat
    BY <1>1
<1>3. QED
    BY <1>1, <1>2, SizesSplit

-----------------------------------------------------------------------------
(* The inductive invariant. *)

TypeInv ==
    /\ ses = [e \in Ends |-> ses[e]] /\ sock = [e \in Ends |-> sock[e]]
    /\ \A e \in Ends : ses[e] \in End(e) /\ sock[e] \in Seq(From(e))

FitInv == \A e \in Ends : Weight(Sizes, sock[e]) <= SockCap

LimitInv == \A e \in Ends : Queued(ses[e]) <= QueueLimit + MostRead(e)

Credit(e, f) ==
    (Sending(ses[e]) + Weight(Units("data"), sock[e]))
      + (Owing(ses[f]) + Weight(Units("adjust"), sock[f]))

CreditInv == \A e \in Ends : Credit(e, Peer(e)) = Window[Peer(e)]

Inv == TypeInv /\ FitInv /\ LimitInv /\ CreditInv

\* One turn, put together: y units of data and x of credit come in, k packets
\* go out.
LEMMA TurnIs ==
    ASSUME Inv, NEW e \in Ends, Turn(e)
    PROVE  \E r2 \in End(e), x \in Nat, y \in Nat :
             /\ Sending(r2) = Sending(ses[e]) + x /\ Owing(r2) = Owing(ses[e]) + y
             /\ Queued(r2) <= QueueLimit + MostRead(e)
             /\ LET q == r2.writequeue
                    k == Fitting(q, sock[e])
                IN  /\ ses' = [ses EXCEPT ![e] =
                                 [r2 EXCEPT !.writequeue = SubSeq(q, k + 1, Len(q))]]
                    /\ \E in \in Seq(From(Peer(e))) :
                         /\ sock' = [sock EXCEPT ![e] = sock[e] \o SubSeq(q, 1, k),
                                                 ![Peer(e)] = in]
                         /\ Weight(Units("adjust"), sock[Peer(e)]) = x + Weight(Units("adjust"), in)
                         /\ Weight(Units("data"), sock[Peer(e)]) = y + Weight(Units("data"), in)
                         /\ Weight(Sizes, in) <= Weight(Sizes, sock[Peer(e)])
<1> DEFINE
      Flushed(s, recv) ==
        LET q == s.writequeue
            k == Fitting(q, sock[e])
        IN  /\ ses' = [ses EXCEPT ![e] = [s EXCEPT !.writequeue = SubSeq(q, k + 1, Len(q))]]
            /\ sock' = [sock EXCEPT ![e] = sock[e] \o SubSeq(q, 1, k),
                                    ![Peer(e)] = IF recv THEN Tail(sock[Peer(e)])
                                                         ELSE sock[Peer(e)]]
<1>0. PICK f, r, c : f = Peer(e) /\ r = ses[e] /\ c = sock[f]
    OBVIOUS
<1>1. f \in Ends /\ f # e
    BY <1>0, PeerIs
<1>2. r \in End(e) /\ c \in Seq(From(f)) /\ c \in Seq(Packet) /\ sock[e] \in Seq(From(e))
    BY <1>0, <1>1, FromPackets DEF Inv, TypeInv
<1>3. r.writequeue \in Seq(From(e)) /\ r.writequeue \in Seq(Packet)
    <2>1. r.writequeue \in Seq(From(e))
        BY <1>2 DEF End
    <2>2. QED
        BY <2>1, FromPackets
<1>4. PICK recv \in BOOLEAN :
      /\ recv => read_allowed(ses[e].writequeue) /\ sock[Peer(e)] # <<>>
      /\ \E r1 \in IF recv THEN process_packet(e, ses[e], Head(sock[Peer(e)])) ELSE {ses[e]} :
         \E r2 \in channelio(e, r1, allow_reads(ses[e].writequeue) /\ ses[e].transwindow > 0,
                            ses[e].buffered > 0) : Flushed(r2, recv)
    BY DEF Turn
<1>5. PICK r1 \in IF recv THEN process_packet(e, r, Head(c)) ELSE {r} :
      \E r2 \in channelio(e, r1, allow_reads(r.writequeue) /\ r.transwindow > 0, r.buffered > 0) :
          Flushed(r2, recv)
    BY <1>0, <1>4
<1>6. PICK r2 \in channelio(e, r1, allow_reads(r.writequeue) /\ r.transwindow > 0, r.buffered > 0) :
          Flushed(r2, recv)
    BY <1>5
<1>7. PICK x, y, in : /\ x = IF recv THEN Units("adjust")[Head(c)] ELSE 0
                      /\ y = IF recv THEN Units("data")[Head(c)] ELSE 0
                      /\ in = IF recv THEN Tail(c) ELSE c
    OBVIOUS
<1>8. /\ x \in Nat /\ y \in Nat /\ in \in Seq(From(f))
      /\ r1 \in End(e) /\ Sending(r1) = Sending(r) + x /\ Owing(r1) = Owing(r) + y
      /\ Queued(r1) = Queued(r)
      /\ Weight(Units("adjust"), c) = x + Weight(Units("adjust"), in)
      /\ Weight(Units("data"), c) = y + Weight(Units("data"), in)
      /\ Weight(Sizes, in) <= Weight(Sizes, c)
    <2>1. CASE recv
        <3>1. c # <<>> /\ Head(c) \in Packet /\ Tail(c) \in Seq(From(f))
            <4>1. c # <<>>
                BY <1>0, <1>4, <2>1
            <4>2. QED
                BY <1>2, <4>1
        <3>2. r1 \in process_packet(e, r, Head(c))
            BY <1>5, <2>1
        <3>3. x = Units("adjust")[Head(c)] /\ y = Units("data")[Head(c)] /\ in = Tail(c)
            BY <1>7, <2>1
        <3>4. Units("adjust")[Head(c)] \in Nat /\ Units("data")[Head(c)] \in Nat
              /\ Sizes[Head(c)] \in Nat
            BY <3>1, WeightTypes
        <3>5. \A w \in [Packet -> Nat] : Weight(w, c) = w[Head(c)] + Weight(w, Tail(c))
            BY <1>2, <3>1, WeightHead
        <3>6. Weight(Sizes, c) = Sizes[Head(c)] + Weight(Sizes, Tail(c))
            BY <3>5, WeightTypes
        <3>7. Weight(Sizes, Tail(c)) \in Nat
            BY <1>1, <3>1, FromPackets, WeightTypes, WeightNat
        <3>8. Weight(Sizes, Tail(c)) <= Weight(Sizes, c)
            BY <3>4, <3>6, <3>7
        <3>9. /\ Weight(Units("adjust"), c) = x + Weight(Units("adjust"), in)
              /\ Weight(Units("data"), c) = y + Weight(Units("data"), in)
            BY <3>3, <3>5, WeightTypes
        <3>10. /\ r1 \in End(e) /\ Sending(r1) = Sending(r) + x /\ Owing(r1) = Owing(r) + y
               /\ Queued(r1) = Queued(r)
            BY <1>2, <3>1, <3>2, <3>3, ProcessAdds
        <3>11. QED
            BY <3>1, <3>3, <3>4, <3>8, <3>9, <3>10
    <2>2. CASE ~recv
        <3>1. x = 0 /\ y = 0 /\ in = c /\ r1 = r
            BY <1>5, <1>7, <2>2
        <3>2. Sending(r) \in Nat /\ Owing(r) \in Nat
            BY <1>2, SumsNat
        <3>3. /\ Weight(Units("adjust"), c) \in Nat /\ Weight(Units("data"), c) \in Nat
              /\ Weight(Sizes, c) \in Nat
            BY <1>2, WeightTypes, WeightNat
        <3>4. QED
            BY <1>2, <3>1, <3>2, <3>3
    <2>3. QED
        BY <2>1, <2>2
<1>9. /\ r2 \in End(e) /\ Sending(r2) = Sending(r1) /\ Owing(r2) = Owing(r1)
      /\ \/ Queued(r2) = Queued(r1)
         \/ /\ allow_reads(r.writequeue)
            /\ Queued(r2) <= Queued(r1) + MostRead(e)
    <2>1. PICK rd, wr : /\ rd = (allow_reads(r.writequeue) /\ r.transwindow > 0)
                        /\ wr = (r.buffered > 0)
        OBVIOUS
    <2>2. rd \in BOOLEAN /\ wr \in BOOLEAN /\ r2 \in channelio(e, r1, rd, wr)
        BY <2>1, <1>6
    <2>3. QED
        <3>1. /\ r2 \in End(e) /\ Sending(r2) = Sending(r1) /\ Owing(r2) = Owing(r1)
              /\ \/ Queued(r2) = Queued(r1)
                 \/ rd /\ Queued(r2) <= Queued(r1) + MostRead(e)
            BY <1>8, <2>2, ChannelioKeeps
        <3>2. QED
            BY <2>1, <3>1
<1>10. Queued(r2) <= QueueLimit + MostRead(e)
    <2>1. Queued(r) <= QueueLimit + MostRead(e)
        BY <1>0 DEF Inv, LimitInv
    <2>2. CASE Queued(r2) = Queued(r1)
        BY <1>8, <2>1, <2>2
    <2>3. CASE allow_reads(r.writequeue) /\ Queued(r2) <= Queued(r1) + MostRead(e)
        <3>1. Weight(Sizes, r.writequeue) <= QueueLimit
            BY <1>3, <2>3, BytesIs DEF allow_reads, has_space
        <3>2. Weight(DataSizes, r.writequeue) <= Weight(Sizes, r.writequeue)
            BY <1>3, DataFirst
        <3>3. Queued(r) <= Weight(Sizes, r.writequeue) /\ Queued(r) \in Nat
              /\ Weight(Sizes, r.writequeue) \in Nat
            BY <1>2, <1>3, <3>2, SumsNat, WeightTypes, WeightNat DEF Queued
        <3>4. Queued(r2) \in Nat
            BY <1>9, SumsNat
        <3>5. QED
            BY <1>8, <2>3, <3>1, <3>3, <3>4, ConstTypes, MostReadIs
    <2>4. QED
        BY <1>9, <2>2, <2>3
<1>11. Sending(r2) = Sending(ses[e]) + x /\ Owing(r2) = Owing(ses[e]) + y
    BY <1>0, <1>8, <1>9
<1>12. sock' = [sock EXCEPT ![e] = sock[e] \o SubSeq(r2.writequeue, 1, Fitting(r2.writequeue, sock[e])),
                            ![f] = in]
    BY <1>0, <1>6, <1>7
<1>13. /\ in \in Seq(From(Peer(e)))
       /\ sock' = [sock EXCEPT ![e] = sock[e] \o SubSeq(r2.writequeue, 1,
                                                        Fitting(r2.writequeue, sock[e])),
                               ![Peer(e)] = in]
       /\ Weight(Units("adjust"), sock[Peer(e)]) = x + Weight(Units("adjust"), in)
       /\ Weight(Units("data"), sock[Peer(e)]) = y + Weight(Units("data"), in)
       /\ Weight(Sizes, in) <= Weight(Sizes, sock[Peer(e)])
    BY <1>0, <1>8, <1>12
<1>14. ses' = [ses EXCEPT ![e] =
                [r2 EXCEPT !.writequeue =
                   SubSeq(r2.writequeue, Fitting(r2.writequeue, sock[e]) + 1, Len(r2.writequeue))]]
    BY <1>6
<1> HIDE DEF Flushed
<1>15. r2 \in End(e) /\ x \in Nat /\ y \in Nat
    BY <1>8, <1>9
<1>16. QED
    BY <1>10, <1>11, <1>13, <1>14, <1>15, Zenon

LEMMA Balance ==
    ASSUME NEW t \in Nat, NEW m \in Nat, NEW u \in Nat, NEW d \in Nat, NEW x \in Nat,
           NEW o \in Nat, NEW a \in Nat, NEW b \in Nat, NEW s \in Nat, NEW z \in Nat,
           t + (m + u) = s + x, a = x + b, (s + d) + (o + a) = z
    PROVE  ((t + u) + (d + m)) + (o + b) = z
OBVIOUS

LEMMA BalanceBack ==
    ASSUME NEW t \in Nat, NEW c \in Nat, NEW m \in Nat, NEW u \in Nat, NEW d \in Nat, NEW y \in Nat,
           NEW o \in Nat, NEW a \in Nat, NEW b \in Nat, NEW s \in Nat, NEW z \in Nat,
           t + c + (m + u) = o + y, a = y + b, (s + a) + (o + d) = z
    PROVE  (s + b) + ((t + c + u) + (d + m)) = z
OBVIOUS

LEMMA InitInv ==
    ASSUME Init
    PROVE  Inv
<1>1. ASSUME NEW e \in Ends
      PROVE  /\ Peer(e) \in Ends /\ ses[e] \in End(e) /\ sock[e] = <<>> /\ sock[e] \in Seq(From(e))
             /\ Sending(ses[e]) = Window[Peer(e)] /\ Owing(ses[e]) = 0 /\ Queued(ses[e]) = 0
    <2>1. Peer(e) \in Ends
        BY PeerIs
    <2>2. Window[Peer(e)] \in Nat /\ MaxData[e] \in Nat
        BY <2>1, ConstTypes
    <2>3. ses[e] = [transwindow |-> Window[Peer(e)], writequeue |-> <<>>, buffered |-> 0,
                    recvdonelen |-> 0, left |-> MaxData[e], out |-> 0] /\ sock[e] = <<>>
        BY DEF Init
    <2>4. <<>> \in Seq(From(e))
        OBVIOUS
    <2>5. ses[e] \in End(e)
        BY <2>2, <2>3, <2>4 DEF End
    <2>6. /\ Weight(Units("data"), <<>>) = 0 /\ Weight(Units("adjust"), <<>>) = 0
          /\ Weight(DataSizes, <<>>) = 0
        BY WeightTypes, WeightEmpty
    <2>7. QED
        BY <2>1, <2>2, <2>3, <2>4, <2>5, <2>6 DEF Sending, Owing, Queued
<1>2. TypeInv
    BY <1>1 DEF Init, TypeInv
<1>3. /\ Weight(Units("data"), <<>>) = 0 /\ Weight(Units("adjust"), <<>>) = 0
      /\ Weight(Sizes, <<>>) = 0
    BY WeightTypes, WeightEmpty
<1>4. FitInv
    <2>1. 0 <= SockCap
        BY ConstTypes
    <2>2. QED
        BY <1>1, <1>3, <2>1 DEF FitInv
<1>5. LimitInv
    <2>1. \A e \in Ends : 0 <= QueueLimit + MostRead(e)
        BY ConstTypes, MostReadIs
    <2>2. QED
        BY <1>1, <2>1 DEF LimitInv
<1>6. CreditInv
    <2>1. SUFFICES ASSUME NEW e \in Ends PROVE Credit(e, Peer(e)) = Window[Peer(e)]
        BY DEF CreditInv
    <2>2. Peer(e) \in Ends
        BY <1>1
    <2>3. /\ Sending(ses[e]) = Window[Peer(e)] /\ Weight(Units("data"), sock[e]) = 0
          /\ Owing(ses[Peer(e)]) = 0 /\ Weight(Units("adjust"), sock[Peer(e)]) = 0
        BY <1>1, <1>3, <2>2
    <2>4. Window[Peer(e)] \in Nat
        BY <2>2, ConstTypes
    <2>5. QED
        BY <2>3, <2>4 DEF Credit
<1>7. QED
    BY <1>2, <1>4, <1>5, <1>6 DEF Inv

LEMMA TurnInv ==
    ASSUME Inv, NEW e \in Ends, Turn(e)
    PROVE  Inv'
<1>1. PICK r2 \in End(e), x \in Nat, y \in Nat :
         /\ Sending(r2) = Sending(ses[e]) + x /\ Owing(r2) = Owing(ses[e]) + y
         /\ Queued(r2) <= QueueLimit + MostRead(e)
         /\ LET q == r2.writequeue
                k == Fitting(q, sock[e])
            IN  /\ ses' = [ses EXCEPT ![e] =
                             [r2 EXCEPT !.writequeue = SubSeq(q, k + 1, Len(q))]]
                /\ \E in \in Seq(From(Peer(e))) :
                     /\ sock' = [sock EXCEPT ![e] = sock[e] \o SubSeq(q, 1, k),
                                             ![Peer(e)] = in]
                     /\ Weight(Units("adjust"), sock[Peer(e)]) = x + Weight(Units("adjust"), in)
                     /\ Weight(Units("data"), sock[Peer(e)]) = y + Weight(Units("data"), in)
                     /\ Weight(Sizes, in) <= Weight(Sizes, sock[Peer(e)])
    BY TurnIs
<1>2. PICK f, q : f = Peer(e) /\ q = r2.writequeue
    OBVIOUS
<1>3. PICK k : k = Fitting(q, sock[e])
    OBVIOUS
<1>4. PICK m, u : m = SubSeq(q, 1, k) /\ u = SubSeq(q, k + 1, Len(q))
    OBVIOUS
<1>5. PICK r3 : r3 = [r2 EXCEPT !.writequeue = u]
    OBVIOUS
<1>6. ses' = [ses EXCEPT ![e] = r3]
    BY <1>1, <1>2, <1>3, <1>4, <1>5
<1>7. PICK in \in Seq(From(f)) :
        /\ sock' = [sock EXCEPT ![e] = sock[e] \o m, ![f] = in]
        /\ Weight(Units("adjust"), sock[f]) = x + Weight(Units("adjust"), in)
        /\ Weight(Units("data"), sock[f]) = y + Weight(Units("data"), in)
        /\ Weight(Sizes, in) <= Weight(Sizes, sock[f])
    BY <1>1, <1>2, <1>3, <1>4
<1>8. f \in Ends /\ f # e /\ Peer(f) = e /\ \A g \in Ends : g = e \/ g = f
    BY <1>2, PeerIs
<1>9. /\ q \in Seq(From(e)) /\ q \in Seq(Packet) /\ sock[e] \in Seq(From(e))
      /\ sock[e] \in Seq(Packet) /\ sock[f] \in Seq(Packet) /\ in \in Seq(Packet)
      /\ ses[e] \in End(e) /\ ses[f] \in End(f)
    <2>1. q \in Seq(From(e))
        BY <1>2 DEF End
    <2>2. sock[e] \in Seq(From(e)) /\ sock[f] \in Seq(From(f)) /\ ses[e] \in End(e) /\ ses[f] \in End(f)
        BY <1>8 DEF Inv, TypeInv
    <2>3. QED
        BY <1>8, <2>1, <2>2, FromPackets
<1>10. /\ k \in 0..Len(q) /\ Weight(Sizes, sock[e]) + Weight(Sizes, m) <= SockCap
    BY <1>3, <1>4, <1>9, FittingIs DEF Inv, FitInv
<1>11. m \in Seq(From(e)) /\ u \in Seq(From(e))
    BY <1>4, <1>9, <1>10
<1>12. m \in Seq(Packet) /\ u \in Seq(Packet)
    BY <1>11, FromPackets
<1>13. \A w \in [Packet -> Nat] :
          /\ Weight(w, q) = Weight(w, m) + Weight(w, u)
          /\ Weight(w, sock[e] \o m) = Weight(w, sock[e]) + Weight(w, m)
          /\ Weight(w, m) \in Nat /\ Weight(w, u) \in Nat /\ Weight(w, sock[e]) \in Nat
          /\ Weight(w, sock[f]) \in Nat /\ Weight(w, in) \in Nat
    <2>1. TAKE w \in [Packet -> Nat]
    <2>2. Weight(w, q) = Weight(w, m) + Weight(w, u)
        BY <1>4, <1>9, <1>10, WeightSplit
    <2>3. Weight(w, sock[e] \o m) = Weight(w, sock[e]) + Weight(w, m)
        BY <1>9, <1>12, WeightConcat
    <2>4. QED
        BY <1>9, <1>12, <2>2, <2>3, WeightNat
<1>14. sock[e] \o m \in Seq(From(e))
    BY <1>9, <1>11, ConcatIs
<1>15. r3 \in End(e)
    BY <1>5, <1>11 DEF End
<1>16. /\ ses'[e] = r3 /\ ses'[f] = ses[f] /\ sock'[e] = sock[e] \o m /\ sock'[f] = in
       /\ ses' = [g \in Ends |-> ses'[g]] /\ sock' = [g \in Ends |-> sock'[g]]
    BY <1>6, <1>7, <1>8 DEF Inv, TypeInv
<1>17. TypeInv'
    <2>1. ASSUME NEW g \in Ends PROVE ses'[g] \in End(g) /\ sock'[g] \in Seq(From(g))
        <3>1. CASE g = e
            BY <1>14, <1>15, <1>16, <3>1
        <3>2. CASE g = f
            BY <1>7, <1>9, <1>16, <3>2
        <3>3. QED
            BY <1>8, <3>1, <3>2
    <2>2. QED
        BY <1>16, <2>1 DEF TypeInv
<1>18. FitInv'
    <2>1. Weight(Sizes, sock'[e]) <= SockCap
        BY <1>10, <1>13, <1>16, WeightTypes
    <2>2. Weight(Sizes, sock[f]) <= SockCap
        BY <1>8 DEF Inv, FitInv
    <2>3. /\ Weight(Sizes, in) \in Nat /\ Weight(Sizes, sock[f]) \in Nat
        BY <1>13, WeightTypes
    <2>4. Weight(Sizes, sock'[f]) <= SockCap
        BY <1>7, <1>16, <2>2, <2>3, ConstTypes
    <2>5. QED
        BY <1>8, <2>1, <2>4 DEF FitInv
<1>19. /\ r3.transwindow = r2.transwindow /\ r3.buffered = r2.buffered
       /\ r3.recvdonelen = r2.recvdonelen /\ r3.writequeue = u
       /\ r2.transwindow \in Nat /\ r2.buffered \in Nat /\ r2.recvdonelen \in Nat
    BY <1>5 DEF End
<1>20. LimitInv'
    <2>1. PICK z, v : z = Weight(DataSizes, m) /\ v = Weight(DataSizes, u)
        OBVIOUS
    <2>2. z \in Nat /\ v \in Nat /\ Weight(DataSizes, q) = z + v
        BY <1>13, <2>1, WeightTypes
    <2>3. Queued(r2) = z + v /\ Queued(r3) = v
        BY <1>2, <1>19, <2>1, <2>2 DEF Queued
    <2>4. Queued(r3) <= QueueLimit + MostRead(e)
        BY <1>1, <2>2, <2>3, ConstTypes, MostReadIs
    <2>5. Queued(ses[f]) <= QueueLimit + MostRead(f)
        BY <1>8 DEF Inv, LimitInv
    <2>6. ASSUME NEW g \in Ends PROVE Queued(ses'[g]) <= QueueLimit + MostRead(g)
        BY <1>8, <1>16, <2>4, <2>5
    <2>7. QED
        BY <2>6 DEF LimitInv, Queued
<1>21. PICK md, ud, sd, ma, ua, sa :
         /\ md = Weight(Units("data"), m) /\ ud = Weight(Units("data"), u)
         /\ sd = Weight(Units("data"), sock[e])
         /\ ma = Weight(Units("adjust"), m) /\ ua = Weight(Units("adjust"), u)
         /\ sa = Weight(Units("adjust"), sock[e])
    OBVIOUS
<1>22. PICK fd, fa, id, ia :
         /\ fd = Weight(Units("data"), sock[f]) /\ fa = Weight(Units("adjust"), sock[f])
         /\ id = Weight(Units("data"), in) /\ ia = Weight(Units("adjust"), in)
    OBVIOUS
<1>23. /\ md \in Nat /\ ud \in Nat /\ sd \in Nat /\ ma \in Nat /\ ua \in Nat /\ sa \in Nat
       /\ fd \in Nat /\ fa \in Nat /\ id \in Nat /\ ia \in Nat
    BY <1>13, <1>21, <1>22, WeightTypes
<1>24. /\ Weight(Units("data"), q) = md + ud /\ Weight(Units("adjust"), q) = ma + ua
       /\ Weight(Units("data"), sock'[e]) = sd + md /\ Weight(Units("adjust"), sock'[e]) = sa + ma
    BY <1>13, <1>16, <1>21, WeightTypes
<1>25. /\ Sending(r2) = r2.transwindow + (md + ud)
       /\ Owing(r2) = r2.buffered + r2.recvdonelen + (ma + ua)
       /\ Sending(r3) = r2.transwindow + ud
       /\ Owing(r3) = r2.buffered + r2.recvdonelen + ua
    BY <1>2, <1>19, <1>21, <1>24 DEF Sending, Owing
<1>26. /\ Sending(ses[e]) \in Nat /\ Owing(ses[e]) \in Nat
       /\ Sending(ses[f]) \in Nat /\ Owing(ses[f]) \in Nat
    BY <1>8, <1>9, SumsNat
<1>27. fa = x + ia /\ fd = y + id
    BY <1>7, <1>22
<1>28. /\ (Sending(ses[e]) + sd) + (Owing(ses[f]) + fa) = Window[f]
       /\ (Sending(ses[f]) + fd) + (Owing(ses[e]) + sa) = Window[e]
    BY <1>2, <1>8, <1>21, <1>22 DEF Inv, CreditInv, Credit
<1>29. Window[e] \in Nat /\ Window[f] \in Nat
    BY <1>8, ConstTypes
<1>30. ((r2.transwindow + ud) + (sd + md)) + (Owing(ses[f]) + ia) = Window[f]
    <2>1. r2.transwindow + (md + ud) = Sending(ses[e]) + x
        BY <1>1, <1>25
    <2>2. PICK t, s, o, z : /\ t = r2.transwindow /\ s = Sending(ses[e])
                            /\ o = Owing(ses[f]) /\ z = Window[f]
        OBVIOUS
    <2>3. t \in Nat /\ s \in Nat /\ o \in Nat /\ z \in Nat
        BY <1>19, <1>26, <1>29, <2>2
    <2>4. t + (md + ud) = s + x /\ (s + sd) + (o + fa) = z /\ fa = x + ia
        BY <1>27, <1>28, <2>1, <2>2
    <2>5. ((t + ud) + (sd + md)) + (o + ia) = z
        BY <1>23, <2>3, <2>4, Balance
    <2>6. QED
        BY <2>2, <2>5
<1>31. (Sending(ses[f]) + id) + ((r2.buffered + r2.recvdonelen + ua) + (sa + ma)) = Window[e]
    <2>1. r2.buffered + r2.recvdonelen + (ma + ua) = Owing(ses[e]) + y
        BY <1>1, <1>25
    <2>2. PICK t, c, s, o, z : /\ t = r2.buffered /\ c = r2.recvdonelen /\ s = Sending(ses[f])
                               /\ o = Owing(ses[e]) /\ z = Window[e]
        OBVIOUS
    <2>3. t \in Nat /\ c \in Nat /\ s \in Nat /\ o \in Nat /\ z \in Nat
        BY <1>19, <1>26, <1>29, <2>2
    <2>4. t + c + (ma + ua) = o + y /\ (s + fd) + (o + sa) = z /\ fd = y + id
        BY <1>27, <1>28, <2>1, <2>2
    <2>5. (s + id) + ((t + c + ua) + (sa + ma)) = z
        BY <1>23, <2>3, <2>4, BalanceBack
    <2>6. QED
        BY <2>2, <2>5
<1>32. CreditInv'
    <2>1. (Sending(ses'[e]) + Weight(Units("data"), sock'[e]))
            + (Owing(ses'[f]) + Weight(Units("adjust"), sock'[f])) = Window[f]
        BY <1>16, <1>22, <1>24, <1>25, <1>30
    <2>2. (Sending(ses'[f]) + Weight(Units("data"), sock'[f]))
            + (Owing(ses'[e]) + Weight(Units("adjust"), sock'[e])) = Window[e]
        BY <1>16, <1>22, <1>24, <1>25, <1>31
    <2>3. ASSUME NEW g \in Ends PROVE Credit(g, Peer(g))' = Window[Peer(g)]
        <3>1. CASE g = e
            BY <1>2, <2>1, <3>1 DEF Credit, Sending, Owing
        <3>2. CASE g = f
            BY <1>8, <2>2, <3>2 DEF Credit, Sending, Owing
        <3>3. QED
            BY <1>8, <3>1, <3>2
    <2>4. QED
        BY <2>3 DEF CreditInv
<1>33. QED
    BY <1>17, <1>18, <1>20, <1>32 DEF Inv

LEMMA StutterInv ==
    ASSUME Inv, UNCHANGED vars
    PROVE  Inv'
BY DEF Inv, TypeInv, FitInv, LimitInv, CreditInv, Credit, Sending, Owing, Queued, vars

LEMMA InvAlways == Spec => []Inv
<1>1. Init => Inv
    BY InitInv
<1>2. Inv /\ [Next]_vars => Inv'
    BY TurnInv, StutterInv DEF Next
<1>3. QED
    BY <1>1, <1>2, PTL DEF Spec

-----------------------------------------------------------------------------
(* What follows from it. *)

LEMMA WeightCompare ==
    ASSUME NEW S, S \subseteq Packet, NEW q \in Seq(S), NEW w \in [Packet -> Nat],
           NEW v \in [Packet -> Nat], NEW k \in Nat, NEW l \in Nat, \A p \in S : k * w[p] <= l * v[p]
    PROVE  k * Weight(w, q) <= l * Weight(v, q)
<1>1. q \in Seq(Packet) /\ \A i \in 1..Len(q) : q[i] \in S
    BY SubSeqType
<1>2. PICK a, b : a = Weights(w, q) /\ b = Weights(v, q)
    OBVIOUS
<1>3. /\ a \in Seq(Nat) /\ Len(a) = Len(q) /\ \A i \in 1..Len(q) : a[i] = w[q[i]]
      /\ b \in Seq(Nat) /\ Len(b) = Len(q) /\ \A i \in 1..Len(q) : b[i] = v[q[i]]
    BY <1>1, <1>2, WeightsSeq
<1>4. \A i \in 1..Len(a) : k * a[i] <= l * b[i]
    BY <1>1, <1>3
<1>5. k * Total(a) <= l * Total(b)
    BY <1>3, <1>4, TotalCompare
<1>6. QED
    BY <1>2, <1>5 DEF Weight

\* Every adjustment is for a third of the window, and no data packet is empty.
LEMMA AdjustsFew ==
    ASSUME NEW e \in Ends, NEW q \in Seq(From(e))
    PROVE  RECV_WINDOWEXTEND(e) * Weight(Adjusts, q) <= Weight(Units("adjust"), q)
<1>1. PICK c : c = RECV_WINDOWEXTEND(e)
    OBVIOUS
<1>2. c \in Nat
    BY <1>1, ConstTypes
<1>3. ASSUME NEW p \in From(e) PROVE c * Adjusts[p] <= 1 * Units("adjust")[p]
    <2>1. p \in Packet /\ p.n \in Nat /\ p.type \in {"data", "adjust"}
          /\ (p.type = "adjust" => p.n >= c)
        BY <1>1 DEF From, Packet
    <2>2. /\ Adjusts[p] = IF p.type = "adjust" THEN 1 ELSE 0
          /\ Units("adjust")[p] = IF p.type = "adjust" THEN p.n ELSE 0
        BY <2>1 DEF Adjusts, Units
    <2>3. QED
        BY <1>2, <2>1, <2>2
<1>4. From(e) \subseteq Packet
    BY DEF From
<1>5. c * Weight(Adjusts, q) <= 1 * Weight(Units("adjust"), q)
    BY <1>2, <1>3, <1>4, WeightTypes, WeightCompare
<1>6. Weight(Units("adjust"), q) \in Nat
    BY EndWeights
<1>7. QED
    BY <1>1, <1>5, <1>6

LEMMA DataHeavy ==
    ASSUME NEW e \in Ends, NEW q \in Seq(From(e))
    PROVE  Weight(DataSizes, q) <= (1 + Overhead) * Weight(Units("data"), q)
<1>1. PICK c : c = Overhead
    OBVIOUS
<1>2. c \in Nat /\ 1 + c \in Nat
    BY <1>1, ConstTypes
<1>3. ASSUME NEW p \in From(e) PROVE 1 * DataSizes[p] <= (1 + c) * Units("data")[p]
    <2>1. p \in Packet /\ p.n \in Nat /\ p.type \in {"data", "adjust"}
          /\ (p.type = "data" => p.n >= 1)
        BY ConstTypes DEF From, Packet
    <2>2. /\ DataSizes[p] = IF p.type = "data" THEN p.n + c ELSE 0
          /\ Units("data")[p] = IF p.type = "data" THEN p.n ELSE 0
        BY <1>1, <2>1 DEF DataSizes, Units
    <2>3. \A n \in Nat : n >= 1 => n + c <= (1 + c) * n
        <3>1. TAKE n \in Nat
        <3>2. HAVE n >= 1
        <3>3. (1 + c) * n = n + c * n /\ c * n = c * (n - 1) + c /\ c * (n - 1) >= 0
            BY <1>2, <3>2
        <3>4. PICK y : y = c * (n - 1)
            OBVIOUS
        <3>5. y \in Int
            BY <1>2, <3>4
        <3>6. (1 + c) * n = n + (y + c) /\ y >= 0
            BY <3>3, <3>4
        <3>7. QED
            BY <1>2, <3>5, <3>6
    <2>4. CASE p.type = "data"
        BY <1>2, <2>1, <2>2, <2>3, <2>4
    <2>5. CASE p.type # "data"
        BY <1>2, <2>2, <2>5
    <2>6. QED
        BY <2>4, <2>5
<1>4. From(e) \subseteq Packet
    BY DEF From
<1>5. 1 * Weight(DataSizes, q) <= (1 + c) * Weight(Units("data"), q)
    BY <1>2, <1>3, <1>4, WeightTypes, WeightCompare
<1>6. Weight(DataSizes, q) \in Nat
    BY EndWeights
<1>7. QED
    BY <1>1, <1>5, <1>6

LEMMA Times ==
    ASSUME NEW c \in Nat, NEW m \in Nat, NEW n \in Nat, m <= n
    PROVE  c * m <= c * n
<1>1. PICK d : d = n - m
    OBVIOUS
<1>2. d \in Nat /\ n = m + d
    BY <1>1
<1>3. c * (m + d) = c * m + c * d /\ c * d \in Nat /\ c * m \in Nat
    BY <1>2
<1>4. PICK y, z : y = c * m /\ z = c * d
    OBVIOUS
<1>5. y <= y + z
    BY <1>3, <1>4
<1>6. QED
    BY <1>2, <1>3, <1>4, <1>5

LEMMA DivBound ==
    ASSUME NEW w \in Nat, NEW c \in Nat, c >= 1, NEW n \in Nat, c * n <= w
    PROVE  n <= w \div c /\ w \div c \in Nat
<1>1. PICK d : d = w \div c
    OBVIOUS
<1>2. d \in Nat /\ w < c * (d + 1)
    BY <1>1
<1>3. SUFFICES ASSUME ~(n <= d) PROVE FALSE
    BY <1>1, <1>2
<1>4. d + 1 \in Nat /\ d + 1 <= n
    BY <1>2, <1>3
<1>5. c * (d + 1) <= c * n
    BY <1>4, Times
<1>6. PICK y, z : y = c * (d + 1) /\ z = c * n
    OBVIOUS
<1>7. y \in Int /\ z \in Int
    BY <1>2, <1>6
<1>8. w < y /\ y <= z /\ z <= w
    BY <1>2, <1>5, <1>6
<1>9. QED
    BY <1>7, <1>8

\* All that is under way from e, in the socket and in the queue.
UnderWay(e) == sock[e] \o ses[e].writequeue

LEMMA UnderWayIs ==
    ASSUME Inv, NEW e \in Ends
    PROVE  /\ UnderWay(e) \in Seq(From(e)) /\ UnderWay(e) \in Seq(Packet)
           /\ \A w \in [Packet -> Nat] :
                /\ Weight(w, sock[e]) \in Nat /\ Weight(w, ses[e].writequeue) \in Nat
                /\ Weight(w, UnderWay(e)) = Weight(w, sock[e]) + Weight(w, ses[e].writequeue)
<1>1. PICK a, b : a = sock[e] /\ b = ses[e].writequeue
    OBVIOUS
<1>2. a \in Seq(From(e)) /\ b \in Seq(From(e))
    BY <1>1 DEF Inv, TypeInv, End
<1>3. a \o b \in Seq(From(e))
    BY <1>2, ConcatIs
<1>4. a \in Seq(Packet) /\ b \in Seq(Packet) /\ a \o b \in Seq(Packet)
    BY <1>2, <1>3, FromPackets
<1>5. \A w \in [Packet -> Nat] :
        Weight(w, a) \in Nat /\ Weight(w, b) \in Nat /\ Weight(w, a \o b) = Weight(w, a) + Weight(w, b)
    BY <1>4, WeightNat, WeightConcat
<1>6. QED
    BY <1>1, <1>3, <1>4, <1>5 DEF UnderWay

\* The invariant read as the model states it.
LEMMA CreditSum ==
    ASSUME NEW t \in Nat, NEW q \in Nat, NEW s \in Nat, NEW b \in Nat, NEW c \in Nat,
           NEW p \in Nat, NEW u \in Nat, NEW z \in Nat, ((t + q) + s) + ((b + c + p) + u) = z
    PROVE  /\ t + (s + q) + b + c + (u + p) = z /\ t \in 0..z /\ b \in 0..z
           /\ s + q <= z /\ u + p <= z
OBVIOUS

LEMMA CreditOf ==
    ASSUME Inv, NEW e \in Ends
    PROVE  LET f == Peer(e)
               there == Weight(Units("data"), UnderWay(e))
               back == Weight(Units("adjust"), UnderWay(f))
           IN  /\ ses[e].transwindow \in 0..Window[f] /\ ses[f].buffered \in 0..Window[f]
               /\ ses[e].transwindow + there + ses[f].buffered + ses[f].recvdonelen + back = Window[f]
               /\ there <= Window[f] /\ back <= Window[f]
<1>1. PICK f : f = Peer(e)
    OBVIOUS
<1>2. f \in Ends
    BY <1>1, PeerIs
<1>3. PICK t, b, c, z : /\ t = ses[e].transwindow /\ b = ses[f].buffered
                        /\ c = ses[f].recvdonelen /\ z = Window[f]
    OBVIOUS
<1>4. t \in Nat /\ b \in Nat /\ c \in Nat /\ z \in Nat
    BY <1>2, <1>3, ConstTypes DEF Inv, TypeInv, End
<1>5. PICK q, s, p, u :
        /\ q = Weight(Units("data"), ses[e].writequeue) /\ s = Weight(Units("data"), sock[e])
        /\ p = Weight(Units("adjust"), ses[f].writequeue) /\ u = Weight(Units("adjust"), sock[f])
    OBVIOUS
<1>6. /\ q \in Nat /\ s \in Nat /\ Weight(Units("data"), UnderWay(e)) = s + q
    BY <1>5, UnderWayIs, WeightTypes
<1>7. /\ p \in Nat /\ u \in Nat /\ Weight(Units("adjust"), UnderWay(f)) = u + p
    BY <1>2, <1>5, UnderWayIs, WeightTypes
<1>8. ((t + q) + s) + ((b + c + p) + u) = z
    BY <1>1, <1>3, <1>5 DEF Inv, CreditInv, Credit, Sending, Owing
<1>9. /\ t + (s + q) + b + c + (u + p) = z /\ t \in 0..z /\ b \in 0..z
      /\ s + q <= z /\ u + p <= z
    BY <1>4, <1>6, <1>7, <1>8, CreditSum
<1>10. QED
    BY <1>1, <1>3, <1>6, <1>7, <1>9

\* The adjustments under way from e, wherever they are.
LEMMA AdjustsUnderWay ==
    ASSUME Inv, NEW e \in Ends
    PROVE  Weight(Adjusts, UnderWay(e)) <= MostAdjusts(e) /\ MostAdjusts(e) \in Nat
<1>1. Peer(e) \in Ends /\ Peer(Peer(e)) = e
    BY PeerIs
<1>2. Weight(Units("adjust"), UnderWay(e)) <= Window[e]
    BY <1>1, CreditOf
<1>3. UnderWay(e) \in Seq(From(e)) /\ UnderWay(e) \in Seq(Packet)
    BY UnderWayIs
<1>4. PICK c, n, a, w : /\ c = RECV_WINDOWEXTEND(e) /\ n = Weight(Adjusts, UnderWay(e))
                        /\ a = Weight(Units("adjust"), UnderWay(e)) /\ w = Window[e]
    OBVIOUS
<1>5. c \in Nat /\ c >= 1 /\ n \in Nat /\ a \in Nat /\ w \in Nat /\ c * n \in Nat
    <2>1. c \in Nat /\ c >= 1 /\ w \in Nat
        BY <1>4, ConstTypes
    <2>2. n \in Nat /\ a \in Nat
        BY <1>3, <1>4, WeightTypes, WeightNat
    <2>3. QED
        BY <2>1, <2>2
<1>6. c * n <= a /\ a <= w
    BY <1>2, <1>3, <1>4, AdjustsFew
<1>7. c * n <= w
    <2>1. PICK y : y = c * n
        OBVIOUS
    <2>2. QED
        BY <1>5, <1>6, <2>1
<1>8. n <= w \div c /\ w \div c \in Nat
    BY <1>5, <1>7, DivBound
<1>9. QED
    BY <1>4, <1>8 DEF MostAdjusts

\* No credit is lost or made, however the data and the adjustments of the two
\* ends cross (send_msg_channel_data, writechannel, recv_msg_channel_window_adjust).
THEOREM CreditIsConserved == Spec => []CreditConserved
<1>1. Inv => CreditConserved
    <2> SUFFICES ASSUME Inv, NEW e \in Ends
                   PROVE  LET f == Peer(e)
                              there == sock[e] \o ses[e].writequeue
                              back == sock[f] \o ses[f].writequeue
                          IN  /\ ses[e].transwindow \in 0..Window[f]
                              /\ ses[f].buffered \in 0..Window[f]
                              /\ ses[e].transwindow + SumOf("data", there) + ses[f].buffered
                                   + ses[f].recvdonelen + SumOf("adjust", back) = Window[f]
        BY DEF CreditConserved
    <2>2. Peer(e) \in Ends
        BY PeerIs
    <2>3. UnderWay(e) \in Seq(Packet) /\ UnderWay(Peer(e)) \in Seq(Packet)
        BY <2>2, UnderWayIs
    <2>4. /\ SumOf("data", UnderWay(e)) = Weight(Units("data"), UnderWay(e))
          /\ SumOf("adjust", UnderWay(Peer(e))) = Weight(Units("adjust"), UnderWay(Peer(e)))
        BY <2>3, SumOfIs
    <2>5. /\ SumOf("data", sock[e] \o ses[e].writequeue) = Weight(Units("data"), UnderWay(e))
          /\ SumOf("adjust", sock[Peer(e)] \o ses[Peer(e)].writequeue)
               = Weight(Units("adjust"), UnderWay(Peer(e)))
        BY <2>4 DEF UnderWay
    <2>6. QED
        BY <2>5, CreditOf
<1>2. QED
    BY <1>1, InvAlways, PTL

\* A write queue goes over its limit by one data packet for each descriptor read
\* and the adjustments of one window, whatever the peer does
\* (writequeue_has_space, setchannelfds, channelio).
THEOREM QueueIsBounded == Spec => []QueueBounded
<1>1. Inv => QueueBounded
    <2> SUFFICES ASSUME Inv, NEW e \in Ends
                   PROVE  Bytes(ses[e].writequeue) <=
                            QueueLimit + MostRead(e) + MostAdjusts(e) * Overhead
        BY DEF QueueBounded
    <2>2. PICK q : q = ses[e].writequeue
        OBVIOUS
    <2>3. q \in Seq(Packet)
        <3>1. q \in Seq(From(e))
            BY <2>2 DEF Inv, TypeInv, End
        <3>2. QED
            BY <3>1, FromPackets
    <2>4. PICK d, n, m, k, l : /\ d = Weight(DataSizes, q) /\ n = Weight(Adjusts, q)
                               /\ m = MostAdjusts(e) /\ k = Overhead
                               /\ l = QueueLimit + MostRead(e)
        OBVIOUS
    <2>5. d \in Nat /\ n \in Nat
        BY <2>3, <2>4, WeightTypes, WeightNat
    <2>6. k \in Nat /\ l \in Nat
        BY <2>4, ConstTypes, MostReadIs
    <2>7. n <= m /\ m \in Nat
        <3>1. PICK s : s = Weight(Adjusts, sock[e])
            OBVIOUS
        <3>2. s \in Nat /\ Weight(Adjusts, UnderWay(e)) = s + n
            BY <2>2, <2>4, <3>1, UnderWayIs, WeightTypes
        <3>3. s + n <= m /\ m \in Nat
            BY <2>4, <3>2, AdjustsUnderWay
        <3>4. QED
            BY <2>5, <3>2, <3>3
    <2>8. d <= l
        BY <2>2, <2>4 DEF Inv, LimitInv, Queued
    <2>9. Bytes(q) = d + k * n
        BY <2>3, <2>4, BytesIs, SizesSplit
    <2>10. k * n <= k * m
        BY <2>5, <2>6, <2>7, Times
    <2>11. d + k * n <= l + m * k
        <3>1. PICK y, z : y = k * n /\ z = k * m
            OBVIOUS
        <3>2. y \in Nat /\ z \in Nat /\ m * k = z
            BY <2>5, <2>6, <2>7, <3>1
        <3>3. d + y <= l + z
            BY <2>5, <2>6, <2>8, <2>10, <3>1, <3>2
        <3>4. QED
            BY <3>1, <3>2, <3>3
    <2>12. QED
        BY <2>2, <2>4, <2>9, <2>11
<1>2. QED
    BY <1>1, InvAlways, PTL

\* All that is under way from an end is a window of data in packets of one unit
\* and the adjustments of a window at most.
LEMMA FromBounded ==
    ASSUME Inv, NEW e \in Ends
    PROVE  Weight(Sizes, UnderWay(e)) <= MostFrom(e)
<1>1. PICK u, d, n, m, k, w, s :
        /\ u = Weight(Units("data"), UnderWay(e)) /\ d = Weight(DataSizes, UnderWay(e))
        /\ n = Weight(Adjusts, UnderWay(e)) /\ m = MostAdjusts(e) /\ k = Overhead
        /\ w = Window[Peer(e)] /\ s = Weight(Sizes, UnderWay(e))
    OBVIOUS
<1>2. UnderWay(e) \in Seq(From(e)) /\ UnderWay(e) \in Seq(Packet)
    BY UnderWayIs
<1>3. u \in Nat /\ d \in Nat /\ n \in Nat
    BY <1>1, <1>2, WeightTypes, WeightNat
<1>4. k \in Nat /\ w \in Nat /\ 1 + k \in Nat
    BY <1>1, ConstTypes, PeerIs
<1>5. n <= m /\ m \in Nat
    BY <1>1, AdjustsUnderWay
<1>6. u <= w
    BY <1>1, CreditOf
<1>7. d <= (1 + k) * u
    BY <1>1, <1>2, DataHeavy
<1>8. s = d + k * n
    BY <1>1, <1>2, SizesSplit
<1>9. (1 + k) * u <= (1 + k) * w /\ k * n <= k * m
    BY <1>3, <1>4, <1>5, <1>6, Times
<1>10. PICK y1, y2, z1, z2 : /\ y1 = (1 + k) * u /\ y2 = (1 + k) * w
                             /\ z1 = k * n /\ z2 = k * m
    OBVIOUS
<1>11. y1 \in Nat /\ y2 \in Nat /\ z1 \in Nat /\ z2 \in Nat
    BY <1>3, <1>4, <1>5, <1>10
<1>12. d <= y1 /\ y1 <= y2 /\ z1 <= z2 /\ s = d + z1
    BY <1>7, <1>8, <1>9, <1>10
<1>13. s <= y2 + z2
    BY <1>3, <1>11, <1>12
<1>14. y2 = w * (1 + k) /\ z2 = m * k
    BY <1>4, <1>5, <1>10
<1>15. MostFrom(e) = w * (1 + k) + m * k
    BY <1>1 DEF MostFrom
<1>16. QED
    BY <1>1, <1>13, <1>14, <1>15

\* A head packet that does not fit leaves less than one packet of room.
LEMMA HeadSize ==
    ASSUME NEW e \in Ends, NEW q \in Seq(From(e)), q # <<>>
    PROVE  Size(Head(q)) \in Nat /\ Size(Head(q)) <= MaxPacket + Overhead
<1>1. PICK p : p = Head(q)
    OBVIOUS
<1>2. p \in From(e)
    BY <1>1
<1>3. MaxPacket \in Nat /\ Overhead \in Nat
    BY ConstTypes
<1>4. p.n \in Nat /\ (p.type = "data" => p.n <= MaxPacket)
    BY <1>2, <1>3 DEF From, Packet
<1>5. Size(p) \in Nat /\ Size(p) <= MaxPacket + Overhead
    BY <1>3, <1>4 DEF Size
<1>6. QED
    BY <1>1, <1>5

\* What can be under way from e fits into its queue and its socket; no code
\* enforces this.
Fits(e) == MostFrom(e) <= QueueLimit + SockCap - (MaxPacket + Overhead)

\* Where one end's window fits, the mutual stall that the code otherwise lets
\* happen cannot: a full queue behind a full socket would hold more than can be
\* under way from that end (session_loop, write_packet).
THEOREM NoStallWhereItFits == Spec => []((\E e \in Ends : Fits(e)) => ~Stalled)
<1>1. Inv => ((\E e \in Ends : Fits(e)) => ~Stalled)
    <2> SUFFICES ASSUME Inv, NEW e \in Ends, Fits(e), Stalled
                   PROVE  FALSE
        OBVIOUS
    <2>2. PICK q : q = ses[e].writequeue
        OBVIOUS
    <2>3. q \in Seq(From(e)) /\ sock[e] \in Seq(From(e))
        BY <2>2 DEF Inv, TypeInv, End
    <2>4. q \in Seq(Packet) /\ sock[e] \in Seq(Packet)
        BY <2>3, FromPackets
    <2>5. PICK b, s, h : b = Bytes(q) /\ s = Bytes(sock[e]) /\ h = Size(Head(q))
        OBVIOUS
    <2>6. ~(b <= QueueLimit) /\ s + h > SockCap
        BY <2>2, <2>5 DEF Stalled, has_space
    <2>7. /\ b = Weight(Sizes, q) /\ b \in Nat /\ s = Weight(Sizes, sock[e]) /\ s \in Nat
        BY <2>4, <2>5, BytesIs
    <2>8. q # <<>>
        <3>1. Weight(Sizes, <<>>) = 0 /\ 0 <= QueueLimit
            BY WeightTypes, WeightEmpty, ConstTypes
        <3>2. QED
            BY <2>6, <2>7, <3>1
    <2>9. h \in Nat /\ h <= MaxPacket + Overhead
        BY <2>3, <2>5, <2>8, HeadSize
    <2>10. s + b <= MostFrom(e)
        <3>1. Weight(Sizes, UnderWay(e)) = s + b
            BY <2>2, <2>7, UnderWayIs, WeightTypes
        <3>2. QED
            BY <3>1, FromBounded
    <2>11. PICK l, c, p, z : l = QueueLimit /\ c = SockCap /\ p = MaxPacket + Overhead /\ z = MostFrom(e)
        OBVIOUS
    <2>12. l \in Nat /\ c \in Nat /\ p \in Nat
        BY <2>11, ConstTypes
    <2>13. z \in Int
        <3>1. Window[Peer(e)] \in Nat /\ Overhead \in Nat /\ MostAdjusts(e) \in Nat
            BY ConstTypes, PeerIs, AdjustsUnderWay
        <3>2. QED
            BY <2>11, <3>1 DEF MostFrom
    <2>14. ~(b <= l) /\ s + h > c /\ h <= p /\ s + b <= z /\ z <= l + c - p
        BY <2>6, <2>9, <2>10, <2>11 DEF Fits
    <2>15. QED
        BY <2>7, <2>9, <2>12, <2>13, <2>14
<1>2. QED
    BY <1>1, InvAlways, PTL
=============================================================================
