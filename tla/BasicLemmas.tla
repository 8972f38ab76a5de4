---------------------------- MODULE BasicLemmas ----------------------------
(* Facts about numbers and sequences that several proofs rest on.            *)
EXTENDS Integers, Sequences, NaturalsInduction, WellFoundedInduction, TLAPS

(* Every non-empty set of naturals has a least element.                      *)
LEMMA LeastNumber ==
    ASSUME NEW T \in SUBSET Nat, T # {}
    PROVE  \E x \in T : \A y \in T : x <= y
    <1> DEFINE Smaller == {p \in Nat \X Nat : p[1] < p[2]}
    <1>1. IsWellFoundedOn(Smaller, Nat)
        BY NatLessThanWellFounded DEF OpToRel
    <1>2. \E x \in T : \A y \in T : ~(<<y, x>> \in Smaller)
        <2> HIDE DEF Smaller
        <2> QED
            BY <1>1, WFMin
    <1>3. PICK x \in T : \A y \in T : ~(<<y, x>> \in Smaller)
        BY <1>2
    <1>4. ASSUME NEW y \in T PROVE x <= y
        <2>1. ~(<<y, x>> \in Smaller)
            BY <1>3
        <2>2. ~(y < x)
            BY <2>1
        <2>3. QED
            BY <2>2
    <1>5. QED
        BY <1>3, <1>4

(* What holds at 0 and goes on up to m holds up to m.                        *)
LEMMA Reaches ==
    ASSUME NEW m \in Nat, NEW T, 0 \in T, \A n \in Nat : n < m /\ n \in T => n + 1 \in T
    PROVE  0 .. m \subseteq T
    <1> DEFINE U == {n \in 0 .. m : n \notin T}
    <1>1. CASE U = {}
        BY <1>1
    <1>2. CASE U # {}
        <2>1. U \in SUBSET Nat
            OBVIOUS
        <2>2. PICK n \in U : \A k \in U : n <= k
            <3> HIDE DEF U
            <3>1. QED
                BY <1>2, <2>1, LeastNumber
        <2>3. n \in Nat /\ n # 0 /\ n <= m /\ n \notin T
            BY <2>2
        <2>4. n - 1 \in Nat /\ n - 1 < m /\ ~(n <= n - 1) /\ n - 1 + 1 = n
            BY <2>3
        <2>5. n - 1 \in T
            BY <2>2, <2>3, <2>4
        <2>6. QED
            BY <2>3, <2>4, <2>5
    <1>3. QED
        BY <1>1, <1>2

LEMMA ReachesAll ==
    ASSUME NEW T, 0 \in T, \A n \in Nat : n \in T => n + 1 \in T
    PROVE  Nat \subseteq T
    <1>1. ASSUME NEW n \in Nat PROVE n \in T
        <2>1. 0 .. n \subseteq T
            BY Reaches
        <2>2. n \in 0 .. n
            OBVIOUS
        <2>3. QED
            BY <2>1, <2>2
    <1>2. QED
        BY <1>1

(* What is left of a sequence without its head was in it, one place on.      *)
LEMMA TailTerms ==
    ASSUME NEW S, NEW q \in Seq(S), q # <<>>
    PROVE  /\ Len(q) \in Nat \ {0}
           /\ Tail(q) \in Seq(S)
           /\ Len(Tail(q)) = Len(q) - 1
           /\ \A i \in DOMAIN Tail(q) : i + 1 \in DOMAIN q /\ Tail(q)[i] = q[i + 1]
    <1>1. Len(q) \in Nat \ {0} /\ Len(Tail(q)) = Len(q) - 1 /\ Tail(q) \in Seq(S)
        OBVIOUS
    <1>2. ASSUME NEW i \in DOMAIN Tail(q) PROVE i + 1 \in DOMAIN q /\ Tail(q)[i] = q[i + 1]
        <2>1. i \in 1..(Len(q) - 1)
            BY <1>1
        <2>2. QED
            BY <1>1, <2>1
    <1>3. QED
        BY <1>1, <1>2

(* A step that is taken again and again, from x0: f is the function from the *)
(* number of steps to what they have come to.                                *)
Iterated(f, S, x0, F) ==
    /\ f \in [Nat -> S]
    /\ f[0] = x0
    /\ \A n \in Nat : f[n + 1] = F[n][f[n]]

LEMMA Iterates ==
    ASSUME NEW S, NEW x0 \in S, NEW F \in [Nat -> [S -> S]]
    PROVE  \E f : Iterated(f, S, x0, F)
    <1> DEFINE Upto(g, n) == /\ g \in [0..n -> S]
                             /\ g[0] = x0
                             /\ \A k \in 1..n : g[k] = F[k - 1][g[k - 1]]
    <1>1. ASSUME NEW n \in Nat, NEW g, Upto(g, n), NEW m \in Nat, NEW h, Upto(h, m), NEW k \in Nat, k <= n, k <= m
          PROVE  g[k] = h[k]
        <2> DEFINE T == {l \in Nat : l <= k /\ g[l] # h[l]}
        <2>1. CASE T = {}
            BY <2>1
        <2>2. CASE T # {}
            <3>1. PICK l \in T : \A i \in T : l <= i
                BY <2>2, LeastNumber
            <3>2. l # 0
                BY <1>1, <3>1
            <3>3. l - 1 \in Nat /\ l - 1 < l /\ l - 1 <= k
                BY <3>1, <3>2
            <3>4. g[l - 1] = h[l - 1]
                BY <3>1, <3>3
            <3>5. l \in 1..n /\ l \in 1..m
                BY <1>1, <3>1, <3>2
            <3>6. g[l] = F[l - 1][g[l - 1]] /\ h[l] = F[l - 1][h[l - 1]]
                BY <1>1, <3>5
            <3>7. QED
                BY <3>1, <3>4, <3>6
        <2>3. QED
            BY <2>1, <2>2
    <1>2. ASSUME NEW n \in Nat PROVE \E g : Upto(g, n)
        <2> DEFINE T == {l \in Nat : ~\E g : Upto(g, l)}
        <2>1. CASE T = {}
            BY <2>1
        <2>2. CASE T # {}
            <3>1. PICK l \in T : \A i \in T : l <= i
                BY <2>2, LeastNumber
            <3>2. Upto([k \in 0..0 |-> x0], 0)
                OBVIOUS
            <3>3. l # 0
                BY <3>1, <3>2
            <3>4. l - 1 \in Nat /\ l - 1 < l
                BY <3>1, <3>3
            <3>5. PICK g : Upto(g, l - 1)
                <4>1. ~(l <= l - 1) /\ l - 1 \notin T
                    <5> HIDE DEF T
                    <5>1. l \in Nat
                        BY <3>1 DEF T
                    <5>2. QED
                        BY <3>1, <3>4, <5>1
                <4> HIDE DEF Upto
                <4>2. QED
                    BY <3>4, <4>1
            <3> DEFINE h == [k \in 0..l |-> IF k = l THEN F[l - 1][g[l - 1]] ELSE g[k]]
            <3>6. l - 1 \in 0..(l - 1) /\ g[l - 1] \in S
                BY <3>4, <3>5
            <3>7. ASSUME NEW k \in 0..l, k # l PROVE k \in 0..(l - 1)
                BY <3>1, <3>7
            <3>8. h \in [0..l -> S]
                BY <3>5, <3>6, <3>7
            <3>9. h[0] = x0
                BY <3>1, <3>3, <3>5
            <3>10. ASSUME NEW k \in 1..l PROVE h[k] = F[k - 1][h[k - 1]]
                <4>1. k - 1 \in 0..l /\ k - 1 # l /\ k \in 0..l
                    BY <3>1
                <4>2. h[k - 1] = g[k - 1]
                    BY <4>1
                <4>3. CASE k = l
                    BY <4>1, <4>2, <4>3
                <4>4. CASE k # l
                    <5>1. k \in 1..(l - 1)
                        BY <3>1, <4>4
                    <5>2. h[k] = g[k]
                        BY <4>1, <4>4
                    <5>3. g[k] = F[k - 1][g[k - 1]]
                        BY <3>5, <5>1
                    <5>4. QED
                        BY <4>2, <5>2, <5>3
                <4>5. QED
                    BY <4>3, <4>4
            <3> HIDE DEF h
            <3>11. Upto(h, l)
                BY <3>8, <3>9, <3>10
            <3>12. QED
                BY <3>1, <3>11
        <2>3. QED
            BY <2>1, <2>2
    <1> DEFINE G(n) == CHOOSE g : Upto(g, n)
               f == [n \in Nat |-> G(n)[n]]
    <1>3. \A n \in Nat : Upto(G(n), n)
        BY <1>2
    <1> HIDE DEF G
    <1>4. \A n \in Nat : G(n)[n] \in S
        BY <1>3
    <1>5. f \in [Nat -> S]
        BY <1>4
    <1>6. f[0] = x0
        BY <1>3
    <1>7. ASSUME NEW n \in Nat PROVE f[n + 1] = F[n][f[n]]
        <2>1. n + 1 \in Nat /\ n <= n + 1 /\ n + 1 \in 1..(n + 1) /\ (n + 1) - 1 = n /\ n <= n
            OBVIOUS
        <2>2. Upto(G(n + 1), n + 1) /\ Upto(G(n), n)
            BY <1>3, <2>1
        <2>3. G(n + 1)[n] = G(n)[n]
            <3> HIDE DEF Upto
            <3>1. QED
                BY <1>1, <2>1, <2>2
        <2>4. G(n + 1)[n + 1] = F[n][G(n + 1)[n]]
            BY <2>1, <2>2
        <2>5. QED
            BY <2>1, <2>3, <2>4
    <1>8. QED
        <2> HIDE DEF f
        <2>1. QED
            BY <1>5, <1>6, <1>7 DEF Iterated

(* The same, as the body of a recursive function.                            *)
LEMMA Recurs ==
    ASSUME NEW S, NEW x0 \in S, NEW F \in [Nat -> [S -> S]]
    PROVE  \E f \in [Nat -> S] : f = [n \in Nat |-> IF n = 0 THEN x0 ELSE F[n - 1][f[n - 1]]]
    <1>1. PICK f : Iterated(f, S, x0, F)
        BY Iterates
    <1>2. ASSUME NEW n \in Nat PROVE f[n] = IF n = 0 THEN x0 ELSE F[n - 1][f[n - 1]]
        <2>1. CASE n = 0
            BY <1>1, <2>1 DEF Iterated
        <2>2. CASE n # 0
            <3>1. n - 1 \in Nat /\ n - 1 + 1 = n
                BY <2>2
            <3>2. f[n - 1 + 1] = F[n - 1][f[n - 1]]
                BY <1>1, <3>1 DEF Iterated
            <3>3. QED
                BY <2>2, <3>1, <3>2
        <2>3. QED
            BY <2>1, <2>2
    <1>3. f \in [Nat -> S]
        BY <1>1 DEF Iterated
    <1>4. f = [n \in Nat |-> IF n = 0 THEN x0 ELSE F[n - 1][f[n - 1]]]
        BY <1>2, <1>3
    <1>5. QED
        BY <1>3, <1>4
=============================================================================
