----------------------------- MODULE Induction -----------------------------
(***************************************************************************)
(* Induction over the natural numbers with sets and functions in place of  *)
(* predicates: what a loop or a recursive function of the modules computes *)
(* is reasoned about with these.                                           *)
(***************************************************************************)
EXTENDS Integers, WellFoundedInduction, TLAPS

\* A non-empty set of natural numbers has a least element.
LEMMA LeastNumber ==
  ASSUME NEW T \in SUBSET Nat, T # {}
  PROVE  \E x \in T : \A y \in T : x <= y
<1> DEFINE R == {ss \in Nat \X Nat : ss[1] < ss[2]}
<1>1. OpToRel(<, Nat) = R
  BY Zenon DEF OpToRel
<1>2. IsWellFoundedOn(R, Nat)
  BY <1>1, NatLessThanWellFounded, Zenon
<1>3. \E x \in T : \A y \in T : ~ (<<y, x>> \in R)
  <2> HIDE DEF R
  <2>1. QED
    BY <1>2, WFMin, Zenon
<1>4. PICK x \in T : \A y \in T : ~ (<<y, x>> \in R)
  BY <1>3, Zenon
<1>5. ASSUME NEW y \in T PROVE x <= y
  <2>1. x \in Nat /\ y \in Nat
    OBVIOUS
  <2>2. ~ (y < x)
    <3>1. SUFFICES ASSUME y < x PROVE <<y, x>> \in R
      BY <1>4
    <3>2. QED
      BY <2>1, <3>1
  <2>3. QED
    BY <2>1, <2>2
<1>6. QED
  BY <1>5

\* Induction: a set that has 0 and with each number the next one has them all.
LEMMA SetInduction ==
  ASSUME NEW S, 0 \in S, \A n \in Nat : n \in S => n + 1 \in S
  PROVE  \A n \in Nat : n \in S
<1> DEFINE T == Nat \ S
<1>1. SUFFICES ASSUME T # {} PROVE FALSE
  OBVIOUS
<1>2. PICK x \in T : \A y \in T : x <= y
  BY <1>1, LeastNumber
<1>3. x # 0
  OBVIOUS
<1>4. x - 1 \in Nat /\ x - 1 \notin T
  BY <1>2, <1>3
<1>5. QED
  BY <1>4

\* The ways to apply F again and again, N times from x0 ...
Iterates(X, x0, F, N) ==
  {g \in [0 .. N -> X] : g[0] = x0 /\ \A k \in 1 .. N : g[k] = F[g[k - 1]]}

\* ... of which there is one: recursion.
LEMMA Recursion ==
  ASSUME NEW X, NEW x0 \in X, NEW F \in [X -> X], NEW N \in Nat
  PROVE  Iterates(X, x0, F, N) # {}
<1> DEFINE S == {n \in Nat : Iterates(X, x0, F, n) # {}}
<1>1. 0 \in S
  <2>1. [k \in 0 .. 0 |-> x0] \in Iterates(X, x0, F, 0)
    BY DEF Iterates
  <2>2. QED
    BY <2>1
<1>2. ASSUME NEW n \in Nat, n \in S PROVE n + 1 \in S
  <2>1. PICK g \in Iterates(X, x0, F, n) : TRUE
    BY <1>2
  <2>2. /\ g \in [0 .. n -> X] /\ g[0] = x0
        /\ \A k \in 1 .. n : g[k] = F[g[k - 1]]
    BY <2>1 DEF Iterates
  <2> DEFINE h == [k \in 0 .. n + 1 |-> IF k = n + 1 THEN F[g[n]] ELSE g[k]]
  <2>3. h \in [0 .. n + 1 -> X] /\ h[0] = x0
    BY <2>2
  <2>4. ASSUME NEW k \in 1 .. n + 1 PROVE h[k] = F[h[k - 1]]
    <3>1. CASE k = n + 1
      BY <3>1
    <3>2. CASE k # n + 1
      BY <2>2, <3>2
    <3>3. QED
      BY <3>1, <3>2
  <2>5. h \in Iterates(X, x0, F, n + 1)
    <3> HIDE DEF h
    <3>1. QED
      BY <2>3, <2>4 DEF Iterates
  <2>6. QED
    BY <2>5
<1>3. \A n \in Nat : n \in S
  <2> HIDE DEF S
  <2>1. QED
    BY <1>1, <1>2, SetInduction
<1>4. QED
  BY <1>3

\* Recursion without an end, where a step may depend on its number.
Recursions(X, x0, F) ==
  {g \in [Nat -> X] : g[0] = x0 /\ \A n \in Nat : g[n + 1] = F[<<n, g[n]>>]}

LEMMA RecursionOnNumbers ==
  ASSUME NEW X, NEW x0 \in X, NEW F \in [Nat \X X -> X]
  PROVE  Recursions(X, x0, F) # {}
<1> DEFINE Y == Nat \X X
           y0 == <<0, x0>>
           G == [p \in Y |-> <<p[1] + 1, F[p]>>]
           h(N) == CHOOSE f : f \in Iterates(Y, y0, G, N)
           g == [n \in Nat |-> h(n)[n][2]]
<1>1. y0 \in Y /\ G \in [Y -> Y]
  OBVIOUS
<1>2. ASSUME NEW N \in Nat PROVE h(N) \in Iterates(Y, y0, G, N)
  <2> HIDE DEF Y, y0, G
  <2>1. Iterates(Y, y0, G, N) # {}
    BY <1>1, Recursion
  <2>2. QED
    BY <2>1
<1>3. ASSUME NEW N \in Nat
      PROVE  /\ h(N) \in [0 .. N -> Y] /\ h(N)[0] = y0
             /\ \A n \in Nat : n + 1 <= N => h(N)[n + 1] = G[h(N)[n]]
  <2> HIDE DEF Y, y0, G, h
  <2>1. /\ h(N) \in [0 .. N -> Y] /\ h(N)[0] = y0
        /\ \A k \in 1 .. N : h(N)[k] = G[h(N)[k - 1]]
    BY <1>2 DEF Iterates
  <2>2. ASSUME NEW n \in Nat, n + 1 <= N PROVE h(N)[n + 1] = G[h(N)[n]]
    <3>1. n + 1 \in 1 .. N /\ (n + 1) - 1 = n
      BY <2>2
    <3>2. QED
      BY <2>1, <3>1
  <2>3. QED
    BY <2>1, <2>2
<1>4. ASSUME NEW n \in Nat
      PROVE  \A N, M \in Nat : n <= N /\ n <= M => h(N)[n] = h(M)[n] /\ h(N)[n][1] = n
  <2> DEFINE S == {m \in Nat : \A N, M \in Nat :
                     m <= N /\ m <= M => h(N)[m] = h(M)[m] /\ h(N)[m][1] = m}
  <2> HIDE DEF h
  <2>1. 0 \in S
    <3>1. ASSUME NEW N \in Nat PROVE h(N)[0] = y0
      BY <1>3
    <3>2. y0[1] = 0
      OBVIOUS
    <3> HIDE DEF y0
    <3>3. QED
      BY <3>1, <3>2
  <2>2. ASSUME NEW m \in Nat, m \in S PROVE m + 1 \in S
    <3>1. SUFFICES ASSUME NEW N \in Nat, NEW M \in Nat, m + 1 <= N, m + 1 <= M
                   PROVE  h(N)[m + 1] = h(M)[m + 1] /\ h(N)[m + 1][1] = m + 1
      OBVIOUS
    <3>2. m <= N /\ m <= M
      BY <3>1
    <3>3. h(N)[m] = h(M)[m] /\ h(N)[m][1] = m
      BY <2>2, <3>2
    <3>4. h(N)[m + 1] = G[h(N)[m]] /\ h(M)[m + 1] = G[h(M)[m]]
      BY <1>3, <3>1
    <3>5. h(N)[m] \in Y
      BY <1>3, <3>2
    <3>6. QED
      BY <3>3, <3>4, <3>5
  <2>3. \A m \in Nat : m \in S
    <3> HIDE DEF S
    <3>1. QED
      BY <2>1, <2>2, SetInduction
  <2>4. QED
    BY <2>3
<1>5. ASSUME NEW n \in Nat PROVE h(n)[n] \in Y /\ h(n)[n] = <<n, g[n]>>
  <2> HIDE DEF h
  <2>1. h(n)[n] \in Y
    BY <1>3
  <2>2. h(n)[n][1] = n
    BY <1>4
  <2>3. QED
    BY <2>1, <2>2
<1>6. g \in [Nat -> X]
  <2> HIDE DEF h
  <2>1. ASSUME NEW n \in Nat PROVE h(n)[n][2] \in X
    BY <1>5
  <2>2. QED
    BY <2>1
<1>7. g[0] = x0
  <2> HIDE DEF h
  <2>1. h(0)[0] = y0
    BY <1>3
  <2>2. QED
    BY <2>1
<1>8. ASSUME NEW n \in Nat PROVE g[n + 1] = F[<<n, g[n]>>]
  <2> HIDE DEF h
  <2>1. n + 1 \in Nat /\ n <= n + 1 /\ n <= n
    OBVIOUS
  <2>2. h(n + 1)[n + 1] = G[h(n + 1)[n]]
    <3> HIDE DEF G
    <3>1. PICK N \in Nat : N = n + 1
      BY <2>1
    <3>2. h(N)[n + 1] = G[h(N)[n]]
      BY <1>3, <3>1
    <3>3. QED
      BY <3>1, <3>2
  <2>3. h(n + 1)[n] = h(n)[n]
    BY <1>4, <2>1
  <2>4. h(n)[n] \in Y /\ h(n)[n] = <<n, g[n]>>
    BY <1>5
  <2>5. g[n + 1] = h(n + 1)[n + 1][2]
    BY <2>1
  <2> HIDE DEF g
  <2>6. QED
    BY <2>2, <2>3, <2>4, <2>5
<1>9. QED
  <2> HIDE DEF g
  <2>1. g \in Recursions(X, x0, F)
    BY <1>6, <1>7, <1>8 DEF Recursions
  <2>2. QED
    BY <2>1
=============================================================================
