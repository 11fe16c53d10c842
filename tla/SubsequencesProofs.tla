------------------------- MODULE SubsequencesProofs --------------------------
(***************************************************************************)
(* What Among(q, S) is: the lemmas about the loops that keep some of the   *)
(* elements they pass, proved by induction over their length.              *)
(***************************************************************************)
EXTENDS Subsequences, SequenceTheorems, NaturalsInduction, WellFoundedInduction, TLAPS

\* Induction, with the set of the numbers for which a statement holds.
LEMMA Induct ==
    ASSUME NEW S \in SUBSET Nat, 0 \in S, \A k \in S : k + 1 \in S
    PROVE  \A k \in Nat : k \in S
  <1> SUFFICES ASSUME Nat \ S # {}
               PROVE  FALSE
    OBVIOUS
  <1> DEFINE R == {p \in Nat \X Nat : p[1] < p[2]}
             T == Nat \ S
  <1>1. \A x, y \in Nat : <<y, x>> \in R <=> y < x
    OBVIOUS
  <1>2. IsWellFoundedOn(R, Nat)
    BY NatLessThanWellFounded, Zenon DEF OpToRel
  <1> HIDE DEF R
  <1>3. T \subseteq Nat /\ T # {}
    OBVIOUS
  <1>4. \E x \in T : \A y \in T : ~(<<y, x>> \in R)
    BY <1>2, <1>3, WFMin, Zenon
  <1>5. PICK m \in T : \A y \in T : ~(<<y, m>> \in R)
    BY <1>4
  <1>6. m \in Nat /\ m # 0 /\ m \notin S
    BY <1>5
  <1>7. m - 1 \in Nat /\ m - 1 < m /\ (m - 1) + 1 = m
    BY <1>6
  <1>8. m - 1 \notin S
    BY <1>6, <1>7
  <1> QED BY <1>1, <1>5, <1>6, <1>7, <1>8

\* The members of q in S, up to the i-th of q.
IsUpTo(f, n, q, S) ==
    \A i \in 0..n :
      f[i] = IF i = 0 THEN <<>>
             ELSE IF q[i] \in S THEN Append(f[i - 1], q[i]) ELSE f[i - 1]

LEMMA UpToExists ==
    ASSUME NEW X, NEW q \in Seq(X), NEW S
    PROVE  \E f \in [0..Len(q) -> Seq(X)] : IsUpTo(f, Len(q), q, S)
  <1> DEFINE Reached(k) == \E f \in [0..k -> Seq(X)] : IsUpTo(f, k, q, S)
             N == {k \in Nat : k <= Len(q) => Reached(k)}
  <1>1. 0 \in N
    <2> DEFINE f == [i \in 0..0 |-> <<>>]
    <2>1. f \in [0..0 -> Seq(X)] /\ IsUpTo(f, 0, q, S)
      BY DEF IsUpTo
    <2> QED BY <2>1
  <1>2. ASSUME NEW k \in N
        PROVE  k + 1 \in N
    <2>0. k \in Nat /\ k + 1 \in Nat /\ Len(q) \in Nat
      OBVIOUS
    <2> SUFFICES ASSUME k + 1 <= Len(q)
                 PROVE  Reached(k + 1)
      <3> HIDE DEF Reached
      <3> QED BY <2>0
    <2>1. PICK f \in [0..k -> Seq(X)] : IsUpTo(f, k, q, S)
      BY <2>0
    <2> DEFINE last == IF q[k + 1] \in S THEN Append(f[k], q[k + 1]) ELSE f[k]
               g == [i \in 0..(k + 1) |-> IF i = k + 1 THEN last ELSE f[i]]
    <2>2. last \in Seq(X)
      BY <2>0
    <2> HIDE DEF last, N
    <2>3. g \in [0..(k + 1) -> Seq(X)]
      BY <2>0, <2>2
    <2>4. \A i \in 0..k : g[i] = f[i] /\ i \in 0..(k + 1) /\ i # k + 1
      BY <2>0
    <2>5. g[k + 1] = last /\ k \in 0..k /\ (k + 1) - 1 = k /\ k + 1 # 0
      BY <2>0
    <2> HIDE DEF g
    <2>6. ASSUME NEW i \in 0..(k + 1)
          PROVE  g[i] = IF i = 0 THEN <<>>
                        ELSE IF q[i] \in S THEN Append(g[i - 1], q[i]) ELSE g[i - 1]
      <3>1. CASE i = k + 1
        BY <2>4, <2>5, <3>1 DEF last
      <3>2. CASE i \in 0..k /\ i = 0
        BY <2>1, <2>4, <3>2 DEF IsUpTo
      <3>3. CASE i \in 0..k /\ i # 0
        <4>1. i - 1 \in 0..k
          BY <2>0, <3>3
        <4> QED BY <2>1, <2>4, <3>3, <4>1 DEF IsUpTo
      <3> QED BY <2>0, <3>1, <3>2, <3>3
    <2> QED BY <2>3, <2>6 DEF IsUpTo
  <1> HIDE DEF N, Reached
  <1>3. N \in SUBSET Nat
    BY DEF N
  <1>4. Len(q) \in N
    BY <1>1, <1>2, <1>3, Induct
  <1> QED BY <1>4 DEF N, Reached

LEMMA UpToUnique ==
    ASSUME NEW n \in Nat, NEW q, NEW S, NEW f, NEW g, IsUpTo(f, n, q, S), IsUpTo(g, n, q, S)
    PROVE  f[n] = g[n]
  <1> DEFINE N == {k \in Nat : k <= n => f[k] = g[k]}
  <1>1. 0 \in N
    BY DEF IsUpTo
  <1>2. ASSUME NEW k \in N
        PROVE  k + 1 \in N
    <2>1. k \in Nat /\ k + 1 \in Nat /\ (k + 1) - 1 = k /\ k + 1 # 0
      OBVIOUS
    <2> SUFFICES ASSUME k + 1 <= n
                 PROVE  f[k + 1] = g[k + 1]
      BY <2>1
    <2>2. f[k] = g[k] /\ k + 1 \in 0..n
      BY <2>1
    <2> HIDE DEF N
    <2>3. f[k + 1] = IF q[k + 1] \in S THEN Append(f[k], q[k + 1]) ELSE f[k]
      BY <2>1, <2>2 DEF IsUpTo
    <2>4. g[k + 1] = IF q[k + 1] \in S THEN Append(g[k], q[k + 1]) ELSE g[k]
      BY <2>1, <2>2 DEF IsUpTo
    <2> QED BY <2>2, <2>3, <2>4
  <1> HIDE DEF N
  <1>3. N \in SUBSET Nat
    BY DEF N
  <1>4. \A k \in Nat : k \in N
    BY <1>1, <1>2, <1>3, Induct
  <1> QED BY <1>4 DEF N

LEMMA AmongUpTo ==
    ASSUME NEW X, NEW q \in Seq(X), NEW S
    PROVE  \E f \in [0..Len(q) -> Seq(X)] : IsUpTo(f, Len(q), q, S) /\ Among(q, S) = f[Len(q)]
  <1> DEFINE n == Len(q)
             Def(f) == [i \in 0..n |-> IF i = 0 THEN <<>>
                                       ELSE IF q[i] \in S THEN Append(f[i - 1], q[i])
                                       ELSE f[i - 1]]
             g == CHOOSE f : f = Def(f)
  <1>0. n \in Nat
    OBVIOUS
  <1>1. Among(q, S) = g[n]
    BY DEF Among
  <1>2. PICK f \in [0..n -> Seq(X)] : IsUpTo(f, n, q, S)
    BY UpToExists
  <1>3. f = Def(f)
    BY <1>2 DEF IsUpTo
  <1>4. g = Def(g)
    <2> HIDE DEF Def
    <2> QED BY <1>3
  <1>5. IsUpTo(g, n, q, S)
    <2>1. \A i \in 0..n : g[i] = Def(g)[i]
      <3> HIDE DEF Def, g
      <3> QED BY <1>4
    <2> HIDE DEF g
    <2> QED BY <2>1 DEF IsUpTo
  <1> HIDE DEF g, n
  <1>6. f[n] = g[n]
    BY <1>0, <1>2, <1>5, UpToUnique
  <1>7. n \in 0..n
    BY <1>0
  <1> QED BY <1>1, <1>2, <1>6, <1>7 DEF n

\* The loop, one element further.
LEMMA AmongSteps ==
    ASSUME NEW X, NEW q \in Seq(X), NEW S, NEW x \in X
    PROVE  /\ Among(<<>>, S) = <<>> /\ Among(q, S) \in Seq(X)
           /\ x \in S => Among(Append(q, x), S) = Append(Among(q, S), x)
           /\ x \notin S => Among(Append(q, x), S) = Among(q, S)
  <1> DEFINE r == Append(q, x)
             n == Len(q)
  <1>1. /\ n \in Nat /\ r \in Seq(X) /\ Len(r) = n + 1 /\ r[n + 1] = x
        /\ \A i \in 1..n : q[i] = r[i]
    OBVIOUS
  <1>2. PICK f \in [0..n -> Seq(X)] : IsUpTo(f, n, q, S) /\ Among(q, S) = f[n]
    BY AmongUpTo
  <1> HIDE DEF r
  <1>3. PICK g \in [0..Len(r) -> Seq(X)] : IsUpTo(g, Len(r), r, S) /\ Among(r, S) = g[Len(r)]
    BY <1>1, AmongUpTo
  <1> HIDE DEF n
  <1>4. n \in 0..n /\ n + 1 \in 0..(n + 1) /\ n <= n + 1 /\ n + 1 \in Nat /\ n + 1 # 0
        /\ (n + 1) - 1 = n
    BY <1>1
  <1>5. f[n] = g[n]
    <2>1. IsUpTo(g, n, q, S)
      <3>1. \A i \in 0..n : i \in 0..Len(r) /\ (i # 0 => i \in 1..n)
        BY <1>1
      <3> QED BY <1>1, <1>3, <3>1 DEF IsUpTo
    <2>2. n \in Nat /\ IsUpTo(f, n, q, S)
      BY <1>1, <1>2
    <2> QED BY <2>1, <2>2, UpToUnique
  <1>6. g[n + 1] = IF x \in S THEN Append(g[n], x) ELSE g[n]
    BY <1>1, <1>3, <1>4 DEF IsUpTo
  <1>7. Among(q, S) \in Seq(X)
    BY <1>2, <1>4
  <1>8. Among(<<>>, S) = <<>>
    <2>1. <<>> \in Seq(X) /\ Len(<<>>) = 0 /\ 0 \in 0..0
      OBVIOUS
    <2>2. PICK h \in [0..0 -> Seq(X)] : IsUpTo(h, 0, <<>>, S) /\ Among(<<>>, S) = h[0]
      BY <2>1, AmongUpTo
    <2> QED BY <2>1, <2>2 DEF IsUpTo
  <1> QED BY <1>1, <1>2, <1>3, <1>5, <1>6, <1>7, <1>8 DEF r

LEMMA AmongNone == \A S : Among(<<>>, S) = <<>>
  <1> TAKE S
  <1>1. <<>> \in Seq({0}) /\ 0 \in {0}
    OBVIOUS
  <1> QED BY <1>1, AmongSteps

LEMMA AmongTyped ==
    ASSUME NEW X, NEW q \in Seq(X), NEW S
    PROVE  Among(q, S) \in Seq(X)
  <1>1. PICK f \in [0..Len(q) -> Seq(X)] : Among(q, S) = f[Len(q)]
    BY AmongUpTo
  <1>2. Len(q) \in 0..Len(q)
    OBVIOUS
  <1> QED BY <1>1, <1>2

\* A sequence is empty, or a shorter one with one more element.
LEMMA LastOf ==
    ASSUME NEW X, NEW q \in Seq(X), NEW k \in Nat, Len(q) = k + 1
    PROVE  \E p \in Seq(X), x \in X : q = Append(p, x) /\ Len(p) = k
  <1> DEFINE p == SubSeq(q, 1, k)
  <1>1. p \in Seq(X) /\ Len(p) = k /\ q[k + 1] \in X
    OBVIOUS
  <1>2. q = Append(p, q[k + 1])
    OBVIOUS
  <1> QED BY <1>1, <1>2

\* In front of the kept of one part goes the kept of the other.
LEMMA AmongBehind ==
    ASSUME NEW X, NEW q \in Seq(X), NEW t \in Seq(X), NEW x \in X, NEW S
    PROVE  /\ x \in S => /\ Among(q \o Append(t, x), S) = Append(Among(q \o t, S), x)
                         /\ Among(Append(t, x), S) = Append(Among(t, S), x)
           /\ x \notin S => /\ Among(q \o Append(t, x), S) = Among(q \o t, S)
                            /\ Among(Append(t, x), S) = Among(t, S)
  <1> DEFINE qt == q \o t
  <1>1. qt \in Seq(X) /\ q \o Append(t, x) = Append(qt, x)
    OBVIOUS
  <1> HIDE DEF qt
  <1>4. x \in S => Among(Append(qt, x), S) = Append(Among(qt, S), x)
    BY <1>1, AmongSteps
  <1>5. x \in S => Among(Append(t, x), S) = Append(Among(t, S), x)
    BY AmongSteps
  <1>6. x \notin S => Among(Append(qt, x), S) = Among(qt, S)
    BY <1>1, AmongSteps
  <1>7. x \notin S => Among(Append(t, x), S) = Among(t, S)
    BY AmongSteps
  <1> QED BY <1>1, <1>4, <1>5, <1>6, <1>7 DEF qt

\* What is kept of two parts is what is kept of each.
LEMMA AmongJoins ==
    ASSUME NEW X, NEW q \in Seq(X), NEW r \in Seq(X), NEW S
    PROVE  Among(q \o r, S) = Among(q, S) \o Among(r, S)
  <1> DEFINE Good(p) == Among(q \o p, S) = Among(q, S) \o Among(p, S)
             N == {k \in Nat : \A p \in Seq(X) : Len(p) = k => Good(p)}
  <1>1. 0 \in N
    <2> SUFFICES ASSUME NEW p \in Seq(X), Len(p) = 0
                 PROVE  Good(p)
      <3> HIDE DEF Good
      <3> QED OBVIOUS
    <2>1. p = <<>> /\ q \o p = q
      OBVIOUS
    <2>2. Among(q, S) \in Seq(X) /\ Among(<<>>, S) = <<>>
      BY AmongNone, AmongTyped, Zenon
    <2>3. Among(q, S) \o <<>> = Among(q, S)
      BY <2>2
    <2> QED BY <2>1, <2>2, <2>3
  <1>2. ASSUME NEW k \in N
        PROVE  k + 1 \in N
    <2>1. k \in Nat /\ k + 1 \in Nat /\ \A p \in Seq(X) : Len(p) = k => Good(p)
      OBVIOUS
    <2> HIDE DEF N
    <2>2. ASSUME NEW p \in Seq(X), Len(p) = k + 1
          PROVE  Good(p)
      <3> HIDE DEF Good
      <3>1. \E t \in Seq(X), x \in X : p = Append(t, x) /\ Len(t) = k
        BY <2>1, <2>2, LastOf
      <3>2. PICK t \in Seq(X), x \in X : p = Append(t, x) /\ Len(t) = k
        BY <3>1
      <3>3. Good(t)
        BY <2>1, <3>2
      <3>4. Among(q \o t, S) = Among(q, S) \o Among(t, S)
        BY <3>3 DEF Good
      <3>5. CASE x \in S
        <4> DEFINE a == Among(q, S)
                   b == Among(t, S)
                   c == Among(p, S)
                   d == Among(q \o p, S)
                   e == Among(q \o t, S)
        <4>1. d = Append(e, x)
          BY <3>2, <3>5, AmongBehind
        <4>2. c = Append(b, x)
          BY <3>2, <3>5, AmongBehind
        <4>5. a \o Append(b, x) = Append(a \o b, x)
          <5>1. a \in Seq(X) /\ b \in Seq(X)
            BY AmongTyped
          <5> HIDE DEF a, b
          <5> QED BY <5>1
        <4>3. e = a \o b
          BY <3>4
        <4>4. SUFFICES d = a \o c
          BY DEF Good
        <4> HIDE DEF a, b, c, d, e
        <4> QED BY <4>1, <4>2, <4>3, <4>5
      <3>6. CASE x \notin S
        <4>1. Among(q \o p, S) = Among(q \o t, S) /\ Among(p, S) = Among(t, S)
          BY <3>2, <3>6, AmongBehind
        <4> QED BY <3>4, <4>1 DEF Good
      <3> QED BY <3>5, <3>6
    <2> QED BY <2>1, <2>2 DEF N
  <1> HIDE DEF N, Good
  <1>3. N \in SUBSET Nat
    BY DEF N
  <1>4. Len(r) \in Nat
    OBVIOUS
  <1>5. Len(r) \in N
    BY <1>1, <1>2, <1>3, <1>4, Induct
  <1> QED BY <1>5 DEF N, Good

\* A loop that keeps every element copies the list.
LEMMA AmongAll ==
    ASSUME NEW X, NEW q \in Seq(X), NEW S, \A i \in 1..Len(q) : q[i] \in S
    PROVE  Among(q, S) = q
  <1> DEFINE AllIn(p) == \A i \in 1..Len(p) : p[i] \in S
             N == {k \in Nat : \A p \in Seq(X) : Len(p) = k /\ AllIn(p) => Among(p, S) = p}
  <1>1. 0 \in N
    <2> SUFFICES ASSUME NEW p \in Seq(X), Len(p) = 0
                 PROVE  Among(p, S) = p
      <3> HIDE DEF AllIn
      <3> QED OBVIOUS
    <2>1. p = <<>>
      OBVIOUS
    <2> QED BY <2>1, AmongNone, Zenon
  <1>2. ASSUME NEW k \in N
        PROVE  k + 1 \in N
    <2>1. k \in Nat /\ k + 1 \in Nat
          /\ \A p \in Seq(X) : Len(p) = k /\ AllIn(p) => Among(p, S) = p
      <3> HIDE DEF AllIn
      <3> QED OBVIOUS
    <2> HIDE DEF N
    <2>2. ASSUME NEW p \in Seq(X), Len(p) = k + 1, AllIn(p)
          PROVE  Among(p, S) = p
      <3>1. \E t \in Seq(X), x \in X : p = Append(t, x) /\ Len(t) = k
        BY <2>1, <2>2, LastOf
      <3>2. PICK t \in Seq(X), x \in X : p = Append(t, x) /\ Len(t) = k
        BY <3>1
      <3>3. AllIn(t) /\ x \in S
        BY <2>1, <2>2, <3>2
      <3> HIDE DEF AllIn
      <3>4. Among(t, S) = t
        BY <2>1, <3>2, <3>3
      <3>5. x \in S => Among(p, S) = Append(Among(t, S), x)
        BY <3>2, AmongSteps
      <3> QED BY <3>2, <3>3, <3>4, <3>5
    <2> HIDE DEF AllIn
    <2> QED BY <2>1, <2>2 DEF N
  <1> HIDE DEF N
  <1>3. N \in SUBSET Nat
    BY DEF N
  <1>4. Len(q) \in Nat
    OBVIOUS
  <1>5. Len(q) \in N
    BY <1>1, <1>2, <1>3, <1>4, Induct
  <1> QED BY <1>5 DEF N
=============================================================================
