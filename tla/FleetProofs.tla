----------------------------- MODULE FleetProofs -----------------------------
(***************************************************************************)
(* Proofs about Fleet.  The store: for every menu of calls, faults and     *)
(* launches, the files decode to what the screen shows and a password      *)
(* comes back as it was typed.  The batch: its books agree, for every list *)
(* of machines, every cap and every order in which replies come.           *)
(***************************************************************************)
EXTENDS Fleet, FiniteSetTheorems, SequenceTheorems, TLAPS

(***************************************************************************)
(* The store: the inductive invariant.                                     *)
(***************************************************************************)
Machines(s) == IsList(s) /\ \A i \in DOMAIN s : IsMachine(s[i])

\* The key in use is the one the platform holds.
KeyType == [platform : Platforms, tried : BOOLEAN, key : Nat, ring : Nat, lost : 0..launches]
KeyOk(k) ==
    /\ launches \in Nat
    /\ k \in KeyType
    /\ k.key # 0 => k.key = k.ring
    /\ ~k.tried => k.key = 0

\* A stored password is the one that was typed, and no key but the platform's is needed.
Right(c, ring) == AsTyped(c) \/ (ring # 0 /\ c.pass = V3(ring, c.meant.word))

\* What holds of a stored machine, of one in a backup or a plan, and of one that is
\* shown, when k is the key store: it is the one typed, or harm was done since.
Dated(c)    == c.meant.launch \in 0..launches
Sound(c, k) == Dated(c) /\ (c.meant.launch >= k.lost => Right(c, k.ring))
Safe(c, k)  == Dated(c) /\ (c.meant.launch >= k.lost => c.pass = c.meant.word)
Fine(c, k)  ==
    /\ Dated(c)
    /\ \/ c.pass = c.meant.word
       \/ c.meant.launch < k.lost
       \/ Blind(k) /\ c.meant.launch < launches /\ c.pass = ""

AllSound(s) == \A i \in DOMAIN s : Sound(s[i], keys)
AllSafe(s)  == \A i \in DOMAIN s : Safe(s[i], keys)
Shown(s)    == \A i \in DOMAIN s : Fine(s[i], keys)
Earlier(s)  == \A i \in DOMAIN s : s[i].meant.launch < launches

Decodes(list, stored, key) ==
    /\ Len(stored) = Len(list)
    /\ \A i \in DOMAIN list : Parsed(stored[i], key, list[i].id) = list[i]

NoneUnderKey(stored) == \A i \in DOMAIN stored : stored[i].pass.form # "V3"

\* The list and its file.  As long as the key store has not been asked, nothing in the
\* file needs its key: asking later changes nothing that is shown.
ListInv ==
    /\ menu \in Menus
    /\ Machines(rows) /\ Machines(file.rows)
    /\ KeyOk(keys)
    /\ app # "Up" => rows = <<>>
    /\ app \in {"Migrating", "Loading"} => ~keys.tried
    /\ app = "Up" /\ "Computers" \notin failed => Decodes(rows, file.rows, keys.key)
    /\ app = "Up" /\ "Computers" \notin failed /\ ~keys.tried => NoneUnderKey(file.rows)
    /\ AllSound(file.rows) /\ Shown(rows)
    /\ app \in {"Migrating", "Loading"} => launches # 0 /\ Earlier(file.rows)
    /\ app = "Up" /\ "Computers" \in failed => Earlier(file.rows)

\* An entry that takes a row leaves none to an earlier one of that row's identity that
\* did not take such a row itself.
Foretold(p) ==
    \A a, b \in DOMAIN p :
      a < b /\ p[b].existing # 0 /\ p[b].existing = p[a].incoming.id
        => p[a].existing = p[b].existing

\* The backup, the plan of an import, and the rows a scan has still to add.
BackupInv ==
    /\ Machines(backup)
    /\ IsList(plan) /\ \A i \in DOMAIN plan : IsMachine(plan[i].incoming)
    /\ AllSafe(backup)
    /\ \A i \in DOMAIN plan : Safe(plan[i].incoming, keys)
    /\ Foretold(plan)

CertInv == app = "Up" /\ "Certs" \notin failed => certFile.rows = certs

AddInv == app # "Up" => adding = <<>>

StoreInv == ListInv /\ BackupInv /\ CertInv /\ AddInv

-----------------------------------------------------------------------------
(* Numbers and folds.                                                      *)

\* A set of numbers has a least member; one that is bounded has a greatest.
LEMMA MinLeast ==
    ASSUME NEW S \in SUBSET Nat, S # {}
    PROVE  Min(S) \in S /\ \A n \in S : Min(S) <= n
  <1> DEFINE R == {p \in Nat \X Nat : p[1] < p[2]}
  <1>1. \A x, y \in Nat : <<y, x>> \in R <=> y < x
    OBVIOUS
  <1>2. IsWellFoundedOn(R, Nat)
    BY NatLessThanWellFounded, Zenon DEF OpToRel
  <1> HIDE DEF R
  <1>3. S \subseteq Nat
    OBVIOUS
  <1>4. \E x \in S : \A y \in S : ~(<<y, x>> \in R)
    BY <1>2, <1>3, WFMin, Zenon
  <1>5. \E m \in S : \A n \in S : m <= n
    <2>1. PICK m \in S : \A y \in S : ~(<<y, m>> \in R)
      BY <1>4
    <2>2. ASSUME NEW n \in S
          PROVE  m <= n
      <3>1. n \in Nat /\ m \in Nat
        BY <1>3
      <3>2. ~(n < m)
        BY <1>1, <2>1, <3>1
      <3> QED BY <3>1, <3>2
    <2> QED BY <2>2
  <1> QED BY <1>5 DEF Min

LEMMA MaxGreatest ==
    ASSUME NEW n \in Nat, NEW S \in SUBSET (1..n), S # {}
    PROVE  Max(S) \in S /\ \A k \in S : k <= Max(S)
  <1> DEFINE U == {u \in Nat : \A k \in S : k <= u}
             m == Min(U)
  <1>1. n \in U /\ U \in SUBSET Nat
    OBVIOUS
  <1>2. m \in U /\ \A u \in U : m <= u
    BY <1>1, MinLeast
  <1> HIDE DEF m
  <1>3. m \in S
    <2> SUFFICES ASSUME m \notin S
                 PROVE  FALSE
      OBVIOUS
    <2>1. PICK k \in S : TRUE
      OBVIOUS
    <2>2. m \in Nat /\ k <= m /\ k \in Nat /\ k >= 1
      BY <1>2, <2>1
    <2>3. m - 1 \in Nat
      BY <2>2
    <2>4. ASSUME NEW j \in S
          PROVE  j <= m - 1
      <3>1. j \in Nat /\ j <= m /\ j # m
        BY <1>2
      <3> QED BY <2>2, <3>1
    <2>5. m - 1 \in U
      BY <2>3, <2>4
    <2> QED BY <1>2, <2>2, <2>5
  <1>4. \A k \in S : k <= m
    BY <1>2
  <1> QED BY <1>3, <1>4 DEF Max

\* Induction, over a set.
LEMMA Induct ==
    ASSUME NEW S \in SUBSET Nat, 0 \in S, \A k \in S : k + 1 \in S
    PROVE  \A k \in Nat : k \in S
  <1> SUFFICES ASSUME Nat \ S # {}
               PROVE  FALSE
    OBVIOUS
  <1> DEFINE m == Min(Nat \ S)
  <1>1. m \in Nat \ S /\ \A k \in Nat \ S : m <= k
    BY MinLeast
  <1> HIDE DEF m
  <1>2. m # 0 /\ m \in Nat
    BY <1>1
  <1>3. m - 1 \in S
    BY <1>1, <1>2
  <1> QED BY <1>1, <1>2, <1>3

\* What is left of a set of numbers without its greatest.
LEMMA LessMax ==
    ASSUME NEW n \in Nat, NEW k \in Nat, NEW s \in SUBSET (1..n), s \subseteq 1..(k + 1), s # {}
    PROVE  s \ {Max(s)} \subseteq 1..k /\ s \ {Max(s)} \in SUBSET (1..n)
  <1>1. Max(s) \in s /\ \A j \in s : j <= Max(s)
    BY MaxGreatest
  <1> DEFINE m == Max(s)
  <1> HIDE DEF m
  <1>2. ASSUME NEW j \in s \ {m}
        PROVE  j \in 1..k
    <2>1. j \in 1..(k + 1) /\ j # m
      OBVIOUS
    <2>2. m \in 1..(k + 1) /\ j <= m
      BY <1>1 DEF m
    <2> QED BY <2>1, <2>2
  <1> QED BY <1>2 DEF m

\* A fold stays where its base is and its steps stay,
LEMMA FoldClosed ==
    ASSUME NEW n \in Nat, NEW h, NEW X, h[{}] \in X,
           \A s \in (SUBSET (1..n)) \ {{}} : h[s \ {Max(s)}] \in X => h[s] \in X
    PROVE  h[1..n] \in X
  <1> DEFINE S == {k \in Nat : \A s \in SUBSET (1..n) : s \subseteq 1..k => h[s] \in X}
  <1>1. 0 \in S
    <2>1. \A s : s \subseteq 1..0 => s = {}
      OBVIOUS
    <2> QED BY <2>1
  <1>2. ASSUME NEW k \in S
        PROVE  k + 1 \in S
    <2>1. k \in Nat /\ k + 1 \in Nat
      OBVIOUS
    <2>2. ASSUME NEW s \in SUBSET (1..n), s \subseteq 1..(k + 1)
          PROVE  h[s] \in X
      <3>1. CASE s = {}
        BY <3>1
      <3>2. CASE s # {}
        <4>1. s \ {Max(s)} \subseteq 1..k /\ s \ {Max(s)} \in SUBSET (1..n)
          BY <2>1, <2>2, <3>2, LessMax
        <4>2. h[s \ {Max(s)}] \in X
          BY <4>1
        <4>3. s \in (SUBSET (1..n)) \ {{}}
          BY <3>2
        <4> QED BY <4>2, <4>3, Zenon
      <3> QED BY <3>1, <3>2
    <2> QED BY <2>1, <2>2
  <1> HIDE DEF S
  <1>3. S \in SUBSET Nat
    BY DEF S
  <1>4. n \in S
    BY <1>1, <1>2, <1>3, Induct
  <1> QED BY <1>4 DEF S

\* and it is there to begin with.
IsFold(g, n, F, base, entries) ==
    \A s \in SUBSET (1..n) :
      g[s] = IF s = {} THEN base ELSE F[g[s \ {Max(s)}]][entries[Max(s)]]

LEMMA FoldExists ==
    ASSUME NEW n \in Nat, NEW X, NEW E, NEW F \in [X -> [E -> X]], NEW base \in X,
           NEW entries, \A i \in 1..n : entries[i] \in E
    PROVE  \E g \in [SUBSET (1..n) -> X] : IsFold(g, n, F, base, entries)
  <1> DEFINE Folds(g, k) ==
               \A s \in SUBSET (1..k) :
                 g[s] = IF s = {} THEN base ELSE F[g[s \ {Max(s)}]][entries[Max(s)]]
             Reached(k) == \E g \in [SUBSET (1..k) -> X] : Folds(g, k)
             S == {k \in Nat : k <= n => Reached(k)}
  <1>1. 0 \in S
    <2> DEFINE g == [s \in SUBSET (1..0) |-> base]
    <2>1. \A s \in SUBSET (1..0) : s = {}
      OBVIOUS
    <2>2. g \in [SUBSET (1..0) -> X] /\ Folds(g, 0)
      BY <2>1
    <2> QED BY <2>2
  <1>2. ASSUME NEW k \in S
        PROVE  k + 1 \in S
    <2>0. k \in Nat /\ k + 1 \in Nat
      OBVIOUS
    <2> SUFFICES ASSUME k + 1 <= n
                 PROVE  Reached(k + 1)
      <3> HIDE DEF Reached
      <3> QED BY <2>0
    <2>1. k \in Nat /\ k <= n /\ k + 1 \in 1..n
      <3> HIDE DEF S
      <3> QED BY <2>0
    <2>2. PICK g \in [SUBSET (1..k) -> X] : Folds(g, k)
      BY <2>1
    <2> DEFINE more == [s \in SUBSET (1..(k + 1)) |->
                          IF k + 1 \in s THEN F[g[s \ {k + 1}]][entries[k + 1]] ELSE g[s]]
    <2>3. ASSUME NEW s \in SUBSET (1..(k + 1)), k + 1 \in s
          PROVE  s \ {k + 1} \in SUBSET (1..k) /\ Max(s) = k + 1
      <3>1. s # {}
        BY <2>3
      <3>2. \A j \in s : j \in 1..(k + 1)
        OBVIOUS
      <3>3. Max(s) = k + 1
        <4>1. Max(s) \in s /\ \A j \in s : j <= Max(s)
          BY <2>0, <3>1, MaxGreatest
        <4> DEFINE m == Max(s)
        <4>2. m \in 1..(k + 1) /\ k + 1 <= m
          BY <2>3, <3>2, <4>1
        <4> HIDE DEF m, S
        <4>3. m = k + 1
          BY <2>0, <4>2
        <4> QED BY <4>3 DEF m
      <3>4. \A j \in s \ {k + 1} : j \in 1..k
        BY <2>1, <3>2
      <3> QED BY <3>3, <3>4
    <2>4. ASSUME NEW s \in SUBSET (1..(k + 1)), k + 1 \notin s
          PROVE  s \in SUBSET (1..k)
      <3>1. \A j \in s : j \in 1..(k + 1) /\ j # k + 1
        BY <2>4
      <3>2. \A j \in s : j \in 1..k
        BY <2>1, <3>1
      <3> QED BY <3>2
    <2>5. more \in [SUBSET (1..(k + 1)) -> X]
      <3> SUFFICES ASSUME NEW s \in SUBSET (1..(k + 1))
                   PROVE  (IF k + 1 \in s THEN F[g[s \ {k + 1}]][entries[k + 1]] ELSE g[s]) \in X
        OBVIOUS
      <3>1. CASE k + 1 \in s
        <4>1. g[s \ {k + 1}] \in X
          BY <2>3, <3>1
        <4>2. entries[k + 1] \in E
          BY <2>1
        <4> QED BY <3>1, <4>1, <4>2
      <3>2. CASE k + 1 \notin s
        BY <2>4, <3>2
      <3> QED BY <3>1, <3>2
    <2>6. ASSUME NEW s \in SUBSET (1..(k + 1))
          PROVE  more[s] = IF s = {} THEN base ELSE F[more[s \ {Max(s)}]][entries[Max(s)]]
      <3>1. CASE k + 1 \in s
        <4>1. s # {} /\ Max(s) = k + 1 /\ s \ {k + 1} \in SUBSET (1..(k + 1)) /\ k + 1 \notin s \ {k + 1}
          BY <2>3, <3>1
        <4>2. more[s \ {k + 1}] = g[s \ {k + 1}]
          BY <4>1
        <4>3. more[s] = F[g[s \ {k + 1}]][entries[k + 1]]
          BY <3>1
        <4> HIDE DEF more
        <4> QED BY <4>1, <4>2, <4>3
      <3>2. CASE k + 1 \notin s
        <4>1. s \in SUBSET (1..k) /\ more[s] = g[s]
          BY <2>4, <3>2
        <4>2. g[s] = IF s = {} THEN base ELSE F[g[s \ {Max(s)}]][entries[Max(s)]]
          BY <2>2, <4>1
        <4>3. s \ {Max(s)} \in SUBSET (1..(k + 1)) /\ k + 1 \notin s \ {Max(s)}
          BY <3>2
        <4>4. more[s \ {Max(s)}] = g[s \ {Max(s)}]
          BY <4>3
        <4> HIDE DEF more
        <4> QED BY <4>1, <4>2, <4>4
      <3> QED BY <3>1, <3>2
    <2> HIDE DEF more
    <2> QED BY <2>5, <2>6
  <1> HIDE DEF S, Reached
  <1>3. S \in SUBSET Nat
    BY DEF S
  <1>4. n \in S
    BY <1>1, <1>2, <1>3, Induct
  <1>5. Reached(n)
    BY <1>4 DEF S
  <1> QED BY <1>5 DEF Reached, IsFold

-----------------------------------------------------------------------------
(* Lists.                                                                  *)

LEMMA ListOf ==
    ASSUME NEW S, NEW s \in Seq(S)
    PROVE  IsList(s) /\ \A i \in DOMAIN s : s[i] \in S
  <1>1. Len(s) \in Nat /\ DOMAIN s = 1..Len(s) /\ s \in [1..Len(s) -> S]
    BY LenProperties
  <1> DEFINE R == {s[i] : i \in DOMAIN s}
  <1>2. s \in [1..Len(s) -> R]
    BY <1>1
  <1> HIDE DEF R
  <1>3. s \in Seq(R)
    BY <1>1, <1>2
  <1> QED BY <1>1, <1>3 DEF R, IsList

LEMMA ListIn ==
    ASSUME NEW s, IsList(s), NEW S, \A i \in DOMAIN s : s[i] \in S
    PROVE  s \in Seq(S)
  <1> DEFINE R == {s[i] : i \in DOMAIN s}
  <1>1. R \subseteq S /\ s \in Seq(R)
    BY DEF IsList
  <1> HIDE DEF R
  <1> QED BY <1>1, SeqMonotonic

LEMMA ListLen ==
    ASSUME NEW s, IsList(s)
    PROVE  Len(s) \in Nat /\ DOMAIN s = 1..Len(s) /\ s = [i \in 1..Len(s) |-> s[i]]
  <1> DEFINE R == {s[i] : i \in DOMAIN s}
  <1>1. s \in Seq(R)
    BY DEF IsList
  <1> HIDE DEF R
  <1>2. Len(s) \in Nat /\ DOMAIN s = 1..Len(s) /\ s \in [1..Len(s) -> R]
    BY <1>1, LenProperties
  <1> QED BY <1>2

LEMMA ListBy ==
    ASSUME NEW n \in Nat, NEW f, f = [i \in 1..n |-> f[i]]
    PROVE  IsList(f) /\ Len(f) = n /\ DOMAIN f = 1..n
  <1> DEFINE R == {f[i] : i \in 1..n}
  <1>1. f \in [1..n -> R]
    OBVIOUS
  <1> HIDE DEF R
  <1>2. f \in Seq(R) /\ Len(f) = n
    BY <1>1
  <1>3. DOMAIN f = 1..n
    BY <1>1
  <1> QED BY <1>2, <1>3, ListOf

LEMMA Replaced ==
    ASSUME NEW s, IsList(s), NEW i \in DOMAIN s, NEW c
    PROVE  LET t == ReplaceAt(s, i, c)
           IN  IsList(t) /\ DOMAIN t = DOMAIN s /\ \A j \in DOMAIN t : t[j] = IF j = i THEN c ELSE s[j]
  <1> DEFINE t == ReplaceAt(s, i, c)
  <1>1. Len(s) \in Nat /\ DOMAIN s = 1..Len(s) /\ s = [j \in 1..Len(s) |-> s[j]]
    BY ListLen
  <1>2. t = [j \in 1..Len(s) |-> t[j]] /\ \A j \in 1..Len(s) : t[j] = IF j = i THEN c ELSE s[j]
    BY <1>1 DEF ReplaceAt
  <1> HIDE DEF t
  <1>3. IsList(t) /\ DOMAIN t = 1..Len(s)
    BY <1>1, <1>2, ListBy
  <1> QED BY <1>1, <1>2, <1>3 DEF t

LEMMA Appended ==
    ASSUME NEW s, IsList(s), NEW c
    PROVE  LET t == Append(s, c)
           IN  /\ IsList(t) /\ DOMAIN t = 1..(Len(s) + 1) /\ t[Len(s) + 1] = c
               /\ \A j \in DOMAIN s : t[j] = s[j]
               /\ Front(t) = s
  <1> DEFINE S == {s[j] : j \in DOMAIN s} \cup {c}
             t == Append(s, c)
  <1>0. \A j \in DOMAIN s : s[j] \in S
    OBVIOUS
  <1>c. c \in S
    OBVIOUS
  <1> HIDE DEF S
  <1>1. s \in Seq(S) /\ Len(s) \in Nat /\ DOMAIN s = 1..Len(s)
    BY <1>0, ListIn, ListLen
  <1>2. /\ t \in Seq(S) /\ Len(t) = Len(s) + 1 /\ t[Len(s) + 1] = c
        /\ \A j \in 1..Len(s) : t[j] = s[j]
    BY <1>1, <1>c
  <1> HIDE DEF t
  <1>3. IsList(t) /\ DOMAIN t = 1..(Len(s) + 1)
    BY <1>2, ListOf, LenProperties
  <1>4. Front(t) = s
    <2>0. \A j \in 1..Len(s) : t[j] \in S
      BY <1>0, <1>1, <1>2
    <2>1. /\ Front(t) \in Seq(S) /\ Len(Front(t)) = Len(s)
          /\ \A j \in 1..Len(s) : Front(t)[j] = t[j]
      <3>1. Front(t) = SubSeq(t, 1, Len(s))
        BY <1>1, <1>2 DEF Front
      <3> QED BY <1>1, <2>0, <3>1, SubSeqProperties
    <2> QED BY <1>1, <1>2, <2>1, SeqEqual
  <1> QED BY <1>1, <1>2, <1>3, <1>4 DEF t

LEMMA Removed ==
    ASSUME NEW s, IsList(s), NEW i \in DOMAIN s
    PROVE  LET t == RemoveAt(s, i)
           IN  /\ IsList(t) /\ \A j \in DOMAIN t : \E k \in DOMAIN s : t[j] = s[k]
               /\ InsertAt(t, i, s[i]) = s
  <1> DEFINE S == {s[j] : j \in DOMAIN s}
             a == SubSeq(s, 1, i - 1)
             b == SubSeq(s, i + 1, Len(s))
             t == a \o b
  <1>0. \A j \in DOMAIN s : s[j] \in S
    OBVIOUS
  <1>s. \A x \in S : \E k \in DOMAIN s : x = s[k]
    OBVIOUS
  <1> HIDE DEF S
  <1>1. s \in Seq(S) /\ Len(s) \in Nat /\ DOMAIN s = 1..Len(s)
    BY <1>0, ListIn, ListLen
  <1>2. i \in 1..Len(s) /\ i \in Nat /\ i - 1 \in Nat /\ i + 1 \in Nat /\ Len(s) - i \in Nat
    BY <1>1
  <1>3. /\ a \in Seq(S) /\ Len(a) = i - 1
        /\ \A j \in 1..(i - 1) : a[j] = s[j]
    <2>1. \A j \in 1..(i - 1) : s[j] \in S
      BY <1>0, <1>1, <1>2
    <2> QED BY <1>2, <2>1, SubSeqProperties
  <1>4. /\ b \in Seq(S) /\ Len(b) = Len(s) - i
        /\ \A j \in 1..(Len(s) - i) : b[j] = s[i + j]
    <2>1. \A j \in (i + 1)..Len(s) : s[j] \in S
      BY <1>0, <1>1, <1>2
    <2> QED BY <1>1, <1>2, <2>1, SubSeqProperties, SMTT(30)
  <1>5. RemoveAt(s, i) = t
    BY DEF RemoveAt
  <1> HIDE DEF a, b
  <1>6. /\ t \in Seq(S) /\ Len(t) = Len(s) - 1
        /\ \A j \in 1..(Len(s) - 1) : t[j] = IF j <= i - 1 THEN a[j] ELSE b[j - (i - 1)]
    <2>1. /\ t \in Seq(S) /\ Len(t) = Len(a) + Len(b)
          /\ \A j \in 1..(Len(a) + Len(b)) : t[j] = IF j <= Len(a) THEN a[j] ELSE b[j - Len(a)]
      BY <1>3, <1>4, ConcatProperties
    <2>2. Len(a) + Len(b) = Len(s) - 1 /\ Len(a) = i - 1
      BY <1>1, <1>2, <1>3, <1>4
    <2> QED BY <2>1, <2>2
  <1>7. IsList(t) /\ \A j \in DOMAIN t : t[j] \in S
    BY <1>6, ListOf
  <1>8. SubSeq(t, 1, i - 1) = a /\ SubSeq(t, i, Len(t)) = b
    <2>0. \A j \in 1..Len(t) : t[j] \in S
      BY <1>6, ElementOfSeq
    <2> HIDE DEF t
    <2>1. SubSeq(t, 1, i - 1) = a
      <3>1. /\ SubSeq(t, 1, i - 1) \in Seq(S) /\ Len(SubSeq(t, 1, i - 1)) = i - 1
            /\ \A j \in 1..(i - 1) : SubSeq(t, 1, i - 1)[j] = t[j]
        <4>1. \A j \in 1..(i - 1) : t[j] \in S
          BY <1>1, <1>2, <1>6, <2>0
        <4> QED BY <1>2, <4>1, SubSeqProperties
      <3>2. ASSUME NEW j \in 1..(i - 1)
            PROVE  t[j] = a[j]
        <4>1. j \in 1..(Len(s) - 1) /\ j <= i - 1
          BY <1>1, <1>2
        <4> QED BY <1>6, <4>1
      <3> QED BY <1>3, <3>1, <3>2, SeqEqual
    <2>2. SubSeq(t, i, Len(t)) = b
      <3>1. /\ SubSeq(t, i, Len(t)) \in Seq(S) /\ Len(SubSeq(t, i, Len(t))) = Len(s) - i
            /\ \A j \in 1..(Len(s) - i) : SubSeq(t, i, Len(t))[j] = t[i + j - 1]
        <4>1. \A j \in i..Len(t) : t[j] \in S
          BY <1>1, <1>2, <1>6, <2>0
        <4> QED BY <1>1, <1>2, <1>6, <4>1, SubSeqProperties
      <3>2. ASSUME NEW j \in 1..(Len(s) - i)
            PROVE  t[i + j - 1] = b[j]
        <4>1. /\ i + j - 1 \in 1..(Len(s) - 1) /\ ~(i + j - 1 <= i - 1)
              /\ (i + j - 1) - (i - 1) = j
          BY <1>1, <1>2
        <4>2. t[i + j - 1] = b[(i + j - 1) - (i - 1)]
          BY <1>6, <4>1
        <4> QED BY <4>1, <4>2
      <3> QED BY <1>4, <3>1, <3>2, SeqEqual
    <2> QED BY <2>1, <2>2
  <1>9. InsertAt(t, i, s[i]) = s
    <2> DEFINE u == a \o <<s[i]>>
    <2>1. u \in Seq(S) /\ Len(u) = i /\ \A j \in 1..i : u[j] = s[j]
      <3>1. s[i] \in S /\ u = Append(a, s[i])
        BY <1>0, <1>3
      <3>2. /\ u \in Seq(S) /\ Len(u) = Len(a) + 1 /\ u[Len(a) + 1] = s[i]
            /\ \A j \in 1..Len(a) : u[j] = a[j]
        <4> HIDE DEF u
        <4> QED BY <1>3, <3>1, AppendProperties
      <3> HIDE DEF u
      <3>3. Len(a) + 1 = i
        BY <1>2, <1>3
      <3>4. \A j \in 1..i : j = i \/ j \in 1..(i - 1)
        BY <1>2
      <3> QED BY <1>3, <3>2, <3>3, <3>4
    <2> HIDE DEF u
    <2>2. u \o b \in Seq(S) /\ Len(u \o b) = Len(s) /\ \A j \in 1..Len(s) : (u \o b)[j] = s[j]
      <3>1. /\ u \o b \in Seq(S) /\ Len(u \o b) = Len(u) + Len(b)
            /\ \A j \in 1..(Len(u) + Len(b)) : (u \o b)[j] = IF j <= Len(u) THEN u[j] ELSE b[j - Len(u)]
        BY <1>4, <2>1, ConcatProperties
      <3>2. Len(u) = i /\ Len(u) + Len(b) = Len(s)
        BY <1>1, <1>2, <1>4, <2>1
      <3>3. ASSUME NEW j \in 1..Len(s)
            PROVE  (u \o b)[j] = s[j]
        <4>1. (u \o b)[j] = IF j <= i THEN u[j] ELSE b[j - i]
          BY <3>1, <3>2
        <4>2. CASE j <= i
          <5>1. j \in 1..i
            BY <1>2, <4>2
          <5> QED BY <2>1, <4>1, <4>2, <5>1
        <4>3. CASE ~(j <= i)
          <5>1. j - i \in 1..(Len(s) - i) /\ i + (j - i) = j
            BY <1>1, <1>2, <4>3
          <5>2. b[j - i] = s[i + (j - i)]
            BY <1>4, <5>1
          <5> QED BY <4>1, <4>3, <5>1, <5>2
        <4> QED BY <4>2, <4>3
      <3> QED BY <3>1, <3>2, <3>3
    <2>3. u \o b = s
      BY <1>1, <2>2, SeqEqual
    <2> QED BY <1>8, <2>3 DEF InsertAt, u
  <1> QED BY <1>s, <1>5, <1>7, <1>9

-----------------------------------------------------------------------------
(* Machines and secrets.                                                   *)

LEMMA OneField ==
    ASSUME NEW c, IsMachine(c), NEW x
    PROVE  /\ [c EXCEPT !.id = x] =
                [id |-> x, host |-> c.host, pass |-> c.pass, meant |-> c.meant, tls |-> c.tls, trusted |-> c.trusted, ssh |-> c.ssh]
           /\ [c EXCEPT !.host = x] =
                [id |-> c.id, host |-> x, pass |-> c.pass, meant |-> c.meant, tls |-> c.tls, trusted |-> c.trusted, ssh |-> c.ssh]
           /\ [c EXCEPT !.tls = x] =
                [id |-> c.id, host |-> c.host, pass |-> c.pass, meant |-> c.meant, tls |-> x, trusted |-> c.trusted, ssh |-> c.ssh]
           /\ [c EXCEPT !.ssh = x] =
                [id |-> c.id, host |-> c.host, pass |-> c.pass, meant |-> c.meant, tls |-> c.tls, trusted |-> c.trusted, ssh |-> x]
           /\ [c EXCEPT !.trusted = x] =
                [id |-> c.id, host |-> c.host, pass |-> c.pass, meant |-> c.meant, tls |-> c.tls, trusted |-> x, ssh |-> c.ssh]
           /\ [c EXCEPT !.pass = x] =
                [id |-> c.id, host |-> c.host, pass |-> x, meant |-> c.meant, tls |-> c.tls, trusted |-> c.trusted, ssh |-> c.ssh]
           /\ [c EXCEPT !.meant = x] =
                [id |-> c.id, host |-> c.host, pass |-> c.pass, meant |-> x, tls |-> c.tls, trusted |-> c.trusted, ssh |-> c.ssh]
  <1>1. [c EXCEPT !.id = x] =
          [id |-> x, host |-> c.host, pass |-> c.pass, meant |-> c.meant, tls |-> c.tls, trusted |-> c.trusted, ssh |-> c.ssh]
    BY DEF IsMachine
  <1>2. [c EXCEPT !.host = x] =
          [id |-> c.id, host |-> x, pass |-> c.pass, meant |-> c.meant, tls |-> c.tls, trusted |-> c.trusted, ssh |-> c.ssh]
    BY DEF IsMachine
  <1>3. [c EXCEPT !.tls = x] =
          [id |-> c.id, host |-> c.host, pass |-> c.pass, meant |-> c.meant, tls |-> x, trusted |-> c.trusted, ssh |-> c.ssh]
    BY DEF IsMachine
  <1>4. [c EXCEPT !.ssh = x] =
          [id |-> c.id, host |-> c.host, pass |-> c.pass, meant |-> c.meant, tls |-> c.tls, trusted |-> c.trusted, ssh |-> x]
    BY DEF IsMachine
  <1>5. [c EXCEPT !.trusted = x] =
          [id |-> c.id, host |-> c.host, pass |-> c.pass, meant |-> c.meant, tls |-> c.tls, trusted |-> x, ssh |-> c.ssh]
    BY DEF IsMachine
  <1>6. [c EXCEPT !.pass = x] =
          [id |-> c.id, host |-> c.host, pass |-> x, meant |-> c.meant, tls |-> c.tls, trusted |-> c.trusted, ssh |-> c.ssh]
    BY DEF IsMachine
  <1>7. [c EXCEPT !.meant = x] =
          [id |-> c.id, host |-> c.host, pass |-> c.pass, meant |-> x, tls |-> c.tls, trusted |-> c.trusted, ssh |-> c.ssh]
    BY DEF IsMachine
  <1> QED BY <1>1, <1>2, <1>3, <1>4, <1>5, <1>6, <1>7

\* Another field than the password is edited, or the password.
SamePass(c, d) == IsMachine(d) /\ d.pass = c.pass /\ d.meant = c.meant
PassIs(d, x)   == IsMachine(d) /\ d.pass = x /\ d.meant = Meant(x, launches)

LEMMA Field ==
    ASSUME NEW c, IsMachine(c), NEW x
    PROVE  /\ SamePass(c, [c EXCEPT !.id = x])
           /\ SamePass(c, [c EXCEPT !.host = x])
           /\ SamePass(c, [c EXCEPT !.tls = x])
           /\ SamePass(c, [c EXCEPT !.ssh = x])
           /\ SamePass(c, [c EXCEPT !.trusted = x])
           /\ PassIs([c EXCEPT !.pass = x, !.meant = Meant(x, launches)], x)
  <1> DEFINE p == [c EXCEPT !.pass = x]
             y == Meant(x, launches)
  <1>1. IsMachine(p) /\ p.pass = x
    BY OneField DEF IsMachine
  <1>2. [c EXCEPT !.pass = x, !.meant = y] = [p EXCEPT !.meant = y]
    OBVIOUS
  <1> HIDE DEF p
  <1>3. PassIs([p EXCEPT !.meant = y], x)
    BY <1>1, OneField DEF IsMachine, PassIs
  <1>4. SamePass(c, [c EXCEPT !.id = x])
    BY OneField, ZenonT(30) DEF IsMachine, SamePass
  <1>5. SamePass(c, [c EXCEPT !.host = x])
    BY OneField DEF IsMachine, SamePass
  <1>6. SamePass(c, [c EXCEPT !.tls = x])
    BY OneField DEF IsMachine, SamePass
  <1>7. SamePass(c, [c EXCEPT !.ssh = x])
    <2> DEFINE d == [c EXCEPT !.ssh = x]
    <2>1. d = [id |-> c.id, host |-> c.host, pass |-> c.pass, meant |-> c.meant, tls |-> c.tls,
               trusted |-> c.trusted, ssh |-> x]
      BY OneField
    <2> HIDE DEF d
    <2>2. SamePass(c, d)
      BY <2>1 DEF IsMachine, SamePass
    <2> QED BY <2>2 DEF d
  <1>8. SamePass(c, [c EXCEPT !.trusted = x])
    <2> DEFINE d == [c EXCEPT !.trusted = x]
    <2>1. d = [id |-> c.id, host |-> c.host, pass |-> c.pass, meant |-> c.meant, tls |-> c.tls,
               trusted |-> x, ssh |-> c.ssh]
      BY OneField, ZenonT(30)
    <2> HIDE DEF d
    <2>2. SamePass(c, d)
      BY <2>1 DEF IsMachine, SamePass
    <2> QED BY <2>2 DEF d
  <1> QED BY <1>2, <1>3, <1>4, <1>5, <1>6, <1>7, <1>8

\* encode() and decode(), toJson() and fromJson() under one key.
LEMMA RoundTrip ==
    ASSUME NEW c, IsMachine(c), NEW key
    PROVE  /\ Decode(Encode(c.pass, key), key) = c.pass
           /\ Parsed(Stored(c, key), key, c.id) = c
  <1>1. Decode(Encode(c.pass, key), key) = c.pass
    BY DEF Decode, Encode, Bare, V2, V3
  <1> QED BY <1>1 DEF Parsed, Stored, IsMachine

LEMMA Parse ==
    ASSUME NEW c, IsMachine(c), NEW key, NEW n
    PROVE  LET p == Parsed(c, key, n)
           IN  /\ IsMachine(p) /\ p.pass = Decode(c.pass, key) /\ p.meant = c.meant
               /\ Parsed(c, key, p.id) = p
  <1> DEFINE q == [c EXCEPT !.pass = Decode(c.pass, key)]
  <1>1. IsMachine(q) /\ q.pass = Decode(c.pass, key) /\ q.meant = c.meant /\ q.id = c.id
    BY OneField DEF IsMachine
  <1>2. \A m : Parsed(c, key, m) = [q EXCEPT !.id = IF c.id = 0 THEN m ELSE c.id]
    BY DEF Parsed
  <1> HIDE DEF q
  <1> DEFINE Id(m) == IF c.id = 0 THEN m ELSE c.id
             p == [q EXCEPT !.id = Id(n)]
  <1>3. \A x : LET d == [q EXCEPT !.id = x]
               IN  IsMachine(d) /\ d.pass = q.pass /\ d.meant = q.meant /\ d.id = x
    BY <1>1, OneField, ZenonT(30) DEF IsMachine
  <1>4. IsMachine(p) /\ p.pass = q.pass /\ p.meant = q.meant /\ p.id = Id(n)
    <2> HIDE DEF Id
    <2> QED BY <1>3
  <1>5. Id(Id(n)) = Id(n)
    OBVIOUS
  <1>6. Parsed(c, key, n) = p /\ Parsed(c, key, Id(n)) = p
    BY <1>2, <1>5
  <1> HIDE DEF p, Id
  <1> QED BY <1>1, <1>4, <1>6

-----------------------------------------------------------------------------
(* The import.                                                             *)

LEMMA MinOfRows ==
    ASSUME NEW s, IsList(s), NEW S \in SUBSET DOMAIN s, S # {}
    PROVE  Min(S) \in DOMAIN s
  <1>1. DOMAIN s \subseteq Nat
    BY ListLen
  <1>2. S \in SUBSET Nat
    BY <1>1
  <1> QED BY <1>2, MinLeast

\* What an entry of the plan may put into the list.
Brings(e) == {e.incoming, [e.incoming EXCEPT !.id = e.existing]}

LEMMA ApplyIn ==
    ASSUME NEW S, NEW list \in Seq(S), NEW e, Brings(e) \subseteq S
    PROVE  ApplyStep(list, e) \in Seq(S)
  <1> DEFINE hits == {i \in DOMAIN list : list[i].id = e.existing}
  <1>1. IsList(list) /\ \A i \in DOMAIN list : list[i] \in S
    BY ListOf
  <1>2. CASE e.existing # 0 /\ hits # {}
    <2> DEFINE c == [e.incoming EXCEPT !.id = e.existing]
               m == Min(hits)
    <2>1. m \in DOMAIN list
      BY <1>1, <1>2, MinOfRows
    <2>2. c \in S
      BY DEF Brings
    <2>3. ApplyStep(list, e) = ReplaceAt(list, m, c)
      BY <1>2 DEF ApplyStep
    <2> HIDE DEF m, c
    <2> DEFINE t == ReplaceAt(list, m, c)
    <2>4. IsList(t) /\ DOMAIN t = DOMAIN list /\ \A j \in DOMAIN t : t[j] = IF j = m THEN c ELSE list[j]
      BY <1>1, <2>1, Replaced
    <2> HIDE DEF t
    <2>5. t \in Seq(S)
      BY <1>1, <2>2, <2>4, ListIn
    <2> QED BY <2>3, <2>5 DEF t
  <1>3. CASE ~(e.existing # 0 /\ hits # {})
    <2>1. ApplyStep(list, e) = Append(list, e.incoming)
      BY <1>3 DEF ApplyStep
    <2>2. e.incoming \in S
      BY DEF Brings
    <2> QED BY <2>1, <2>2
  <1> QED BY <1>2, <1>3

IsApply(h, base, entries) ==
    /\ h[{}] = base
    /\ \A s \in (SUBSET (1..Len(entries))) \ {{}} :
         h[s] = ApplyStep(h[s \ {Max(s)}], entries[Max(s)])

\* applyImport() goes through the entries one by one.
LEMMA ApplyRec ==
    ASSUME NEW S, NEW base \in Seq(S), NEW entries, IsList(entries),
           \A i \in DOMAIN entries : Brings(entries[i]) \subseteq S
    PROVE  \E h : /\ IsApply(h, base, entries)
                  /\ FoldLeft(ApplyStep, base, entries) = h[1..Len(entries)]
  <1> DEFINE n == Len(entries)
             X == Seq(S)
             E == {entries[i] : i \in DOMAIN entries}
             Rec(g) == g = [s \in SUBSET DOMAIN entries |->
                              IF s = {} THEN base
                              ELSE ApplyStep(g[s \ {Max(s)}], entries[Max(s)])]
             h == CHOOSE g : Rec(g)
             F == [list \in X |-> [e \in E |-> ApplyStep(list, e)]]
  <1>1. n \in Nat /\ DOMAIN entries = 1..n /\ \A i \in 1..n : entries[i] \in E
    BY ListLen
  <1>2. FoldLeft(ApplyStep, base, entries) = h[DOMAIN entries]
    BY DEF FoldLeft, MapThenFoldSet
  <1>3. \A list \in X, e \in E : ApplyStep(list, e) \in X
    BY ApplyIn
  <1> HIDE DEF n, X, E
  <1>4. F \in [X -> [E -> X]] /\ \A list \in X, e \in E : F[list][e] = ApplyStep(list, e)
    BY <1>3
  <1>5. base \in X
    BY DEF X
  <1> HIDE DEF F
  <1>6. \E g : Rec(g)
    <2>0. PICK g \in [SUBSET (1..n) -> X] : IsFold(g, n, F, base, entries)
      BY <1>1, <1>4, <1>5, FoldExists
    <2>1. \A s \in SUBSET (1..n) :
            g[s] = IF s = {} THEN base ELSE F[g[s \ {Max(s)}]][entries[Max(s)]]
      BY <2>0 DEF IsFold
    <2>2. ASSUME NEW s \in SUBSET (1..n)
          PROVE  g[s] = IF s = {} THEN base ELSE ApplyStep(g[s \ {Max(s)}], entries[Max(s)])
      <3>1. CASE s = {}
        BY <2>1, <3>1
      <3>2. CASE s # {}
        <4>1. Max(s) \in 1..n
          BY <1>1, <3>2, MaxGreatest
        <4>2. g[s \ {Max(s)}] \in X /\ entries[Max(s)] \in E
          BY <1>1, <2>1, <4>1
        <4> QED BY <1>4, <2>1, <3>2, <4>2
      <3> QED BY <3>1, <3>2
    <2>3. g = [s \in SUBSET (1..n) |->
                 IF s = {} THEN base ELSE ApplyStep(g[s \ {Max(s)}], entries[Max(s)])]
      BY <2>1, <2>2
    <2>4. Rec(g)
      <3>1. SUBSET DOMAIN entries = SUBSET (1..n)
        BY <1>1
      <3> QED BY <2>3, <3>1, Zenon
    <2> QED BY <2>4
  <1>7. Rec(h)
    <2> HIDE DEF Rec
    <2> QED BY <1>6
  <1> HIDE DEF h
  <1>8. h[{}] = base
    BY <1>7
  <1>9. ASSUME NEW s \in (SUBSET (1..n)) \ {{}}
        PROVE  h[s] = ApplyStep(h[s \ {Max(s)}], entries[Max(s)])
    BY <1>1, <1>7
  <1> HIDE DEF Rec
  <1>10. IsApply(h, base, entries)
    BY <1>8, <1>9 DEF n, IsApply
  <1> QED BY <1>1, <1>2, <1>10 DEF n

LEMMA ApplyFold ==
    ASSUME NEW S, NEW base \in Seq(S), NEW entries, IsList(entries),
           \A i \in DOMAIN entries : Brings(entries[i]) \subseteq S
    PROVE  FoldLeft(ApplyStep, base, entries) \in Seq(S)
  <1> DEFINE n == Len(entries)
             X == Seq(S)
  <1>1. n \in Nat /\ DOMAIN entries = 1..n
    BY ListLen
  <1>2. PICK h : IsApply(h, base, entries) /\ FoldLeft(ApplyStep, base, entries) = h[1..n]
    BY ApplyRec
  <1> HIDE DEF n
  <1>3. ASSUME NEW s \in (SUBSET (1..n)) \ {{}}, h[s \ {Max(s)}] \in X
        PROVE  h[s] \in X
    <2>1. h[s] = ApplyStep(h[s \ {Max(s)}], entries[Max(s)])
      BY <1>2 DEF IsApply, n
    <2>2. Max(s) \in 1..n
      BY <1>1, MaxGreatest
    <2>3. Brings(entries[Max(s)]) \subseteq S
      BY <1>1, <2>2
    <2> DEFINE list == h[s \ {Max(s)}]
               e == entries[Max(s)]
    <2>4. list \in Seq(S) /\ Brings(e) \subseteq S
      BY <1>3, <2>3
    <2> HIDE DEF list, e
    <2>5. ApplyStep(list, e) \in Seq(S)
      BY <2>4, ApplyIn
    <2> QED BY <2>1, <2>5 DEF list, e
  <1>4. h[{}] \in X
    BY <1>2 DEF IsApply
  <1> HIDE DEF X
  <1>5. h[1..n] \in X
    BY <1>1, <1>3, <1>4, FoldClosed
  <1> QED BY <1>2, <1>5 DEF X

Entries(C) == [incoming : C, existing : {0} \cup {rows[i].id : i \in DOMAIN rows}]
PlanType(C) == [claimed : SUBSET Nat, plan : Seq(Entries(C))]

\* What the plan's making keeps.  A row that is still free and has the identity of an
\* earlier entry's machine: that entry took another row of the same identity.
PlanSound(acc) ==
    /\ Foretold(acc.plan)
    /\ \A a \in DOMAIN acc.plan : \A i \in DOMAIN rows \ acc.claimed :
         rows[i].id = acc.plan[a].incoming.id => acc.plan[a].existing = rows[i].id
    /\ \A a \in DOMAIN acc.plan :
         acc.plan[a].existing # 0 => \E i \in DOMAIN rows \cap acc.claimed : acc.plan[a].existing = rows[i].id
    /\ DistinctIds => NoneTwice(acc.plan)

Plans(C) == {acc \in PlanType(C) : PlanSound(acc)}

\* One entry more, for a row that was free or for none.
LEMMA PlanGrows ==
    ASSUME NEW p, IsList(p), NEW e, NEW claimed, NEW new, NEW hit,
           PlanSound([claimed |-> claimed, plan |-> p]), new = Append(p, e),
           DOMAIN rows \subseteq Nat \ {0},
           hit # 0 => hit \in DOMAIN rows \ claimed,
           e.existing = IF hit = 0 THEN 0 ELSE rows[hit].id,
           \A i \in DOMAIN rows \ claimed : rows[i].id = e.incoming.id => e.existing = rows[i].id
    PROVE  PlanSound([claimed |-> claimed \cup {hit}, plan |-> new])
  <1> DEFINE n == Len(p)
  <1>1. /\ n \in Nat /\ DOMAIN p = 1..n /\ DOMAIN new = 1..(n + 1) /\ new[n + 1] = e
        /\ \A a \in 1..n : new[a] = p[a]
    BY ListLen, Appended
  <1> HIDE DEF n
  <1>2. /\ Foretold(p)
        /\ \A a \in 1..n : \A i \in DOMAIN rows \ claimed :
             rows[i].id = p[a].incoming.id => p[a].existing = rows[i].id
        /\ \A a \in 1..n :
             p[a].existing # 0 => \E i \in DOMAIN rows \cap claimed : p[a].existing = rows[i].id
        /\ DistinctIds => NoneTwice(p)
    BY <1>1 DEF PlanSound
  <1>3. \A a \in 1..(n + 1) : a \in 1..n \/ a = n + 1
    BY <1>1
  <1>4. ASSUME NEW a \in 1..n, e.existing # 0, e.existing = p[a].incoming.id
        PROVE  p[a].existing = e.existing
    BY <1>2, <1>4
  <1>5. Foretold(new)
    <2> SUFFICES ASSUME NEW a \in 1..(n + 1), NEW b \in 1..(n + 1), a < b,
                        new[b].existing # 0, new[b].existing = new[a].incoming.id
                 PROVE  new[a].existing = new[b].existing
      BY <1>1 DEF Foretold
    <2>1. a \in 1..n
      BY <1>1
    <2>2. CASE b = n + 1
      BY <1>1, <1>4, <2>1, <2>2
    <2>3. CASE b \in 1..n
      BY <1>1, <1>2, <2>1, <2>3 DEF Foretold
    <2> QED BY <1>3, <2>2, <2>3
  <1>6. ASSUME NEW a \in 1..(n + 1), NEW i \in DOMAIN rows \ (claimed \cup {hit}),
               rows[i].id = new[a].incoming.id
        PROVE  new[a].existing = rows[i].id
    BY <1>1, <1>2, <1>3, <1>6
  <1>7. ASSUME NEW a \in 1..(n + 1), new[a].existing # 0
        PROVE  \E i \in DOMAIN rows \cap (claimed \cup {hit}) : new[a].existing = rows[i].id
    <2>1. CASE a = n + 1
      BY <1>1, <1>7, <2>1
    <2>2. CASE a \in 1..n
      BY <1>1, <1>2, <1>7, <2>2
    <2> QED BY <1>3, <2>1, <2>2
  <1>8. ASSUME DistinctIds
        PROVE  NoneTwice(new)
    <2>1. ASSUME NEW a \in 1..n, e.existing # 0, e.existing = p[a].existing
          PROVE  FALSE
      <3>1. PICK i \in DOMAIN rows \cap claimed : p[a].existing = rows[i].id
        BY <1>2, <2>1
      <3>2. hit \in DOMAIN rows \ claimed /\ rows[hit].id = rows[i].id
        BY <2>1, <3>1
      <3> QED BY <1>8, <3>1, <3>2 DEF DistinctIds
    <2> SUFFICES ASSUME NEW a \in 1..(n + 1), NEW b \in 1..(n + 1),
                        new[a].existing # 0, new[a].existing = new[b].existing
                 PROVE  a = b
      BY <1>1 DEF NoneTwice
    <2>2. CASE a \in 1..n /\ b \in 1..n
      BY <1>1, <1>2, <1>8, <2>2 DEF NoneTwice
    <2>3. CASE a = n + 1 /\ b \in 1..n
      BY <1>1, <2>1, <2>3
    <2>4. CASE b = n + 1 /\ a \in 1..n
      BY <1>1, <2>1, <2>4
    <2> QED BY <1>3, <2>2, <2>3, <2>4
  <1> DEFINE acc == [claimed |-> claimed \cup {hit}, plan |-> new]
  <1>9. acc.claimed = claimed \cup {hit} /\ acc.plan = new
    OBVIOUS
  <1> HIDE DEF acc
  <1>10. PlanSound(acc)
    BY <1>1, <1>5, <1>6, <1>7, <1>8, <1>9 DEF PlanSound
  <1> QED BY <1>10 DEF acc

LEMMA PlanIn ==
    ASSUME IsList(rows), NEW C, NEW acc \in Plans(C), NEW c \in C
    PROVE  PlanStep(acc, c) \in Plans(C)
  <1> DEFINE free  == DOMAIN rows \ acc.claimed
             same  == {i \in free : rows[i].id = c.id}
             alike == {i \in free : rows[i].host = c.host}
             hit   == CASE same # {} -> Min(same) [] same = {} /\ alike # {} -> Min(alike) [] OTHER -> 0
             e     == [incoming |-> c, existing |-> IF hit = 0 THEN 0 ELSE rows[hit].id]
             new   == [claimed |-> acc.claimed \cup {hit}, plan |-> Append(acc.plan, e)]
  <1>1. PlanStep(acc, c) = new
    BY DEF PlanStep
  <1>2. same \in SUBSET DOMAIN rows /\ alike \in SUBSET DOMAIN rows
    OBVIOUS
  <1>3. DOMAIN rows \subseteq Nat \ {0}
    BY ListLen
  <1>4. /\ hit \in free \cup {0}
        /\ \A i \in free : rows[i].id = c.id => hit # 0 /\ rows[hit].id = c.id
    <2>1. CASE same # {}
      <3>1. Min(same) \in same
        BY <1>3, <2>1, MinLeast
      <3>2. hit = Min(same)
        BY <2>1
      <3> QED BY <1>3, <3>1, <3>2
    <2>2. CASE same = {} /\ alike # {}
      <3>1. Min(alike) \in alike
        BY <1>3, <2>2, MinLeast
      <3>2. hit = Min(alike)
        BY <2>2
      <3> QED BY <2>2, <3>1, <3>2
    <2>3. CASE same = {} /\ alike = {}
      BY <2>3
    <2> QED BY <2>1, <2>2, <2>3
  <1> HIDE DEF hit
  <1>5. e \in Entries(C)
    <2> DEFINE x == IF hit = 0 THEN 0 ELSE rows[hit].id
    <2>1. x \in {0} \cup {rows[i].id : i \in DOMAIN rows}
      BY <1>4
    <2> HIDE DEF x
    <2>2. [incoming |-> c, existing |-> x] \in Entries(C)
      BY <2>1 DEF Entries
    <2> QED BY <2>2 DEF x
  <1>6. /\ acc.claimed \in SUBSET Nat /\ acc.plan \in Seq(Entries(C)) /\ PlanSound(acc)
        /\ acc = [claimed |-> acc.claimed, plan |-> acc.plan]
    BY DEF Plans, PlanType
  <1>7. hit \in Nat
    BY <1>3, <1>4
  <1>8. e.incoming = c /\ e.existing = IF hit = 0 THEN 0 ELSE rows[hit].id
    OBVIOUS
  <1> HIDE DEF e
  <1> DEFINE p == acc.plan
             claimed == acc.claimed
             more == Append(p, e)
  <1>9. IsList(p) /\ PlanSound([claimed |-> claimed, plan |-> p])
    BY <1>6, ListOf, Zenon
  <1>10. more \in Seq(Entries(C)) /\ claimed \cup {hit} \in SUBSET Nat
    BY <1>5, <1>6, <1>7
  <1>11. /\ hit # 0 => hit \in DOMAIN rows \ claimed
         /\ \A i \in DOMAIN rows \ claimed : rows[i].id = e.incoming.id => e.existing = rows[i].id
    BY <1>4, <1>8
  <1>12. new = [claimed |-> claimed \cup {hit}, plan |-> more]
    OBVIOUS
  <1> HIDE DEF p, claimed, more, free, same, alike, new
  <1>13. more = Append(p, e)
    BY DEF more
  <1>14. PlanSound([claimed |-> claimed \cup {hit}, plan |-> more])
    BY <1>3, <1>8, <1>9, <1>11, <1>13, PlanGrows
  <1> QED BY <1>1, <1>10, <1>12, <1>14 DEF Plans, PlanType

LEMMA NoEntries == DOMAIN <<>> = {} /\ Foretold(<<>>) /\ NoneTwice(<<>>)
  BY DEF Foretold, NoneTwice

LEMMA PlanFold ==
    ASSUME IsList(rows), NEW C, NEW incoming \in Seq(C)
    PROVE  LET p == FoldLeft(PlanStep, [claimed |-> {}, plan |-> <<>>], incoming).plan
           IN  /\ IsList(p) /\ \A i \in DOMAIN p : p[i].incoming \in C
               /\ Foretold(p) /\ (DistinctIds => NoneTwice(p))
  <1> DEFINE n == Len(incoming)
             base == [claimed |-> {}, plan |-> <<>>]
             X == Plans(C)
             Rec(g) == g = [s \in SUBSET DOMAIN incoming |->
                              IF s = {} THEN base
                              ELSE PlanStep(g[s \ {Max(s)}], incoming[Max(s)])]
             h == CHOOSE g : Rec(g)
             F == [acc \in X |-> [c \in C |-> PlanStep(acc, c)]]
  <1>1. n \in Nat /\ DOMAIN incoming = 1..n /\ \A i \in 1..n : incoming[i] \in C
    BY LenProperties, ElementOfSeq
  <1>2. FoldLeft(PlanStep, base, incoming) = h[DOMAIN incoming]
    BY DEF FoldLeft, MapThenFoldSet
  <1>3. ASSUME NEW acc \in X, NEW c \in C
        PROVE  PlanStep(acc, c) \in X
    BY PlanIn
  <1>5. base \in X
    <2>1. base.plan = <<>> /\ base \in PlanType(C)
      BY EmptySeq DEF PlanType
    <2>2. PlanSound(base)
      BY <2>1, NoEntries DEF PlanSound
    <2> QED BY <2>1, <2>2 DEF Plans
  <1> HIDE DEF n, X, base
  <1>4. F \in [X -> [C -> X]] /\ \A acc \in X, c \in C : F[acc][c] = PlanStep(acc, c)
    BY <1>3
  <1> HIDE DEF F
  <1>6. \E g : Rec(g)
    <2>0. PICK g \in [SUBSET (1..n) -> X] : IsFold(g, n, F, base, incoming)
      <3>1. F \in [X -> [C -> X]] /\ n \in Nat /\ base \in X /\ \A i \in 1..n : incoming[i] \in C
        BY <1>1, <1>4, <1>5
      <3> HIDE DEF Rec
      <3> QED BY <3>1, FoldExists
    <2>1. \A s \in SUBSET (1..n) :
            g[s] = IF s = {} THEN base ELSE F[g[s \ {Max(s)}]][incoming[Max(s)]]
      BY <2>0 DEF IsFold
    <2>2. ASSUME NEW s \in SUBSET (1..n)
          PROVE  g[s] = IF s = {} THEN base ELSE PlanStep(g[s \ {Max(s)}], incoming[Max(s)])
      <3>1. CASE s = {}
        BY <2>1, <3>1
      <3>2. CASE s # {}
        <4>1. Max(s) \in 1..n
          BY <1>1, <3>2, MaxGreatest
        <4>2. g[s \ {Max(s)}] \in X /\ incoming[Max(s)] \in C
          BY <1>1, <2>1, <4>1
        <4> QED BY <1>4, <2>1, <3>2, <4>2
      <3> QED BY <3>1, <3>2
    <2>3. g = [s \in SUBSET (1..n) |->
                 IF s = {} THEN base ELSE PlanStep(g[s \ {Max(s)}], incoming[Max(s)])]
      BY <2>1, <2>2
    <2>4. Rec(g)
      <3>1. SUBSET DOMAIN incoming = SUBSET (1..n)
        BY <1>1
      <3> QED BY <2>3, <3>1, Zenon
    <2> QED BY <2>4
  <1>7. Rec(h)
    <2> HIDE DEF Rec
    <2> QED BY <1>6
  <1> HIDE DEF h
  <1>8. h[{}] = base
    BY <1>7
  <1>9. ASSUME NEW s \in (SUBSET (1..n)) \ {{}}, h[s \ {Max(s)}] \in X
        PROVE  h[s] \in X
    <2>1. h[s] = PlanStep(h[s \ {Max(s)}], incoming[Max(s)])
      BY <1>1, <1>7
    <2>2. Max(s) \in 1..n
      BY <1>1, MaxGreatest
    <2>3. incoming[Max(s)] \in C
      BY <1>1, <2>2
    <2> QED BY <1>3, <1>9, <2>1, <2>3
  <1>10. h[1..n] \in X
    <2> HIDE DEF Rec
    <2> QED BY <1>1, <1>5, <1>8, <1>9, FoldClosed
  <1> DEFINE p == h[1..n].plan
  <1>11. p \in Seq(Entries(C)) /\ Foretold(p) /\ (DistinctIds => NoneTwice(p))
    BY <1>10 DEF X, Plans, PlanType, PlanSound
  <1>12. \A e \in Entries(C) : e.incoming \in C
    BY DEF Entries
  <1>13. FoldLeft(PlanStep, [claimed |-> {}, plan |-> <<>>], incoming).plan = p
    BY <1>1, <1>2 DEF base
  <1> HIDE DEF p
  <1>14. IsList(p) /\ \A i \in DOMAIN p : p[i].incoming \in C
    BY <1>11, <1>12, ListOf
  <1> QED BY <1>11, <1>13, <1>14

-----------------------------------------------------------------------------
(* The key store.                                                          *)

LEMMA Lost ==
    ASSUME NEW k, KeyOk(k)
    PROVE  launches \in Nat /\ k.lost \in Nat /\ k.lost <= launches
  BY DEF KeyOk, KeyType

\* What Fine and Safe say, the launch in which a password was typed being d.
LEMMA Typed ==
    ASSUME NEW c, NEW k, KeyOk(k)
    PROVE  LET d == c.meant.launch
           IN  /\ Safe(c, k) <=> (d \in 0..launches /\ (c.pass = c.meant.word \/ d < k.lost))
               /\ Fine(c, k) <=> (d \in 0..launches
                                  /\ (\/ c.pass = c.meant.word \/ d < k.lost
                                      \/ (Blind(k) /\ d < launches /\ c.pass = "")))
               /\ d \in 0..launches => d \in Nat /\ d <= launches
  <1> DEFINE d == c.meant.launch
             lo == k.lost
  <1>1. launches \in Nat /\ lo \in Nat
    BY Lost
  <1>2. Safe(c, k) <=> d \in 0..launches /\ (d >= lo => c.pass = c.meant.word)
    BY DEF Safe, Dated
  <1>3. Fine(c, k) <=> (d \in 0..launches
                        /\ (\/ c.pass = c.meant.word \/ d < lo
                            \/ (Blind(k) /\ d < launches /\ c.pass = "")))
    BY DEF Fine, Dated
  <1> HIDE DEF d, lo
  <1>4. d \in 0..launches => d \in Nat /\ d <= launches /\ (d >= lo <=> ~(d < lo))
    BY <1>1
  <1>5. Safe(c, k) <=> d \in 0..launches /\ (c.pass = c.meant.word \/ d < lo)
    BY <1>2, <1>4
  <1> QED BY <1>3, <1>4, <1>5 DEF d, lo

\* What asking the key store may change: a key that takes the place of another does
\* harm, and one is found unless there is no store.
Asked(k, m) ==
    /\ KeyOk(m) /\ m.platform = k.platform
    /\ k.tried => m = k
    /\ m.lost = launches \/ (m.lost = k.lost /\ (m.ring = k.ring \/ k.ring = 0))
    /\ k.platform = "Absent" => m.ring = k.ring /\ m.lost = k.lost

LEMMA Asking ==
    ASSUME NEW k, KeyOk(k)
    PROVE  LET m == MasterKey(k)
           IN  /\ Asked(k, m) /\ m.tried
               /\ ~k.tried /\ k.platform # "Absent" => m.key = m.ring /\ m.ring # 0
  <1>1. PICK pl \in Platforms, tr \in BOOLEAN, ke \in Nat, ri \in Nat, lo \in 0..launches :
          k = [platform |-> pl, tried |-> tr, key |-> ke, ring |-> ri, lost |-> lo]
    BY DEF KeyOk, KeyType
  <1>2. /\ k.platform = pl /\ k.tried = tr /\ k.key = ke /\ k.ring = ri /\ k.lost = lo
        /\ (ke # 0 => ke = ri) /\ (~tr => ke = 0) /\ launches \in Nat
    BY <1>1 DEF KeyOk
  <1> DEFINE m == MasterKey(k)
  <1>3. CASE tr
    <2>1. m = k
      BY <1>2, <1>3 DEF MasterKey
    <2> QED BY <1>2, <1>3, <2>1 DEF Asked
  <1>4. CASE ~tr /\ pl = "Works" /\ ri # 0
    <2>1. m = [k EXCEPT !.tried = TRUE, !.key = k.ring]
      BY <1>2, <1>4 DEF MasterKey
    <2>2. m = [platform |-> pl, tried |-> TRUE, key |-> ri, ring |-> ri, lost |-> lo]
      BY <1>1, <1>2, <2>1
    <2> HIDE DEF m
    <2>3. KeyOk(m)
      BY <1>2, <1>4, <2>2 DEF KeyOk, KeyType
    <2>4. m.platform = pl /\ m.tried /\ m.key = ri /\ m.ring = ri /\ m.lost = lo
      BY <2>2
    <2> QED BY <1>2, <1>4, <2>3, <2>4 DEF Asked, m
  <1>5. CASE ~tr /\ pl = "Absent"
    <2>1. m = [k EXCEPT !.tried = TRUE]
      BY <1>2, <1>5 DEF MasterKey
    <2>2. m = [platform |-> pl, tried |-> TRUE, key |-> ke, ring |-> ri, lost |-> lo]
      BY <1>1, <1>2, <2>1
    <2> HIDE DEF m
    <2>3. KeyOk(m)
      BY <1>2, <1>5, <2>2 DEF KeyOk, KeyType
    <2>4. m.platform = pl /\ m.tried /\ m.key = ke /\ m.ring = ri /\ m.lost = lo
      BY <2>2
    <2> QED BY <1>2, <1>5, <2>3, <2>4 DEF Asked, m
  <1>6. CASE ~tr /\ pl # "Absent" /\ ~(pl = "Works" /\ ri # 0)
    <2> DEFINE l == IF ri # 0 THEN launches ELSE lo
    <2>1. m = [k EXCEPT !.tried = TRUE, !.key = k.ring + 1, !.ring = k.ring + 1,
                        !.lost = IF k.ring # 0 THEN launches ELSE k.lost]
      BY <1>2, <1>6 DEF MasterKey
    <2>2. l \in 0..launches
      BY <1>2
    <2>3. m = [k EXCEPT !.tried = TRUE, !.key = ri + 1, !.ring = ri + 1, !.lost = l]
      BY <1>2, <2>1
    <2> HIDE DEF m, l
    <2>4. m = [platform |-> pl, tried |-> TRUE, key |-> ri + 1, ring |-> ri + 1, lost |-> l]
      BY <1>1, <2>3
    <2>5. l = launches \/ (l = lo /\ ri = 0)
      BY DEF l
    <2>6. ri + 1 \in Nat /\ ri + 1 # 0
      OBVIOUS
    <2>7. KeyOk(m)
      BY <1>2, <2>2, <2>4, <2>6 DEF KeyOk, KeyType
    <2>8. m.platform = pl /\ m.tried /\ m.key = m.ring /\ m.ring # 0 /\ m.lost = l
      BY <2>4, <2>6
    <2> QED BY <1>2, <1>6, <2>5, <2>7, <2>8 DEF Asked, m
  <1> QED BY <1>3, <1>4, <1>5, <1>6

LEMMA AskedNot ==
    ASSUME NEW k, KeyOk(k)
    PROVE  Asked(k, k)
  BY DEF Asked

\* The mark of the harm a list does when it is written down: what was shown is then
\* safe, or typed before.
LEMMA Marked ==
    ASSUME NEW k, KeyOk(k)
    PROVE  LET m == [k EXCEPT !.lost = Harm(k)]
           IN  /\ KeyOk(m) /\ m.platform = k.platform /\ m.tried = k.tried
               /\ m.key = k.key /\ m.ring = k.ring /\ k.lost <= m.lost
               /\ \A c : Fine(c, k) => Safe(c, m)
  <1>1. PICK pl \in Platforms, tr \in BOOLEAN, ke \in Nat, ri \in Nat, lo \in 0..launches :
          k = [platform |-> pl, tried |-> tr, key |-> ke, ring |-> ri, lost |-> lo]
    BY DEF KeyOk, KeyType
  <1>2. /\ k.platform = pl /\ k.tried = tr /\ k.key = ke /\ k.ring = ri /\ k.lost = lo
        /\ (ke # 0 => ke = ri) /\ (~tr => ke = 0) /\ launches \in Nat
    BY <1>1 DEF KeyOk
  <1> DEFINE l == Harm(k)
             m == [k EXCEPT !.lost = l]
  <1>3. l \in 0..launches /\ (IF Blind(k) THEN l = launches ELSE l = lo)
    BY <1>2 DEF Harm
  <1> HIDE DEF l
  <1>4. m = [platform |-> pl, tried |-> tr, key |-> ke, ring |-> ri, lost |-> l]
    BY <1>1
  <1> HIDE DEF m
  <1>5. KeyOk(m) /\ m.platform = pl /\ m.tried = tr /\ m.key = ke /\ m.ring = ri /\ m.lost = l
    BY <1>2, <1>3, <1>4 DEF KeyOk, KeyType
  <1>6. ASSUME NEW c, Fine(c, k)
        PROVE  Safe(c, m)
    <2> DEFINE d == c.meant.launch
    <2>1. d \in 0..launches /\ (c.pass = c.meant.word \/ d < lo \/ (Blind(k) /\ d < launches))
      BY <1>2, <1>6, Typed
    <2>2. Safe(c, m) <=> d \in 0..launches /\ (c.pass = c.meant.word \/ d < l)
      BY <1>5, Typed
    <2> HIDE DEF d
    <2> QED BY <1>3, <2>1, <2>2
  <1>8. k.lost <= m.lost
    BY <1>2, <1>3, <1>5
  <1>7. [k EXCEPT !.lost = Harm(k)] = m
    BY DEF m, l
  <1> QED BY <1>2, <1>5, <1>6, <1>7, <1>8

LEMMA KeyForSave ==
    ASSUME NEW new, KeyOk(keys)
    PROVE  /\ Asked(keys, KeyFor(new))
           /\ ~KeyFor(new).tried => \A i \in DOMAIN new : new[i].pass = ""
  <1>1. CASE \E i \in DOMAIN new : new[i].pass # ""
    <2>1. KeyFor(new) = MasterKey(keys)
      BY <1>1 DEF KeyFor
    <2> QED BY <2>1, Asking
  <1>2. CASE ~\E i \in DOMAIN new : new[i].pass # ""
    <2>1. KeyFor(new) = keys
      BY <1>2 DEF KeyFor
    <2> QED BY <1>2, <2>1, AskedNot
  <1> QED BY <1>1, <1>2

\* What is stored decodes under a key that was asked for later.
LEMMA DecodesStill ==
    ASSUME NEW k, NEW m, KeyOk(k), Asked(k, m), NEW list, NEW stored,
           Decodes(list, stored, k.key), IsList(list), IsList(stored),
           ~k.tried => NoneUnderKey(stored)
    PROVE  Decodes(list, stored, m.key)
  <1>1. CASE k.tried
    BY <1>1 DEF Asked
  <1>2. CASE ~k.tried
    <2>1. DOMAIN stored = DOMAIN list
      BY ListLen DEF Decodes
    <2>2. ASSUME NEW i \in DOMAIN list
          PROVE  Parsed(stored[i], m.key, list[i].id) = list[i]
      <3>1. stored[i].pass.form # "V3"
        BY <1>2, <2>1 DEF NoneUnderKey
      <3>2. Decode(stored[i].pass, m.key) = Decode(stored[i].pass, k.key)
        BY <3>1 DEF Decode
      <3>3. Parsed(stored[i], m.key, list[i].id) = Parsed(stored[i], k.key, list[i].id)
        BY <3>2 DEF Parsed
      <3> QED BY <3>3 DEF Decodes
    <2> QED BY <2>2 DEF Decodes
  <1> QED BY <1>1, <1>2

\* What asking for the key does no harm to: a machine in the list, one in a backup, and
\* a stored one that needs no key yet or was typed in an earlier launch.
LEMMA FineStill ==
    ASSUME NEW k, NEW m, KeyOk(k), Asked(k, m), NEW c, Fine(c, k)
    PROVE  Fine(c, m)
  <1> DEFINE d == c.meant.launch
  <1>1. d \in 0..launches /\ (c.pass = c.meant.word \/ d < k.lost \/ (Blind(k) /\ d < launches /\ c.pass = ""))
    BY Typed
  <1>2. KeyOk(m)
    BY DEF Asked
  <1>3. (c.pass = c.meant.word \/ d < m.lost \/ (Blind(m) /\ d < launches /\ c.pass = "")) => Fine(c, m)
    BY <1>1, <1>2, Typed
  <1>4. launches \in Nat /\ k.lost \in Nat /\ k.lost <= launches /\ m.lost \in Nat
    BY <1>2, Lost
  <1>5. m.lost = launches \/ m.lost = k.lost
    BY DEF Asked
  <1>6. Blind(k) => Blind(m) /\ m.lost = k.lost
    BY DEF Asked, Blind
  <1>7. d < k.lost => d < m.lost
    <2> DEFINE lo == k.lost
               hi == m.lost
    <2>1. /\ launches \in Nat /\ lo \in Nat /\ hi \in Nat /\ lo <= launches
          /\ d \in 0..launches /\ (hi = launches \/ hi = lo)
      BY <1>1, <1>4, <1>5
    <2> HIDE DEF d, lo, hi
    <2>2. d < lo => d < hi
      BY <2>1
    <2> QED BY <2>2 DEF lo, hi
  <1> HIDE DEF d
  <1> QED BY <1>1, <1>3, <1>6, <1>7

LEMMA SoundStill ==
    ASSUME NEW k, NEW m, KeyOk(k), Asked(k, m), NEW c, Sound(c, k),
           k.tried \/ c.pass.form # "V3" \/ c.meant.launch < launches
    PROVE  Sound(c, m)
  <1>1. /\ launches \in Nat /\ k.lost \in Nat /\ k.lost <= launches
        /\ c.meant.launch \in 0..launches
    BY Lost DEF Sound, Dated
  <1>2. CASE k.tried
    BY <1>2 DEF Asked
  <1>3. CASE ~k.tried
    <2>1. ASSUME c.meant.launch >= m.lost
          PROVE  Right(c, m.ring)
      <3>1. CASE m.lost = launches
        <4>1. c.pass.form # "V3" /\ Right(c, k.ring)
          BY <1>1, <1>3, <2>1, <3>1 DEF Sound
        <4> QED BY <4>1 DEF Right, V3
      <3>2. CASE m.lost = k.lost /\ (m.ring = k.ring \/ k.ring = 0)
        <4>1. Right(c, k.ring)
          BY <2>1, <3>2 DEF Sound
        <4> QED BY <3>2, <4>1 DEF Right
      <3> QED BY <3>1, <3>2 DEF Asked
    <2> QED BY <1>1, <2>1 DEF Sound, Dated
  <1> QED BY <1>2, <1>3

LEMMA SafeIsFine ==
    ASSUME NEW k, NEW c, Safe(c, k), KeyOk(k)
    PROVE  Fine(c, k)
  BY Typed

\* The file that persist() writes: it decodes to the list, in the key's hands.
LEMMA Writing ==
    ASSUME NEW new, Machines(new), NEW k, KeyOk(k)
    PROVE  LET stored == [i \in DOMAIN new |-> Stored(new[i], k.key)]
           IN  /\ Machines(stored) /\ Decodes(new, stored, k.key)
               /\ (\A i \in DOMAIN new : new[i].pass = "") => NoneUnderKey(stored)
               /\ (\A i \in DOMAIN new : Safe(new[i], k)) => \A i \in DOMAIN stored : Sound(stored[i], k)
  <1> DEFINE stored == [i \in DOMAIN new |-> Stored(new[i], k.key)]
  <1>1. Len(new) \in Nat /\ DOMAIN new = 1..Len(new)
    BY ListLen DEF Machines
  <1>2. stored = [i \in 1..Len(new) |-> stored[i]] /\ \A i \in 1..Len(new) : stored[i] = Stored(new[i], k.key)
    BY <1>1
  <1> HIDE DEF stored
  <1>3. IsList(stored) /\ Len(stored) = Len(new) /\ DOMAIN stored = DOMAIN new
    BY <1>1, <1>2, ListBy
  <1>4. ASSUME NEW i \in DOMAIN new
        PROVE  /\ IsMachine(stored[i]) /\ Parsed(stored[i], k.key, new[i].id) = new[i]
               /\ stored[i].pass = Encode(new[i].pass, k.key) /\ stored[i].meant = new[i].meant
    <2>1. stored[i] = Stored(new[i], k.key) /\ IsMachine(new[i])
      BY <1>1, <1>2 DEF Machines
    <2>2. Stored(new[i], k.key) = [new[i] EXCEPT !.pass = Encode(new[i].pass, k.key)]
      BY DEF Stored
    <2> DEFINE c == new[i]
               w == Encode(c.pass, k.key)
    <2> HIDE DEF c, w
    <2>c. IsMachine(c)
      BY <2>1 DEF c
    <2>3. LET d == [c EXCEPT !.pass = w] IN IsMachine(d) /\ d.pass = w /\ d.meant = c.meant
      BY <2>c, OneField DEF IsMachine
    <2>4. Parsed(Stored(c, k.key), k.key, c.id) = c
      BY <2>c, RoundTrip
    <2> QED BY <2>1, <2>2, <2>3, <2>4 DEF c, w
  <1>5. ASSUME \A i \in DOMAIN new : new[i].pass = "", NEW i \in DOMAIN stored
        PROVE  stored[i].pass.form # "V3"
    <2>1. stored[i].pass = Encode("", k.key)
      BY <1>3, <1>4, <1>5
    <2>2. Encode("", k.key).form = "Bare"
      BY DEF Encode, Bare
    <2> QED BY <2>1, <2>2
  <1>6. ASSUME \A i \in DOMAIN new : Safe(new[i], k), NEW i \in DOMAIN stored
        PROVE  Sound(stored[i], k)
    <2>1. /\ stored[i].pass = Encode(new[i].pass, k.key) /\ stored[i].meant = new[i].meant
          /\ Safe(new[i], k)
      BY <1>3, <1>4, <1>6
    <2>2. k.key # 0 => k.key = k.ring
      BY DEF KeyOk
    <2>3. ASSUME stored[i].meant.launch >= k.lost
          PROVE  Right(stored[i], k.ring)
      <3>1. stored[i].pass = Encode(stored[i].meant.word, k.key)
        BY <2>1, <2>3 DEF Safe
      <3> QED BY <2>2, <3>1 DEF Right, AsTyped, Encode
    <2> QED BY <2>1, <2>3 DEF Sound, Safe, Dated
  <1> QED BY <1>3, <1>4, <1>5, <1>6 DEF Machines, Decodes, NoneUnderKey, stored

-----------------------------------------------------------------------------
(* The steps of the list.                                                  *)

\* What a step of the list leaves to the others.
Kept == keys.lost <= keys'.lost /\ ("Certs" \in failed' <=> "Certs" \in failed)

LEMMA SavedStep ==
    ASSUME ListInv, app = "Up", UNCHANGED <<menu, launches, app>>, NEW new, Machines(new),
           Shown(new), Saved(new)
    PROVE  ListInv' /\ Kept
  <1> DEFINE k == KeyFor(new)
             stored == [i \in DOMAIN new |-> Stored(new[i], k.key)]
             m == [k EXCEPT !.lost = Harm(k)]
  <1>1. rows' = new /\ file'.rows = stored /\ keys' = m /\ failed' = failed \ {"Computers"}
    BY DEF Saved, Listing
  <1>2. Asked(keys, k) /\ (~k.tried => \A i \in DOMAIN new : new[i].pass = "")
    BY KeyForSave DEF ListInv
  <1>3. KeyOk(k)
    BY <1>2 DEF Asked
  <1> HIDE DEF k
  <1>4. /\ KeyOk(m) /\ m.platform = k.platform /\ m.tried = k.tried
        /\ m.key = k.key /\ m.ring = k.ring
        /\ k.lost <= m.lost /\ \A c : Fine(c, k) => Safe(c, m)
    BY <1>3, Marked
  <1> HIDE DEF m
  <1>5. /\ Machines(stored) /\ Decodes(new, stored, m.key)
        /\ (\A i \in DOMAIN new : new[i].pass = "") => NoneUnderKey(stored)
        /\ (\A i \in DOMAIN new : Safe(new[i], m)) => \A i \in DOMAIN stored : Sound(stored[i], m)
    <2>1. stored = [i \in DOMAIN new |-> Stored(new[i], m.key)]
      BY <1>4
    <2> HIDE DEF stored
    <2> QED BY <1>4, <2>1, Writing
  <1> HIDE DEF stored
  <1>6. KeyOk(keys) /\ \A i \in DOMAIN new : Fine(new[i], keys)
    BY DEF ListInv, Shown
  <1>7. \A i \in DOMAIN new : Safe(new[i], m) /\ Fine(new[i], m)
    BY <1>2, <1>4, <1>6, FineStill, SafeIsFine
  <1>8. Kept
    <2>1. /\ keys.lost \in Nat /\ k.lost \in Nat /\ m.lost \in Nat
          /\ k.lost \in {keys.lost, launches} /\ keys.lost <= launches
      BY <1>2, <1>3, <1>4, <1>6, Lost DEF Asked
    <2>2. keys.lost <= m.lost
      BY <1>4, <2>1
    <2> QED BY <1>1, <2>2 DEF Kept
  <1>9. ListInv'
    <2>1. menu' \in Menus /\ Machines(rows') /\ Machines(file'.rows) /\ KeyOk(keys)'
      BY <1>1, <1>4, <1>5 DEF ListInv, KeyOk, KeyType
    <2>2. Decodes(rows', file'.rows, keys'.key)
      BY <1>1, <1>4, <1>5
    <2>3. ~keys'.tried => NoneUnderKey(file'.rows)
      BY <1>1, <1>2, <1>4, <1>5
    <2>4. AllSound(file.rows)'
      <3>1. \A i \in DOMAIN file'.rows : Sound(file'.rows[i], keys')
        BY <1>1, <1>5, <1>7
      <3> QED BY <3>1 DEF AllSound, Sound, Dated
    <2>5. Shown(rows)'
      <3>1. \A i \in DOMAIN rows' : Fine(rows'[i], keys')
        BY <1>1, <1>7
      <3> QED BY <3>1 DEF Shown, Fine, Dated
    <2>6. app' = "Up" /\ "Computers" \notin failed'
      BY <1>1
    <2> QED BY <2>1, <2>2, <2>3, <2>4, <2>5, <2>6 DEF ListInv
  <1> QED BY <1>8, <1>9

\* The list stays, and the key store may have been asked.
LEMMA AskedStep ==
    ASSUME ListInv, app = "Up", UNCHANGED <<menu, launches, app, rows, file, failed>>, Asked(keys, keys')
    PROVE  ListInv' /\ Kept
  <1>1. KeyOk(keys)' /\ KeyOk(keys')
    BY DEF Asked, KeyOk, KeyType
  <1>2. KeyOk(keys) /\ IsList(rows) /\ IsList(file.rows)
    BY DEF ListInv, Machines
  <1>3. "Computers" \notin failed => Decodes(rows, file.rows, keys'.key)
    BY <1>2, DecodesStill DEF ListInv
  <1>4. "Computers" \notin failed /\ ~keys'.tried => NoneUnderKey(file.rows)
    BY DEF ListInv, Asked
  <1>5. AllSound(file.rows)'
    <2>1. ASSUME NEW i \in DOMAIN file.rows
          PROVE  Sound(file.rows[i], keys')
      <3>1. Sound(file.rows[i], keys)
        BY DEF ListInv, AllSound
      <3>2. \/ keys.tried \/ file.rows[i].pass.form # "V3"
            \/ file.rows[i].meant.launch < launches
        BY DEF ListInv, NoneUnderKey, Earlier
      <3> QED BY <1>2, <3>1, <3>2, SoundStill
    <2> QED BY <2>1 DEF AllSound, Sound, Dated
  <1>6. Shown(rows)'
    <2>1. \A i \in DOMAIN rows : Fine(rows[i], keys')
      BY <1>2, FineStill DEF ListInv, Shown
    <2> QED BY <2>1 DEF Shown, Fine, Dated
  <1>7. Kept
    <2>1. keys'.lost \in {keys.lost, launches} /\ keys.lost \in Nat /\ keys.lost <= launches
      BY <1>2, Lost DEF Asked
    <2> QED BY <2>1 DEF Kept
  <1>8. "Computers" \in failed => Earlier(file.rows)'
    BY DEF ListInv, Earlier
  <1> QED BY <1>1, <1>3, <1>4, <1>5, <1>6, <1>7, <1>8 DEF ListInv

LEMMA PersistStep ==
    ASSUME ListInv, app = "Up", UNCHANGED <<menu, launches, app>>, NEW new, Machines(new),
           Shown(new), Saved(new) \/ SaveFails(new, rows)
    PROVE  ListInv' /\ Kept
  <1>1. CASE Saved(new)
    BY <1>1, SavedStep
  <1>2. CASE SaveFails(new, rows)
    <2>1. UNCHANGED <<menu, launches, app, rows, file, failed>> /\ keys' = KeyFor(new)
      BY <1>2 DEF SaveFails
    <2>2. Asked(keys, KeyFor(new))
      BY KeyForSave DEF ListInv
    <2> QED BY <2>1, <2>2, AskedStep
  <1> QED BY <1>1, <1>2

LEMMA JustTyped ==
    ASSUME ListInv, NEW c, c.meant = Meant(c.pass, launches)
    PROVE  Fine(c, keys)
  BY DEF ListInv, KeyOk, Fine, Dated, Meant

\* One row of the list is edited, added or taken out.
LEMMA EditedStep ==
    ASSUME ListInv, app = "Up", UNCHANGED <<menu, launches, app>>, NEW i \in DOMAIN rows, NEW c, IsMachine(c),
           c.meant = Meant(c.pass, launches) \/ (c.pass = rows[i].pass /\ c.meant = rows[i].meant),
           Edited(i, c)
    PROVE  ListInv' /\ Kept
  <1> DEFINE t == ReplaceAt(rows, i, c)
  <1>1. IsList(t) /\ DOMAIN t = DOMAIN rows /\ \A j \in DOMAIN t : t[j] = IF j = i THEN c ELSE rows[j]
    BY Replaced DEF ListInv, Machines
  <1>2. Saved(t) \/ SaveFails(t, rows)
    BY DEF Edited, Persist
  <1> HIDE DEF t
  <1>3. Machines(t)
    BY <1>1 DEF ListInv, Machines
  <1>4. Shown(t)
    BY <1>1, JustTyped DEF ListInv, Shown, Fine, Dated
  <1> QED BY <1>2, <1>3, <1>4, PersistStep

LEMMA AddedStep ==
    ASSUME ListInv, app = "Up", UNCHANGED <<menu, launches, app>>, NEW c, IsMachine(c),
           c.meant = Meant(c.pass, launches), Added(c)
    PROVE  ListInv' /\ Kept
  <1> DEFINE t == Append(rows, c)
  <1>0. IsList(rows) /\ Len(rows) \in Nat /\ DOMAIN rows = 1..Len(rows)
    BY ListLen DEF ListInv, Machines
  <1>1. /\ IsList(t) /\ DOMAIN t = 1..(Len(rows) + 1) /\ t[Len(rows) + 1] = c
        /\ \A j \in DOMAIN rows : t[j] = rows[j]
        /\ Front(t) = rows
    BY <1>0, Appended
  <1>2. Saved(t) \/ SaveFails(t, rows)
    BY <1>1 DEF Added, Persist
  <1> HIDE DEF t
  <1>3. \A j \in DOMAIN t : t[j] = c \/ (j \in DOMAIN rows /\ t[j] = rows[j])
    BY <1>0, <1>1
  <1>4. Machines(t)
    BY <1>1, <1>3 DEF ListInv, Machines
  <1>5. Shown(t)
    BY <1>3, JustTyped DEF ListInv, Shown
  <1> QED BY <1>2, <1>4, <1>5, PersistStep

LEMMA RemoveStep ==
    ASSUME ListInv, UNCHANGED <<menu, launches, app>>, NEW i \in DOMAIN rows, RemoveComputer(i)
    PROVE  ListInv' /\ Kept
  <1> DEFINE t == RemoveAt(rows, i)
  <1>1. /\ IsList(t) /\ \A j \in DOMAIN t : \E k \in DOMAIN rows : t[j] = rows[k]
        /\ InsertAt(t, i, rows[i]) = rows
    BY Removed DEF ListInv, Machines
  <1>2. app = "Up" /\ (Saved(t) \/ SaveFails(t, rows))
    BY <1>1 DEF RemoveComputer, ListCall, Call, Persist
  <1> HIDE DEF t
  <1>3. Machines(t)
    BY <1>1 DEF ListInv, Machines
  <1>4. Shown(t)
    BY <1>1 DEF ListInv, Shown
  <1> QED BY <1>2, <1>3, <1>4, PersistStep

LEMMA RowEdits ==
    ASSUME ListInv, UNCHANGED <<menu, launches, app>>, NEW i \in DOMAIN rows,
           SetData(i) \/ AddTrusted(i) \/ SetSshConfig(i)
    PROVE  ListInv' /\ Kept
  <1> DEFINE r == rows[i]
  <1>1. IsMachine(r) /\ app = "Up"
    BY DEF ListInv, Machines, SetData, AddTrusted, SetSshConfig, ListCall, Call
  <1>2. SetData(i) =>
          \/ \E h : Edited(i, [r EXCEPT !.host = h])
          \/ \E w : Edited(i, [r EXCEPT !.pass = w, !.meant = Meant(w, launches)])
          \/ Edited(i, [r EXCEPT !.tls = ~r.tls])
    BY DEF SetData
  <1>3. AddTrusted(i) => (\E x : Edited(i, [r EXCEPT !.trusted = x])) \/ UNCHANGED configVars
    BY DEF AddTrusted
  <1>4. SetSshConfig(i) => Edited(i, [r EXCEPT !.ssh = ~r.ssh])
    BY DEF SetSshConfig
  <1> HIDE DEF r
  <1>5. ASSUME NEW c, SamePass(r, c) \/ (\E w : PassIs(c, w)), Edited(i, c)
        PROVE  ListInv' /\ Kept
    BY <1>1, <1>5, EditedStep DEF r, SamePass, PassIs
  <1>6. CASE SetData(i)
    <2>1. ASSUME NEW h, Edited(i, [r EXCEPT !.host = h])
          PROVE  ListInv' /\ Kept
      <3>1. SamePass(r, [r EXCEPT !.host = h])
        BY <1>1, Field
      <3> QED BY <1>5, <2>1, <3>1
    <2>2. ASSUME NEW w, Edited(i, [r EXCEPT !.pass = w, !.meant = Meant(w, launches)])
          PROVE  ListInv' /\ Kept
      <3>1. PassIs([r EXCEPT !.pass = w, !.meant = Meant(w, launches)], w)
        BY <1>1, Field
      <3> QED BY <1>5, <2>2, <3>1
    <2>3. ASSUME NEW b, Edited(i, [r EXCEPT !.tls = b])
          PROVE  ListInv' /\ Kept
      <3>1. SamePass(r, [r EXCEPT !.tls = b])
        BY <1>1, Field
      <3> QED BY <1>5, <2>3, <3>1
    <2> QED BY <1>2, <1>6, <2>1, <2>2, <2>3
  <1>7. CASE AddTrusted(i)
    <2>1. ASSUME NEW x, Edited(i, [r EXCEPT !.trusted = x])
          PROVE  ListInv' /\ Kept
      <3>1. SamePass(r, [r EXCEPT !.trusted = x])
        BY <1>1, Field
      <3> QED BY <1>5, <2>1, <3>1
    <2>2. CASE UNCHANGED configVars
      BY <1>1, <2>2, AskedNot, AskedStep DEF configVars, ListInv
    <2> QED BY <1>3, <1>7, <2>1, <2>2
  <1>8. CASE SetSshConfig(i)
    <2>1. ASSUME NEW b, Edited(i, [r EXCEPT !.ssh = b])
          PROVE  ListInv' /\ Kept
      <3>1. SamePass(r, [r EXCEPT !.ssh = b])
        BY <1>1, Field
      <3> QED BY <1>5, <2>1, <3>1
    <2> QED BY <1>4, <1>8, <2>1
  <1> QED BY <1>6, <1>7, <1>8

LEMMA NewMachine ==
    ASSUME NEW id, NEW host, NEW pass, NEW tls
    PROVE  PassIs(Computer(id, host, pass, tls, launches), pass)
  BY DEF Computer, IsMachine, PassIs

LEMMA Adds ==
    ASSUME ListInv, AddInv, UNCHANGED <<menu, launches, app>>, AddComputer \/ AddNext
    PROVE  ListInv' /\ Kept
  <1>1. app = "Up"
    BY DEF AddInv, AddComputer, AddNext, ListCall, Call
  <1>2. \E c, w : PassIs(c, w) /\ Added(c)
    <2>1. CASE AddComputer
      <3>1. PICK host \in menu.hosts, pass \in menu.words : Added(Computer(nextId, host, pass, FALSE, launches))
        BY <2>1 DEF AddComputer
      <3> DEFINE c == Computer(nextId, host, pass, FALSE, launches)
      <3>2. PassIs(c, pass)
        BY NewMachine
      <3> HIDE DEF c
      <3>3. Added(c)
        BY <3>1 DEF c
      <3> QED BY <3>2, <3>3
    <2>2. CASE AddNext
      <3>1. Added(Computer(nextId, Head(adding).host, "", Head(adding).host \in DualPorts, launches))
        BY <2>2 DEF AddNext
      <3> DEFINE b == Head(adding).host \in DualPorts
                 c == Computer(nextId, Head(adding).host, "", b, launches)
      <3> HIDE DEF b
      <3>2. PassIs(c, "")
        BY NewMachine
      <3> HIDE DEF c
      <3>3. Added(c)
        BY <3>1 DEF b, c
      <3> QED BY <3>2, <3>3
    <2> QED BY <2>1, <2>2
  <1> QED BY <1>1, <1>2, AddedStep DEF PassIs

\* applyImport(): what comes in is legible, or was typed before harm was done.
LEMMA ApplyStepOk ==
    ASSUME ListInv, BackupInv, UNCHANGED <<menu, launches, app>>, ApplyImport
    PROVE  ListInv' /\ Kept
  <1>1. app = "Up"
    BY DEF ApplyImport, BackupCall, Call
  <1>2. CASE UNCHANGED configVars
    BY <1>1, <1>2, AskedNot, AskedStep DEF configVars, ListInv
  <1>3. CASE ~UNCHANGED configVars
    <2> DEFINE new == FoldLeft(ApplyStep, rows, plan)
               R == {rows[j] : j \in DOMAIN rows}
               B == UNION {Brings(plan[j]) : j \in DOMAIN plan}
               S == R \cup B
    <2>1. Saved(new) \/ SaveFails(new, rows)
      BY <1>3 DEF ApplyImport
    <2>2. IsList(rows) /\ IsList(plan) /\ \A j \in DOMAIN rows : rows[j] \in S
      BY DEF ListInv, BackupInv, Machines
    <2>3. \A j \in DOMAIN plan : Brings(plan[j]) \subseteq S
      OBVIOUS
    <2>4. \A c \in S : (\E j \in DOMAIN rows : c = rows[j]) \/ (\E j \in DOMAIN plan : c \in Brings(plan[j]))
      OBVIOUS
    <2> HIDE DEF S
    <2>5. rows \in Seq(S)
      BY <2>2, ListIn
    <2>6. new \in Seq(S)
      BY <2>2, <2>3, <2>5, ApplyFold
    <2> HIDE DEF new
    <2>7. IsList(new) /\ \A j \in DOMAIN new : new[j] \in S
      BY <2>6, ListOf
    <2>8. ASSUME NEW c \in S
          PROVE  IsMachine(c) /\ Fine(c, keys)
      <3>1. CASE \E j \in DOMAIN rows : c = rows[j]
        BY <3>1 DEF ListInv, Machines, Shown
      <3>2. ASSUME NEW j \in DOMAIN plan, c \in Brings(plan[j])
            PROVE  IsMachine(c) /\ Fine(c, keys)
        <4> DEFINE d == plan[j].incoming
                   x == plan[j].existing
        <4>1. IsMachine(d) /\ Fine(d, keys)
          BY SafeIsFine DEF BackupInv, ListInv
        <4>2. c = d \/ c = [d EXCEPT !.id = x]
          BY <3>2 DEF Brings
        <4> HIDE DEF d, x
        <4>3. SamePass(d, [d EXCEPT !.id = x])
          BY <4>1, Field
        <4> QED BY <4>1, <4>2, <4>3 DEF SamePass, Fine, Dated
      <3> QED BY <2>4, <3>1, <3>2
    <2>9. Machines(new) /\ Shown(new)
      BY <2>7, <2>8 DEF Machines, Shown
    <2> QED BY <1>1, <2>1, <2>9, PersistStep
  <1> QED BY <1>2, <1>3

LEMMA NoRows == Machines(<<>>) /\ Shown(<<>>) /\ AllSound(<<>>) /\ Earlier(<<>>) /\ IsList(<<>>)
  <1>1. IsList(<<>>)
    BY EmptySeq DEF IsList
  <1> QED BY <1>1 DEF Machines, Shown, AllSound, Earlier

\* The list call of the user's that is none of the above.
LEMMA OtherCalls ==
    ASSUME ListInv, ExportTo \/ PrepareImport \/ CancelImport
    PROVE  ListInv' /\ Kept
  <1>1. app = "Up" /\ UNCHANGED <<menu, launches, app, rows, file, failed>>
    BY DEF ExportTo, PrepareImport, CancelImport, BackupCall, Call, launchVars, configVars
  <1>2. CASE UNCHANGED keys
    BY <1>1, <1>2, AskedNot, AskedStep DEF ListInv
  <1>3. CASE keys' = [keys EXCEPT !.lost = Harm(keys)]
    <2>1. /\ KeyOk(keys') /\ keys'.platform = keys.platform /\ keys'.tried = keys.tried
          /\ keys'.key = keys.key /\ keys'.ring = keys.ring /\ keys.lost <= keys'.lost
          /\ \A c : Fine(c, keys) => Safe(c, keys')
      BY <1>3, Marked DEF ListInv
    <2>2. KeyOk(keys)'
      BY <1>1, <2>1 DEF KeyOk, KeyType
    <2>3. Kept
      BY <1>1, <2>1 DEF Kept
    <2>4. AllSound(file.rows)'
      <3>1. KeyOk(keys) /\ KeyOk(keys') /\ keys.lost \in Nat /\ keys'.lost \in Nat
        BY <2>1, Lost DEF ListInv
      <3>2. ASSUME NEW i \in DOMAIN file.rows
            PROVE  Sound(file.rows[i], keys')
        <4>1. Sound(file.rows[i], keys)
          BY DEF ListInv, AllSound
        <4> QED BY <2>1, <3>1, <4>1 DEF Sound, Dated
      <3> QED BY <1>1, <3>2 DEF AllSound, Sound, Dated
    <2>5. Shown(rows)'
      <3>1. \A i \in DOMAIN rows : Fine(rows[i], keys')
        BY <2>1, SafeIsFine DEF ListInv, Shown
      <3> QED BY <1>1, <3>1 DEF Shown, Fine, Dated
    <2>7. "Computers" \in failed => Earlier(file.rows)'
      BY <1>1 DEF ListInv, Earlier
    <2>6. /\ "Computers" \notin failed => Decodes(rows, file.rows, keys'.key)
          /\ "Computers" \notin failed /\ ~keys'.tried => NoneUnderKey(file.rows)
      BY <1>1, <2>1 DEF ListInv
    <2> QED BY <1>1, <2>1, <2>2, <2>3, <2>4, <2>5, <2>6, <2>7 DEF ListInv
  <1>4. UNCHANGED keys \/ keys' = [keys EXCEPT !.lost = Harm(keys)]
    BY DEF ExportTo, PrepareImport, CancelImport, configVars
  <1> QED BY <1>2, <1>3, <1>4

LEMMA SameList ==
    ASSUME ListInv, UNCHANGED <<menu, launches, app, rows, file, keys>>,
           "Computers" \in failed' <=> "Computers" \in failed
    PROVE  ListInv'
  <1>1. KeyOk(keys)' /\ AllSound(file.rows)' /\ Shown(rows)'
    BY DEF ListInv, KeyOk, KeyType, AllSound, Sound, Dated, Shown, Fine
  <1>2. Earlier(file.rows)' <=> Earlier(file.rows)
    BY DEF Earlier
  <1> QED BY <1>1, <1>2 DEF ListInv

LEMMA CertCalls ==
    ASSUME ListInv, ImportCert \/ RemoveCert \/ ReloadCerts
    PROVE  ListInv' /\ UNCHANGED <<keys, launches>>
  <1>1. UNCHANGED <<menu, launches, app, rows, file, keys>>
    BY DEF ImportCert, RemoveCert, ReloadCerts, CertCall, launchVars
  <1>2. "Computers" \in failed' <=> "Computers" \in failed
    BY DEF ImportCert, RemoveCert, ReloadCerts, CertSave, CertsRead
  <1> QED BY <1>1, <1>2, SameList

\* Launches.
LEMMA BootStep ==
    ASSUME ListInv, Boot
    PROVE  ListInv' /\ app' # "Up" /\ keys'.lost = keys.lost /\ launches' = launches + 1
  <1>1. /\ app = "Down" /\ app' # "Up"
        /\ launches' = launches + 1
        /\ UNCHANGED <<menu, rows, file, failed>>
    BY DEF Boot
  <1>2. PICK p \in menu.platforms : keys' = [keys EXCEPT !.platform = p, !.tried = FALSE, !.key = 0]
    BY DEF Boot
  <1>3. p \in Platforms
    BY <1>2, MenuAssumption DEF ListInv
  <1>4. PICK pl \in Platforms, tr \in BOOLEAN, ke \in Nat, ri \in Nat, lo \in 0..launches :
          keys = [platform |-> pl, tried |-> tr, key |-> ke, ring |-> ri, lost |-> lo]
    BY DEF ListInv, KeyOk, KeyType
  <1>5. keys' = [platform |-> p, tried |-> FALSE, key |-> 0, ring |-> ri, lost |-> lo]
    BY <1>2, <1>4
  <1>l. launches \in Nat /\ keys.lost \in Nat /\ keys.lost <= launches
    BY Lost DEF ListInv
  <1>6. KeyOk(keys)' /\ ~keys'.tried /\ keys'.ring = keys.ring /\ keys'.lost = keys.lost
    <2>1. lo \in 0..launches' /\ launches' \in Nat
      BY <1>1, <1>l
    <2> QED BY <1>3, <1>4, <1>5, <2>1 DEF KeyOk, KeyType
  <1>8. AllSound(file.rows)' /\ Earlier(file.rows)' /\ launches' # 0
    <2>1. ASSUME NEW i \in DOMAIN file.rows
          PROVE  /\ file.rows[i].meant.launch \in 0..launches' /\ file.rows[i].meant.launch < launches'
                 /\ file.rows[i].meant.launch >= keys.lost => Right(file.rows[i], keys.ring)
      <3>1. Sound(file.rows[i], keys)
        BY DEF ListInv, AllSound
      <3> QED BY <1>1, <1>l, <3>1 DEF Sound, Dated
    <2> QED BY <1>1, <1>l, <1>6, <2>1 DEF AllSound, Sound, Dated, Earlier
  <1>7. rows = <<>>
    BY <1>1 DEF ListInv
  <1>9. Shown(rows)' /\ Machines(rows')
    BY <1>1, <1>7, NoRows DEF Shown
  <1> QED BY <1>1, <1>6, <1>7, <1>8, <1>9 DEF ListInv

\* The file that the migration leaves.
LEMMA MigratedFile ==
    ASSUME ListInv, UNCHANGED <<launches, keys>>, file' \in {file, Broken, Listing(LegacyRows)}
    PROVE  /\ Machines(file'.rows) /\ AllSound(file.rows)'
           /\ launches # 0 /\ Earlier(file.rows) => Earlier(file.rows)'
  <1>1. CASE file' = file
    BY <1>1 DEF ListInv, AllSound, Sound, Dated, Earlier
  <1>2. CASE file' = Broken
    <2>1. file'.rows = <<>> /\ DOMAIN <<>> = {}
      BY <1>2 DEF Broken
    <2> QED BY <2>1, NoRows DEF AllSound, Earlier
  <1>3. CASE file' = Listing(LegacyRows)
    <2> DEFINE d == Computer(0, 1, "p", TRUE, 0)
               w == Bare("p")
               c == [d EXCEPT !.pass = w]
    <2>0. file'.rows = <<c>>
      BY <1>3 DEF Listing, LegacyRows
    <2>d. IsMachine(d) /\ d.meant = Meant("p", 0)
      BY DEF Computer, IsMachine
    <2> HIDE DEF d, w
    <2>1. IsMachine(c) /\ c.pass = w /\ c.meant = Meant("p", 0)
      BY <2>d, OneField DEF IsMachine
    <2> HIDE DEF c
    <2>3. <<c>> \in Seq({c})
      OBVIOUS
    <2>4. IsList(<<c>>) /\ \A i \in DOMAIN <<c>> : <<c>>[i] = c
      <3>1. IsList(<<c>>) /\ \A i \in DOMAIN <<c>> : <<c>>[i] \in {c}
        BY <2>3, ListOf
      <3> QED BY <3>1
    <2>5. launches \in Nat /\ launches' = launches
      BY Lost DEF ListInv
    <2>6. \A i \in DOMAIN file'.rows : file'.rows[i] = c
      BY <2>0, <2>4
    <2>7. c.meant.launch = 0 /\ c.meant.word = "p" /\ Right(c, keys'.ring)
      BY <2>1 DEF Right, AsTyped, Meant, w
    <2>8. Sound(c, keys)' /\ (launches # 0 => 0 < launches)
      BY <2>5, <2>7 DEF Sound, Dated
    <2>9. AllSound(file.rows)'
      BY <2>6, <2>8 DEF AllSound
    <2>10. launches # 0 => Earlier(file.rows)'
      BY <2>5, <2>6, <2>7, <2>8 DEF Earlier
    <2> QED BY <2>0, <2>1, <2>4, <2>9, <2>10 DEF Machines
  <1> QED BY <1>1, <1>2, <1>3

LEMMA MigrationStep ==
    ASSUME ListInv, MigrationRefused \/ MigrateFile
    PROVE  ListInv' /\ app' # "Up" /\ UNCHANGED <<launches, keys>>
  <1>1. /\ app = "Migrating" /\ app' # "Up" /\ app' \in {"Migrating", "Loading"}
        /\ UNCHANGED <<menu, launches, rows, keys>>
    BY DEF MigrationRefused, MigrateFile, MigrationOver
  <1>2. file' \in {file, Broken, Listing(LegacyRows)}
    BY DEF MigrationRefused, MigrateFile, MigrateTo, CutShort
  <1>3. Machines(file'.rows) /\ AllSound(file.rows)' /\ Earlier(file.rows)' /\ launches # 0
    BY <1>1, <1>2, MigratedFile DEF ListInv
  <1>4. rows = <<>>
    BY <1>1 DEF ListInv
  <1>5. KeyOk(keys)' /\ Shown(rows)' /\ Machines(rows')
    BY <1>1, <1>4, NoRows DEF ListInv, KeyOk, KeyType, Shown
  <1> QED BY <1>1, <1>3, <1>4, <1>5 DEF ListInv

LEMMA StopStep ==
    ASSUME ListInv, Stop
    PROVE  ListInv' /\ app' # "Up" /\ UNCHANGED <<launches, keys>>
  <1>1. /\ app' = "Down" /\ rows' = <<>> /\ UNCHANGED <<menu, launches, keys>>
    BY DEF Stop
  <1>2. file' \in {file, Broken, Listing(LegacyRows)}
    BY DEF Stop, MigrateTo, CutShort
  <1>3. Machines(file'.rows) /\ AllSound(file.rows)'
    BY <1>1, <1>2, MigratedFile
  <1>5. KeyOk(keys)' /\ Shown(rows)' /\ Machines(rows')
    BY <1>1, NoRows DEF ListInv, KeyOk, KeyType, Shown
  <1> QED BY <1>1, <1>3, <1>5 DEF ListInv

LEMMA LoadStep ==
    ASSUME ListInv, Load
    PROVE  ListInv' /\ keys.lost <= keys'.lost /\ UNCHANGED launches
  <1> DEFINE Form(list) == \E i \in DOMAIN list : list[i].pass.form = "V3"
             K(list) == IF Form(list) THEN MasterKey(keys) ELSE keys
             Read(list) == [i \in DOMAIN list |-> Parsed(list[i], K(list).key, nextId + i - 1)]
  <1>1. app = "Loading" /\ app' = "Up" /\ UNCHANGED <<menu, launches, file>>
    BY DEF Load
  <1>2. PICK noList \in BOOLEAN :
          LET list == IF noList THEN <<>> ELSE file.rows
          IN  /\ keys' = K(list) /\ rows' = Read(list)
              /\ noList <=> "Computers" \in failed'
    BY DEF Load
  <1> DEFINE list == IF noList THEN <<>> ELSE file.rows
             k == K(list)
             N(i) == nextId + i - 1
  <1>3. /\ keys' = k /\ rows' = [i \in DOMAIN list |-> Parsed(list[i], k.key, N(i))]
        /\ noList <=> "Computers" \in failed'
    BY <1>2
  <1>4. KeyOk(keys) /\ ~keys.tried
    BY <1>1 DEF ListInv
  <1>5. Machines(list) /\ AllSound(list) /\ Earlier(list) /\ Earlier(file.rows)
    BY <1>1, NoRows DEF ListInv
  <1>6. ~noList => list = file.rows
    OBVIOUS
  <1> HIDE DEF list
  <1>7. /\ Asked(keys, k)
        /\ ~k.tried => NoneUnderKey(list)
        /\ ~NoneUnderKey(list) /\ ~Blind(k) /\ k.ring # 0 => k.key = k.ring
        /\ Blind(k) => k.key = 0
    <2>1. CASE Form(list)
      <3>1. k = MasterKey(keys)
        BY <2>1
      <3> HIDE DEF k
      <3>2. Asked(keys, k) /\ k.tried /\ (keys.platform # "Absent" => k.key = k.ring)
        BY <1>4, <3>1, Asking
      <3>3. keys.platform = "Absent" => k = [keys EXCEPT !.tried = TRUE]
        BY <1>4, <3>1 DEF MasterKey
      <3>4. keys.platform = "Absent" => k.key = 0
        BY <1>4, <3>3 DEF KeyOk, KeyType
      <3> QED BY <3>2, <3>4 DEF Asked, Blind
    <2>2. CASE ~Form(list)
      <3>1. k = keys /\ NoneUnderKey(list)
        BY <2>2 DEF NoneUnderKey
      <3> HIDE DEF k
      <3> QED BY <1>4, <3>1, AskedNot DEF KeyOk
    <2> QED BY <2>1, <2>2
  <1> HIDE DEF k, K, Form, N
  <1>8. KeyOk(k) /\ keys.lost <= k.lost /\ k.lost \in Nat /\ launches \in Nat
    BY <1>4, <1>7, Lost DEF Asked
  <1>9. Len(list) \in Nat /\ DOMAIN list = 1..Len(list)
    BY <1>5, ListLen DEF Machines
  <1>10. /\ rows' = [i \in 1..Len(list) |-> rows'[i]]
         /\ \A i \in 1..Len(list) : rows'[i] = Parsed(list[i], k.key, N(i))
    BY <1>3, <1>9
  <1>11. IsList(rows') /\ Len(rows') = Len(list) /\ DOMAIN rows' = DOMAIN list
    BY <1>9, <1>10, ListBy
  <1>12. ASSUME NEW i \in DOMAIN list
         PROVE  /\ IsMachine(rows'[i]) /\ rows'[i].pass = Decode(list[i].pass, k.key)
                /\ rows'[i].meant = list[i].meant
                /\ Parsed(list[i], k.key, rows'[i].id) = rows'[i]
    <2>1. IsMachine(list[i]) /\ rows'[i] = Parsed(list[i], k.key, N(i))
      BY <1>5, <1>9, <1>10 DEF Machines
    <2> DEFINE c == list[i]
               n == N(i)
               key == k.key
               p == Parsed(c, key, n)
    <2>2. IsMachine(c) /\ rows'[i] = p
      BY <2>1
    <2> HIDE DEF c, n, key
    <2>3. IsMachine(p) /\ p.pass = Decode(c.pass, key) /\ p.meant = c.meant /\ Parsed(c, key, p.id) = p
      BY <2>2, Parse
    <2> QED BY <2>2, <2>3 DEF c, key
  <1>13. ASSUME NEW i \in DOMAIN list
         PROVE  Sound(list[i], k) /\ Fine(rows'[i], k)
    <2> DEFINE c == list[i]
    <2>1. Sound(c, keys) /\ c.meant.launch < launches
      BY <1>5 DEF AllSound, Earlier
    <2>2. Sound(c, k) /\ Dated(c)
      BY <1>4, <1>7, <2>1, SoundStill DEF Sound
    <2>3. rows'[i].pass = Decode(c.pass, k.key) /\ rows'[i].meant = c.meant
      BY <1>12
    <2>4. CASE c.meant.launch < k.lost
      BY <2>2, <2>3, <2>4 DEF Fine, Dated
    <2>5. CASE c.meant.launch >= k.lost /\ AsTyped(c)
      <3>1. c.pass.form # "V3" /\ c.pass.text = c.meant.word
        BY <2>5 DEF AsTyped, Bare, V2
      <3>2. Decode(c.pass, k.key) = c.meant.word
        BY <3>1 DEF Decode
      <3> QED BY <2>2, <2>3, <3>2 DEF Fine, Dated
    <2>6. CASE c.meant.launch >= k.lost /\ ~AsTyped(c)
      <3>1. k.ring # 0 /\ c.pass = V3(k.ring, c.meant.word)
        BY <2>2, <2>6 DEF Sound, Right
      <3>2. c.pass.form = "V3"
        BY <3>1 DEF V3
      <3>3. CASE Blind(k)
        <4>1. k.key = 0
          BY <1>7, <3>3
        <4>2. Decode(c.pass, k.key) = ""
          BY <3>2, <4>1 DEF Decode
        <4>3. rows'[i].pass = "" /\ rows'[i].meant.launch = c.meant.launch
          BY <2>3, <4>2
        <4>4. Dated(rows'[i]) /\ rows'[i].meant.launch < launches
          BY <2>1, <2>2, <4>3 DEF Dated
        <4>5. Fine(rows'[i], k)
          BY <3>3, <4>3, <4>4, Zenon DEF Fine
        <4> QED BY <2>2, <4>5
      <3>4. CASE ~Blind(k)
        <4>1. k.key = k.ring
          BY <1>7, <3>1, <3>2, <3>4 DEF NoneUnderKey
        <4>2. Decode(c.pass, k.key) = c.meant.word
          BY <3>1, <4>1 DEF Decode, V3
        <4> QED BY <2>2, <2>3, <4>2 DEF Fine, Dated
      <3> QED BY <3>3, <3>4
    <2>7. c.meant.launch < k.lost \/ c.meant.launch >= k.lost
      BY <1>8, <2>2 DEF Dated
    <2> QED BY <2>2, <2>4, <2>5, <2>6, <2>7
  <1>14. Machines(rows') /\ Decodes(rows', list, k.key)
    BY <1>11, <1>12 DEF Machines, Decodes
  <1>15. Shown(rows)'
    <2>1. \A i \in DOMAIN rows' : Fine(rows'[i], keys')
      BY <1>3, <1>11, <1>13
    <2> QED BY <1>1, <2>1 DEF Shown, Fine, Dated
  <1>16. AllSound(file.rows)' /\ Earlier(file.rows)'
    <2>1. ASSUME NEW i \in DOMAIN file.rows
          PROVE  Sound(file.rows[i], keys')
      <3>1. Sound(file.rows[i], keys) /\ file.rows[i].meant.launch < launches
        BY <1>5 DEF ListInv, AllSound, Earlier
      <3> QED BY <1>3, <1>4, <1>7, <3>1, SoundStill
    <2>2. Earlier(file.rows)'
      BY <1>1, <1>5 DEF Earlier
    <2> QED BY <1>1, <2>1, <2>2 DEF AllSound, Sound, Dated
  <1>18. KeyOk(keys)'
    BY <1>1, <1>3, <1>8 DEF KeyOk, KeyType
  <1>17. menu' \in Menus /\ Machines(file'.rows) /\ file' = file
    BY <1>1 DEF ListInv
  <1> QED BY <1>1, <1>3, <1>6, <1>7, <1>8, <1>14, <1>15, <1>16, <1>17, <1>18 DEF ListInv

-----------------------------------------------------------------------------
(* The backup and the plan of an import.                                   *)

\* Nothing that a loss does not excuse happens to a backup that stays.
LEMMA BackupStays ==
    ASSUME ListInv, ListInv', BackupInv, UNCHANGED backup, plan' = plan \/ plan' = <<>>,
           keys.lost <= keys'.lost \/ keys'.lost = keys.lost,
           launches' = launches \/ launches' = launches + 1
    PROVE  BackupInv'
  <1>0. /\ keys.lost \in Nat /\ keys'.lost \in Nat
        /\ launches \in Nat /\ launches' \in Nat
    BY DEF ListInv, KeyOk, KeyType
  <1>s. ASSUME NEW c, Safe(c, keys)
        PROVE  Safe(c, keys)'
    BY <1>0, <1>s DEF Safe, Dated
  <1>1. Machines(backup') /\ AllSafe(backup)'
    BY <1>s DEF BackupInv, AllSafe
  <1>2. CASE plan' = plan
    BY <1>1, <1>2, <1>s DEF BackupInv
  <1>3. CASE plan' = <<>>
    BY <1>1, <1>3, NoRows, NoEntries DEF BackupInv
  <1> QED BY <1>2, <1>3

LEMMA ExportStep ==
    ASSUME ListInv, BackupInv, ExportTo
    PROVE  BackupInv'
  <1>1. ListInv' /\ keys.lost <= keys'.lost /\ launches' = launches
    BY OtherCalls DEF Kept, ExportTo, BackupCall, Call, launchVars
  <1>2. CASE UNCHANGED backup
    BY <1>1, <1>2, BackupStays DEF ExportTo
  <1>3. CASE ~UNCHANGED backup
    <2>1. plan' = <<>> /\ backup' = rows /\ keys' = [keys EXCEPT !.lost = Harm(keys)]
      BY <1>3 DEF ExportTo
    <2>2. \A c : Fine(c, keys) => Safe(c, keys')
      BY <2>1, Marked DEF ListInv
    <2>s. \A i \in DOMAIN rows : Safe(rows[i], keys')
      BY <2>2 DEF ListInv, Shown
    <2>3. Machines(backup') /\ AllSafe(backup)'
      BY <1>1, <2>1, <2>s DEF ListInv, AllSafe, Safe, Dated
    <2> QED BY <2>1, <2>3, NoRows, NoEntries DEF BackupInv
  <1> QED BY <1>2, <1>3

\* What a preview shows is what the backup holds, under identities.
LEMMA PrepareStep ==
    ASSUME ListInv, BackupInv, PrepareImport
    PROVE  BackupInv' /\ (DistinctIds => NoneTwice(plan'))
  <1>1. UNCHANGED <<keys, backup, launches>>
    BY DEF PrepareImport, configVars, BackupCall, Call, launchVars
  <1>0. ListInv'
    BY OtherCalls
  <1>s. \A c : Safe(c, keys) <=> Safe(c, keys)'
    BY <1>1 DEF Safe, Dated
  <1>2. CASE plan' = <<>>
    BY <1>0, <1>1, <1>2, BackupStays, NoEntries
  <1>3. CASE plan' # <<>>
    <2> DEFINE Id(i) == IF backup[i].id = 0 THEN nextId + i - 1 ELSE backup[i].id
               incoming == [i \in DOMAIN backup |-> [backup[i] EXCEPT !.id = Id(i)]]
               C == {incoming[i] : i \in DOMAIN backup}
    <2>1. plan' = FoldLeft(PlanStep, [claimed |-> {}, plan |-> <<>>], incoming).plan
      BY <1>3 DEF PrepareImport
    <2>2. IsList(backup) /\ DOMAIN backup = 1..Len(backup) /\ Len(backup) \in Nat
      BY ListLen DEF BackupInv, Machines
    <2>3. ASSUME NEW i \in DOMAIN backup
          PROVE  SamePass(backup[i], incoming[i])
      <3> DEFINE c == backup[i]
                 x == Id(i)
      <3>1. IsMachine(c) /\ incoming[i] = [c EXCEPT !.id = x]
        BY DEF BackupInv, Machines
      <3> HIDE DEF c, x, incoming
      <3>2. SamePass(c, [c EXCEPT !.id = x])
        BY <3>1, Field
      <3> QED BY <3>1, <3>2 DEF c
    <2>4. incoming \in Seq(C)
      <3>1. incoming = [i \in 1..Len(backup) |-> incoming[i]] /\ DOMAIN incoming = DOMAIN backup
        BY <2>2
      <3> HIDE DEF incoming
      <3>2. IsList(incoming)
        BY <2>2, <3>1, ListBy
      <3> QED BY <3>1, <3>2, ListIn
    <2> HIDE DEF incoming, Id
    <2>5. /\ IsList(plan') /\ \A i \in DOMAIN plan' : plan'[i].incoming \in C
          /\ Foretold(plan') /\ (DistinctIds => NoneTwice(plan'))
      <3> HIDE DEF C
      <3>1. IsList(rows)
        BY DEF ListInv, Machines
      <3> QED BY <2>1, <2>4, <3>1, PlanFold
    <2>6. ASSUME NEW c \in C
          PROVE  IsMachine(c) /\ Safe(c, keys)
      BY <2>3 DEF SamePass, BackupInv, AllSafe, Safe, Dated
    <2> HIDE DEF C
    <2>7. \A i \in DOMAIN plan' : /\ IsMachine(plan'[i].incoming)
                                  /\ Safe(plan'[i].incoming, keys)
      BY <2>5, <2>6
    <2>8. Machines(backup') /\ AllSafe(backup)'
      BY <1>1, <1>s DEF BackupInv, AllSafe
    <2> QED BY <1>s, <2>5, <2>7, <2>8 DEF BackupInv
  <1> QED BY <1>2, <1>3

-----------------------------------------------------------------------------
(* The certificates.                                                       *)

LEMMA CertsStay ==
    ASSUME CertInv, UNCHANGED <<app, certVars>>, "Certs" \in failed' <=> "Certs" \in failed
    PROVE  CertInv'
  BY DEF CertInv, certVars

LEMMA CertsStep ==
    ASSUME CertInv, ImportCert \/ RemoveCert \/ ReloadCerts
    PROVE  CertInv'
  <1>1. UNCHANGED app
    BY DEF ImportCert, RemoveCert, ReloadCerts, CertCall, launchVars
  <1>2. CASE ImportCert \/ RemoveCert
    <2>1. PICK new : CertSave(new)
      BY <1>2 DEF ImportCert, RemoveCert
    <2> QED BY <1>1, <2>1 DEF CertSave, Listing, CertInv
  <1>3. CASE ReloadCerts
    <2>1. UNCHANGED certFile /\ (CertsRead(FALSE) \/ CertsRead(TRUE))
      BY <1>3 DEF ReloadCerts
    <2> QED BY <1>1, <2>1 DEF CertsRead, CertInv
  <1> QED BY <1>2, <1>3

LEMMA CertsLoaded ==
    ASSUME Load
    PROVE  CertInv'
  <1>1. PICK noCerts \in BOOLEAN : /\ certs' = IF noCerts THEN <<>> ELSE certFile.rows
                                   /\ noCerts => "Certs" \in failed'
    BY DEF Load
  <1>2. UNCHANGED certFile
    BY DEF Load
  <1> QED BY <1>1, <1>2 DEF CertInv

-----------------------------------------------------------------------------
(* The steps of the fleet.                                                 *)

\* A step of the others, who leave the store alone.
LEMMA StoreStays ==
    ASSUME StoreInv, UNCHANGED restOfStore, app' # "Up" => adding' = <<>>
    PROVE  StoreInv'
  <1>1. /\ UNCHANGED <<menu, launches, app, rows, file, keys, failed, backup, plan, certs, certFile>>
        /\ ListInv /\ BackupInv /\ CertInv
    BY DEF StoreInv, restOfStore, configVars, certVars, backupVars, launchVars
  <1>2. ListInv'
    BY <1>1, SameList
  <1>3. BackupInv'
    BY <1>1, <1>2, BackupStays
  <1>4. CertInv'
    BY <1>1 DEF CertInv
  <1> QED BY <1>2, <1>3, <1>4 DEF StoreInv, AddInv

\* A call on the list that touches neither the certificates nor the backup.
LEMMA ListCalled ==
    ASSUME StoreInv, ListInv', Kept, UNCHANGED <<launches, app, certVars, backupVars>>,
           app' # "Up" => adding' = <<>>
    PROVE  StoreInv'
  <1>1. BackupInv'
    BY BackupStays DEF StoreInv, Kept, backupVars
  <1>2. CertInv'
    BY CertsStay DEF StoreInv, Kept
  <1> QED BY <1>1, <1>2 DEF StoreInv, AddInv

LEMMA StoreCalled ==
    ASSUME StoreInv, StoreCall, UNCHANGED adding
    PROVE  StoreInv'
  <1>0. ListInv /\ BackupInv /\ CertInv /\ AddInv
    BY DEF StoreInv
  <1>1. CASE \E i \in DOMAIN rows : SetData(i) \/ AddTrusted(i) \/ SetSshConfig(i) \/ RemoveComputer(i)
    <2>1. PICK i \in DOMAIN rows : SetData(i) \/ AddTrusted(i) \/ SetSshConfig(i) \/ RemoveComputer(i)
      BY <1>1
    <2>2. app = "Up" /\ UNCHANGED <<menu, launches, app, certVars, backupVars>>
      BY <2>1 DEF SetData, AddTrusted, SetSshConfig, RemoveComputer, ListCall, Call, launchVars
    <2>3. ListInv' /\ Kept
      BY <1>0, <2>1, <2>2, RowEdits, RemoveStep
    <2> QED BY <2>2, <2>3, ListCalled
  <1>2. CASE AddComputer
    <2>1. app = "Up" /\ UNCHANGED <<menu, launches, app, certVars, backupVars>>
      BY <1>2 DEF AddComputer, ListCall, Call, launchVars
    <2>2. ListInv' /\ Kept
      BY <1>0, <1>2, <2>1, Adds
    <2> QED BY <2>1, <2>2, ListCalled
  <1>3. CASE ExportTo \/ PrepareImport \/ ApplyImport \/ CancelImport
    <2>1. app = "Up" /\ UNCHANGED <<menu, launches, app, certVars>>
      BY <1>3 DEF ExportTo, PrepareImport, ApplyImport, CancelImport, BackupCall, Call, launchVars
    <2>2. ListInv' /\ Kept
      BY <1>0, <1>3, <2>1, OtherCalls, ApplyStepOk
    <2>3. BackupInv'
      <3>1. CASE ExportTo \/ PrepareImport
        BY <1>0, <3>1, ExportStep, PrepareStep
      <3>2. CASE ApplyImport \/ CancelImport
        <4>1. UNCHANGED backup /\ (plan' = plan \/ plan' = <<>>)
          BY <3>2 DEF ApplyImport, CancelImport
        <4> QED BY <1>0, <2>1, <2>2, <4>1, BackupStays DEF Kept
      <3> QED BY <1>3, <3>1, <3>2
    <2>4. CertInv'
      BY <1>0, <2>1, <2>2, CertsStay DEF Kept
    <2> QED BY <2>1, <2>2, <2>3, <2>4 DEF StoreInv, AddInv
  <1>4. CASE ImportCert \/ RemoveCert \/ ReloadCerts
    <2>1. UNCHANGED <<app, backup, plan>>
      BY <1>4 DEF ImportCert, RemoveCert, ReloadCerts, CertCall, launchVars, backupVars
    <2>2. ListInv' /\ UNCHANGED <<keys, launches>> /\ CertInv'
      BY <1>0, <1>4, CertCalls, CertsStep
    <2>3. BackupInv'
      BY <1>0, <2>1, <2>2, BackupStays
    <2> QED BY <1>0, <2>1, <2>2, <2>3 DEF StoreInv, AddInv
  <1> QED BY <1>1, <1>2, <1>3, <1>4 DEF StoreCall

LEMMA Launched ==
    ASSUME StoreInv, Startup
    PROVE  StoreInv'
  <1>0. ListInv /\ BackupInv /\ CertInv /\ AddInv
    BY DEF StoreInv
  <1>1. UNCHANGED <<backup, plan>>
    BY DEF Startup, Boot, MigrationRefused, MigrateFile, MigrationOver, Load, backupVars
  <1>2. app # "Up" /\ UNCHANGED adding
    BY DEF Startup, Boot, MigrationRefused, MigrateFile, Load, scanVars
  <1>3. /\ ListInv' /\ CertInv' /\ (keys.lost <= keys'.lost \/ keys'.lost = keys.lost)
        /\ launches' = launches \/ launches' = launches + 1
    <2>1. CASE Boot \/ MigrationRefused \/ MigrateFile
      BY <1>0, <2>1, BootStep, MigrationStep DEF CertInv
    <2>2. CASE Load
      BY <1>0, <2>2, LoadStep, CertsLoaded
    <2> QED BY <2>1, <2>2 DEF Startup
  <1>4. BackupInv'
    BY <1>0, <1>1, <1>3, BackupStays
  <1> QED BY <1>0, <1>2, <1>3, <1>4 DEF StoreInv, AddInv

LEMMA StoreStep ==
    ASSUME StoreInv, [Next]_vars
    PROVE  StoreInv'
  <1>0. ListInv /\ BackupInv /\ CertInv /\ AddInv
    BY DEF StoreInv
  <1>1. CASE Startup
    BY <1>1, Launched
  <1>2. CASE User
    <2>1. CASE StoreCall /\ UNCHANGED <<batchVars, scanVars>>
      BY <2>1, StoreCalled DEF scanVars
    <2>2. CASE (StartBatch \/ RetryFailed) /\ UNCHANGED <<restOfStore, scanVars>>
      <3>1. UNCHANGED restOfStore /\ UNCHANGED <<app, adding>>
        BY <2>2 DEF restOfStore, launchVars, scanVars
      <3> QED BY <1>0, <3>1, StoreStays DEF AddInv
    <2>3. CASE (StartScan \/ StopScan \/ SetSelected \/ AddSelected) /\ UNCHANGED restOfStore
      <3>1. app = "Up" /\ UNCHANGED app
        BY <2>3 DEF StartScan, StopScan, SetSelected, AddSelected, Call, restOfStore, launchVars
      <3> QED BY <2>3, <3>1, StoreStays
    <2> QED BY <1>2, <2>1, <2>2, <2>3 DEF User
  <1>3. CASE Inside
    <2>1. CASE Pump /\ UNCHANGED <<restOfStore, calls, scanVars>>
      BY <1>0, <2>1, StoreStays DEF AddInv, scanVars, restOfStore, launchVars
    <2>2. CASE AddNext /\ UNCHANGED <<calls, certVars, backupVars, launchVars, batchVars>>
      <3>1. app = "Up" /\ UNCHANGED <<menu, launches, app, certVars, backupVars>>
        BY <1>0, <2>2 DEF AddInv, AddNext, launchVars
      <3>2. ListInv' /\ Kept
        BY <1>0, <2>2, <3>1, Adds
      <3> QED BY <3>1, <3>2, ListCalled
    <2> QED BY <1>3, <2>1, <2>2 DEF Inside
  <1>4. CASE Timers \/ Answers \/ Result
    <2>1. UNCHANGED restOfStore /\ UNCHANGED <<app, adding>>
      BY <1>4 DEF Timers, Answers, Result, SendBurst, WaitElapsed, Finished, ReadAnswer, LookupDone,
                  restOfStore, launchVars, scanVars
    <2> QED BY <1>0, <2>1, StoreStays DEF AddInv
  <1>5. CASE Quit
    <2>1. Stop /\ adding' = <<>>
      BY <1>5 DEF Quit, ScanGone
    <2>2. ListInv' /\ app' # "Up" /\ UNCHANGED <<launches, keys>>
      BY <1>0, <2>1, StopStep
    <2>3. BackupInv'
      <3>1. UNCHANGED backup /\ plan' = <<>>
        BY <2>1 DEF Stop
      <3> QED BY <1>0, <2>2, <3>1, BackupStays
    <2> QED BY <2>1, <2>2, <2>3 DEF StoreInv, CertInv, AddInv
  <1>6. CASE UNCHANGED vars
    <2>1. UNCHANGED restOfStore /\ UNCHANGED <<app, adding>>
      BY <1>6 DEF vars, storeVars, restOfStore, launchVars, scanVars
    <2> QED BY <1>0, <2>1, StoreStays DEF AddInv
  <1> QED BY <1>1, <1>2, <1>3, <1>4, <1>5, <1>6 DEF Next

LEMMA StoreStarts == Init => StoreInv
  <1> SUFFICES ASSUME Init
               PROVE  StoreInv
    OBVIOUS
  <1>1. /\ menu \in Menus /\ app = "Down" /\ rows = <<>> /\ plan = <<>> /\ adding = <<>>
        /\ file = menu.file /\ backup = menu.backup
        /\ keys = [platform |-> "Absent", tried |-> FALSE, key |-> 0, ring |-> 0, lost |-> 0]
        /\ launches = 0
    BY DEF Init, StoreInit, ScanInit
  <1>2. /\ keys.tried = FALSE /\ keys.key = 0 /\ keys.ring = 0 /\ keys.lost = 0
        /\ KeyOk(keys)
    BY <1>1 DEF KeyOk, KeyType, Platforms
  <1>3. /\ Machines(file.rows) /\ AllSound(file.rows)
        /\ Machines(backup) /\ AllSafe(backup)
    <2>1. Machines(file.rows) /\ AllSound(file.rows)
      BY <1>1, MenuAssumption DEF Machines, AllSound, Sound, Dated, Right
    <2>2. Machines(backup) /\ AllSafe(backup)
      <3>1. IsList(backup) /\ menu \in Menus /\ backup = menu.backup
        BY <1>1, MenuAssumption
      <3>2. ASSUME NEW i \in DOMAIN backup
            PROVE  IsMachine(backup[i]) /\ Safe(backup[i], keys)
        <4>1. IsMachine(backup[i]) /\ backup[i].meant = Meant(backup[i].pass, 0)
          BY <3>1, MenuAssumption
        <4>2. backup[i].meant.word = backup[i].pass /\ backup[i].meant.launch = 0
          BY <4>1 DEF Meant
        <4> QED BY <1>1, <4>1, <4>2 DEF Safe, Dated
      <3> QED BY <3>1, <3>2 DEF Machines, AllSafe
    <2> QED BY <2>1, <2>2
  <1>4. ListInv
    BY <1>1, <1>2, <1>3, NoRows DEF ListInv
  <1>5. BackupInv
    BY <1>1, <1>3, NoRows, NoEntries DEF BackupInv
  <1> QED BY <1>1, <1>4, <1>5 DEF StoreInv, CertInv, AddInv

\* The store's inductive invariant holds of every behaviour of the fleet.
THEOREM StoreInductive == Spec => []StoreInv
  <1>1. Init => StoreInv
    BY StoreStarts
  <1>2. StoreInv /\ [Next]_vars => StoreInv'
    BY StoreStep
  <1> QED BY <1>1, <1>2, PTL DEF Spec

\* persist() and its take-backs, setStore() and CertModel: for every list, every order
\* of calls and every fault of disk and key store, the files decode to what is shown.
THEOREM FilesDecode == Spec => []Durable
  <1>1. StoreInv => Durable
    BY DEF StoreInv, ListInv, CertInv, Decodes, Durable
  <1> QED BY <1>1, StoreInductive, PTL

\* SecretCodec, KeyStore and the backup codec, whatever the platform's store does at each
\* launch: a password is as it was typed, unless a later launch put a new key in the place
\* of the store's or wrote the list down without the store, or this one only shows it empty.
THEOREM PasswordsSurvive == Spec => []SecretsKept
  <1>1. StoreInv => SecretsKept
    BY DEF StoreInv, ListInv, Shown, Fine, SecretsKept
  <1> QED BY <1>1, StoreInductive, PTL

\* The rows are a list at all times: what a batch relies on.
LEMMA RowsAreListed == Spec => [](Len(rows) \in Nat)
  <1>1. StoreInv => Len(rows) \in Nat
    BY ListLen DEF StoreInv, ListInv, Machines
  <1> QED BY <1>1, StoreInductive, PTL

-----------------------------------------------------------------------------
(* An import changes what it was shown to change.                          *)

\* Where an entry ends up: in a row it was planned for, or in a new one.
Lands(c, e) == c = e.incoming \/ (e.existing # 0 /\ c = [e.incoming EXCEPT !.id = e.existing])

\* The list when the entries of `done` have been applied.
Applied(list, base, entries, done) ==
    /\ IsList(list) /\ DOMAIN base \subseteq DOMAIN list
    /\ \A i \in DOMAIN base :
         (\A j \in DOMAIN entries : entries[j].existing # base[i].id) => list[i] = base[i]
    /\ \A j \in done : \E i \in DOMAIN list : Lands(list[i], entries[j])

LEMMA ApplyOne ==
    ASSUME NEW base, NEW entries, NEW n \in Nat, DOMAIN entries = 1..n,
           \A j \in 1..n : IsMachine(entries[j].incoming),
           Foretold(entries), NoneTwice(entries),
           NEW done \in SUBSET (1..n), NEW k \in 1..n, \A j \in done : j < k,
           NEW list, Applied(list, base, entries, done)
    PROVE  Applied(ApplyStep(list, entries[k]), base, entries, done \cup {k})
  <1> DEFINE e == entries[k]
             hits == {i \in DOMAIN list : list[i].id = e.existing}
             c == [e.incoming EXCEPT !.id = e.existing]
             m == Min(hits)
  <1>1. /\ IsList(list) /\ DOMAIN base \subseteq DOMAIN list
        /\ \A i \in DOMAIN base :
             (\A j \in 1..n : entries[j].existing # base[i].id) => list[i] = base[i]
        /\ \A j \in done : \E i \in DOMAIN list : Lands(list[i], entries[j])
    BY DEF Applied
  <1>2. Len(list) \in Nat /\ DOMAIN list = 1..Len(list)
    BY <1>1, ListLen
  <1>3. CASE e.existing # 0 /\ hits # {}
    <2>1. m \in hits
      <3>1. hits \in SUBSET Nat
        BY <1>2
      <3> HIDE DEF hits
      <3> QED BY <1>3, <3>1, MinLeast
    <2>2. m \in DOMAIN list /\ list[m].id = e.existing
      BY <2>1
    <2>3. ApplyStep(list, e) = ReplaceAt(list, m, c)
      BY <1>3 DEF ApplyStep
    <2> HIDE DEF m, c, hits
    <2> DEFINE t == ReplaceAt(list, m, c)
    <2>4. IsList(t) /\ DOMAIN t = DOMAIN list /\ \A j \in DOMAIN t : t[j] = IF j = m THEN c ELSE list[j]
      BY <1>1, <2>2, Replaced
    <2> HIDE DEF t
    <2>5. ASSUME NEW i \in DOMAIN base, \A j \in 1..n : entries[j].existing # base[i].id
          PROVE  t[i] = base[i]
      <3>1. list[i] = base[i] /\ i \in DOMAIN list
        BY <1>1, <2>5
      <3>2. i # m
        BY <2>2, <2>5, <3>1
      <3> QED BY <2>4, <3>1, <3>2
    <2>6. Lands(t[m], e) /\ m \in DOMAIN t
      BY <1>3, <2>2, <2>4 DEF Lands, c
    <2>7. ASSUME NEW j \in done
          PROVE  \E i \in DOMAIN t : Lands(t[i], entries[j])
      <3>1. PICK i \in DOMAIN list : Lands(list[i], entries[j])
        BY <1>1
      <3> DEFINE f == entries[j]
      <3>2. IsMachine(f.incoming) /\ j \in 1..n /\ j < k
        OBVIOUS
      <3>3. i # m
        <4> SUFFICES ASSUME i = m
                     PROVE  FALSE
          OBVIOUS
        <4>1. list[i].id = e.existing
          BY <2>2
        <4>2. CASE list[i] = f.incoming
          <5>1. f.existing = e.existing
            BY <1>3, <3>2, <4>1, <4>2 DEF Foretold
          <5> QED BY <1>3, <3>2, <5>1 DEF NoneTwice
        <4>3. CASE f.existing # 0 /\ list[i] = [f.incoming EXCEPT !.id = f.existing]
          <5>1. list[i].id = f.existing
            BY <3>2, <4>3, OneField DEF IsMachine
          <5>2. f.existing = e.existing
            BY <4>1, <5>1
          <5> QED BY <1>3, <3>2, <5>2 DEF NoneTwice
        <4> QED BY <3>1, <4>2, <4>3 DEF Lands
      <3> QED BY <2>4, <3>1, <3>3
    <2>8. \A j \in done \cup {k} : \E i \in DOMAIN t : Lands(t[i], entries[j])
      BY <2>6, <2>7
    <2>9. Applied(t, base, entries, done \cup {k})
      BY <1>1, <2>4, <2>5, <2>8 DEF Applied
    <2> QED BY <2>3, <2>9 DEF t
  <1>4. CASE ~(e.existing # 0 /\ hits # {})
    <2> DEFINE t == Append(list, e.incoming)
    <2>1. ApplyStep(list, e) = t
      BY <1>4 DEF ApplyStep
    <2>2. /\ IsList(t) /\ DOMAIN t = 1..(Len(list) + 1) /\ t[Len(list) + 1] = e.incoming
          /\ \A j \in DOMAIN list : t[j] = list[j]
      BY <1>1, Appended
    <2> HIDE DEF t
    <2>3. DOMAIN list \subseteq DOMAIN t /\ Len(list) + 1 \in DOMAIN t
      BY <1>2, <2>2
    <2>4. \A j \in done \cup {k} : \E i \in DOMAIN t : Lands(t[i], entries[j])
      <3>1. \E i \in DOMAIN t : Lands(t[i], e)
        BY <2>2, <2>3 DEF Lands
      <3>2. ASSUME NEW j \in done
            PROVE  \E i \in DOMAIN t : Lands(t[i], entries[j])
        <4>1. PICK i \in DOMAIN list : Lands(list[i], entries[j])
          BY <1>1
        <4> QED BY <2>2, <2>3, <4>1
      <3> QED BY <3>1, <3>2
    <2>5. Applied(t, base, entries, done \cup {k})
      BY <1>1, <2>2, <2>3, <2>4 DEF Applied
    <2> QED BY <2>1, <2>5
  <1> QED BY <1>3, <1>4

LEMMA ApplyAll ==
    ASSUME NEW base, IsList(base), NEW entries, IsList(entries),
           \A j \in DOMAIN entries : IsMachine(entries[j].incoming),
           Foretold(entries), NoneTwice(entries)
    PROVE  Applied(FoldLeft(ApplyStep, base, entries), base, entries, DOMAIN entries)
  <1> DEFINE n == Len(entries)
             S == {base[i] : i \in DOMAIN base} \cup UNION {Brings(entries[j]) : j \in DOMAIN entries}
  <1>1. n \in Nat /\ DOMAIN entries = 1..n
    BY ListLen
  <1>2. PICK h : IsApply(h, base, entries) /\ FoldLeft(ApplyStep, base, entries) = h[1..n]
    <2>1. (\A i \in DOMAIN base : base[i] \in S) /\ \A j \in DOMAIN entries : Brings(entries[j]) \subseteq S
      OBVIOUS
    <2> HIDE DEF S
    <2>2. base \in Seq(S)
      BY <2>1, ListIn
    <2> QED BY <2>1, <2>2, ApplyRec
  <1> HIDE DEF n
  <1> DEFINE G == [s \in SUBSET (1..n) |-> Applied(h[s], base, entries, s)]
  <1>3. \A s \in SUBSET (1..n) : G[s] \in {TRUE} <=> Applied(h[s], base, entries, s)
    BY DEF Applied
  <1> HIDE DEF G
  <1>4. Applied(h[{}], base, entries, {})
    BY <1>2 DEF IsApply, Applied
  <1>5. ASSUME NEW s \in (SUBSET (1..n)) \ {{}}, Applied(h[s \ {Max(s)}], base, entries, s \ {Max(s)})
        PROVE  Applied(h[s], base, entries, s)
    <2> DEFINE k == Max(s)
               done == s \ {k}
               list == h[done]
    <2>1. h[s] = ApplyStep(list, entries[k]) /\ Applied(list, base, entries, done)
      BY <1>2, <1>5 DEF IsApply, n
    <2>2. k \in s /\ \A j \in s : j <= k
      BY <1>1, MaxGreatest
    <2> HIDE DEF k, list
    <2>3. done \cup {k} = s /\ done \in SUBSET (1..n) /\ k \in 1..n
      BY <2>2
    <2>4. ASSUME NEW j \in done
          PROVE  j < k
      <3>1. j \in 1..n /\ j # k /\ j <= k
        BY <2>2
      <3> QED BY <1>1, <2>3, <3>1
    <2> HIDE DEF done
    <2>5. Applied(ApplyStep(list, entries[k]), base, entries, done \cup {k})
      BY <1>1, <2>1, <2>3, <2>4, ApplyOne
    <2> QED BY <2>1, <2>3, <2>5
  <1>6. G[{}] \in {TRUE}
    BY <1>3, <1>4
  <1>7. ASSUME NEW s \in (SUBSET (1..n)) \ {{}}, G[s \ {Max(s)}] \in {TRUE}
        PROVE  G[s] \in {TRUE}
    <2>1. s \ {Max(s)} \in SUBSET (1..n) /\ s \in SUBSET (1..n)
      OBVIOUS
    <2>2. Applied(h[s \ {Max(s)}], base, entries, s \ {Max(s)})
      BY <1>3, <1>7, <2>1
    <2> QED BY <1>3, <1>5, <2>1, <2>2
  <1>8. G[1..n] \in {TRUE}
    BY <1>1, <1>6, <1>7, FoldClosed
  <1>9. 1..n \in SUBSET (1..n)
    OBVIOUS
  <1>10. Applied(h[1..n], base, entries, 1..n)
    BY <1>3, <1>8, <1>9
  <1> QED BY <1>1, <1>2, <1>10

\* A machine that landed is the one that came, but for its identity.
LEMMA Landed ==
    ASSUME NEW c, NEW e, IsMachine(e.incoming), Lands(c, e)
    PROVE  [c EXCEPT !.id = 0] = [e.incoming EXCEPT !.id = 0]
  <1> DEFINE d == e.incoming
             x == e.existing
  <1>1. CASE c = d
    BY <1>1
  <1>2. CASE c = [d EXCEPT !.id = x]
    BY <1>2
  <1> QED BY <1>1, <1>2 DEF Lands

LEMMA ImportStep ==
    ASSUME StoreInv, ApplyImport, NoneTwice(plan), rows' # rows, backupState' = "Done"
    PROVE  Imported
  <1> DEFINE new == FoldLeft(ApplyStep, rows, plan)
  <1>1. rows' = new
    BY DEF ApplyImport, Saved, SaveFails, configVars
  <1>2. /\ IsList(rows) /\ IsList(plan) /\ Foretold(plan)
        /\ \A j \in DOMAIN plan : IsMachine(plan[j].incoming)
    BY DEF StoreInv, ListInv, BackupInv, Machines
  <1>3. Applied(new, rows, plan, DOMAIN plan)
    BY <1>2, ApplyAll
  <1> HIDE DEF new
  <1>4. ASSUME NEW e \in ToSet(plan)
        PROVE  \E i \in DOMAIN rows' : [rows'[i] EXCEPT !.id = 0] = [e.incoming EXCEPT !.id = 0]
    <2>1. PICK j \in DOMAIN plan : e = plan[j]
      BY DEF ToSet
    <2>2. PICK i \in DOMAIN new : Lands(new[i], e)
      BY <1>3, <2>1 DEF Applied
    <2> DEFINE c == new[i]
    <2>3. IsMachine(e.incoming) /\ Lands(c, e)
      BY <1>2, <2>1, <2>2
    <2> HIDE DEF c
    <2>4. [c EXCEPT !.id = 0] = [e.incoming EXCEPT !.id = 0]
      BY <2>3, Landed
    <2> QED BY <1>1, <2>4 DEF c
  <1>5. ASSUME NEW i \in DOMAIN rows, \A e \in ToSet(plan) : e.existing # rows[i].id
        PROVE  rows'[i] = rows[i]
    <2>1. \A j \in DOMAIN plan : plan[j].existing # rows[i].id
      BY <1>5 DEF ToSet
    <2> QED BY <1>1, <1>3, <2>1 DEF Applied
  <1> QED BY <1>4, <1>5 DEF Imported

LEMMA ImportSteps ==
    ASSUME StoreInv, [Next]_vars
    PROVE  /\ plan' # plan /\ DistinctIds => NoneTwice(plan')
           /\ /\ backupState = "NeedsConfirm" /\ backupState' = "Done"
              /\ rows' # rows /\ NoneTwice(plan)
              => Imported
  <1>1. CASE StoreCall
    <2>1. CASE ExportTo \/ CancelImport
      <3>1. plan' \in {plan, <<>>} /\ rows' = rows
        BY <2>1 DEF ExportTo, CancelImport, configVars
      <3> QED BY <3>1, NoEntries
    <2>2. CASE PrepareImport
      <3>1. rows' = rows
        BY <2>2 DEF PrepareImport, configVars
      <3> QED BY <2>2, <3>1, PrepareStep DEF StoreInv
    <2>3. CASE ApplyImport
      <3>1. plan' \in {plan, <<>>}
        BY <2>3 DEF ApplyImport
      <3> QED BY <2>3, <3>1, ImportStep, NoEntries
    <2>4. CASE ImportCert \/ RemoveCert \/ ReloadCerts
      <3>1. UNCHANGED <<plan, backupState>>
        BY <2>4 DEF ImportCert, RemoveCert, ReloadCerts, CertCall, backupVars
      <3> QED BY <3>1
    <2>5. CASE AddComputer \/ \E i \in DOMAIN rows :
                 SetData(i) \/ AddTrusted(i) \/ SetSshConfig(i) \/ RemoveComputer(i)
      <3>1. UNCHANGED <<plan, backupState>>
        BY <2>5 DEF AddComputer, SetData, AddTrusted, SetSshConfig, RemoveComputer, ListCall, backupVars
      <3> QED BY <3>1
    <2> QED BY <1>1, <2>1, <2>2, <2>3, <2>4, <2>5 DEF StoreCall
  <1>2. CASE Quit
    <2>1. plan' = <<>> /\ backupState' = "Idle"
      BY <1>2 DEF Quit, Stop
    <2> QED BY <2>1, NoEntries
  <1>3. CASE ~StoreCall /\ ~Quit
    <2>1. UNCHANGED backupVars
      <3>1. CASE Startup
        BY <3>1 DEF Startup, Boot, MigrationRefused, MigrateFile, MigrationOver, Load
      <3>2. CASE User
        BY <1>3, <3>2 DEF User, restOfStore
      <3>3. CASE Inside \/ Timers \/ Answers \/ Result \/ UNCHANGED vars
        BY <3>3 DEF Inside, Timers, Answers, Result, restOfStore, vars, storeVars
      <3> QED BY <1>3, <3>1, <3>2, <3>3 DEF Next
    <2> QED BY <2>1 DEF backupVars
  <1> QED BY <1>1, <1>2, <1>3

\* planImport() and applyImport(): a preview of a list whose identities differ names no
\* row twice, and a plan that names none twice, whatever is edited between the preview and
\* its confirmation, loses no machine that was shown and touches no row it does not name.
\* Not for a list with one identity twice, which an import by host and name can leave:
\* there a plan may name a row twice, and one of the two machines is lost.
THEOREM ImportsKeepOthers == Spec => ImportKeepsOthers
  <1>1. StoreInv /\ [Next]_vars
          => [/\ plan' # plan /\ DistinctIds => NoneTwice(plan')
              /\ /\ backupState = "NeedsConfirm" /\ backupState' = "Done"
                 /\ rows' # rows /\ NoneTwice(plan)
                 => Imported]_storeVars
    BY ImportSteps
  <1> QED BY <1>1, StoreInductive, PTL DEF Spec, ImportKeepsOthers

-----------------------------------------------------------------------------
(***************************************************************************)
(* The batch: the inductive invariant.                                     *)
(***************************************************************************)
Statuses == {"Pending", "Running", "DoneOk", "DoneFailed", "Skipped"}

Positive == Nat \ {0}

JobRows(list) == {list[n].row : n \in DOMAIN list}

JobsType(list) == list \in Seq([row : JobRows(list), status : Statuses])

BatchTypes ==
    /\ JobsType(jobs)
    /\ running \in BOOLEAN /\ inflight \in Nat
    /\ stack \in Seq(Positive)
    /\ starts \in Nat /\ finishes \in Nat

InState(list, s) == {n \in DOMAIN list : list[n].status = s}

\* A job is found by its row.
RowsDiffer(list) == \A m, n \in DOMAIN list : list[m].row = list[n].row => m = n

\* The running jobs and the commands that are out go together.
Answerable(list, out) ==
    /\ \A o \in out : \E n \in InState(list, "Running") : list[n].row = o.row
    /\ \A n \in InState(list, "Running") : \E o \in out : list[n].row = o.row
    /\ \A o, p \in out : o.row = p.row => o = p

\* The counter counts them, up to the cap.
Counted(list, out, k) ==
    /\ IsFiniteSet(out) /\ k = Cardinality(out)
    /\ k = Cardinality(InState(list, "Running")) /\ k <= MaxConcurrency

\* No frame has passed over a pending job.
Passed(list, frames) ==
    \A f \in DOMAIN frames : \A n \in InState(list, "Pending") : frames[f] <= n

\* Every batch but the one that runs has been reported.
Reported == finishes = IF running THEN starts - 1 ELSE starts

\* When the loop is left, nothing that could be sent waits.
LeftInOrder ==
    stack = <<>> => /\ inflight < MaxConcurrency => InState(jobs, "Pending") = {}
                    /\ running => Active

BatchInv ==
    /\ BatchTypes
    /\ RowsDiffer(jobs)
    /\ Answerable(jobs, outbox)
    /\ Counted(jobs, outbox, inflight)
    /\ Passed(jobs, stack)
    /\ Active => running
    /\ running => starts # 0
    /\ Reported
    /\ LeftInOrder

-----------------------------------------------------------------------------
(* Lists of jobs.                                                          *)

\* A job's status changes: the others, and all rows, stay.
LEMMA StatusChange ==
    ASSUME NEW list, JobsType(list), NEW n \in DOMAIN list, NEW s \in Statuses
    PROVE  LET new == [list EXCEPT ![n].status = s]
           IN  /\ JobsType(new) /\ DOMAIN new = DOMAIN list /\ Len(new) = Len(list)
               /\ new[n].status = s
               /\ \A k \in DOMAIN list : new[k].row = list[k].row
               /\ \A k \in DOMAIN list \ {n} : new[k] = list[k]
  <1> DEFINE new == [list EXCEPT ![n].status = s]
             J == [row : JobRows(list), status : Statuses]
  <1>1. /\ Len(list) \in Nat /\ DOMAIN list = 1..Len(list) /\ list \in [1..Len(list) -> J]
    BY LenProperties DEF JobsType
  <1>2. new \in [1..Len(list) -> J] /\ new[n].status = s
    BY <1>1
  <1>3. /\ \A k \in DOMAIN list : new[k].row = list[k].row
        /\ \A k \in DOMAIN list \ {n} : new[k] = list[k]
    BY <1>1
  <1> HIDE DEF new, J
  <1>4. new \in Seq(J) /\ Len(new) = Len(list) /\ DOMAIN new = DOMAIN list
    BY <1>1, <1>2
  <1>5. JobRows(new) = JobRows(list)
    BY <1>3, <1>4 DEF JobRows
  <1> QED BY <1>2, <1>3, <1>4, <1>5 DEF JobsType, new, J

LEMMA StatusSets ==
    ASSUME NEW list, JobsType(list), NEW n \in DOMAIN list, NEW s \in Statuses, NEW t
    PROVE  LET new == [list EXCEPT ![n].status = s]
           IN  /\ s = t => InState(new, t) = InState(list, t) \cup {n}
               /\ s # t => InState(new, t) = InState(list, t) \ {n}
  <1> DEFINE new == [list EXCEPT ![n].status = s]
  <1>1. /\ DOMAIN new = DOMAIN list /\ new[n].status = s
        /\ \A k \in DOMAIN list \ {n} : new[k] = list[k]
    BY StatusChange
  <1> HIDE DEF new
  <1>2. s = t => InState(new, t) = InState(list, t) \cup {n}
    BY <1>1 DEF InState
  <1>3. s # t => InState(new, t) = InState(list, t) \ {n}
    BY <1>1 DEF InState
  <1> QED BY <1>2, <1>3 DEF new

LEMMA StatesFinite ==
    ASSUME NEW list, JobsType(list), NEW s
    PROVE  IsFiniteSet(InState(list, s)) /\ InState(list, s) \subseteq Nat
  <1>1. Len(list) \in Nat /\ DOMAIN list = 1..Len(list)
    BY LenProperties DEF JobsType
  <1>2. IsFiniteSet(1..Len(list))
    BY <1>1, FS_Interval
  <1> QED BY <1>1, <1>2, FS_Subset DEF InState

\* Min picks the only member of a set.
LEMMA MinOnly ==
    ASSUME NEW n \in Nat
    PROVE  Min({n}) = n
  BY DEF Min

\* What is left of the stack when the innermost frame returns.
LEMMA Frames ==
    ASSUME NEW s \in Seq(Positive), s # <<>>
    PROVE  /\ Len(s) \in DOMAIN s /\ Last(s) \in Positive
           /\ Front(s) \in Seq(Positive)
           /\ \A f \in DOMAIN Front(s) : f \in DOMAIN s /\ Front(s)[f] = s[f]
  <1>1. Len(s) \in Nat \ {0} /\ DOMAIN s = 1..Len(s) /\ \A i \in 1..Len(s) : s[i] \in Positive
    BY EmptySeq, LenProperties, ElementOfSeq
  <1>2. Front(s) \in Seq(Positive) /\ Len(Front(s)) = Len(s) - 1
    BY <1>1, SubSeqProperties DEF Front
  <1>3. DOMAIN Front(s) = 1..(Len(s) - 1)
    BY <1>2, LenProperties
  <1>4. \A f \in 1..(Len(s) - 1) : Front(s)[f] = s[f]
    BY <1>1, SubSeqProperties DEF Front
  <1> QED BY <1>1, <1>2, <1>3, <1>4 DEF Last

LEMMA PushedFrame ==
    ASSUME NEW s \in Seq(Positive), NEW p \in Positive, NEW list, Passed(list, s),
           \A n \in InState(list, "Pending") : p <= n
    PROVE  Append(s, p) \in Seq(Positive) /\ Append(s, p) # <<>> /\ Passed(list, Append(s, p))
  <1>1. /\ Len(s) \in Nat /\ DOMAIN s = 1..Len(s)
        /\ Append(s, p) \in Seq(Positive) /\ Len(Append(s, p)) = Len(s) + 1
        /\ \A f \in 1..Len(s) : Append(s, p)[f] = s[f]
        /\ Append(s, p)[Len(s) + 1] = p
    BY LenProperties
  <1>2. DOMAIN Append(s, p) = 1..(Len(s) + 1)
    BY <1>1, LenProperties
  <1>3. Append(s, p) # <<>>
    BY <1>1, EmptySeq
  <1>4. \A f \in 1..(Len(s) + 1) : \A n \in InState(list, "Pending") : Append(s, p)[f] <= n
    BY <1>1 DEF Passed
  <1> QED BY <1>1, <1>2, <1>3, <1>4 DEF Passed

\* The job that completeOne() finds for a row is the one that runs for it.
LEMMA JobOfRow ==
    ASSUME NEW list, JobsType(list), RowsDiffer(list), NEW n \in InState(list, "Running")
    PROVE  Min({k \in DOMAIN list : list[k].row = list[n].row /\ list[k].status = "Running"}) = n
  <1>1. {k \in DOMAIN list : list[k].row = list[n].row /\ list[k].status = "Running"} = {n}
    BY DEF InState, RowsDiffer
  <1> QED BY <1>1, MinOnly, StatesFinite

-----------------------------------------------------------------------------
(* The steps.                                                              *)

\* The innermost loop takes the first of all pending jobs: it has passed over none.
LEMMA NextJob ==
    ASSUME BatchTypes, Passed(jobs, stack), stack # <<>>
    PROVE  /\ Pending(Last(stack)) = InState(jobs, "Pending")
           /\ Pending(Last(stack)) # {} =>
                LET n == Min(Pending(Last(stack)))
                IN  n \in InState(jobs, "Pending") /\ \A k \in InState(jobs, "Pending") : n <= k
  <1>1. Len(jobs) \in Nat /\ DOMAIN jobs = 1..Len(jobs)
    BY LenProperties DEF BatchTypes, JobsType
  <1>2. Len(stack) \in DOMAIN stack /\ Last(stack) \in Positive
    BY Frames DEF BatchTypes
  <1>3. \A k \in InState(jobs, "Pending") : Last(stack) <= k
    BY <1>2 DEF Passed, Last
  <1>4. Pending(Last(stack)) = InState(jobs, "Pending")
    BY <1>1, <1>2, <1>3 DEF Pending, InState, Positive
  <1>5. InState(jobs, "Pending") \subseteq Nat
    BY StatesFinite DEF BatchTypes
  <1> QED BY <1>4, <1>5, MinLeast

\* A turn of the loop.
LEMMA TurnStep ==
    ASSUME BatchInv, PumpTurn
    PROVE  BatchInv'
  <1> DEFINE n == Min(Pending(Last(stack)))
             row == jobs[n].row
             sent == [jobs EXCEPT ![n].status = "Running"]
             frames == Append(Front(stack), n + 1)
             waiting == InState(jobs, "Pending")
  <1>1. /\ stack # <<>> /\ inflight < MaxConcurrency /\ Pending(Last(stack)) # {}
        /\ UNCHANGED <<running, starts, finishes>>
    BY DEF PumpTurn
  <1>2. n \in waiting /\ \A k \in waiting : n <= k
    BY <1>1, NextJob DEF BatchInv
  <1>3. waiting \subseteq Nat /\ InState(jobs, "Running") \subseteq Nat
    BY StatesFinite DEF BatchInv, BatchTypes
  <1>4. n \in DOMAIN jobs /\ jobs[n].status = "Pending" /\ n \in Positive
    <2>1. DOMAIN jobs = 1..Len(jobs) /\ Len(jobs) \in Nat
      BY LenProperties DEF BatchInv, BatchTypes, JobsType
    <2> HIDE DEF n
    <2> QED BY <1>2, <2>1 DEF InState, Positive
  <1>5. running
    BY <1>4 DEF BatchInv, Active
  <1>6. PumpTurn => IF AtOnce(row)
                    THEN CompleteOne(sent, row, Refusal(row), frames) /\ UNCHANGED <<inflight, outbox>>
                    ELSE /\ jobs' = sent /\ stack' = frames /\ inflight' = inflight + 1
                         /\ outbox' = outbox \cup {[row |-> row, id |-> rows[row].id]}
    BY DEF PumpTurn
  <1> HIDE DEF n
  <1>7. /\ JobsType(sent) /\ DOMAIN sent = DOMAIN jobs
        /\ \A k \in DOMAIN jobs : sent[k].row = jobs[k].row
        /\ InState(sent, "Pending") = waiting \ {n}
        /\ InState(sent, "Running") = InState(jobs, "Running") \cup {n}
    <2>1. JobsType(jobs) /\ "Running" \in Statuses
      BY DEF BatchInv, BatchTypes, Statuses
    <2>2. /\ JobsType(sent) /\ DOMAIN sent = DOMAIN jobs
          /\ \A k \in DOMAIN jobs : sent[k].row = jobs[k].row
      BY <1>4, <2>1, StatusChange
    <2>3. InState(sent, "Pending") = waiting \ {n}
      BY <1>4, <2>1, StatusSets
    <2>4. InState(sent, "Running") = InState(jobs, "Running") \cup {n}
      BY <1>4, <2>1, StatusSets
    <2> QED BY <2>2, <2>3, <2>4
  <1>8. RowsDiffer(sent)
    BY <1>7 DEF BatchInv, RowsDiffer
  <1>9. frames \in Seq(Positive) /\ frames # <<>> /\ Passed(sent, frames)
    <2>1. /\ Front(stack) \in Seq(Positive)
          /\ \A f \in DOMAIN Front(stack) : f \in DOMAIN stack /\ Front(stack)[f] = stack[f]
      BY <1>1, Frames DEF BatchInv, BatchTypes
    <2>2. Passed(sent, Front(stack))
      BY <1>7, <2>1 DEF BatchInv, Passed
    <2>3. n + 1 \in Positive /\ \A k \in InState(sent, "Pending") : n + 1 <= k
      <3>1. n + 1 \in Positive
        BY <1>4 DEF Positive
      <3>2. ASSUME NEW k \in waiting \ {n}
            PROVE  n + 1 <= k
        <4>1. k \in Nat /\ n \in Nat /\ n <= k /\ k # n
          BY <1>2, <1>3
        <4> QED BY <4>1
      <3> QED BY <1>7, <3>1, <3>2
    <2> QED BY <2>1, <2>2, <2>3, PushedFrame
  <1> HIDE DEF sent, frames, row
  <1>a. CASE AtOnce(row)
    <2> DEFINE new == [sent EXCEPT ![n].status = Refusal(row)]
    <2>1. row = sent[n].row /\ n \in InState(sent, "Running")
      BY <1>4, <1>7 DEF row
    <2>2. jobs' = new /\ stack' = Append(frames, 1) /\ UNCHANGED <<inflight, outbox>>
      BY <1>a, <1>5, <1>6, <1>7, <1>8, <2>1, JobOfRow DEF CompleteOne
    <2>3. Refusal(row) \in Statuses /\ Refusal(row) # "Pending" /\ Refusal(row) # "Running"
      BY DEF Refusal, Statuses
    <2>4. /\ JobsType(new) /\ DOMAIN new = DOMAIN jobs
          /\ \A k \in DOMAIN jobs : new[k].row = jobs[k].row
          /\ InState(new, "Pending") = waiting \ {n}
          /\ InState(new, "Running") = InState(jobs, "Running")
      <3>1. /\ InState(new, "Pending") = InState(sent, "Pending") \ {n}
            /\ InState(new, "Running") = InState(sent, "Running") \ {n}
        <4>1. n \in DOMAIN sent /\ JobsType(sent)
          BY <1>4, <1>7
        <4>2. InState(new, "Pending") = InState(sent, "Pending") \ {n}
          BY <4>1, <2>3, StatusSets
        <4>3. InState(new, "Running") = InState(sent, "Running") \ {n}
          BY <4>1, <2>3, StatusSets
        <4> QED BY <4>2, <4>3
      <3>2. n \notin InState(jobs, "Running")
        BY <1>4 DEF InState
      <3>3. /\ JobsType(new) /\ DOMAIN new = DOMAIN sent
            /\ \A k \in DOMAIN sent : new[k].row = sent[k].row
        BY <1>4, <1>7, <2>3, StatusChange
      <3> HIDE DEF new
      <3> QED BY <1>7, <3>1, <3>2, <3>3
    <2> HIDE DEF new
    <2>5. RowsDiffer(new)
      BY <2>4 DEF BatchInv, RowsDiffer
    <2>6. Answerable(new, outbox) /\ Counted(new, outbox, inflight)
      <3>1. \A k \in InState(jobs, "Running") : new[k].row = jobs[k].row
        BY <2>4 DEF InState
      <3>2. InState(new, "Running") = InState(jobs, "Running")
        BY <2>4
      <3> QED BY <3>1, <3>2 DEF BatchInv, Answerable, Counted
    <2>7. Append(frames, 1) \in Seq(Positive) /\ Append(frames, 1) # <<>> /\ Passed(new, Append(frames, 1))
      <3>1. Passed(new, frames)
        BY <1>7, <1>9, <2>4 DEF Passed
      <3>2. 1 \in Positive /\ \A k \in InState(new, "Pending") : 1 <= k
        <4>1. DOMAIN jobs = 1..Len(jobs) /\ Len(jobs) \in Nat
          BY LenProperties DEF BatchInv, BatchTypes, JobsType
        <4>2. InState(new, "Pending") \subseteq 1..Len(jobs)
          BY <2>4, <4>1 DEF InState
        <4> QED BY <4>1, <4>2 DEF Positive
      <3> QED BY <1>9, <3>1, <3>2, PushedFrame
    <2> QED BY <1>1, <1>5, <2>2, <2>4, <2>5, <2>6, <2>7
            DEF BatchInv, BatchTypes, Reported, LeftInOrder, Active
  <1>b. CASE ~AtOnce(row)
    <2> DEFINE o == [row |-> row, id |-> rows[row].id]
    <2>1. /\ jobs' = sent /\ stack' = frames /\ inflight' = inflight + 1
          /\ outbox' = outbox \cup {o}
      BY <1>b, <1>6
    <2>2. o.row = row /\ row = jobs[n].row
      BY DEF row
    <2> HIDE DEF o
    <2>3. \A q \in outbox : q.row # row
      BY <1>4, <2>2 DEF BatchInv, Answerable, RowsDiffer, InState
    <2>4. Answerable(sent, outbox \cup {o})
      <3>1. \A q \in outbox \cup {o} : \E k \in InState(sent, "Running") : sent[k].row = q.row
        BY <1>4, <1>7, <2>2 DEF BatchInv, Answerable, InState
      <3>2. \A k \in InState(sent, "Running") : \E q \in outbox \cup {o} : sent[k].row = q.row
        BY <1>4, <1>7, <2>2 DEF BatchInv, Answerable, InState
      <3>3. \A q, r \in outbox \cup {o} : q.row = r.row => q = r
        BY <2>2, <2>3 DEF BatchInv, Answerable
      <3> QED BY <3>1, <3>2, <3>3 DEF Answerable
    <2>5. Counted(sent, outbox \cup {o}, inflight + 1)
      <3>1. o \notin outbox /\ n \notin InState(jobs, "Running")
        BY <1>4, <2>2, <2>3 DEF InState
      <3>2. IsFiniteSet(outbox \cup {o}) /\ Cardinality(outbox \cup {o}) = inflight + 1
        BY <3>1, FS_AddElement DEF BatchInv, Counted
      <3>3. IsFiniteSet(InState(jobs, "Running"))
        BY StatesFinite DEF BatchInv, BatchTypes
      <3>4. Cardinality(InState(sent, "Running")) = inflight + 1
        BY <1>7, <3>1, <3>3, FS_AddElement DEF BatchInv, Counted
      <3>5. inflight + 1 <= MaxConcurrency
        BY <1>1, ConcurrencyAssumption DEF BatchInv, BatchTypes
      <3> QED BY <3>2, <3>4, <3>5 DEF Counted
    <2>6. inflight + 1 \in Nat
      BY DEF BatchInv, BatchTypes
    <2> QED BY <1>1, <1>5, <1>7, <1>8, <1>9, <2>1, <2>4, <2>5, <2>6
            DEF BatchInv, BatchTypes, Reported, LeftInOrder, Active
  <1> QED BY <1>a, <1>b

\* A frame returns.
LEMMA EndStep ==
    ASSUME BatchInv, PumpEnd
    PROVE  BatchInv'
  <1>1. /\ stack # <<>>
        /\ inflight >= MaxConcurrency \/ Pending(Last(stack)) = {}
        /\ stack' = Front(stack)
        /\ running' <=> (running /\ Active)
        /\ finishes' = IF running /\ ~Active THEN finishes + 1 ELSE finishes
        /\ UNCHANGED <<jobs, inflight, outbox, chosen, starts>>
    BY DEF PumpEnd
  <1>2. running' \in BOOLEAN
    <2>1. running' = (running /\ Active)
      BY DEF PumpEnd
    <2> QED BY <2>1, Zenon
  <1>3. Pending(Last(stack)) = InState(jobs, "Pending")
    BY <1>1, NextJob DEF BatchInv
  <1>4. stack' \in Seq(Positive) /\ Passed(jobs, stack')
    BY <1>1, Frames DEF BatchInv, BatchTypes, Passed
  <1>5. Active' <=> Active
    BY <1>1 DEF Active
  <1>6. finishes' \in Nat /\ Reported'
    <2>1. /\ starts \in Nat /\ finishes \in Nat
          /\ running => starts # 0
          /\ running => finishes = starts - 1
          /\ ~running => finishes = starts
          /\ Active => running
      BY DEF BatchInv, BatchTypes, Reported
    <2>2. CASE running /\ ~Active
      BY <1>1, <2>1, <2>2 DEF Reported
    <2>3. CASE ~(running /\ ~Active)
      BY <1>1, <2>1, <2>3 DEF Reported
    <2> QED BY <2>2, <2>3
  <1>7. LeftInOrder'
    <2>1. inflight < MaxConcurrency => InState(jobs, "Pending") = {}
      BY <1>1, <1>3, ConcurrencyAssumption DEF BatchInv, BatchTypes
    <2> QED BY <1>1, <1>5, <2>1 DEF LeftInOrder
  <1>8. (Active => running)' /\ (running => starts # 0)'
    BY <1>1, <1>5 DEF BatchInv
  <1>9. BatchTypes'
    BY <1>1, <1>2, <1>4, <1>6 DEF BatchInv, BatchTypes
  <1> QED BY <1>1, <1>4, <1>6, <1>7, <1>8, <1>9 DEF BatchInv

\* A command's result.
LEMMA DoneStep ==
    ASSUME BatchInv, CommandDone
    PROVE  BatchInv'
  <1>1. PICK o \in outbox, status \in {"DoneOk", "DoneFailed"} :
          outbox' = outbox \ {o} /\ CompleteOne(jobs, o.row, status, <<>>)
    BY DEF CommandDone
  <1>2. stack = <<>> /\ inflight' = inflight - 1 /\ UNCHANGED <<running, starts, finishes>>
    BY DEF CommandDone
  <1>3. PICK n \in InState(jobs, "Running") : jobs[n].row = o.row
    BY DEF BatchInv, Answerable
  <1>4. n \in DOMAIN jobs /\ jobs[n].status = "Running"
    BY <1>3 DEF InState
  <1>5. running
    BY <1>4 DEF BatchInv, Active
  <1> DEFINE new == [jobs EXCEPT ![n].status = status]
  <1>6. jobs' = new /\ stack' = Append(<<>>, 1)
    BY <1>1, <1>3, <1>5, JobOfRow DEF BatchInv, BatchTypes, CompleteOne
  <1>7. JobsType(jobs) /\ status \in Statuses /\ status # "Pending" /\ status # "Running"
    BY <1>1 DEF BatchInv, BatchTypes, Statuses
  <1>8. /\ JobsType(new) /\ DOMAIN new = DOMAIN jobs
        /\ \A k \in DOMAIN jobs : new[k].row = jobs[k].row
    BY <1>4, <1>7, StatusChange
  <1>9. InState(new, "Running") = InState(jobs, "Running") \ {n}
    BY <1>4, <1>7, StatusSets
  <1> HIDE DEF new
  <1>10. RowsDiffer(new)
    BY <1>8 DEF BatchInv, RowsDiffer
  <1>11. Answerable(new, outbox \ {o})
    <2>1. \A k \in InState(new, "Running") : k \in DOMAIN jobs /\ new[k].row = jobs[k].row
      BY <1>8 DEF InState
    <2>2. ASSUME NEW q \in outbox \ {o}
          PROVE  \E k \in InState(new, "Running") : new[k].row = q.row
      <3>1. PICK k \in InState(jobs, "Running") : jobs[k].row = q.row
        BY DEF BatchInv, Answerable
      <3>2. k # n
        BY <1>3, <3>1 DEF BatchInv, Answerable
      <3> QED BY <1>9, <2>1, <3>1, <3>2
    <2>3. ASSUME NEW k \in InState(new, "Running")
          PROVE  \E q \in outbox \ {o} : new[k].row = q.row
      <3>1. k \in InState(jobs, "Running") /\ k # n /\ k \in DOMAIN jobs
        BY <1>9, <2>1
      <3>2. PICK q \in outbox : jobs[k].row = q.row
        BY <3>1 DEF BatchInv, Answerable
      <3>3. q # o
        BY <1>3, <1>4, <3>1, <3>2 DEF BatchInv, RowsDiffer
      <3> QED BY <2>1, <3>2, <3>3
    <2> QED BY <2>2, <2>3 DEF BatchInv, Answerable
  <1>12. Counted(new, outbox \ {o}, inflight - 1) /\ inflight - 1 \in Nat
    <2>1. IsFiniteSet(outbox \ {o}) /\ Cardinality(outbox \ {o}) = inflight - 1
      BY FS_RemoveElement DEF BatchInv, Counted
    <2>2. Cardinality(InState(new, "Running")) = inflight - 1
      <3>1. IsFiniteSet(InState(jobs, "Running"))
        BY <1>7, StatesFinite
      <3> QED BY <1>3, <1>9, <3>1, FS_RemoveElement DEF BatchInv, Counted
    <2>3. inflight - 1 \in Nat
      BY <2>1, FS_CardinalityType
    <2>4. inflight - 1 <= MaxConcurrency
      BY ConcurrencyAssumption DEF BatchInv, BatchTypes, Counted
    <2> QED BY <2>1, <2>2, <2>3, <2>4 DEF Counted
  <1>13. stack' \in Seq(Positive) /\ stack' # <<>> /\ Passed(new, stack')
    <2>1. <<>> \in Seq(Positive) /\ Passed(new, <<>>) /\ 1 \in Positive
      BY EmptySeq DEF Passed, Positive
    <2>2. \A k \in InState(new, "Pending") : 1 <= k
      <3>1. DOMAIN jobs = 1..Len(jobs) /\ Len(jobs) \in Nat
        BY <1>7, LenProperties DEF JobsType
      <3>2. InState(new, "Pending") \subseteq 1..Len(jobs)
        BY <1>8, <3>1 DEF InState
      <3> QED BY <3>1, <3>2
    <2> QED BY <1>6, <2>1, <2>2, PushedFrame
  <1> QED BY <1>1, <1>2, <1>5, <1>6, <1>8, <1>10, <1>11, <1>12, <1>13
          DEF BatchInv, BatchTypes, Reported, LeftInOrder, Active

\* A batch begins: the last one is over, so no command of it is out.
LEMMA BeginStep ==
    ASSUME BatchInv, ~running, NEW list, JobsType(list), RowsDiffer(list),
           InState(list, "Running") = {}, Begin(list)
    PROVE  BatchInv'
  <1>1. InState(jobs, "Running") = {}
    BY DEF BatchInv, Active, InState
  <1>2. outbox = {}
    BY <1>1 DEF BatchInv, Answerable
  <1>3. /\ jobs' = list /\ inflight' = 0 /\ running' = TRUE /\ starts' = starts + 1
        /\ stack' = <<1>> /\ UNCHANGED <<outbox, finishes>>
    BY DEF Begin
  <1>4. Answerable(list, {}) /\ Counted(list, {}, 0)
    BY FS_EmptySet, ConcurrencyAssumption DEF Answerable, Counted
  <1>5. <<1>> \in Seq(Positive) /\ <<1>> # <<>> /\ Passed(list, <<1>>)
    <2>1. DOMAIN list = 1..Len(list) /\ Len(list) \in Nat
      BY LenProperties DEF JobsType
    <2>2. \A n \in InState(list, "Pending") : 1 <= n
      BY <2>1 DEF InState
    <2>3. Append(<<>>, 1) = <<1>>
      OBVIOUS
    <2>4. <<>> \in Seq(Positive) /\ Passed(list, <<>>) /\ 1 \in Positive
      BY EmptySeq DEF Passed, Positive
    <2>5. Append(<<>>, 1) \in Seq(Positive) /\ Append(<<>>, 1) # <<>> /\ Passed(list, Append(<<>>, 1))
      BY <2>2, <2>4, PushedFrame
    <2> QED BY <2>3, <2>5
  <1>6. Reported' /\ starts' \in Nat /\ starts' # 0 /\ finishes' \in Nat
    <2>1. finishes = starts /\ starts \in Nat
      BY DEF BatchInv, BatchTypes, Reported
    <2> QED BY <1>3, <2>1 DEF Reported
  <1> QED BY <1>2, <1>3, <1>4, <1>5, <1>6 DEF BatchInv, BatchTypes, LeftInOrder

LEMMA StartStep ==
    ASSUME BatchInv, Len(rows) \in Nat, StartBatch
    PROVE  BatchInv'
  <1>0. PICK n \in 1..Len(rows) : \E selected \in Injection(1..n, DOMAIN rows) :
          Begin([k \in 1..n |-> [row |-> selected[k], status |-> "Pending"]])
    BY DEF StartBatch
  <1>1. PICK selected \in Injection(1..n, DOMAIN rows) :
          Begin([k \in 1..n |-> [row |-> selected[k], status |-> "Pending"]])
    BY <1>0
  <1> DEFINE list == [k \in 1..n |-> [row |-> selected[k], status |-> "Pending"]]
  <1>2. n \in Nat /\ \A j, k \in 1..n : selected[j] = selected[k] => j = k
    BY DEF Injection, IsInjective
  <1>3. DOMAIN list = 1..n /\ \A k \in 1..n : list[k] = [row |-> selected[k], status |-> "Pending"]
    OBVIOUS
  <1>4. Begin(list) /\ ~running
    BY <1>1 DEF StartBatch
  <1> HIDE DEF list
  <1>5. RowsDiffer(list)
    BY <1>2, <1>3 DEF RowsDiffer
  <1>6. InState(list, "Running") = {}
    BY <1>3 DEF InState
  <1>7. JobsType(list)
    <2>1. \A k \in 1..n : list[k] \in [row : JobRows(list), status : Statuses]
      BY <1>3 DEF JobRows, Statuses
    <2>2. list = [k \in 1..n |-> list[k]]
      BY <1>3 DEF list
    <2> DEFINE J == [row : JobRows(list), status : Statuses]
    <2> HIDE DEF J
    <2>3. list \in [1..n -> J]
      BY <2>1, <2>2 DEF J
    <2>4. list \in Seq(J)
      BY <1>2, <2>3
    <2> QED BY <2>4 DEF J, JobsType
  <1> QED BY <1>4, <1>5, <1>6, <1>7, BeginStep

LEMMA RetryStep ==
    ASSUME BatchInv, RetryFailed
    PROVE  BatchInv'
  <1> DEFINE list == [n \in DOMAIN jobs |->
                       [jobs[n] EXCEPT !.status = IF @ = "DoneFailed" THEN "Pending" ELSE @]]
             J == [row : JobRows(jobs), status : Statuses]
  <1>1. Begin(list) /\ ~running
    BY DEF RetryFailed
  <1>2. Len(jobs) \in Nat /\ DOMAIN jobs = 1..Len(jobs) /\ jobs \in [1..Len(jobs) -> J]
    BY LenProperties DEF BatchInv, BatchTypes, JobsType
  <1>3. ASSUME NEW n \in DOMAIN jobs
        PROVE  /\ list[n] \in J /\ list[n].row = jobs[n].row
               /\ list[n].status = IF jobs[n].status = "DoneFailed" THEN "Pending" ELSE jobs[n].status
    <2>1. jobs[n] \in J
      BY <1>2
    <2> QED BY <2>1 DEF Statuses
  <1>4. DOMAIN list = DOMAIN jobs /\ list \in [1..Len(jobs) -> J]
    BY <1>2, <1>3
  <1> HIDE DEF list
  <1>5. JobRows(list) = JobRows(jobs)
    BY <1>3, <1>4 DEF JobRows
  <1>6. list \in Seq(J)
    <2> HIDE DEF J
    <2> QED BY <1>2, <1>4
  <1>7. RowsDiffer(list)
    BY <1>3, <1>4 DEF BatchInv, RowsDiffer
  <1>8. InState(list, "Running") = {}
    <2>1. InState(jobs, "Running") = {}
      BY <1>1 DEF BatchInv, Active, InState
    <2> QED BY <1>3, <1>4, <2>1 DEF InState
  <1> QED BY <1>1, <1>5, <1>6, <1>7, <1>8, BeginStep DEF JobsType

\* Nothing else touches the batch but the end of the launch.
LEMMA OtherSteps ==
    ASSUME [Next]_vars
    PROVE  StartBatch \/ RetryFailed \/ Pump \/ CommandDone \/ BatchGone \/ UNCHANGED batchVars
  BY DEF Next, vars, Startup, User, Inside, Timers, Answers, Result, Quit

\* Without a list there are no books to keep.
LEMMA NoJobs ==
    /\ JobsType(<<>>) /\ <<>> \in Seq(Positive)
    /\ \A s : InState(<<>>, s) = {}
    /\ RowsDiffer(<<>>) /\ Answerable(<<>>, {}) /\ Counted(<<>>, {}, 0) /\ Passed(<<>>, <<>>)
  <1>1. JobsType(<<>>) /\ <<>> \in Seq(Positive)
    BY EmptySeq DEF JobsType
  <1>2. \A s : InState(<<>>, s) = {}
    BY DEF InState
  <1>3. Answerable(<<>>, {}) /\ RowsDiffer(<<>>) /\ Passed(<<>>, <<>>)
    BY <1>2 DEF Answerable, RowsDiffer, Passed
  <1>4. Counted(<<>>, {}, 0)
    BY <1>2, FS_EmptySet, ConcurrencyAssumption DEF Counted
  <1> QED BY <1>1, <1>2, <1>3, <1>4

LEMMA BatchStarts ==
    ASSUME Init
    PROVE  BatchInv
  <1>1. /\ jobs = <<>> /\ running = FALSE /\ inflight = 0 /\ stack = <<>> /\ outbox = {}
        /\ starts = 0 /\ finishes = 0
    BY DEF Init, BatchInit
  <1>2. ~Active
    BY <1>1 DEF Active
  <1>3. BatchTypes /\ Reported
    BY <1>1, NoJobs DEF BatchTypes, Reported
  <1>4. LeftInOrder
    BY <1>1, NoJobs DEF LeftInOrder
  <1> QED BY <1>1, <1>2, <1>3, <1>4, NoJobs DEF BatchInv

LEMMA BatchSteps ==
    ASSUME BatchInv, Len(rows) \in Nat, [Next]_vars
    PROVE  BatchInv'
  <1>1. CASE BatchGone
    <2>1. /\ jobs' = <<>> /\ running' = FALSE /\ inflight' = 0 /\ stack' = <<>> /\ outbox' = {}
          /\ starts' = 0 /\ finishes' = 0
      BY <1>1 DEF BatchGone
    <2>2. ~Active'
      BY <2>1 DEF Active
    <2>3. BatchTypes' /\ Reported'
      BY <2>1, NoJobs DEF BatchTypes, Reported
    <2>4. LeftInOrder'
      BY <2>1, NoJobs DEF LeftInOrder
    <2> QED BY <2>1, <2>2, <2>3, <2>4, NoJobs DEF BatchInv
  <1>2. CASE UNCHANGED batchVars
    BY <1>2 DEF batchVars, BatchInv, BatchTypes, Reported, LeftInOrder, Active
  <1> QED BY <1>1, <1>2, OtherSteps, StartStep, RetryStep, TurnStep, EndStep, DoneStep DEF Pump

\* The books agree where the invariant holds.
LEMMA BooksOf ==
    ASSUME BatchInv
    PROVE  BatchAccounted
  <1> SUFFICES ASSUME stack = <<>>
               PROVE  /\ inflight = Cardinality(outbox)
                      /\ inflight = Cardinality({n \in DOMAIN jobs : jobs[n].status = "Running"})
                      /\ inflight <= MaxConcurrency
                      /\ inflight < MaxConcurrency => Pending(1) = {}
                      /\ running = Active
                      /\ finishes = (IF running THEN starts - 1 ELSE starts)
    BY DEF BatchAccounted
  <1>1. running = Active
    <2>1. running <=> Active
      BY DEF BatchInv, LeftInOrder
    <2>2. running \in BOOLEAN /\ Active \in BOOLEAN
      BY DEF BatchInv, BatchTypes, Active
    <2> QED BY <2>1, <2>2
  <1>2. Pending(1) = InState(jobs, "Pending")
    <2>1. DOMAIN jobs = 1..Len(jobs)
      BY LenProperties DEF BatchInv, BatchTypes, JobsType
    <2> QED BY <2>1 DEF Pending, InState
  <1> QED BY <1>1, <1>2 DEF BatchInv, Counted, InState, LeftInOrder, Reported

\* The batch's inductive invariant holds of every behaviour of the fleet.
THEOREM BatchInductive == Spec => []BatchInv
  <1>1. Init => BatchInv
    BY BatchStarts
  <1>2. BatchInv /\ Len(rows) \in Nat /\ [Next]_vars => BatchInv'
    BY BatchSteps
  <1> QED BY <1>1, <1>2, RowsAreListed, PTL DEF Spec

\* BatchController::pumpQueue(), onJobFinished(), start() and retryFailed(): for every
\* list, selection and degree of concurrency, whenever the event loop runs the counters
\* agree with the jobs and with the commands that are out, no slot is idle while a job
\* waits, and every batch that was started is either running or reported finished once.
THEOREM BooksAgree == Spec => []BatchAccounted
  <1>1. BatchInv => BatchAccounted
    BY BooksOf
  <1> QED BY <1>1, BatchInductive, PTL
=============================================================================
