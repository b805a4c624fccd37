----------------------------- MODULE NamesProofs -----------------------------
(***************************************************************************)
(* The invariants of Names, for every alphabet, every length of labels and *)
(* hosts, and branches of any length.                                      *)
(*                                                                         *)
(* What normalize and a host template do to a sequence is shown by         *)
(* induction on it.  Induction is the existence of a least number, which   *)
(* the well-foundedness of < gives: a set of numbers that has 0 and, with  *)
(* a number, the next one has them all.                                    *)
(***************************************************************************)
EXTENDS Names, SequenceTheorems, WellFoundedInduction, TLAPS

-----------------------------------------------------------------------------
(* Induction and recursion.                                                *)

LEMMA Least ==
    ASSUME NEW T \in SUBSET Nat, T # {}
    PROVE  \E m \in T : \A k \in T : m <= k
  <1>1. PICK m \in T : \A k \in T : ~(<<k, m>> \in {ss \in Nat \X Nat : ss[1] < ss[2]})
    <2>1. IsWellFoundedOn({ss \in Nat \X Nat : ss[1] < ss[2]}, Nat)
      BY NatLessThanWellFounded DEF OpToRel
    <2>. QED BY <2>1, WFMin
  <1>2. ASSUME NEW k \in T, k < m PROVE FALSE
    <2>1. <<k, m>> \in Nat \X Nat /\ <<k, m>>[1] = k /\ <<k, m>>[2] = m
      OBVIOUS
    <2>2. <<k, m>> \in {ss \in Nat \X Nat : ss[1] < ss[2]}
      BY <2>1, <1>2
    <2>. QED BY <2>2, <1>1
  <1>3. m \in Nat /\ \A k \in T : k \in Nat
    OBVIOUS
  <1>. QED
    BY <1>2, <1>3

LEMMA NatInd ==
    ASSUME NEW T \in SUBSET Nat, 0 \in T, \A n \in T : n + 1 \in T
    PROVE  T = Nat
  <1>1. SUFFICES ASSUME Nat \ T # {} PROVE FALSE
    OBVIOUS
  <1>2. PICK m \in Nat \ T : \A k \in Nat \ T : m <= k
    BY <1>1, Least
  <1>3. m # 0 /\ m - 1 \in Nat /\ m - 1 \in T
    BY <1>2
  <1>. QED
    BY <1>2, <1>3

LEMMA SeqInd ==
    ASSUME NEW S, NEW T \in SUBSET Seq(S),
           <<>> \in T, \A s \in T, c \in S : Append(s, c) \in T
    PROVE  T = Seq(S)
  <1>. DEFINE N == {n \in Nat : \A s \in Seq(S) : Len(s) = n => s \in T}
  <1>1. 0 \in N
    BY EmptySeq
  <1>2. ASSUME NEW n \in N PROVE n + 1 \in N
    <2>1. SUFFICES ASSUME NEW s \in Seq(S), Len(s) = n + 1 PROVE s \in T
      OBVIOUS
    <2>2. s # <<>>
      BY <2>1
    <2>3. PICK t \in Seq(S), c \in S : s = Append(t, c)
      BY <2>2, SequenceEmptyOrAppend
    <2>4. Len(t) = n
      BY <2>1, <2>3
    <2>. QED
      BY <2>3, <2>4
  <1>3. N = Nat
    <2>. HIDE DEF N
    <2>1. N \in SUBSET Nat
      BY DEF N
    <2>. QED
      BY <1>1, <1>2, <2>1, NatInd
  <1>4. ASSUME NEW s \in Seq(S) PROVE s \in T
    <2>1. Len(s) \in N
      BY <1>3, LenProperties
    <2>. QED
      BY <2>1
  <1>. QED
    BY <1>4

(* A function of the numbers is defined by its first value and its steps.  *)
Recurs(h, A, a, step) ==
    h \in [Nat -> A] /\ h[0] = a /\ \A n \in Nat : h[n + 1] = step[n + 1][h[n]]

LEMMA Recursion ==
    ASSUME NEW A, NEW a \in A, NEW step \in [Nat -> [A -> A]]
    PROVE  \E h : Recurs(h, A, a, step)
  <1>. DEFINE Part(g, n) == /\ g \in [0..n -> A] /\ g[0] = a
                            /\ \A i \in Nat : i < n => g[i + 1] = step[i + 1][g[i]]
              N == {n \in Nat : \E g \in [0..n -> A] : Part(g, n)}
              pick == [n \in Nat |-> CHOOSE g \in [0..n -> A] : Part(g, n)]
              h == [n \in Nat |-> pick[n][n]]
  <1>1. N = Nat
    <2>1. 0 \in N
      <3>. DEFINE g == [i \in 0..0 |-> a]
      <3>1. g \in [0..0 -> A] /\ g[0] = a
        OBVIOUS
      <3>. HIDE DEF g
      <3>2. Part(g, 0)
        BY <3>1
      <3>. QED
        BY <3>1, <3>2
    <2>2. ASSUME NEW n \in N PROVE n + 1 \in N
      <3>1. PICK g \in [0..n -> A] : Part(g, n)
        OBVIOUS
      <3>. DEFINE f == [i \in 0..(n + 1) |-> IF i = n + 1 THEN step[n + 1][g[n]] ELSE g[i]]
      <3>2. f \in [0..(n + 1) -> A]
        OBVIOUS
      <3>3. ASSUME NEW i \in Nat, i < n + 1 PROVE f[i + 1] = step[i + 1][f[i]]
        <4>1. CASE i = n
          BY <4>1
        <4>2. CASE i # n
          BY <4>2, <3>1, <3>3
        <4>. QED
          BY <4>1, <4>2
      <3>4. f[0] = a
        BY <3>1
      <3>. HIDE DEF f
      <3>5. Part(f, n + 1)
        BY <3>2, <3>3, <3>4
      <3>. HIDE DEF Part
      <3>. QED
        BY <3>2, <3>5
    <2>. HIDE DEF N
    <2>3. N \in SUBSET Nat
      BY DEF N
    <2>. QED
      BY <2>1, <2>2, <2>3, NatInd
  <1>2. ASSUME NEW n \in Nat PROVE Part(pick[n], n)
    <2>1. \E g \in [0..n -> A] : Part(g, n)
      BY <1>1
    <2>. HIDE DEF Part
    <2>2. pick[n] = CHOOSE g \in [0..n -> A] : Part(g, n)
      OBVIOUS
    <2>. HIDE DEF pick
    <2>. QED
      BY <2>1, <2>2
  <1>. HIDE DEF pick, N
  <1>3. ASSUME NEW n \in Nat PROVE pick[n + 1][n] = pick[n][n]
    <2>. DEFINE M == {i \in Nat : i <= n => pick[n + 1][i] = pick[n][i]}
    <2>1. Part(pick[n], n) /\ Part(pick[n + 1], n + 1)
      BY <1>2
    <2>2. 0 \in M
      BY <2>1
    <2>3. ASSUME NEW i \in M PROVE i + 1 \in M
      <3>1. SUFFICES ASSUME i + 1 <= n PROVE pick[n + 1][i + 1] = pick[n][i + 1]
        OBVIOUS
      <3>2. pick[n + 1][i] = pick[n][i]
        BY <3>1
      <3>. QED
        BY <2>1, <3>1, <3>2
    <2>4. M = Nat
      <3>. HIDE DEF M
      <3>1. M \in SUBSET Nat
        BY DEF M
      <3>. QED
        BY <2>2, <2>3, <3>1, NatInd
    <2>. QED
      BY <2>4
  <1>4. h \in [Nat -> A] /\ h[0] = a
    <2>1. ASSUME NEW n \in Nat PROVE pick[n][n] \in A
      <3>1. pick[n] \in [0..n -> A] /\ n \in 0..n
        BY <1>2
      <3>. QED
        BY <3>1
    <2>2. pick[0][0] = a
      BY <1>2
    <2>. QED
      BY <2>1, <2>2
  <1>5. ASSUME NEW n \in Nat PROVE h[n + 1] = step[n + 1][h[n]]
    <2>1. pick[n + 1][n + 1] = step[n + 1][pick[n + 1][n]]
      BY <1>2
    <2>. QED
      BY <2>1, <1>3
  <1>. HIDE DEF h
  <1>6. Recurs(h, A, a, step)
    BY <1>4, <1>5 DEF Recurs
  <1>. QED
    BY <1>6

-----------------------------------------------------------------------------
(* The first and the last of the given characters.                         *)

LEMMA MinIs ==
    ASSUME NEW I \in SUBSET Nat, I # {}
    PROVE  Min(I) \in I /\ \A k \in I : Min(I) <= k
  BY Least DEF Min

LEMMA MaxIs ==
    ASSUME NEW n \in Nat, NEW I \in SUBSET (0..n), I # {}
    PROVE  Max(I) \in I /\ \A k \in I : k <= Max(I)
  <1>. DEFINE below == {n - i : i \in I}
  <1>0. ASSUME NEW i \in I PROVE i \in Nat /\ n - i \in Nat /\ n - i \in below
    OBVIOUS
  <1>1. below \in SUBSET Nat /\ below # {}
    BY <1>0
  <1>2. PICK m \in below : \A k \in below : m <= k
    BY <1>1, Least
  <1>3. PICK i \in I : m = n - i
    BY <1>2
  <1>. HIDE DEF below
  <1>4. ASSUME NEW k \in I PROVE k <= i
    <2>1. m <= n - k /\ k \in Nat /\ i \in Nat
      BY <1>0, <1>2
    <2>. QED
      BY <2>1, <1>3
  <1>5. \E x \in I : \A y \in I : x >= y
    BY <1>4
  <1>6. \A k \in I : Max(I) >= k
    BY <1>5 DEF Max
  <1>7. Max(I) \in I
    BY <1>5 DEF Max
  <1>. QED
    BY <1>6, <1>7

LEMMA FirstIs ==
    ASSUME NEW S, NEW s \in Seq(S), NEW C
    PROVE  LET k == SelectInSeq(s, LAMBDA c : c \in C)
           IN  /\ k \in 0..Len(s)
               /\ k = 0 => \A i \in 1..Len(s) : s[i] \notin C
               /\ k # 0 => s[k] \in C /\ \A i \in 1..Len(s) : i < k => s[i] \notin C
  <1>. DEFINE I == {i \in 1..Len(s) : s[i] \in C}
  <1>1. SelectInSeq(s, LAMBDA c : c \in C) = IF I # {} THEN Min(I) ELSE 0
    BY DEF SelectInSeq
  <1>2. Len(s) \in Nat /\ I \in SUBSET Nat /\ I \in SUBSET (1..Len(s))
    OBVIOUS
  <1>3. \A i \in 1..Len(s) : i \in I <=> s[i] \in C
    OBVIOUS
  <1>. HIDE DEF I
  <1>4. I # {} => Min(I) \in I /\ \A k \in I : Min(I) <= k
    BY <1>2, MinIs
  <1>. DEFINE k == SelectInSeq(s, LAMBDA c : c \in C)
  <1>. HIDE DEF k
  <1>5. k = IF I # {} THEN Min(I) ELSE 0
    BY <1>1 DEF k
  <1>. DEFINE Goal == /\ k \in 0..Len(s)
                      /\ k = 0 => \A i \in 1..Len(s) : s[i] \notin C
                      /\ k # 0 => s[k] \in C /\ \A i \in 1..Len(s) : i < k => s[i] \notin C
  <1>6. ASSUME I = {} PROVE Goal
    <2>1. k = 0 /\ \A i \in 1..Len(s) : s[i] \notin C
      BY <1>3, <1>5, <1>6
    <2>. QED
      BY <2>1, <1>2
  <1>7. ASSUME I # {} PROVE Goal
    <2>1. k \in I /\ \A i \in I : k <= i
      BY <1>4, <1>5, <1>7
    <2>2. k \in 1..Len(s) /\ s[k] \in C
      BY <2>1, <1>2, <1>3
    <2>3. ASSUME NEW i \in 1..Len(s), i < k PROVE s[i] \notin C
      <3>1. i \notin I
        BY <2>1, <2>2, <2>3
      <3>. QED
        BY <3>1, <1>3
    <2>. QED
      BY <2>2, <2>3, <1>2
  <1>8. Goal
    BY <1>6, <1>7
  <1>. QED
    BY <1>8 DEF k

LEMMA LastIs ==
    ASSUME NEW S, NEW s \in Seq(S), NEW C
    PROVE  LET k == SelectLastInSeq(s, LAMBDA c : c \in C)
           IN  /\ k \in 0..Len(s)
               /\ k # 0 => s[k] \in C
               /\ \A i \in 1..Len(s) : i > k => s[i] \notin C
  <1>. DEFINE I == {i \in 1..Len(s) : s[i] \in C}
  <1>1. SelectLastInSeq(s, LAMBDA c : c \in C) = IF I # {} THEN Max(I) ELSE 0
    BY DEF SelectLastInSeq
  <1>2. Len(s) \in Nat /\ I \in SUBSET (0..Len(s)) /\ I \in SUBSET (1..Len(s))
    OBVIOUS
  <1>3. \A i \in 1..Len(s) : i \in I <=> s[i] \in C
    OBVIOUS
  <1>. HIDE DEF I
  <1>4. I # {} => Max(I) \in I /\ \A k \in I : k <= Max(I)
    BY <1>2, MaxIs
  <1>. DEFINE k == SelectLastInSeq(s, LAMBDA c : c \in C)
  <1>. HIDE DEF k
  <1>5. k = IF I # {} THEN Max(I) ELSE 0
    BY <1>1 DEF k
  <1>. DEFINE Goal == /\ k \in 0..Len(s)
                      /\ k # 0 => s[k] \in C
                      /\ \A i \in 1..Len(s) : i > k => s[i] \notin C
  <1>6. ASSUME I = {} PROVE Goal
    <2>1. k = 0 /\ \A i \in 1..Len(s) : s[i] \notin C
      BY <1>3, <1>5, <1>6
    <2>. QED
      BY <2>1, <1>2
  <1>7. ASSUME I # {} PROVE Goal
    <2>1. k \in I /\ \A i \in I : i <= k
      BY <1>4, <1>5, <1>7
    <2>2. k \in 1..Len(s) /\ s[k] \in C
      BY <2>1, <1>2, <1>3
    <2>3. ASSUME NEW i \in 1..Len(s), i > k PROVE s[i] \notin C
      <3>1. i \notin I
        BY <2>1, <2>2, <2>3
      <3>. QED
        BY <3>1, <1>3
    <2>. QED
      BY <2>2, <2>3, <1>2
  <1>8. Goal
    BY <1>6, <1>7
  <1>. QED
    BY <1>8 DEF k

(* Nothing of C is before what From returns, which begins with one of C.   *)
LEMMA FromSplit ==
    ASSUME NEW S, NEW s \in Seq(S), NEW C
    PROVE  /\ From(s, C) \in Seq(S)
           /\ \E u \in Seq(S \ C) : s = u \o From(s, C)
           /\ From(s, C) = <<>> \/ From(s, C)[1] \in C
  <1>. DEFINE k == SelectInSeq(s, LAMBDA c : c \in C)
  <1>1. /\ k \in 0..Len(s)
        /\ k = 0 => \A i \in 1..Len(s) : s[i] \notin C
        /\ k # 0 => s[k] \in C /\ \A i \in 1..Len(s) : i < k => s[i] \notin C
    BY FirstIs
  <1>2. From(s, C) = IF k = 0 THEN <<>> ELSE SubSeq(s, k, Len(s))
    BY DEF From
  <1>. HIDE DEF k
  <1>3. CASE k = 0
    <2>1. s \in Seq(S \ C) /\ From(s, C) = <<>> /\ s = s \o <<>>
      BY <1>1, <1>2, <1>3
    <2>. QED
      BY <2>1
  <1>4. CASE k # 0
    <2>. DEFINE u == SubSeq(s, 1, k - 1)
    <2>1. u \in Seq(S \ C)
      <3>1. \A i \in 1..(k - 1) : s[i] \in S \ C
        BY <1>1, <1>4
      <3>. QED
        BY <3>1, <1>1, SubSeqProperties
    <2>2. s = u \o SubSeq(s, k, Len(s))
      <3>1. s = SubSeq(s, 1, Len(s))
        BY SubSeqFull
      <3>2. SubSeq(s, 1, k - 1) \o SubSeq(s, (k - 1) + 1, Len(s)) = SubSeq(s, 1, Len(s))
        <4>1. Len(s) \in Nat /\ k \in 1..Len(s)
          BY <1>1, <1>4
        <4>2. 1 \in 1..(Len(s) + 1) /\ k - 1 \in (1 - 1)..Len(s) /\ Len(s) \in (k - 1)..Len(s)
          BY <4>1
        <4>. QED
          BY <4>2, ConcatAdjacentSubSeq
      <3>. QED
        BY <3>1, <3>2, <1>1
    <2>3. SubSeq(s, k, Len(s)) \in Seq(S) /\ SubSeq(s, k, Len(s))[1] = s[k]
      BY <1>1, <1>4, SubSeqProperties
    <2>. QED
      BY <2>1, <2>2, <2>3, <1>1, <1>2, <1>4
  <1>. QED
    BY <1>3, <1>4

LEMMA FromOf ==
    ASSUME NEW S, NEW C, NEW u \in Seq(S \ C), NEW v \in Seq(S),
           v = <<>> \/ v[1] \in C
    PROVE  From(u \o v, C) = v
  <1>. DEFINE s == u \o v
              k == SelectInSeq(s, LAMBDA c : c \in C)
  <1>0. u \in Seq(S) /\ \A i \in 1..Len(u) : u[i] \notin C
    OBVIOUS
  <1>1. /\ s \in Seq(S) /\ Len(s) = Len(u) + Len(v)
        /\ \A i \in 1..(Len(u) + Len(v)) : s[i] = IF i <= Len(u) THEN u[i] ELSE v[i - Len(u)]
    BY <1>0, ConcatProperties
  <1>2. /\ k \in 0..Len(s)
        /\ k = 0 => \A i \in 1..Len(s) : s[i] \notin C
        /\ k # 0 => s[k] \in C /\ \A i \in 1..Len(s) : i < k => s[i] \notin C
    BY <1>1, FirstIs
  <1>3. From(s, C) = IF k = 0 THEN <<>> ELSE SubSeq(s, k, Len(s))
    BY DEF From
  <1>4. s = v \/ u # <<>>
    BY ConcatEmptySeq
  <1>. HIDE DEF k, s
  <1>5. CASE v = <<>>
    <2>1. k = 0
      BY <1>0, <1>1, <1>2, <1>5
    <2>. QED
      BY <2>1, <1>3, <1>5 DEF s
  <1>6. CASE v # <<>>
    <2>1. s[Len(u) + 1] = v[1] /\ v[1] \in C /\ Len(v) >= 1
      BY <1>1, <1>6
    <2>2. k = Len(u) + 1
      <3>1. Len(u) \in Nat /\ Len(v) \in Nat /\ Len(u) + 1 \in 1..Len(s)
        BY <2>1, <1>1
      <3>2. k # 0 /\ k <= Len(u) + 1
        BY <3>1, <2>1, <1>2
      <3>3. ASSUME k <= Len(u) PROVE FALSE
        <4>1. k \in 1..Len(u) /\ k \in 1..(Len(u) + Len(v)) /\ s[k] \in C
          BY <3>1, <3>2, <3>3, <1>2
        <4>2. s[k] = u[k]
          BY <4>1, <1>1
        <4>. QED
          BY <4>1, <4>2, <1>0
      <3>. QED
        BY <3>1, <3>2, <3>3, <1>2
    <2>3. SubSeq(s, Len(u) + 1, Len(s)) = v
      <3>1. /\ SubSeq(s, Len(u) + 1, Len(s)) \in Seq(S)
            /\ Len(SubSeq(s, Len(u) + 1, Len(s))) = Len(v)
            /\ \A i \in 1..Len(v) : SubSeq(s, Len(u) + 1, Len(s))[i] = s[Len(u) + i]
        BY <1>1, <2>1, SubSeqProperties
      <3>. QED
        BY <3>1, <1>1, SeqEqual
    <2>. QED
      BY <2>2, <2>3, <1>3 DEF s
  <1>. QED
    BY <1>5, <1>6

(* Nothing of C is after what UpTo returns, which ends with one of C.      *)
LEMMA UpToSplit ==
    ASSUME NEW S, NEW s \in Seq(S), NEW C
    PROVE  /\ UpTo(s, C) \in Seq(S)
           /\ \E v \in Seq(S \ C) : s = UpTo(s, C) \o v
           /\ UpTo(s, C) = <<>> \/ Last(UpTo(s, C)) \in C
  <1>. DEFINE k == SelectLastInSeq(s, LAMBDA c : c \in C)
  <1>1. /\ k \in 0..Len(s)
        /\ k # 0 => s[k] \in C
        /\ \A i \in 1..Len(s) : i > k => s[i] \notin C
    BY LastIs
  <1>2. UpTo(s, C) = SubSeq(s, 1, k)
    BY DEF UpTo
  <1>. HIDE DEF k
  <1>3. Len(s) \in Nat /\ k \in Nat /\ k <= Len(s)
    BY <1>1
  <1>. DEFINE u == SubSeq(s, 1, k)
              v == SubSeq(s, k + 1, Len(s))
  <1>4. u \in Seq(S) /\ Len(u) = k /\ \A i \in 1..k : u[i] = s[i]
    BY <1>3, SubSeqProperties
  <1>5. v \in Seq(S \ C)
    <2>1. \A i \in (k + 1)..Len(s) : s[i] \in S \ C
      BY <1>1, <1>3
    <2>. QED
      BY <2>1, <1>3, SubSeqProperties
  <1>6. s = u \o v
    <2>1. s = SubSeq(s, 1, Len(s))
      BY SubSeqFull
    <2>2. 1 \in 1..(Len(s) + 1) /\ k \in (1 - 1)..Len(s) /\ Len(s) \in k..Len(s)
      BY <1>3
    <2>. QED
      BY <2>1, <2>2, ConcatAdjacentSubSeq
  <1>7. u = <<>> \/ Last(u) \in C
    <2>1. CASE k = 0
      BY <2>1, <1>4
    <2>2. CASE k # 0
      BY <2>2, <1>1, <1>3, <1>4 DEF Last
    <2>. QED
      BY <2>1, <2>2
  <1>. HIDE DEF u, v
  <1>8. UpTo(s, C) = u
    BY <1>2 DEF u
  <1>. QED
    BY <1>4, <1>5, <1>6, <1>7, <1>8

LEMMA UpToOf ==
    ASSUME NEW S, NEW C, NEW u \in Seq(S), NEW v \in Seq(S \ C),
           u = <<>> \/ Last(u) \in C
    PROVE  UpTo(u \o v, C) = u
  <1>. DEFINE s == u \o v
              k == SelectLastInSeq(s, LAMBDA c : c \in C)
  <1>0. v \in Seq(S) /\ \A i \in 1..Len(v) : v[i] \notin C
    OBVIOUS
  <1>1. /\ s \in Seq(S) /\ Len(s) = Len(u) + Len(v)
        /\ \A i \in 1..(Len(u) + Len(v)) : s[i] = IF i <= Len(u) THEN u[i] ELSE v[i - Len(u)]
    BY <1>0, ConcatProperties
  <1>2. /\ k \in 0..Len(s)
        /\ k # 0 => s[k] \in C
        /\ \A i \in 1..Len(s) : i > k => s[i] \notin C
    BY <1>1, LastIs
  <1>3. UpTo(s, C) = SubSeq(s, 1, k)
    BY DEF UpTo
  <1>. HIDE DEF k, s
  <1>4. Len(u) \in Nat /\ Len(v) \in Nat /\ k \in Nat /\ k <= Len(u) + Len(v)
    BY <1>1, <1>2
  <1>5. k <= Len(u)
    <2>1. SUFFICES ASSUME k > Len(u) PROVE FALSE
      BY <1>4
    <2>2. k \in 1..(Len(u) + Len(v)) /\ k - Len(u) \in 1..Len(v) /\ ~(k <= Len(u))
      BY <2>1, <1>4
    <2>3. s[k] = v[k - Len(u)]
      BY <2>2, <1>1
    <2>. QED
      BY <2>2, <2>3, <1>0, <1>2
  <1>6. k = Len(u)
    <2>1. SUFFICES ASSUME k < Len(u) PROVE FALSE
      BY <1>4, <1>5
    <2>2. Len(u) \in 1..(Len(u) + Len(v)) /\ Len(u) \in 1..Len(s) /\ u # <<>>
      BY <2>1, <1>1, <1>4
    <2>3. s[Len(u)] = u[Len(u)] /\ u[Len(u)] \in C
      BY <2>2, <1>1 DEF Last
    <2>. QED
      BY <2>1, <2>2, <2>3, <1>2
  <1>7. SubSeq(s, 1, Len(u)) = u
    <2>1. /\ SubSeq(s, 1, Len(u)) \in Seq(S) /\ Len(SubSeq(s, 1, Len(u))) = Len(u)
          /\ \A i \in 1..Len(u) : SubSeq(s, 1, Len(u))[i] = s[i]
      BY <1>1, <1>4, SubSeqProperties
    <2>. QED
      BY <2>1, <1>1, <1>4, SeqEqual
  <1>. QED
    BY <1>3, <1>6, <1>7 DEF s

LEMMA IndexIs ==
    ASSUME NEW S, NEW s \in Seq(S), NEW x
    PROVE  /\ Index(s, x) \in 0..Len(s)
           /\ Index(s, x) = 0 => \A i \in 1..Len(s) : s[i] # x
           /\ Index(s, x) # 0 =>
                 s[Index(s, x)] = x /\ \A i \in 1..Len(s) : i < Index(s, x) => s[i] # x
  <1>1. Index(s, x) = SelectInSeq(s, LAMBDA c : c \in {x})
    BY DEF Index, SelectInSeq
  <1>2. \A c : c \in {x} <=> c = x
    OBVIOUS
  <1>3. LET k == SelectInSeq(s, LAMBDA c : c \in {x})
        IN  /\ k \in 0..Len(s)
            /\ k = 0 => \A i \in 1..Len(s) : s[i] \notin {x}
            /\ k # 0 => s[k] \in {x} /\ \A i \in 1..Len(s) : i < k => s[i] \notin {x}
    BY FirstIs
  <1>. QED
    BY <1>1, <1>2, <1>3

LEMMA LastIndexIs ==
    ASSUME NEW S, NEW s \in Seq(S), NEW x
    PROVE  /\ LastIndex(s, x) \in 0..Len(s)
           /\ LastIndex(s, x) # 0 => s[LastIndex(s, x)] = x
           /\ \A i \in 1..Len(s) : i > LastIndex(s, x) => s[i] # x
  <1>1. LastIndex(s, x) = SelectLastInSeq(s, LAMBDA c : c \in {x})
    BY DEF LastIndex, SelectLastInSeq
  <1>2. \A c : c \in {x} <=> c = x
    OBVIOUS
  <1>3. LET k == SelectLastInSeq(s, LAMBDA c : c \in {x})
        IN  /\ k \in 0..Len(s)
            /\ k # 0 => s[k] \in {x}
            /\ \A i \in 1..Len(s) : i > k => s[i] \notin {x}
    BY LastIs
  <1>. QED
    BY <1>1, <1>2, <1>3

-----------------------------------------------------------------------------
(* Folds.                                                                  *)

Combines(F, A, S) == F \in [A \X S -> A]

Folded(f, A, base, F, s) ==
    /\ f \in [SUBSET DOMAIN s -> A]
    /\ \A P \in SUBSET DOMAIN s :
          f[P] = IF P = {} THEN base ELSE F[<<f[P \ {Max(P)}], s[Max(P)]>>]

(* What FoldLeft is of chooses a function of the sets of indices: there is *)
(* one, which takes the given step at every index of its argument.         *)
LEMMA FoldExists ==
    ASSUME NEW A, NEW S, NEW base \in A, NEW F, Combines(F, A, S), NEW s \in Seq(S)
    PROVE  \E f : Folded(f, A, base, F, s)
  <1>. DEFINE n == Len(s)
              D == DOMAIN s
              Is(h, P) == /\ h \in [Nat -> A] /\ h[0] = base
                          /\ \A i \in Nat : h[i + 1] = IF i + 1 \in P THEN F[<<h[i], s[i + 1]>>]
                                                       ELSE h[i]
              h == [P \in SUBSET D |-> CHOOSE g \in [Nat -> A] : Is(g, P)]
              f == [P \in SUBSET D |-> h[P][n]]
  <1>. USE DEF Combines
  <1>1. D = 1..n /\ n \in Nat /\ \A i \in D : s[i] \in S
    OBVIOUS
  <1>2. ASSUME NEW P \in SUBSET D PROVE Is(h[P], P)
    <2>. DEFINE step == [i \in Nat |-> [x \in A |-> IF i \in P THEN F[<<x, s[i]>>] ELSE x]]
    <2>1. step \in [Nat -> [A -> A]]
      <3>1. ASSUME NEW i \in Nat, NEW x \in A
            PROVE  (IF i \in P THEN F[<<x, s[i]>>] ELSE x) \in A
        BY <1>1
      <3>. QED
        BY <3>1
    <2>. HIDE DEF step
    <2>2. PICK g : Recurs(g, A, base, step)
      BY <2>1, Recursion
    <2>3. ASSUME NEW i \in Nat
          PROVE  g[i + 1] = IF i + 1 \in P THEN F[<<g[i], s[i + 1]>>] ELSE g[i]
      <3>1. g[i] \in A /\ i + 1 \in Nat
        BY <2>2 DEF Recurs
      <3>. QED
        BY <3>1, <2>2 DEF step, Recurs
    <2>4. \E g_1 \in [Nat -> A] : Is(g_1, P)
      <3>1. Is(g, P)
        BY <2>2, <2>3 DEF Recurs
      <3>. HIDE DEF Is
      <3>. QED
        BY <3>1, <2>2 DEF Recurs
    <2>5. h[P] = CHOOSE g_1 \in [Nat -> A] : Is(g_1, P)
      OBVIOUS
    <2>. HIDE DEF h, Is
    <2>. QED
      BY <2>4, <2>5
  <1>3. ASSUME NEW P \in SUBSET D PROVE f[P] = h[P][n]
    OBVIOUS
  <1>. HIDE DEF h, f
  <1>r. ASSUME NEW P \in SUBSET D
        PROVE  /\ h[P] \in [Nat -> A] /\ h[P][0] = base
               /\ \A i \in Nat : i + 1 \in P => h[P][i + 1] = F[<<h[P][i], s[i + 1]>>]
               /\ \A i \in Nat : i + 1 \notin P => h[P][i + 1] = h[P][i]
    BY <1>2
  <1>. HIDE DEF Is
  <1>4. f \in [SUBSET D -> A]
    <2>1. ASSUME NEW P \in SUBSET D PROVE h[P][n] \in A
      BY <1>1, <1>r
    <2>. QED
      BY <2>1 DEF f
  <1>5. ASSUME NEW P \in SUBSET D, P = {} PROVE f[P] = base
    <2>. DEFINE T == {i \in Nat : h[P][i] = base}
    <2>1. 0 \in T
      BY <1>r
    <2>2. ASSUME NEW i \in T PROVE i + 1 \in T
      <3>1. i \in Nat /\ h[P][i] = base /\ i + 1 \notin P
        BY <1>5
      <3>2. h[P][i + 1] = h[P][i]
        BY <3>1, <1>r
      <3>. QED
        BY <3>1, <3>2
    <2>. HIDE DEF T
    <2>3. T = Nat
      <3>1. T \in SUBSET Nat
        BY DEF T
      <3>. QED
        BY <2>1, <2>2, <3>1, NatInd
    <2>. QED
      BY <2>3, <1>1, <1>3 DEF T
  <1>6. ASSUME NEW P \in SUBSET D, P # {} PROVE f[P] = F[<<f[P \ {Max(P)}], s[Max(P)]>>]
    <2>. DEFINE m == Max(P)
                Q == P \ {m}
    <2>1. m \in P /\ m \in 1..n /\ \A i \in P : i \in Nat /\ i <= m
      <3>1. P \in SUBSET (0..n)
        BY <1>1
      <3>. HIDE DEF n, D
      <3>2. m \in P /\ \A i \in P : i <= m
        BY <3>1, <1>1, <1>6, MaxIs
      <3>. HIDE DEF m
      <3>. QED
        BY <3>1, <3>2, <1>1
    <2>. HIDE DEF m
    <2>2. Q \in SUBSET D
      OBVIOUS
    <2>3. /\ h[P] \in [Nat -> A] /\ h[P][0] = base
          /\ \A i \in Nat : i + 1 \in P => h[P][i + 1] = F[<<h[P][i], s[i + 1]>>]
          /\ \A i \in Nat : i + 1 \notin P => h[P][i + 1] = h[P][i]
          /\ h[Q] \in [Nat -> A] /\ h[Q][0] = base
          /\ \A i \in Nat : i + 1 \in Q => h[Q][i + 1] = F[<<h[Q][i], s[i + 1]>>]
          /\ \A i \in Nat : i + 1 \notin Q => h[Q][i + 1] = h[Q][i]
      BY <2>2, <1>r
    <2>. HIDE DEF Q
    <2>q. \A i \in Nat : i \in Q <=> i \in P /\ i # m
      BY DEF Q
    <2>. DEFINE T == {i \in Nat : i < m => h[P][i] = h[Q][i]}
    <2>4. 0 \in T
      BY <2>3
    <2>5. ASSUME NEW i \in T PROVE i + 1 \in T
      <3>1. SUFFICES ASSUME i + 1 < m PROVE h[P][i + 1] = h[Q][i + 1]
        OBVIOUS
      <3>2. h[P][i] = h[Q][i] /\ (i + 1 \in P <=> i + 1 \in Q) /\ i \in Nat
        BY <3>1, <2>1, <2>q
      <3>. QED
        BY <2>3, <3>2
    <2>6. T = Nat
      <3>. HIDE DEF T
      <3>1. T \in SUBSET Nat
        BY DEF T
      <3>. QED
        BY <2>4, <2>5, <3>1, NatInd
    <2>7. h[P][m - 1] = h[Q][m - 1]
      <3>1. m - 1 \in Nat /\ m - 1 < m
        BY <2>1
      <3>. QED
        BY <2>6, <3>1
    <2>8. h[P][m] = F[<<h[Q][m - 1], s[m]>>]
      <3>1. m - 1 \in Nat /\ (m - 1) + 1 = m
        BY <2>1
      <3>. QED
        BY <3>1, <2>1, <2>3, <2>7
    <2>. DEFINE U == {i \in Nat : h[P][m + i] = h[P][m] /\ h[Q][(m - 1) + i] = h[Q][m - 1]}
    <2>9. 0 \in U
      BY <2>1
    <2>10. ASSUME NEW i \in U PROVE i + 1 \in U
      <3>1. /\ m + i \in Nat /\ m + (i + 1) = (m + i) + 1 /\ (m + i) + 1 \notin P
            /\ (m - 1) + i \in Nat /\ (m - 1) + (i + 1) = ((m - 1) + i) + 1
            /\ ((m - 1) + i) + 1 \notin Q
        <4>1. m \in Nat /\ m >= 1 /\ i \in Nat
          BY <2>1
        <4>2. (m + i) + 1 \notin P
          BY <4>1, <2>1
        <4>3. ((m - 1) + i) + 1 \notin Q
          BY <4>1, <2>1, <2>q
        <4>. QED
          BY <4>1, <4>2, <4>3
      <3>2. h[P][(m + i) + 1] = h[P][m + i]
        BY <3>1, <2>3
      <3>3. h[Q][((m - 1) + i) + 1] = h[Q][(m - 1) + i]
        BY <3>1, <2>3
      <3>4. h[P][m + i] = h[P][m] /\ h[Q][(m - 1) + i] = h[Q][m - 1]
        OBVIOUS
      <3>5. h[P][m + (i + 1)] = h[P][m] /\ h[Q][(m - 1) + (i + 1)] = h[Q][m - 1]
        BY <3>1, <3>2, <3>3, <3>4
      <3>. QED
        BY <3>5
    <2>11. U = Nat
      <3>. HIDE DEF U
      <3>1. U \in SUBSET Nat
        BY DEF U
      <3>. QED
        BY <2>9, <2>10, <3>1, NatInd
    <2>12. h[P][n] = h[P][m] /\ h[Q][n] = h[Q][m - 1]
      <3>1. /\ n - m \in Nat /\ m + (n - m) = n
            /\ n - (m - 1) \in Nat /\ (m - 1) + (n - (m - 1)) = n
        BY <2>1, <1>1
      <3>2. n - m \in U /\ n - (m - 1) \in U
        BY <3>1, <2>11
      <3>. QED
        BY <3>1, <3>2
    <2>. QED
      BY <2>2, <2>8, <2>12, <1>3 DEF Q, m
  <1>7. Folded(f, A, base, F, s)
    BY <1>4, <1>5, <1>6 DEF Folded
  <1>. QED
    BY <1>7

(* What the function of FoldLeft is of the first indices.                  *)
Steps(f, A, base, F, s) ==
    /\ f[1..0] = base
    /\ \A k \in Nat : k < Len(s) /\ f[1..k] \in A => f[1..(k + 1)] = F[<<f[1..k], s[k + 1]>>]

IsFold(x, A, base, F, s) == \E f : x = f[1..Len(s)] /\ Steps(f, A, base, F, s)

LEMMA FoldAgree ==
    ASSUME NEW A, NEW S, NEW base \in A, NEW F, Combines(F, A, S), NEW s \in Seq(S),
           NEW f, Steps(f, A, base, F, s), NEW g, Steps(g, A, base, F, s)
    PROVE  f[1..Len(s)] \in A /\ g[1..Len(s)] = f[1..Len(s)]
  <1>. DEFINE T == {k \in Nat : k <= Len(s) => f[1..k] \in A /\ g[1..k] = f[1..k]}
  <1>1. 0 \in T
    BY DEF Steps
  <1>2. ASSUME NEW k \in T PROVE k + 1 \in T
    <2>1. SUFFICES ASSUME k + 1 <= Len(s)
                   PROVE  f[1..(k + 1)] \in A /\ g[1..(k + 1)] = f[1..(k + 1)]
      OBVIOUS
    <2>2. k \in Nat /\ k < Len(s) /\ k + 1 \in 1..Len(s) /\ s[k + 1] \in S
      BY <2>1, ElementOfSeq
    <2>3. f[1..k] \in A /\ g[1..k] = f[1..k]
      BY <2>1, <2>2
    <2>4. f[1..(k + 1)] = F[<<f[1..k], s[k + 1]>>] /\ g[1..(k + 1)] = F[<<g[1..k], s[k + 1]>>]
      BY <2>2, <2>3 DEF Steps
    <2>. QED
      BY <2>2, <2>3, <2>4 DEF Combines
  <1>3. T = Nat
    <2>. HIDE DEF T
    <2>1. T \in SUBSET Nat
      BY DEF T
    <2>. QED
      BY <1>1, <1>2, <2>1, NatInd
  <1>4. Len(s) \in Nat
    OBVIOUS
  <1>. QED
    BY <1>3, <1>4

(* x and y are the folds of a sequence and of that sequence and c.         *)
AreFolds(x, y, A, S, base, F, s, c) ==
    /\ base \in A /\ Combines(F, A, S) /\ s \in Seq(S) /\ c \in S
    /\ IsFold(x, A, base, F, s) /\ IsFold(y, A, base, F, Append(s, c))

LEMMA FoldAppend ==
    ASSUME NEW A, NEW S, NEW base, NEW F, NEW s, NEW c, NEW x, NEW y,
           AreFolds(x, y, A, S, base, F, s, c)
    PROVE  x \in A /\ y = F[<<x, c>>]
  <1>0. base \in A /\ Combines(F, A, S) /\ s \in Seq(S) /\ c \in S
    BY DEF AreFolds
  <1>f. PICK f : x = f[1..Len(s)] /\ Steps(f, A, base, F, s)
    BY DEF AreFolds, IsFold
  <1>g. PICK g : y = g[1..Len(Append(s, c))] /\ Steps(g, A, base, F, Append(s, c))
    BY DEF AreFolds, IsFold
  <1>1. /\ Len(Append(s, c)) = Len(s) + 1 /\ Len(s) \in Nat
        /\ \A i \in 1..Len(s) : Append(s, c)[i] = s[i]
        /\ Append(s, c)[Len(s) + 1] = c
    BY <1>0, AppendProperties
  <1>2. Steps(g, A, base, F, s)
    <2>1. ASSUME NEW k \in Nat, k < Len(s), g[1..k] \in A
          PROVE  g[1..(k + 1)] = F[<<g[1..k], s[k + 1]>>]
      <3>1. k < Len(Append(s, c)) /\ Append(s, c)[k + 1] = s[k + 1]
        BY <2>1, <1>1
      <3>. QED
        BY <2>1, <3>1, <1>g DEF Steps
    <2>. QED
      BY <2>1, <1>g DEF Steps
  <1>3. f[1..Len(s)] \in A /\ g[1..Len(s)] = f[1..Len(s)]
    BY <1>0, <1>2, <1>f, FoldAgree
  <1>4. g[1..(Len(s) + 1)] = F[<<g[1..Len(s)], Append(s, c)[Len(s) + 1]>>]
    <2>1. Len(s) < Len(Append(s, c))
      BY <1>1
    <2>. QED
      BY <2>1, <1>1, <1>3, <1>g DEF Steps
  <1>. QED
    BY <1>1, <1>3, <1>4, <1>f, <1>g

LEMMA Initial ==
    ASSUME NEW n \in Nat, NEW k \in Nat, k < n
    PROVE  /\ 1..(k + 1) \in SUBSET (1..n) /\ 1..(k + 1) # {} /\ Max(1..(k + 1)) = k + 1
           /\ 1..(k + 1) \ {k + 1} = 1..k
  <1>. DEFINE I == 1..(k + 1)
  <1>1. k + 1 \in I /\ k + 1 \in Nat /\ \A i \in I : i \in Nat /\ i <= k + 1
    OBVIOUS
  <1>2. I \subseteq 0..(k + 1)
    OBVIOUS
  <1>3. I \subseteq 1..n /\ I \ {k + 1} = 1..k
    OBVIOUS
  <1>. HIDE DEF I
  <1>4. Max(I) \in I /\ \A i \in I : i <= Max(I)
    BY <1>1, <1>2, MaxIs
  <1>5. Max(I) = k + 1
    BY <1>1, <1>4
  <1>. QED
    BY <1>1, <1>3, <1>5 DEF I

-----------------------------------------------------------------------------
(* The characters that normalize leaves out, and those that it collapses.  *)

allow == [x \in Seq(Character) \X Character |->
            IF x[2] \in Alphanumeric \cup Separator \cup {" "} THEN Append(x[1], x[2]) ELSE x[1]]

collapse == [x \in Seq(Character) \X Character |->
               IF x[2] \notin Separator THEN Append(x[1], x[2])
               ELSE IF x[1] # <<>> /\ Last(x[1]) = "-" THEN x[1] ELSE Append(x[1], "-")]

LEMMA AllowType == Combines(allow, Seq(Character), Character)
  <1>1. ASSUME NEW x \in Seq(Character) \X Character PROVE allow[x] \in Seq(Character)
    <2>1. x[1] \in Seq(Character) /\ x[2] \in Character
      OBVIOUS
    <2>2. Append(x[1], x[2]) \in Seq(Character)
      BY <2>1
    <2>. QED
      BY <2>1, <2>2 DEF allow
  <1>. QED
    BY <1>1 DEF Combines, allow

LEMMA CollapseType == Combines(collapse, Seq(Character), Character)
  <1>1. "-" \in Character
    BY DEF Character, Separator
  <1>2. ASSUME NEW x \in Seq(Character) \X Character PROVE collapse[x] \in Seq(Character)
    BY <1>1 DEF collapse
  <1>. QED
    BY <1>2 DEF Combines, collapse

LEMMA AllowedIs ==
    ASSUME NEW s \in Seq(Character)
    PROVE  IsFold(allowed(s), Seq(Character), <<>>, allow, s)
  <1>. DEFINE op(x, c) == IF c \in Alphanumeric \cup Separator \cup {" "} THEN Append(x, c) ELSE x
              Is(f) == f = [P \in SUBSET DOMAIN s |->
                              IF P = {} THEN <<>> ELSE op(f[P \ {Max(P)}], s[Max(P)])]
              fold == CHOOSE f : Is(f)
  <1>1. allowed(s) = fold[DOMAIN s]
    BY DEF allowed, FoldLeft, MapThenFoldSet
  <1>2. DOMAIN s = 1..Len(s) /\ Len(s) \in Nat /\ \A i \in 1..Len(s) : s[i] \in Character
    OBVIOUS
  <1>3. Combines(allow, Seq(Character), Character)
    BY AllowType
  <1>4. PICK f : Folded(f, Seq(Character), <<>>, allow, s)
    <2>1. <<>> \in Seq(Character)
      OBVIOUS
    <2>. QED
      BY <1>3, <2>1, FoldExists
  <1>5. Is(f)
    <2>1. ASSUME NEW P \in SUBSET DOMAIN s, P # {}
          PROVE  f[P] = op(f[P \ {Max(P)}], s[Max(P)])
      <3>1. Max(P) \in P
        <4>1. P \in SUBSET (0..Len(s))
          BY <1>2
        <4>. QED
          BY <4>1, <1>2, <2>1, MaxIs
      <3>2. f[P \ {Max(P)}] \in Seq(Character) /\ s[Max(P)] \in Character
        BY <3>1, <1>2, <1>4 DEF Folded
      <3>. QED
        BY <3>2, <1>4, <2>1 DEF allow, Folded
    <2>. QED
      BY <2>1, <1>4 DEF Folded
  <1>6. Is(fold)
    <2>. HIDE DEF Is
    <2>. QED
      BY <1>5
  <1>. HIDE DEF fold
  <1>7. fold[1..0] = <<>>
    <2>1. 1..0 = {} /\ {} \in SUBSET DOMAIN s
      OBVIOUS
    <2>. QED
      BY <2>1, <1>6
  <1>8. ASSUME NEW k \in Nat, k < Len(s), fold[1..k] \in Seq(Character)
        PROVE  fold[1..(k + 1)] = allow[<<fold[1..k], s[k + 1]>>]
    <2>1. /\ 1..(k + 1) \in SUBSET DOMAIN s /\ 1..(k + 1) # {} /\ Max(1..(k + 1)) = k + 1
          /\ 1..(k + 1) \ {k + 1} = 1..k
      BY <1>2, <1>8, Initial
    <2>2. fold[1..(k + 1)] = op(fold[1..k], s[k + 1])
      BY <2>1, <1>6
    <2>3. s[k + 1] \in Character
      BY <1>2, <1>8
    <2>. QED
      BY <2>2, <2>3, <1>8 DEF allow
  <1>. QED
    BY <1>1, <1>2, <1>7, <1>8 DEF Steps, IsFold

LEMMA CollapsedIs ==
    ASSUME NEW s \in Seq(Character)
    PROVE  IsFold(collapsed(s), Seq(Character), <<>>, collapse, s)
  <1>. DEFINE op(x, c) == IF c \notin Separator THEN Append(x, c)
                          ELSE IF x # <<>> /\ Last(x) = "-" THEN x ELSE Append(x, "-")
              Is(f) == f = [P \in SUBSET DOMAIN s |->
                              IF P = {} THEN <<>> ELSE op(f[P \ {Max(P)}], s[Max(P)])]
              fold == CHOOSE f : Is(f)
  <1>1. collapsed(s) = fold[DOMAIN s]
    BY DEF collapsed, FoldLeft, MapThenFoldSet
  <1>2. DOMAIN s = 1..Len(s) /\ Len(s) \in Nat /\ \A i \in 1..Len(s) : s[i] \in Character
    OBVIOUS
  <1>3. Combines(collapse, Seq(Character), Character)
    BY CollapseType
  <1>4. PICK f : Folded(f, Seq(Character), <<>>, collapse, s)
    <2>1. <<>> \in Seq(Character)
      OBVIOUS
    <2>. QED
      BY <1>3, <2>1, FoldExists
  <1>5. Is(f)
    <2>1. ASSUME NEW P \in SUBSET DOMAIN s, P # {}
          PROVE  f[P] = op(f[P \ {Max(P)}], s[Max(P)])
      <3>1. Max(P) \in P
        <4>1. P \in SUBSET (0..Len(s))
          BY <1>2
        <4>. QED
          BY <4>1, <1>2, <2>1, MaxIs
      <3>2. f[P \ {Max(P)}] \in Seq(Character) /\ s[Max(P)] \in Character
        BY <3>1, <1>2, <1>4 DEF Folded
      <3>. QED
        BY <3>2, <1>4, <2>1 DEF collapse, Folded
    <2>. QED
      BY <2>1, <1>4 DEF Folded
  <1>6. Is(fold)
    <2>. HIDE DEF Is
    <2>. QED
      BY <1>5
  <1>. HIDE DEF fold
  <1>7. fold[1..0] = <<>>
    <2>1. 1..0 = {} /\ {} \in SUBSET DOMAIN s
      OBVIOUS
    <2>. QED
      BY <2>1, <1>6
  <1>8. ASSUME NEW k \in Nat, k < Len(s), fold[1..k] \in Seq(Character)
        PROVE  fold[1..(k + 1)] = collapse[<<fold[1..k], s[k + 1]>>]
    <2>1. /\ 1..(k + 1) \in SUBSET DOMAIN s /\ 1..(k + 1) # {} /\ Max(1..(k + 1)) = k + 1
          /\ 1..(k + 1) \ {k + 1} = 1..k
      BY <1>2, <1>8, Initial
    <2>2. fold[1..(k + 1)] = op(fold[1..k], s[k + 1])
      BY <2>1, <1>6
    <2>3. s[k + 1] \in Character
      BY <1>2, <1>8
    <2>. QED
      BY <2>2, <2>3, <1>8 DEF collapse
  <1>. QED
    BY <1>1, <1>2, <1>7, <1>8 DEF Steps, IsFold

(* allowed and collapsed, by the last character.                           *)
LEMMA AllowedEmpty == allowed(<<>>) = <<>>
  <1>1. <<>> \in Seq(Character) /\ Len(<<>>) = 0
    OBVIOUS
  <1>. QED
    BY <1>1, AllowedIs DEF Steps, IsFold

LEMMA CollapsedEmpty == collapsed(<<>>) = <<>>
  <1>1. <<>> \in Seq(Character) /\ Len(<<>>) = 0
    OBVIOUS
  <1>. QED
    BY <1>1, CollapsedIs DEF Steps, IsFold

LEMMA AllowedAppend ==
    ASSUME NEW s \in Seq(Character), NEW c \in Character
    PROVE  /\ allowed(s) \in Seq(Character)
           /\ allowed(Append(s, c)) = IF c \in Alphanumeric \cup Separator \cup {" "}
                                      THEN Append(allowed(s), c) ELSE allowed(s)
  <1>1. <<>> \in Seq(Character) /\ Append(s, c) \in Seq(Character)
    OBVIOUS
  <1>2. Combines(allow, Seq(Character), Character)
    BY AllowType
  <1>3. IsFold(allowed(s), Seq(Character), <<>>, allow, s)
    BY AllowedIs
  <1>4. IsFold(allowed(Append(s, c)), Seq(Character), <<>>, allow, Append(s, c))
    BY <1>1, AllowedIs
  <1>5. AreFolds(allowed(s), allowed(Append(s, c)), Seq(Character), Character, <<>>, allow, s, c)
    BY <1>1, <1>2, <1>3, <1>4 DEF AreFolds
  <1>6. allowed(s) \in Seq(Character) /\ allowed(Append(s, c)) = allow[<<allowed(s), c>>]
    BY <1>5, FoldAppend
  <1>. QED
    BY <1>6 DEF allow

LEMMA CollapsedAppend ==
    ASSUME NEW s \in Seq(Character), NEW c \in Character
    PROVE  /\ collapsed(s) \in Seq(Character)
           /\ collapsed(Append(s, c)) =
                 IF c \notin Separator THEN Append(collapsed(s), c)
                 ELSE IF collapsed(s) # <<>> /\ Last(collapsed(s)) = "-" THEN collapsed(s)
                 ELSE Append(collapsed(s), "-")
  <1>1. <<>> \in Seq(Character) /\ Append(s, c) \in Seq(Character)
    OBVIOUS
  <1>2. Combines(collapse, Seq(Character), Character)
    BY CollapseType
  <1>3. IsFold(collapsed(s), Seq(Character), <<>>, collapse, s)
    BY CollapsedIs
  <1>4. IsFold(collapsed(Append(s, c)), Seq(Character), <<>>, collapse, Append(s, c))
    BY <1>1, CollapsedIs
  <1>5. AreFolds(collapsed(s), collapsed(Append(s, c)), Seq(Character), Character, <<>>, collapse, s, c)
    BY <1>1, <1>2, <1>3, <1>4 DEF AreFolds
  <1>6. collapsed(s) \in Seq(Character) /\ collapsed(Append(s, c)) = collapse[<<collapsed(s), c>>]
    BY <1>5, FoldAppend
  <1>. QED
    BY <1>6 DEF collapse

-----------------------------------------------------------------------------
(* FlattenSeq, by the last part.                                           *)

Joins(f, s) ==
    f[1] = s[1] /\ \A i \in Nat : 1 <= i /\ i < Len(s) => f[i + 1] = f[i] \o s[i + 1]

LEMMA FlattenIs ==
    ASSUME NEW S, NEW s \in Seq(Seq(S)), s # <<>>
    PROVE  \E f : FlattenSeq(s) = f[Len(s)] /\ Joins(f, s)
  <1>. DEFINE A == Seq(S)
              n == Len(s)
              Is(f) == f = [i \in 1..n |-> IF i = 1 THEN s[i] ELSE f[i - 1] \o s[i]]
              flatten == CHOOSE f : Is(f)
              step == [i \in Nat |-> [x \in A |-> IF i \in 1..n /\ i # 1 THEN x \o s[i]
                                                  ELSE IF i = 1 THEN s[1] ELSE x]]
  <1>1. n \in Nat /\ n >= 1 /\ \A i \in 1..n : s[i] \in A
    OBVIOUS
  <1>2. FlattenSeq(s) = flatten[n]
    BY <1>1 DEF FlattenSeq
  <1>3. PICK h : Recurs(h, A, s[1], step)
    <2>1. ASSUME NEW i \in Nat, NEW x \in A
          PROVE  (IF i \in 1..n /\ i # 1 THEN x \o s[i] ELSE IF i = 1 THEN s[1] ELSE x) \in A
      BY <1>1, ConcatProperties
    <2>2. step \in [Nat -> [A -> A]]
      BY <2>1
    <2>3. s[1] \in A
      BY <1>1
    <2>. HIDE DEF step, A
    <2>. QED
      BY <2>2, <2>3, Recursion
  <1>4. \E f : Is(f)
    <2>. DEFINE g == [i \in 1..n |-> h[i]]
    <2>0. h \in [Nat -> A] /\ \A i \in Nat : h[i + 1] = step[i + 1][h[i]]
      BY <1>3 DEF Recurs
    <2>1. ASSUME NEW i \in 1..n PROVE g[i] = IF i = 1 THEN s[i] ELSE g[i - 1] \o s[i]
      <3>1. i - 1 \in Nat /\ (i - 1) + 1 = i /\ h[i - 1] \in A /\ i \in Nat
        BY <1>1, <2>0
      <3>2. h[i] = step[i][h[i - 1]]
        BY <2>0, <3>1
      <3>3. CASE i = 1
        BY <3>1, <3>2, <3>3
      <3>4. CASE i # 1
        <4>1. i - 1 \in 1..n
          BY <3>4, <1>1
        <4>2. g[i - 1] = h[i - 1] /\ g[i] = h[i]
          BY <4>1
        <4>3. h[i] = h[i - 1] \o s[i]
          BY <3>1, <3>2, <3>4
        <4>. QED
          BY <3>4, <4>2, <4>3
      <3>. QED
        BY <3>3, <3>4
    <2>2. DOMAIN g = 1..n /\ g = [i \in 1..n |-> g[i]]
      OBVIOUS
    <2>. HIDE DEF g
    <2>3. Is(g)
      BY <2>1, <2>2
    <2>. HIDE DEF Is
    <2>. QED
      BY <2>3
  <1>5. Is(flatten)
    <2>. HIDE DEF Is
    <2>. QED
      BY <1>4
  <1>. HIDE DEF flatten
  <1>6. Joins(flatten, s)
    <2>1. flatten[1] = s[1]
      BY <1>1, <1>5
    <2>2. ASSUME NEW i \in Nat, 1 <= i, i < Len(s) PROVE flatten[i + 1] = flatten[i] \o s[i + 1]
      <3>1. i + 1 \in 1..n /\ i + 1 # 1 /\ (i + 1) - 1 = i
        BY <1>1, <2>2
      <3>. QED
        BY <3>1, <1>5
    <2>. QED
      BY <2>1, <2>2 DEF Joins
  <1>. QED
    BY <1>2, <1>6

LEMMA FlattenEmpty == FlattenSeq(<<>>) = <<>>
  BY DEF FlattenSeq

LEMMA JoinsAgree ==
    ASSUME NEW S, NEW s \in Seq(Seq(S)), s # <<>>, NEW f, Joins(f, s), NEW g, Joins(g, s)
    PROVE  f[Len(s)] \in Seq(S) /\ g[Len(s)] = f[Len(s)]
  <1>. DEFINE T == {k \in Nat : k + 1 <= Len(s) => f[k + 1] \in Seq(S) /\ g[k + 1] = f[k + 1]}
  <1>0. Len(s) \in Nat /\ Len(s) >= 1 /\ \A i \in 1..Len(s) : s[i] \in Seq(S)
    OBVIOUS
  <1>1. 0 \in T
    BY <1>0 DEF Joins
  <1>2. ASSUME NEW k \in T PROVE k + 1 \in T
    <2>1. SUFFICES ASSUME (k + 1) + 1 <= Len(s)
                   PROVE  f[(k + 1) + 1] \in Seq(S) /\ g[(k + 1) + 1] = f[(k + 1) + 1]
      OBVIOUS
    <2>2. k + 1 \in Nat /\ 1 <= k + 1 /\ k + 1 < Len(s) /\ (k + 1) + 1 \in 1..Len(s)
      BY <2>1, <1>0
    <2>3. f[k + 1] \in Seq(S) /\ g[k + 1] = f[k + 1]
      BY <2>2
    <2>4. /\ f[(k + 1) + 1] = f[k + 1] \o s[(k + 1) + 1]
          /\ g[(k + 1) + 1] = g[k + 1] \o s[(k + 1) + 1]
      BY <2>2 DEF Joins
    <2>5. s[(k + 1) + 1] \in Seq(S)
      BY <2>2, <1>0
    <2>. QED
      BY <2>3, <2>4, <2>5, ConcatProperties
  <1>3. T = Nat
    <2>. HIDE DEF T
    <2>1. T \in SUBSET Nat
      BY DEF T
    <2>. QED
      BY <1>1, <1>2, <2>1, NatInd
  <1>4. Len(s) - 1 \in T /\ (Len(s) - 1) + 1 = Len(s)
    <2>1. Len(s) - 1 \in Nat /\ (Len(s) - 1) + 1 = Len(s)
      BY <1>0
    <2>. HIDE DEF T
    <2>. QED
      BY <2>1, <1>3
  <1>. QED
    BY <1>4

LEMMA FlattenType ==
    ASSUME NEW S, NEW s \in Seq(Seq(S))
    PROVE  FlattenSeq(s) \in Seq(S)
  <1>1. CASE s = <<>>
    <2>1. <<>> \in Seq(S)
      OBVIOUS
    <2>. QED
      BY <2>1, <1>1, FlattenEmpty
  <1>2. CASE s # <<>>
    <2>1. PICK f : FlattenSeq(s) = f[Len(s)] /\ Joins(f, s)
      BY <1>2, FlattenIs
    <2>2. f[Len(s)] \in Seq(S)
      BY <1>2, <2>1, JoinsAgree
    <2>. QED
      BY <2>1, <2>2
  <1>. QED
    BY <1>1, <1>2

LEMMA FlattenAppend ==
    ASSUME NEW S, NEW s \in Seq(Seq(S)), NEW p \in Seq(S)
    PROVE  FlattenSeq(Append(s, p)) = FlattenSeq(s) \o p
  <1>. DEFINE t == Append(s, p)
  <1>1. /\ t \in Seq(Seq(S)) /\ t # <<>> /\ Len(t) = Len(s) + 1 /\ Len(s) \in Nat
        /\ \A i \in 1..Len(s) : t[i] = s[i]
        /\ t[Len(s) + 1] = p
    BY AppendProperties
  <1>. HIDE DEF t
  <1>2. PICK g : FlattenSeq(t) = g[Len(t)] /\ Joins(g, t)
    BY <1>1, FlattenIs
  <1>3. CASE s = <<>>
    <2>1. FlattenSeq(t) = p
      BY <1>1, <1>2, <1>3 DEF Joins
    <2>2. FlattenSeq(s) \o p = p
      BY <1>3, FlattenEmpty, ConcatEmptySeq
    <2>. QED
      BY <2>1, <2>2 DEF t
  <1>4. CASE s # <<>>
    <2>1. PICK f : FlattenSeq(s) = f[Len(s)] /\ Joins(f, s)
      BY <1>4, FlattenIs
    <2>2. Len(s) >= 1
      BY <1>1, <1>4
    <2>3. Joins(g, s)
      <3>1. ASSUME NEW i \in Nat, 1 <= i, i < Len(s) PROVE g[i + 1] = g[i] \o s[i + 1]
        <4>1. i < Len(t) /\ t[i + 1] = s[i + 1]
          <5>1. i + 1 \in 1..Len(s) /\ i < Len(t)
            BY <1>1, <3>1
          <5>. QED
            BY <5>1, <1>1
        <4>. QED
          BY <1>2, <3>1, <4>1 DEF Joins
      <3>2. g[1] = s[1]
        BY <1>1, <1>2, <2>2 DEF Joins
      <3>. QED
        BY <3>1, <3>2 DEF Joins
    <2>4. g[Len(s)] = f[Len(s)]
      BY <1>4, <2>1, <2>3, JoinsAgree
    <2>5. g[Len(s) + 1] = g[Len(s)] \o p
      <3>1. 1 <= Len(s) /\ Len(s) < Len(t)
        BY <1>1, <2>2
      <3>. QED
        BY <3>1, <1>1, <1>2 DEF Joins
    <2>. QED
      BY <1>1, <1>2, <2>1, <2>4, <2>5 DEF t
  <1>. QED
    BY <1>3, <1>4

-----------------------------------------------------------------------------
(* What normalize does to a text, step by step.                            *)

Kept == Alphanumeric \cup Separator \cup {" "}
Dashed == Alphanumeric \cup {"-"}
Spaced == Dashed \cup {" "}
Solid == Character \ {" "}
KeptSolid == Alphanumeric \cup Separator

HasLetter(s) == \E i \in 1..Len(s) : s[i] \in Letter
NoDoubleDash(s) == \A i \in 1..(Len(s) - 1) : ~(s[i] = "-" /\ s[i + 1] = "-")

LEMMA Alphabets ==
    /\ KeptSolid \subseteq Solid /\ KeptSolid = Kept \cap Solid /\ Dashed \subseteq KeptSolid
    /\ Kept \subseteq Character /\ Dashed \subseteq Kept /\ Dashed \subseteq Solid
    /\ Letter \subseteq Alphanumeric /\ Alphanumeric \subseteq Dashed
    /\ Solid \subseteq Character /\ Letter \subseteq Solid
    /\ " " \notin Dashed /\ "-" \in Dashed /\ "." \notin Dashed /\ "-" \in Separator
    /\ "-" \notin Alphanumeric /\ "." \notin Alphanumeric /\ " " \notin Alphanumeric
    /\ Separator \cap Alphanumeric = {} /\ " " \notin Separator /\ " " \in Character
    /\ Dashed \cap Separator = {"-"} /\ Separator \subseteq Solid
    /\ Upper \cap Kept = {} /\ lowercase \in [Upper -> Letter]
  BY CharacterAssumption DEF Kept, KeptSolid, Dashed, Solid, Alphanumeric, Separator, Character

LEMMA Texts ==
    /\ Seq(Kept) \subseteq Seq(Character) /\ Seq(Solid) \subseteq Seq(Character)
    /\ Seq(KeptSolid) \subseteq Seq(Kept) /\ Seq(KeptSolid) \subseteq Seq(Solid)
    /\ Seq(Dashed) \subseteq Seq(KeptSolid) /\ Seq(Dashed) \subseteq Seq(Spaced)
    /\ Seq(Spaced) \subseteq Seq(Kept) /\ Seq(Dashed) \subseteq Seq(Kept)
    /\ Seq(Dashed) \subseteq Seq(Solid) /\ Seq(Dashed) \subseteq Seq(Character)
    /\ Seq(Spaced) \subseteq Seq(Character)
  <1>1. ASSUME NEW S, NEW T, S \subseteq T PROVE Seq(S) \subseteq Seq(T)
    BY <1>1, SeqMonotonic
  <1>2. /\ Kept \subseteq Character /\ Solid \subseteq Character
        /\ KeptSolid \subseteq Kept /\ KeptSolid \subseteq Solid
        /\ Dashed \subseteq KeptSolid /\ Dashed \subseteq Spaced
        /\ Spaced \subseteq Kept /\ Dashed \subseteq Kept
        /\ Dashed \subseteq Solid /\ Dashed \subseteq Character /\ Spaced \subseteq Character
    BY Alphabets DEF Spaced, Kept
  <1>. QED
    BY <1>1, <1>2, Zenon

LEMMA Ends ==
    ASSUME NEW S, NEW s \in Seq(S), s # <<>>
    PROVE  Len(s) \in Nat /\ Len(s) >= 1 /\ s[1] \in S /\ s[Len(s)] \in S /\ Last(s) \in S
  <1>1. Len(s) \in Nat \ {0}
    BY EmptySeq
  <1>2. 1 \in 1..Len(s) /\ Len(s) \in 1..Len(s)
    BY <1>1
  <1>. QED
    BY <1>1, <1>2, ElementOfSeq DEF Last

Associates(u, v, w) == (u \o v) \o w = u \o (v \o w)

LEMMA Associative ==
    ASSUME NEW S, NEW u \in Seq(S), NEW v \in Seq(S), NEW w \in Seq(S)
    PROVE  Associates(u, v, w)
  BY ConcatAssociative DEF Associates

LEMMA ConcatAppend ==
    ASSUME NEW S, NEW u \in Seq(S), NEW v \in Seq(S), NEW c \in S
    PROVE  u \o Append(v, c) = Append(u \o v, c)
  <1>1. <<c>> \in Seq(S) /\ u \o v \in Seq(S)
    BY ConcatProperties
  <1>2. Append(v, c) = v \o <<c>> /\ Append(u \o v, c) = (u \o v) \o <<c>>
    BY <1>1, AppendIsConcat
  <1>. QED
    BY <1>1, <1>2, ConcatAssociative

LEMMA LowerIs ==
    ASSUME NEW s \in Seq(Character)
    PROVE  /\ lower(s) \in Seq(Character) /\ Len(lower(s)) = Len(s)
           /\ \A i \in 1..Len(s) :
                 lower(s)[i] = IF s[i] \in Upper THEN lowercase[s[i]] ELSE s[i]
           /\ s \in Seq(Solid) => lower(s) \in Seq(Solid)
           /\ HasLetter(s) => HasLetter(lower(s))
  <1>1. DOMAIN s = 1..Len(s) /\ Len(s) \in Nat /\ \A i \in 1..Len(s) : s[i] \in Character
    OBVIOUS
  <1>2. lower(s) = [i \in 1..Len(s) |-> IF s[i] \in Upper THEN lowercase[s[i]] ELSE s[i]]
    BY <1>1 DEF lower
  <1>3. ASSUME NEW i \in 1..Len(s)
        PROVE  lower(s)[i] = (IF s[i] \in Upper THEN lowercase[s[i]] ELSE s[i])
    BY <1>2
  <1>4. ASSUME NEW i \in 1..Len(s) PROVE lower(s)[i] \in Character
    BY <1>1, <1>3, Alphabets
  <1>5. lower(s) \in Seq(Character) /\ Len(lower(s)) = Len(s)
    BY <1>1, <1>2, <1>4
  <1>6. ASSUME s \in Seq(Solid) PROVE lower(s) \in Seq(Solid)
    <2>1. ASSUME NEW i \in 1..Len(s) PROVE lower(s)[i] \in Solid
      <3>1. s[i] \in Solid
        BY <1>6
      <3>. QED
        BY <3>1, <1>3, Alphabets
    <2>. QED
      BY <2>1, <1>1, <1>2
  <1>7. ASSUME HasLetter(s) PROVE HasLetter(lower(s))
    <2>1. PICK i \in 1..Len(s) : s[i] \in Letter
      BY <1>7 DEF HasLetter
    <2>2. lower(s)[i] \in Letter
      BY <2>1, <1>3, Alphabets
    <2>. QED
      BY <2>2, <1>5 DEF HasLetter
  <1>. QED
    BY <1>3, <1>5, <1>6, <1>7

LEMMA LowerConcat ==
    ASSUME NEW u \in Seq(Character), NEW v \in Seq(Character)
    PROVE  lower(u \o v) = lower(u) \o lower(v)
  <1>1. /\ u \o v \in Seq(Character) /\ Len(u \o v) = Len(u) + Len(v)
        /\ \A i \in 1..(Len(u) + Len(v)) : (u \o v)[i] = IF i <= Len(u) THEN u[i] ELSE v[i - Len(u)]
    BY ConcatProperties
  <1>2. /\ lower(u) \in Seq(Character) /\ lower(v) \in Seq(Character)
        /\ Len(lower(u)) = Len(u) /\ Len(lower(v)) = Len(v)
        /\ lower(u \o v) \in Seq(Character) /\ Len(lower(u \o v)) = Len(u) + Len(v)
    BY <1>1, LowerIs
  <1>3. /\ lower(u) \o lower(v) \in Seq(Character) /\ Len(lower(u) \o lower(v)) = Len(u) + Len(v)
        /\ \A i \in 1..(Len(u) + Len(v)) :
              (lower(u) \o lower(v))[i] = IF i <= Len(u) THEN lower(u)[i] ELSE lower(v)[i - Len(u)]
    <2>. DEFINE a == lower(u)
                b == lower(v)
    <2>1. a \in Seq(Character) /\ b \in Seq(Character) /\ Len(a) = Len(u) /\ Len(b) = Len(v)
      BY <1>2
    <2>. HIDE DEF a, b
    <2>2. /\ a \o b \in Seq(Character) /\ Len(a \o b) = Len(a) + Len(b)
          /\ \A i \in 1..(Len(a) + Len(b)) : (a \o b)[i] = IF i <= Len(a) THEN a[i] ELSE b[i - Len(a)]
      BY <2>1, ConcatProperties
    <2>3. /\ a \o b \in Seq(Character) /\ Len(a \o b) = Len(u) + Len(v)
          /\ \A i \in 1..(Len(u) + Len(v)) : (a \o b)[i] = IF i <= Len(u) THEN a[i] ELSE b[i - Len(u)]
      BY <2>1, <2>2
    <2>. QED
      BY <2>3 DEF a, b
  <1>4. ASSUME NEW i \in 1..(Len(u) + Len(v))
        PROVE  lower(u \o v)[i] = (lower(u) \o lower(v))[i]
    <2>1. lower(u \o v)[i] = IF (u \o v)[i] \in Upper THEN lowercase[(u \o v)[i]] ELSE (u \o v)[i]
      BY <1>1, LowerIs
    <2>2. Len(u) \in Nat /\ Len(v) \in Nat
      OBVIOUS
    <2>3. CASE i <= Len(u)
      <3>1. i \in 1..Len(u) /\ (u \o v)[i] = u[i] /\ (lower(u) \o lower(v))[i] = lower(u)[i]
        BY <1>1, <1>3, <2>2, <2>3
      <3>. QED
        BY <3>1, <2>1, LowerIs
    <2>4. CASE ~(i <= Len(u))
      <3>1. /\ i - Len(u) \in 1..Len(v) /\ (u \o v)[i] = v[i - Len(u)]
            /\ (lower(u) \o lower(v))[i] = lower(v)[i - Len(u)]
        BY <1>1, <1>3, <2>2, <2>4
      <3>. QED
        BY <3>1, <2>1, LowerIs
    <2>. QED
      BY <2>3, <2>4
  <1>. QED
    BY <1>2, <1>3, <1>4, SeqEqual

LEMMA TrimSolid ==
    ASSUME NEW s \in Seq(Solid)
    PROVE  TrimSpace(s) = s
  <1>1. /\ <<>> \in Seq(Solid \ (Character \ {" "})) /\ <<>> \o s = s /\ s \o <<>> = s
        /\ <<>> \in Seq(Solid)
    BY ConcatEmptySeq
  <1>0. Solid = Character \ {" "}
    BY DEF Solid
  <1>2. s = <<>> \/ s[1] \in Character \ {" "}
    BY <1>0, Ends
  <1>3. s = <<>> \/ Last(s) \in Character \ {" "}
    BY <1>0, Ends
  <1>4. From(<<>> \o s, Character \ {" "}) = s
    BY <1>1, <1>2, FromOf
  <1>5. UpTo(s \o <<>>, Character \ {" "}) = s
    BY <1>1, <1>3, UpToOf
  <1>. QED
    BY <1>1, <1>4, <1>5 DEF TrimSpace

LEMMA FromType ==
    ASSUME NEW S, NEW s \in Seq(S), NEW C
    PROVE  From(s, C) \in Seq(S) /\ Len(From(s, C)) <= Len(s)
  <1>1. PICK u \in Seq(S \ C) : s = u \o From(s, C)
    BY FromSplit
  <1>2. From(s, C) \in Seq(S) /\ u \in Seq(S)
    BY FromSplit
  <1>3. Len(s) = Len(u) + Len(From(s, C))
    BY <1>1, <1>2, ConcatProperties
  <1>. QED
    BY <1>2, <1>3

LEMMA UpToType ==
    ASSUME NEW S, NEW s \in Seq(S), NEW C
    PROVE  UpTo(s, C) \in Seq(S) /\ Len(UpTo(s, C)) <= Len(s)
  <1>0. /\ UpTo(s, C) \in Seq(S)
        /\ \E v \in Seq(S \ C) : s = UpTo(s, C) \o v
        /\ UpTo(s, C) = <<>> \/ Last(UpTo(s, C)) \in C
    BY UpToSplit
  <1>1. PICK v \in Seq(S \ C) : s = UpTo(s, C) \o v
    BY <1>0
  <1>2. UpTo(s, C) \in Seq(S) /\ v \in Seq(S)
    BY <1>0
  <1>3. Len(s) = Len(UpTo(s, C)) + Len(v)
    BY <1>1, <1>2, ConcatProperties
  <1>. QED
    BY <1>2, <1>3

LEMMA AppendIn ==
    ASSUME NEW S, NEW D, NEW s \in Seq(S), NEW c \in S
    PROVE  Append(s, c) \in Seq(D) <=> s \in Seq(D) /\ c \in D
  <1>1. /\ Append(s, c) \in Seq(S) /\ Len(Append(s, c)) = Len(s) + 1 /\ Len(s) \in Nat
        /\ \A i \in 1..Len(s) : Append(s, c)[i] = s[i]
        /\ Append(s, c)[Len(s) + 1] = c
    BY AppendProperties
  <1>2. ASSUME Append(s, c) \in Seq(D) PROVE s \in Seq(D) /\ c \in D
    <2>1. \A i \in 1..(Len(s) + 1) : Append(s, c)[i] \in D
      BY <1>1, <1>2, ElementOfSeq
    <2>2. \A i \in 1..Len(s) : s[i] \in D
      BY <1>1, <2>1
    <2>3. c \in D
      BY <1>1, <2>1
    <2>. QED
      BY <2>2, <2>3
  <1>. QED
    BY <1>2

LEMMA AppendHasLetter ==
    ASSUME NEW s \in Seq(Character), NEW c \in Character
    PROVE  HasLetter(Append(s, c)) <=> HasLetter(s) \/ c \in Letter
  <1>1. /\ Append(s, c) \in Seq(Character) /\ Len(Append(s, c)) = Len(s) + 1 /\ Len(s) \in Nat
        /\ \A i \in 1..Len(s) : Append(s, c)[i] = s[i]
        /\ Append(s, c)[Len(s) + 1] = c
    BY AppendProperties
  <1>2. \A i : i \in 1..(Len(s) + 1) <=> i \in 1..Len(s) \/ i = Len(s) + 1
    BY <1>1
  <1>. QED
    BY <1>1, <1>2 DEF HasLetter

GoodAllowed(s) ==
    /\ allowed(s) \in Seq(Kept) /\ Len(allowed(s)) <= Len(s)
    /\ s \in Seq(Solid) => allowed(s) \in Seq(KeptSolid)

LEMMA AllowedType ==
    ASSUME NEW s \in Seq(Character)
    PROVE  GoodAllowed(s)
  <1>. DEFINE T == {t \in Seq(Character) : GoodAllowed(t)}
  <1>1. <<>> \in T
    <2>1. <<>> \in Seq(Kept) /\ <<>> \in Seq(KeptSolid) /\ <<>> \in Seq(Character) /\ Len(<<>>) <= Len(<<>>)
      OBVIOUS
    <2>2. GoodAllowed(<<>>)
      BY <2>1, AllowedEmpty, Zenon DEF GoodAllowed
    <2>. QED
      BY <2>1, <2>2
  <1>2. ASSUME NEW t \in Seq(Character), GoodAllowed(t), NEW c \in Character
        PROVE  GoodAllowed(Append(t, c))
    <2>. DEFINE a == allowed(t)
                b == allowed(Append(t, c))
    <2>1. /\ a \in Seq(Kept) /\ Len(a) <= Len(t)
          /\ t \in Seq(Solid) => a \in Seq(KeptSolid)
      BY <1>2 DEF GoodAllowed
    <2>2. b = IF c \in Kept THEN Append(a, c) ELSE a
      BY AllowedAppend DEF Kept
    <2>3. /\ Append(t, c) \in Seq(Solid) <=> t \in Seq(Solid) /\ c \in Solid
          /\ Len(Append(t, c)) = Len(t) + 1 /\ Len(t) \in Nat
      BY AppendIn
    <2>. HIDE DEF a, b
    <2>4. CASE c \in Kept
      <3>1. b = Append(a, c)
        BY <2>2, <2>4
      <3>2. b \in Seq(Kept) /\ Len(b) = Len(a) + 1 /\ Len(a) \in Nat
        BY <2>1, <2>4, <3>1
      <3>3. Len(b) <= Len(Append(t, c))
        BY <2>1, <2>3, <3>2
      <3>4. ASSUME Append(t, c) \in Seq(Solid) PROVE b \in Seq(KeptSolid)
        <4>1. a \in Seq(KeptSolid) /\ c \in KeptSolid
          BY <2>1, <2>3, <2>4, <3>4, Alphabets
        <4>. QED
          BY <3>1, <4>1
      <3>. QED
        BY <3>2, <3>3, <3>4 DEF GoodAllowed, b
    <2>5. CASE c \notin Kept
      <3>1. b = a
        BY <2>2, <2>5
      <3>2. Len(a) \in Nat
        BY <2>1
      <3>3. Len(b) <= Len(Append(t, c))
        BY <2>1, <2>3, <3>1, <3>2
      <3>4. ASSUME Append(t, c) \in Seq(Solid) PROVE b \in Seq(KeptSolid)
        BY <2>1, <2>3, <3>1, <3>4
      <3>. QED
        BY <2>1, <3>1, <3>3, <3>4 DEF GoodAllowed, b
    <2>. QED
      BY <2>4, <2>5
  <1>3. T = Seq(Character)
    <2>1. T \in SUBSET Seq(Character)
      OBVIOUS
    <2>2. ASSUME NEW t \in T, NEW c \in Character PROVE Append(t, c) \in T
      BY <1>2
    <2>. HIDE DEF T
    <2>. QED
      BY <1>1, <2>1, <2>2, SeqInd
  <1>. QED
    BY <1>3

LEMMA AllowedLetter ==
    ASSUME NEW s \in Seq(Character), HasLetter(s)
    PROVE  HasLetter(allowed(s))
  <1>. DEFINE T == {t \in Seq(Character) : HasLetter(t) => HasLetter(allowed(t))}
  <1>1. <<>> \in T
    BY AllowedEmpty DEF HasLetter
  <1>2. ASSUME NEW t \in T, NEW c \in Character PROVE Append(t, c) \in T
    <2>0. t \in Seq(Character) /\ Append(t, c) \in Seq(Character)
      OBVIOUS
    <2>1. /\ t \in Seq(Character) /\ allowed(t) \in Seq(Character)
          /\ Append(t, c) \in Seq(Character)
          /\ allowed(Append(t, c)) = IF c \in Kept THEN Append(allowed(t), c) ELSE allowed(t)
      BY <2>0, AllowedAppend DEF Kept
    <2>2. HasLetter(Append(t, c)) <=> HasLetter(t) \/ c \in Letter
      BY <2>1, AppendHasLetter
    <2>3. CASE c \in Kept
      <3>1. allowed(Append(t, c)) = Append(allowed(t), c)
        BY <2>1, <2>3
      <3>2. HasLetter(Append(allowed(t), c)) <=> HasLetter(allowed(t)) \/ c \in Letter
        BY <2>1, AppendHasLetter
      <3>3. HasLetter(Append(t, c)) => HasLetter(allowed(Append(t, c)))
        BY <2>2, <3>1, <3>2, Zenon
      <3>. QED
        BY <2>1, <3>3, Zenon
    <2>4. CASE c \notin Kept
      <3>1. allowed(Append(t, c)) = allowed(t) /\ c \notin Letter
        BY <2>1, <2>4, Alphabets
      <3>2. HasLetter(Append(t, c)) => HasLetter(allowed(Append(t, c)))
        BY <2>2, <3>1, Zenon
      <3>. QED
        BY <2>1, <3>2, Zenon
    <2>. QED
      BY <2>3, <2>4
  <1>3. T = Seq(Character)
    <2>. HIDE DEF T
    <2>1. T \in SUBSET Seq(Character)
      BY DEF T
    <2>. QED
      BY <1>1, <1>2, <2>1, SeqInd
  <1>. QED
    BY <1>3

LEMMA AllowedConcat ==
    ASSUME NEW u \in Seq(Character), NEW v \in Seq(Character)
    PROVE  allowed(u \o v) = allowed(u) \o allowed(v)
  <1>. DEFINE T == {t \in Seq(Character) : allowed(u \o t) = allowed(u) \o allowed(t)}
  <1>0. allowed(u) \in Seq(Character)
    BY AllowedType, Texts DEF GoodAllowed
  <1>1. <<>> \in T
    <2>1. u \o <<>> = u /\ allowed(u) \o <<>> = allowed(u) /\ <<>> \in Seq(Character)
      BY <1>0, ConcatEmptySeq
    <2>. QED
      BY <2>1, AllowedEmpty
  <1>2. ASSUME NEW t \in Seq(Character), allowed(u \o t) = allowed(u) \o allowed(t),
               NEW c \in Character
        PROVE  allowed(u \o Append(t, c)) = allowed(u) \o allowed(Append(t, c))
    <2>1. u \o t \in Seq(Character) /\ allowed(t) \in Seq(Character)
      BY AllowedAppend, ConcatProperties
    <2>2. u \o Append(t, c) = Append(u \o t, c)
      BY ConcatAppend
    <2>3. /\ allowed(Append(u \o t, c)) = IF c \in Kept THEN Append(allowed(u \o t), c) ELSE allowed(u \o t)
          /\ allowed(Append(t, c)) = IF c \in Kept THEN Append(allowed(t), c) ELSE allowed(t)
      BY <2>1, AllowedAppend DEF Kept
    <2>4. allowed(u) \o Append(allowed(t), c) = Append(allowed(u) \o allowed(t), c)
      BY <1>0, <2>1, ConcatAppend
    <2>. QED
      BY <1>2, <2>2, <2>3, <2>4
  <1>3. T = Seq(Character)
    <2>1. T \in SUBSET Seq(Character)
      OBVIOUS
    <2>2. ASSUME NEW t \in T, NEW c \in Character PROVE Append(t, c) \in T
      <3>1. t \in Seq(Character) /\ allowed(u \o t) = allowed(u) \o allowed(t)
        OBVIOUS
      <3>2. allowed(u \o Append(t, c)) = allowed(u) \o allowed(Append(t, c))
        BY <1>2, <3>1
      <3>. QED
        BY <3>1, <3>2
    <2>. HIDE DEF T
    <2>. QED
      BY <1>1, <2>1, <2>2, SeqInd
  <1>. QED
    BY <1>3

LEMMA AllowedSame ==
    ASSUME NEW s \in Seq(Kept)
    PROVE  allowed(s) = s
  <1>. DEFINE T == {t \in Seq(Kept) : allowed(t) = t}
  <1>1. <<>> \in T
    BY AllowedEmpty
  <1>2. ASSUME NEW t \in T, NEW c \in Kept PROVE Append(t, c) \in T
    <2>1. t \in Seq(Character) /\ c \in Character /\ allowed(t) = t
      BY Alphabets, Texts
    <2>2. allowed(Append(t, c)) = Append(t, c)
      BY <2>1, AllowedAppend DEF Kept
    <2>. QED
      BY <2>2
  <1>3. T = Seq(Kept)
    <2>1. T \in SUBSET Seq(Kept)
      OBVIOUS
    <2>. HIDE DEF T
    <2>. QED
      BY <1>1, <1>2, <2>1, SeqInd
  <1>. QED
    BY <1>3

(* No separator but dashes, and of these never two, is left by collapsed.  *)
GoodCollapsed(s) ==
    /\ collapsed(s) \in Seq(Spaced) /\ Len(collapsed(s)) <= Len(s)
    /\ s \in Seq(KeptSolid) => collapsed(s) \in Seq(Dashed)

LEMMA CollapsedType ==
    ASSUME NEW s \in Seq(Kept)
    PROVE  GoodCollapsed(s)
  <1>. DEFINE T == {t \in Seq(Kept) : GoodCollapsed(t)}
  <1>1. <<>> \in T
    <2>1. <<>> \in Seq(Spaced) /\ <<>> \in Seq(Dashed) /\ <<>> \in Seq(Kept) /\ Len(<<>>) <= Len(<<>>)
      OBVIOUS
    <2>2. GoodCollapsed(<<>>)
      BY <2>1, CollapsedEmpty, Zenon DEF GoodCollapsed
    <2>. QED
      BY <2>1, <2>2
  <1>2. ASSUME NEW t \in Seq(Kept), GoodCollapsed(t), NEW c \in Kept
        PROVE  GoodCollapsed(Append(t, c))
    <2>. DEFINE a == collapsed(t)
                b == collapsed(Append(t, c))
    <2>1. /\ a \in Seq(Spaced) /\ Len(a) <= Len(t)
          /\ t \in Seq(KeptSolid) => a \in Seq(Dashed)
      BY <1>2 DEF GoodCollapsed
    <2>2. b = IF c \notin Separator THEN Append(a, c)
              ELSE IF a # <<>> /\ Last(a) = "-" THEN a ELSE Append(a, "-")
      <3>1. t \in Seq(Character) /\ c \in Character
        BY Alphabets, Texts
      <3>. QED
        BY <3>1, CollapsedAppend
    <2>3. /\ Append(t, c) \in Seq(KeptSolid) <=> t \in Seq(KeptSolid) /\ c \in KeptSolid
          /\ Len(Append(t, c)) = Len(t) + 1 /\ Len(t) \in Nat
      BY AppendIn
    <2>. HIDE DEF a, b
    <2>4. ASSUME NEW d \in Spaced, b = Append(a, d), c \in KeptSolid => d \in Dashed
          PROVE  GoodCollapsed(Append(t, c))
      <3>2. b \in Seq(Spaced) /\ Len(b) = Len(a) + 1 /\ Len(a) \in Nat
        BY <2>1, <2>4
      <3>3. Len(b) <= Len(Append(t, c))
        BY <2>1, <2>3, <3>2
      <3>4. ASSUME Append(t, c) \in Seq(KeptSolid) PROVE b \in Seq(Dashed)
        <4>1. a \in Seq(Dashed) /\ d \in Dashed
          BY <2>1, <2>3, <2>4, <3>4
        <4>. QED
          BY <2>4, <4>1
      <3>. QED
        BY <3>2, <3>3, <3>4 DEF GoodCollapsed, b
    <2>5. CASE c \notin Separator
      <3>1. c \in Spaced /\ (c \in KeptSolid => c \in Dashed)
        BY <2>5 DEF Spaced, Dashed, Kept, KeptSolid
      <3>. QED
        BY <2>2, <2>4, <2>5, <3>1
    <2>6. CASE c \in Separator /\ ~(a # <<>> /\ Last(a) = "-")
      <3>1. "-" \in Spaced /\ "-" \in Dashed
        BY DEF Spaced, Dashed
      <3>. QED
        BY <2>2, <2>4, <2>6, <3>1
    <2>7. CASE c \in Separator /\ a # <<>> /\ Last(a) = "-"
      <3>1. b = a
        BY <2>2, <2>7
      <3>2. Len(a) \in Nat
        BY <2>1
      <3>3. Len(b) <= Len(Append(t, c))
        BY <2>1, <2>3, <3>1, <3>2
      <3>4. ASSUME Append(t, c) \in Seq(KeptSolid) PROVE b \in Seq(Dashed)
        BY <2>1, <2>3, <3>1, <3>4
      <3>. QED
        BY <2>1, <3>1, <3>3, <3>4 DEF GoodCollapsed, b
    <2>. QED
      BY <2>5, <2>6, <2>7
  <1>3. T = Seq(Kept)
    <2>1. T \in SUBSET Seq(Kept)
      OBVIOUS
    <2>2. ASSUME NEW t \in T, NEW c \in Kept PROVE Append(t, c) \in T
      BY <1>2
    <2>. HIDE DEF T
    <2>. QED
      BY <1>1, <2>1, <2>2, SeqInd
  <1>. QED
    BY <1>3

LEMMA AppendNoDoubleDash ==
    ASSUME NEW s \in Seq(Character), NEW c \in Character
    PROVE  NoDoubleDash(Append(s, c))
              <=> NoDoubleDash(s) /\ ~(s # <<>> /\ Last(s) = "-" /\ c = "-")
  <1>1. /\ Append(s, c) \in Seq(Character) /\ Len(Append(s, c)) = Len(s) + 1 /\ Len(s) \in Nat
        /\ \A i \in 1..Len(s) : Append(s, c)[i] = s[i]
        /\ Append(s, c)[Len(s) + 1] = c
    BY AppendProperties
  <1>2. ASSUME NoDoubleDash(Append(s, c)) PROVE NoDoubleDash(s)
    <2>1. ASSUME NEW i \in 1..(Len(s) - 1) PROVE ~(s[i] = "-" /\ s[i + 1] = "-")
      <3>1. i \in 1..((Len(s) + 1) - 1) /\ i \in 1..Len(s) /\ i + 1 \in 1..Len(s)
        BY <1>1
      <3>. QED
        BY <1>1, <1>2, <3>1 DEF NoDoubleDash
    <2>. QED
      BY <2>1 DEF NoDoubleDash
  <1>3. ASSUME NoDoubleDash(Append(s, c)), s # <<>>, Last(s) = "-", c = "-" PROVE FALSE
    <2>1. Len(s) \in 1..((Len(s) + 1) - 1) /\ Len(s) \in 1..Len(s)
      BY <1>3, Ends
    <2>. QED
      BY <1>1, <1>3, <2>1 DEF NoDoubleDash, Last
  <1>4. ASSUME NoDoubleDash(s), ~(s # <<>> /\ Last(s) = "-" /\ c = "-")
        PROVE  NoDoubleDash(Append(s, c))
    <2>1. ASSUME NEW i \in 1..(Len(Append(s, c)) - 1)
          PROVE  ~(Append(s, c)[i] = "-" /\ Append(s, c)[i + 1] = "-")
      <3>1. CASE i = Len(s)
        <4>1. i \in 1..Len(s) /\ s # <<>>
          BY <1>1, <3>1
        <4>. QED
          BY <1>1, <1>4, <3>1, <4>1 DEF Last
      <3>2. CASE i # Len(s)
        <4>1. i \in 1..(Len(s) - 1) /\ i \in 1..Len(s) /\ i + 1 \in 1..Len(s)
          BY <1>1, <3>2
        <4>. QED
          BY <1>1, <1>4, <4>1 DEF NoDoubleDash
      <3>. QED
        BY <3>1, <3>2
    <2>. QED
      BY <2>1 DEF NoDoubleDash
  <1>. QED
    BY <1>2, <1>3, <1>4

LEMMA CollapsedNoDoubleDash ==
    ASSUME NEW s \in Seq(Kept)
    PROVE  NoDoubleDash(collapsed(s))
  <1>. DEFINE T == {t \in Seq(Kept) : NoDoubleDash(collapsed(t))}
  <1>1. <<>> \in T
    BY CollapsedEmpty DEF NoDoubleDash
  <1>2. ASSUME NEW t \in Seq(Kept), NoDoubleDash(collapsed(t)), NEW c \in Kept
        PROVE  NoDoubleDash(collapsed(Append(t, c)))
    <2>. DEFINE a == collapsed(t)
                b == collapsed(Append(t, c))
    <2>1. t \in Seq(Character) /\ c \in Character /\ "-" \in Character
      BY Alphabets, Texts
    <2>2. /\ a \in Seq(Character)
          /\ b = IF c \notin Separator THEN Append(a, c)
                 ELSE IF a # <<>> /\ Last(a) = "-" THEN a ELSE Append(a, "-")
      BY <2>1, CollapsedAppend
    <2>3. NoDoubleDash(a)
      BY <1>2
    <2>. HIDE DEF a, b
    <2>4. CASE c \notin Separator
      <3>1. c # "-" /\ b = Append(a, c)
        BY <2>2, <2>4, Alphabets
      <3>2. NoDoubleDash(Append(a, c))
        BY <2>1, <2>2, <2>3, <3>1, AppendNoDoubleDash
      <3>. QED
        BY <3>1, <3>2 DEF b
    <2>5. CASE c \in Separator /\ a # <<>> /\ Last(a) = "-"
      <3>1. b = a
        BY <2>2, <2>5
      <3>. QED
        BY <2>3, <3>1 DEF b
    <2>6. CASE c \in Separator /\ ~(a # <<>> /\ Last(a) = "-")
      <3>1. b = Append(a, "-")
        BY <2>2, <2>6
      <3>2. NoDoubleDash(Append(a, "-"))
        BY <2>1, <2>2, <2>3, <2>6, AppendNoDoubleDash
      <3>. QED
        BY <3>1, <3>2 DEF b
    <2>. QED
      BY <2>4, <2>5, <2>6
  <1>3. T = Seq(Kept)
    <2>1. T \in SUBSET Seq(Kept)
      OBVIOUS
    <2>2. ASSUME NEW t \in T, NEW c \in Kept PROVE Append(t, c) \in T
      BY <1>2
    <2>. HIDE DEF T
    <2>. QED
      BY <1>1, <2>1, <2>2, SeqInd
  <1>. QED
    BY <1>3

LEMMA CollapsedSame ==
    ASSUME NEW s \in Seq(Spaced), NoDoubleDash(s)
    PROVE  collapsed(s) = s
  <1>. DEFINE T == {t \in Seq(Spaced) : NoDoubleDash(t) => collapsed(t) = t}
  <1>1. <<>> \in T
    BY CollapsedEmpty
  <1>2. ASSUME NEW t \in Seq(Spaced), NoDoubleDash(t) => collapsed(t) = t, NEW c \in Spaced,
               NoDoubleDash(Append(t, c))
        PROVE  collapsed(Append(t, c)) = Append(t, c)
    <2>1. t \in Seq(Character) /\ c \in Character
      BY Alphabets, Texts DEF Spaced
    <2>2. NoDoubleDash(t) /\ ~(t # <<>> /\ Last(t) = "-" /\ c = "-")
      BY <1>2, <2>1, AppendNoDoubleDash
    <2>3. collapsed(t) = t
      BY <1>2, <2>2
    <2>4. c \in Separator => c = "-"
      BY Alphabets DEF Spaced
    <2>. QED
      BY <2>1, <2>2, <2>3, <2>4, CollapsedAppend
  <1>3. T = Seq(Spaced)
    <2>1. T \in SUBSET Seq(Spaced)
      OBVIOUS
    <2>2. ASSUME NEW t \in T, NEW c \in Spaced PROVE Append(t, c) \in T
      <3>1. t \in Seq(Spaced) /\ (NoDoubleDash(t) => collapsed(t) = t)
        OBVIOUS
      <3>2. NoDoubleDash(Append(t, c)) => collapsed(Append(t, c)) = Append(t, c)
        BY <1>2, <3>1
      <3>. QED
        BY <3>1, <3>2
    <2>. HIDE DEF T
    <2>. QED
      BY <1>1, <2>1, <2>2, SeqInd
  <1>. QED
    BY <1>3

LEMMA CollapsedLetter ==
    ASSUME NEW s \in Seq(Kept), HasLetter(s)
    PROVE  HasLetter(collapsed(s))
  <1>. DEFINE T == {t \in Seq(Kept) : HasLetter(t) => HasLetter(collapsed(t))}
  <1>1. <<>> \in T
    BY CollapsedEmpty DEF HasLetter
  <1>2. ASSUME NEW t \in Seq(Kept), HasLetter(t) => HasLetter(collapsed(t)), NEW c \in Kept,
               HasLetter(Append(t, c))
        PROVE  HasLetter(collapsed(Append(t, c)))
    <2>. DEFINE a == collapsed(t)
                b == collapsed(Append(t, c))
    <2>1. t \in Seq(Character) /\ c \in Character /\ "-" \in Character
      BY Alphabets, Texts
    <2>2. /\ a \in Seq(Character)
          /\ b = IF c \notin Separator THEN Append(a, c)
                 ELSE IF a # <<>> /\ Last(a) = "-" THEN a ELSE Append(a, "-")
      BY <2>1, CollapsedAppend
    <2>3. HasLetter(a) \/ c \in Letter
      BY <1>2, <2>1, AppendHasLetter
    <2>. HIDE DEF a, b
    <2>4. CASE c \notin Separator
      <3>1. b = Append(a, c)
        BY <2>2, <2>4
      <3>2. HasLetter(Append(a, c))
        BY <2>1, <2>2, <2>3, AppendHasLetter
      <3>. QED
        BY <3>1, <3>2 DEF b
    <2>5. CASE c \in Separator
      <3>1. c \notin Letter
        BY <2>5, Alphabets
      <3>2. HasLetter(a)
        BY <2>3, <3>1
      <3>3. HasLetter(Append(a, "-"))
        BY <2>1, <2>2, <3>2, AppendHasLetter
      <3>4. b = a \/ b = Append(a, "-")
        BY <2>2, <2>5
      <3>. QED
        BY <3>2, <3>3, <3>4 DEF b
    <2>. QED
      BY <2>4, <2>5
  <1>3. T = Seq(Kept)
    <2>1. T \in SUBSET Seq(Kept)
      OBVIOUS
    <2>2. ASSUME NEW t \in T, NEW c \in Kept PROVE Append(t, c) \in T
      <3>1. t \in Seq(Kept) /\ (HasLetter(t) => HasLetter(collapsed(t)))
        OBVIOUS
      <3>2. HasLetter(Append(t, c)) => HasLetter(collapsed(Append(t, c)))
        BY <1>2, <3>1
      <3>. QED
        BY <3>1, <3>2
    <2>. HIDE DEF T
    <2>. QED
      BY <1>1, <2>1, <2>2, SeqInd
  <1>. QED
    BY <1>3

(* A text after a dash loses its leading dash.                             *)
Undash(s) == IF s # <<>> /\ s[1] = "-" THEN Tail(s) ELSE s

LEMMA LastAppend ==
    ASSUME NEW S, NEW s \in Seq(S), NEW c \in S
    PROVE  Last(Append(s, c)) = c /\ Append(s, c) # <<>>
  BY AppendProperties DEF Last

LEMMA LastConcat ==
    ASSUME NEW S, NEW u \in Seq(S), NEW v \in Seq(S), v # <<>>
    PROVE  Last(u \o v) = Last(v) /\ u \o v # <<>>
  <1>1. /\ u \o v \in Seq(S) /\ Len(u \o v) = Len(u) + Len(v)
        /\ \A i \in 1..(Len(u) + Len(v)) : (u \o v)[i] = IF i <= Len(u) THEN u[i] ELSE v[i - Len(u)]
    BY ConcatProperties
  <1>2. Len(u) \in Nat /\ Len(v) \in Nat /\ Len(v) >= 1
    BY Ends
  <1>3. /\ Len(u) + Len(v) \in 1..(Len(u) + Len(v)) /\ ~(Len(u) + Len(v) <= Len(u))
        /\ (Len(u) + Len(v)) - Len(u) = Len(v)
    BY <1>2
  <1>. QED
    BY <1>1, <1>2, <1>3 DEF Last

LEMMA UndashAppend ==
    ASSUME NEW s \in Seq(Character), NEW c \in Character
    PROVE  /\ Undash(s) \in Seq(Character)
           /\ Undash(Append(s, c)) = IF s = <<>> /\ c = "-" THEN <<>> ELSE Append(Undash(s), c)
           /\ Undash(s) # <<>> => Last(Undash(s)) = Last(s)
           /\ Undash(s) = <<>> /\ s # <<>> => Last(s) = "-"
  <1>1. /\ Append(s, c) \in Seq(Character) /\ Len(Append(s, c)) = Len(s) + 1 /\ Len(s) \in Nat
        /\ \A i \in 1..Len(s) : Append(s, c)[i] = s[i]
        /\ Append(s, c)[Len(s) + 1] = c /\ Append(s, c) # <<>>
    BY AppendProperties
  <1>2. Tail(Append(s, c)) = IF s = <<>> THEN <<>> ELSE Append(Tail(s), c)
    BY HeadTailAppend
  <1>3. CASE s = <<>>
    <2>1. Append(s, c)[1] = c
      BY <1>1, <1>3
    <2>. QED
      BY <1>1, <1>2, <1>3, <2>1 DEF Undash
  <1>4. CASE s # <<>>
    <2>1. Append(s, c)[1] = s[1] /\ Len(s) >= 1
      BY <1>1, <1>4, Ends
    <2>2. /\ Tail(s) \in Seq(Character) /\ Len(Tail(s)) = Len(s) - 1
          /\ \A i \in 1..Len(Tail(s)) : Tail(s)[i] = s[i + 1]
      BY <1>4, HeadTailProperties
    <2>3. Undash(Append(s, c)) = Append(Undash(s), c)
      BY <1>1, <1>2, <1>4, <2>1 DEF Undash
    <2>4. CASE Undash(s) = s
      BY <1>4, <2>3, <2>4
    <2>5. CASE Undash(s) # s
      <3>1. Undash(s) = Tail(s) /\ s[1] = "-"
        BY <2>5 DEF Undash
      <3>2. ASSUME Tail(s) # <<>> PROVE Last(Tail(s)) = Last(s)
        <4>1. Len(Tail(s)) \in 1..Len(Tail(s)) /\ Len(Tail(s)) + 1 = Len(s)
          BY <1>1, <2>2, <3>2, Ends
        <4>. QED
          BY <2>2, <4>1 DEF Last
      <3>3. ASSUME Tail(s) = <<>> PROVE Last(s) = "-"
        <4>1. Len(s) - 1 = 0
          BY <1>1, <2>2, <3>3, EmptySeq
        <4>2. Len(s) = 1
          BY <1>1, <4>1
        <4>. QED
          BY <3>1, <4>2 DEF Last
      <3>. QED
        BY <1>4, <2>2, <2>3, <3>1, <3>2, <3>3
    <2>. QED
      BY <2>4, <2>5
  <1>. QED
    BY <1>3, <1>4

LEMMA CollapsedDash ==
    ASSUME NEW u \in Seq(Kept), collapsed(u) # <<>>, Last(collapsed(u)) = "-", NEW v \in Seq(Kept)
    PROVE  collapsed(u \o v) = collapsed(u) \o Undash(collapsed(v))
  <1>. DEFINE x == collapsed(u)
              T == {t \in Seq(Kept) : collapsed(u \o t) = x \o Undash(collapsed(t))}
  <1>0. /\ u \in Seq(Character) /\ x \in Seq(Character) /\ "-" \in Character
        /\ x # <<>> /\ Last(x) = "-"
    BY CollapsedAppend, Texts, Alphabets
  <1>1. collapsed(u \o <<>>) = x \o Undash(collapsed(<<>>))
    <2>1. u \o <<>> = u /\ x \o <<>> = x
      BY <1>0, ConcatEmptySeq
    <2>. QED
      BY <2>1, CollapsedEmpty DEF Undash
  <1>2. ASSUME NEW t \in Seq(Kept), collapsed(u \o t) = x \o Undash(collapsed(t)), NEW c \in Kept
        PROVE  collapsed(u \o Append(t, c)) = x \o Undash(collapsed(Append(t, c)))
    <2>. DEFINE y == collapsed(t)
                z == collapsed(u \o t)
                w == Undash(y)
                y1 == collapsed(Append(t, c))
                z1 == collapsed(u \o Append(t, c))
    <2>1. t \in Seq(Character) /\ c \in Character /\ u \o t \in Seq(Character)
      BY <1>0, Texts, Alphabets, ConcatProperties
    <2>2. /\ y \in Seq(Character)
          /\ y1 = IF c \notin Separator THEN Append(y, c)
                  ELSE IF y # <<>> /\ Last(y) = "-" THEN y ELSE Append(y, "-")
      BY <2>1, CollapsedAppend
    <2>3. u \o Append(t, c) = Append(u \o t, c)
      BY <1>0, <2>1, ConcatAppend
    <2>4. z1 = IF c \notin Separator THEN Append(z, c)
               ELSE IF z # <<>> /\ Last(z) = "-" THEN z ELSE Append(z, "-")
      BY <2>1, <2>3, CollapsedAppend
    <2>5. z = x \o w
      BY <1>2
    <2>. HIDE DEF x, y, z, y1, z1
    <2>6. w \in Seq(Character)
      BY <2>2, <2>1, UndashAppend
    <2>7. ASSUME NEW d \in Character PROVE Append(z, d) = x \o Append(w, d)
      <3>. HIDE DEF w
      <3>1. x \o Append(w, d) = Append(x \o w, d)
        BY <1>0, <2>6, ConcatAppend
      <3>. QED
        BY <2>5, <3>1
    <2>8. CASE c \notin Separator
      <3>1. c # "-"
        BY <2>8, Alphabets
      <3>2. Undash(Append(y, c)) = Append(w, c)
        BY <2>1, <2>2, <3>1, UndashAppend
      <3>. QED
        BY <2>1, <2>2, <2>4, <2>7, <2>8, <3>2 DEF y1, z1
    <2>9. CASE c \in Separator /\ y # <<>> /\ Last(y) = "-"
      <3>1. z # <<>> /\ Last(z) = "-"
        <4>1. CASE w = <<>>
          <5>1. z = x
            BY <1>0, <2>5, <4>1, ConcatEmptySeq
          <5>. QED
            BY <1>0, <5>1
        <4>2. CASE w # <<>>
          <5>1. Last(w) = "-"
            BY <2>1, <2>2, <2>9, <4>2, UndashAppend
          <5>. QED
            BY <1>0, <2>5, <2>6, <4>2, <5>1, LastConcat
        <4>. QED
          BY <4>1, <4>2
      <3>2. z1 = z /\ y1 = y
        BY <2>2, <2>4, <2>9, <3>1
      <3>. QED
        BY <2>5, <3>2 DEF y1, z1
    <2>10. CASE c \in Separator /\ y = <<>>
      <3>1. w = <<>>
        BY <2>10 DEF Undash
      <3>2. z = x
        BY <1>0, <2>5, <3>1, ConcatEmptySeq
      <3>3. z1 = z /\ y1 = Append(y, "-")
        BY <1>0, <2>2, <2>4, <2>10, <3>2
      <3>4. Undash(Append(y, "-")) = <<>>
        BY <1>0, <2>2, <2>10, UndashAppend
      <3>. QED
        BY <2>5, <3>1, <3>3, <3>4 DEF y1, z1
    <2>11. CASE c \in Separator /\ y # <<>> /\ Last(y) # "-"
      <3>1. w # <<>> /\ Last(w) # "-"
        BY <2>1, <2>2, <2>11, UndashAppend
      <3>2. z # <<>> /\ Last(z) # "-"
        BY <1>0, <2>5, <2>6, <3>1, LastConcat
      <3>3. z1 = Append(z, "-") /\ y1 = Append(y, "-")
        BY <2>2, <2>4, <2>11, <3>2
      <3>4. Undash(Append(y, "-")) = Append(w, "-")
        BY <1>0, <2>2, <2>11, UndashAppend
      <3>. QED
        BY <1>0, <2>7, <3>3, <3>4 DEF y1, z1
    <2>. QED
      BY <2>8, <2>9, <2>10, <2>11
  <1>3. T = Seq(Kept)
    <2>1. T \in SUBSET Seq(Kept) /\ <<>> \in T
      BY <1>1
    <2>2. ASSUME NEW t \in T, NEW c \in Kept PROVE Append(t, c) \in T
      <3>1. t \in Seq(Kept) /\ collapsed(u \o t) = x \o Undash(collapsed(t))
        OBVIOUS
      <3>2. collapsed(u \o Append(t, c)) = x \o Undash(collapsed(Append(t, c)))
        BY <1>2, <3>1
      <3>. QED
        BY <3>1, <3>2
    <2>. HIDE DEF T
    <2>. QED
      BY <2>1, <2>2, SeqInd
  <1>. QED
    BY <1>3

-----------------------------------------------------------------------------
(* What is cut, and what is trimmed.                                       *)

trim(s) == UpTo(s, Alphanumeric)
first(s, k) == IF Len(s) > k THEN SubSeq(s, 1, k) ELSE s
rest(s, k) == IF Len(s) > k THEN SubSeq(s, k + 1, Len(s)) ELSE <<>>

LEMMA FirstIn ==
    ASSUME NEW S, NEW s \in Seq(S), NEW k \in Nat
    PROVE  /\ first(s, k) \in Seq(S)
           /\ Len(first(s, k)) = IF Len(s) > k THEN k ELSE Len(s)
           /\ \A i \in 1..Len(first(s, k)) : first(s, k)[i] = s[i]
           /\ rest(s, k) \in Seq(S) /\ s = first(s, k) \o rest(s, k)
  <1>1. Len(s) \in Nat /\ \A i \in 1..Len(s) : s[i] \in S
    BY ElementOfSeq
  <1>2. CASE Len(s) > k
    <2>1. /\ SubSeq(s, 1, k) \in Seq(S) /\ Len(SubSeq(s, 1, k)) = k
          /\ \A i \in 1..k : SubSeq(s, 1, k)[i] = s[i]
      <3>1. \A i \in 1..k : s[i] \in S
        BY <1>1, <1>2
      <3>2. /\ SubSeq(s, 1, k) \in Seq(S)
            /\ Len(SubSeq(s, 1, k)) = (IF 1 <= k THEN k - 1 + 1 ELSE 0)
            /\ \A i \in 1..(k - 1 + 1) : SubSeq(s, 1, k)[i] = s[1 + i - 1]
        BY <3>1, SubSeqProperties
      <3>. QED
        BY <3>2
    <2>2. /\ SubSeq(s, k + 1, Len(s)) \in Seq(S) /\ Len(SubSeq(s, k + 1, Len(s))) = Len(s) - k
          /\ \A i \in 1..(Len(s) - k) : SubSeq(s, k + 1, Len(s))[i] = s[k + i]
      <3>1. \A i \in (k + 1)..Len(s) : s[i] \in S
        BY <1>1, <1>2
      <3>2. /\ SubSeq(s, k + 1, Len(s)) \in Seq(S)
            /\ Len(SubSeq(s, k + 1, Len(s))) = (IF k + 1 <= Len(s) THEN Len(s) - (k + 1) + 1 ELSE 0)
            /\ \A i \in 1..(Len(s) - (k + 1) + 1) : SubSeq(s, k + 1, Len(s))[i] = s[(k + 1) + i - 1]
        BY <1>1, <3>1, SubSeqProperties
      <3>. QED
        BY <1>1, <1>2, <3>2
    <2>. DEFINE u == SubSeq(s, 1, k)
                v == SubSeq(s, k + 1, Len(s))
    <2>3. u \in Seq(S) /\ v \in Seq(S) /\ Len(u) = k /\ Len(v) = Len(s) - k
      BY <2>1, <2>2
    <2>4. /\ \A i \in 1..k : u[i] = s[i]
          /\ \A i \in 1..(Len(s) - k) : v[i] = s[k + i]
      BY <2>1, <2>2
    <2>5. first(s, k) = u /\ rest(s, k) = v
      BY <1>2 DEF first, rest
    <2>. HIDE DEF u, v
    <2>6. /\ u \o v \in Seq(S) /\ Len(u \o v) = Len(s)
          /\ \A i \in 1..Len(s) : (u \o v)[i] = IF i <= k THEN u[i] ELSE v[i - k]
      <3>1. /\ u \o v \in Seq(S) /\ Len(u \o v) = Len(u) + Len(v)
            /\ \A i \in 1..(Len(u) + Len(v)) :
                  (u \o v)[i] = IF i <= Len(u) THEN u[i] ELSE v[i - Len(u)]
        BY <2>3, ConcatProperties
      <3>2. Len(u) + Len(v) = Len(s)
        BY <1>1, <1>2, <2>3
      <3>. QED
        BY <2>3, <3>1, <3>2
    <2>7. ASSUME NEW i \in 1..Len(s) PROVE (u \o v)[i] = s[i]
      <3>1. CASE i <= k
        BY <1>1, <2>4, <2>6, <3>1
      <3>2. CASE ~(i <= k)
        <4>1. i - k \in 1..(Len(s) - k) /\ k + (i - k) = i
          BY <1>1, <1>2, <3>2
        <4>. QED
          BY <2>4, <2>6, <3>2, <4>1
      <3>. QED
        BY <3>1, <3>2
    <2>8. u \o v = s
      BY <2>6, <2>7, SeqEqual
    <2>. QED
      BY <1>2, <2>3, <2>4, <2>5, <2>8
  <1>3. CASE ~(Len(s) > k)
    <2>1. s \o <<>> = s /\ <<>> \in Seq(S)
      BY ConcatEmptySeq
    <2>. QED
      BY <1>3, <2>1 DEF first, rest
  <1>. QED
    BY <1>2, <1>3

(* A text is determined by its length and the start of another.            *)
LEMMA FirstOf ==
    ASSUME NEW S, NEW u \in Seq(S), NEW v \in Seq(S)
    PROVE  first(u \o v, Len(u)) = u
  <1>1. /\ u \o v \in Seq(S) /\ Len(u \o v) = Len(u) + Len(v)
        /\ \A i \in 1..(Len(u) + Len(v)) : (u \o v)[i] = IF i <= Len(u) THEN u[i] ELSE v[i - Len(u)]
    BY ConcatProperties
  <1>2. Len(u) \in Nat /\ Len(v) \in Nat
    OBVIOUS
  <1>. DEFINE w == first(u \o v, Len(u))
  <1>3. w \in Seq(S) /\ Len(w) = Len(u) /\ \A i \in 1..Len(w) : w[i] = (u \o v)[i]
    <2>1. /\ w \in Seq(S) /\ \A i \in 1..Len(w) : w[i] = (u \o v)[i]
          /\ Len(w) = IF Len(u \o v) > Len(u) THEN Len(u) ELSE Len(u \o v)
      BY <1>1, <1>2, FirstIn
    <2>. QED
      BY <1>1, <1>2, <2>1
  <1>. HIDE DEF w
  <1>4. ASSUME NEW i \in 1..Len(u) PROVE w[i] = u[i]
    <2>1. i \in 1..(Len(u) + Len(v)) /\ i <= Len(u)
      BY <1>2
    <2>. QED
      BY <1>1, <1>3, <2>1
  <1>5. w = u
    BY <1>3, <1>4, SeqEqual
  <1>. QED
    BY <1>5 DEF w

LEMMA FirstConcat ==
    ASSUME NEW S, NEW u \in Seq(S), NEW v \in Seq(S), NEW k \in Nat
    PROVE  first(u \o v, k) = IF k <= Len(u) THEN first(u, k) ELSE u \o first(v, k - Len(u))
  <1>1. /\ u \o v \in Seq(S) /\ Len(u \o v) = Len(u) + Len(v)
        /\ \A i \in 1..(Len(u) + Len(v)) : (u \o v)[i] = IF i <= Len(u) THEN u[i] ELSE v[i - Len(u)]
    BY ConcatProperties
  <1>2. Len(u) \in Nat /\ Len(v) \in Nat
    OBVIOUS
  <1>. DEFINE w == first(u \o v, k)
  <1>3. /\ w \in Seq(S) /\ \A i \in 1..Len(w) : w[i] = (u \o v)[i]
        /\ Len(w) = IF Len(u) + Len(v) > k THEN k ELSE Len(u) + Len(v)
    BY <1>1, FirstIn
  <1>4. CASE k <= Len(u)
    <2>. DEFINE x == first(u, k)
    <2>1. /\ x \in Seq(S) /\ Len(x) = (IF Len(u) > k THEN k ELSE Len(u))
          /\ \A i \in 1..Len(x) : x[i] = u[i]
      BY FirstIn
    <2>2. Len(w) = Len(x) /\ Len(x) = k
      BY <1>2, <1>3, <1>4, <2>1
    <2>. HIDE DEF w, x
    <2>3. ASSUME NEW i \in 1..Len(x) PROVE w[i] = x[i]
      <3>1. i \in 1..(Len(u) + Len(v)) /\ i <= Len(u)
        BY <1>2, <1>4, <2>2
      <3>. QED
        BY <1>1, <1>3, <2>1, <2>2, <3>1
    <2>4. w = x
      BY <1>3, <2>1, <2>2, <2>3, SeqEqual
    <2>. QED
      BY <1>4, <2>4 DEF w, x
  <1>5. CASE ~(k <= Len(u))
    <2>. DEFINE y == first(v, k - Len(u))
                x == u \o y
    <2>0. k - Len(u) \in Nat
      BY <1>2, <1>5
    <2>1. /\ y \in Seq(S) /\ Len(y) = (IF Len(v) > k - Len(u) THEN k - Len(u) ELSE Len(v))
          /\ \A i \in 1..Len(y) : y[i] = v[i]
      BY <2>0, FirstIn
    <2>. HIDE DEF w, y
    <2>2. /\ x \in Seq(S) /\ Len(x) = Len(u) + Len(y)
          /\ \A i \in 1..(Len(u) + Len(y)) : x[i] = IF i <= Len(u) THEN u[i] ELSE y[i - Len(u)]
      BY <2>1, ConcatProperties
    <2>. HIDE DEF x
    <2>3. Len(w) = Len(x)
      BY <1>2, <1>3, <1>5, <2>1, <2>2
    <2>4. ASSUME NEW i \in 1..Len(x) PROVE w[i] = x[i]
      <3>1. /\ i \in 1..(Len(u) + Len(v)) /\ i \in 1..(Len(u) + Len(y))
            /\ (~(i <= Len(u)) => i - Len(u) \in 1..Len(y))
        BY <1>2, <1>5, <2>1, <2>2
      <3>2. CASE i <= Len(u)
        BY <1>1, <1>3, <2>2, <2>3, <3>1, <3>2
      <3>3. CASE ~(i <= Len(u))
        BY <1>1, <1>3, <2>1, <2>2, <2>3, <3>1, <3>3
      <3>. QED
        BY <3>2, <3>3
    <2>5. w = x
      BY <1>3, <2>2, <2>3, <2>4, SeqEqual
    <2>. QED
      BY <1>5, <2>5 DEF w, x, y
  <1>. QED
    BY <1>4, <1>5

LEMMA StartConcat ==
    ASSUME NEW S, NEW u \in Seq(S), NEW v \in Seq(S), u # <<>>
    PROVE  (u \o v)[1] = u[1] /\ u \o v # <<>>
  <1>1. /\ u \o v \in Seq(S) /\ Len(u \o v) = Len(u) + Len(v)
        /\ \A i \in 1..(Len(u) + Len(v)) : (u \o v)[i] = IF i <= Len(u) THEN u[i] ELSE v[i - Len(u)]
    BY ConcatProperties
  <1>2. Len(u) \in Nat /\ Len(u) >= 1 /\ Len(v) \in Nat
    BY Ends
  <1>3. 1 \in 1..(Len(u) + Len(v)) /\ 1 <= Len(u)
    BY <1>2
  <1>4. Len(u \o v) # 0
    BY <1>1, <1>2
  <1>5. u \o v # <<>>
    BY <1>1, <1>4, EmptySeq
  <1>. QED
    BY <1>1, <1>3, <1>5

LEMMA FirstStart ==
    ASSUME NEW S, NEW s \in Seq(S), s # <<>>, NEW k \in Nat, k # 0
    PROVE  first(s, k) # <<>> /\ first(s, k)[1] = s[1]
  <1>. DEFINE w == first(s, k)
  <1>1. /\ w \in Seq(S) /\ Len(w) = IF Len(s) > k THEN k ELSE Len(s)
        /\ \A i \in 1..Len(w) : w[i] = s[i]
    BY FirstIn
  <1>2. Len(s) \in Nat /\ Len(s) >= 1
    BY Ends
  <1>. HIDE DEF w
  <1>3. Len(w) \in Nat /\ Len(w) >= 1
    BY <1>1, <1>2
  <1>4. w # <<>> /\ 1 \in 1..Len(w)
    BY <1>3, EmptySeq
  <1>. QED
    BY <1>1, <1>4 DEF w

LEMMA UpToConcat ==
    ASSUME NEW S, NEW u \in Seq(S), NEW v \in Seq(S), NEW C
    PROVE  UpTo(u \o v, C) = IF UpTo(v, C) # <<>> THEN u \o UpTo(v, C) ELSE UpTo(u, C)
  <1>. DEFINE x == UpTo(v, C)
              y == UpTo(u, C)
  <1>1. /\ x \in Seq(S)
        /\ \E w \in Seq(S \ C) : v = x \o w
        /\ x = <<>> \/ Last(x) \in C
    BY UpToSplit
  <1>2. /\ y \in Seq(S)
        /\ \E w \in Seq(S \ C) : u = y \o w
        /\ y = <<>> \/ Last(y) \in C
    BY UpToSplit
  <1>. HIDE DEF x, y
  <1>3. PICK w \in Seq(S \ C) : v = x \o w
    BY <1>1
  <1>4. PICK z \in Seq(S \ C) : u = y \o z
    BY <1>2
  <1>5. w \in Seq(S) /\ z \in Seq(S)
    BY SeqMonotonic
  <1>6. CASE x # <<>>
    <2>1. u \o x \in Seq(S) /\ Last(u \o x) = Last(x) /\ u \o x # <<>>
      BY <1>1, <1>6, LastConcat, ConcatProperties
    <2>2. Last(u \o x) \in C
      BY <1>1, <1>6, <2>1
    <2>3. u \o v = (u \o x) \o w
      <3>1. x \in Seq(S) /\ w \in Seq(S)
        BY <1>1, <1>5
      <3>2. Associates(u, x, w)
        BY <3>1, Associative, Zenon
      <3>. QED
        BY <1>3, <3>2 DEF Associates
    <2>. DEFINE q == u \o x
    <2>. HIDE DEF q
    <2>4. q \in Seq(S) /\ Last(q) \in C
      BY <2>1, <2>2 DEF q
    <2>5. UpTo(q \o w, C) = q
      BY <2>4, UpToOf
    <2>. QED
      BY <1>6, <2>3, <2>5 DEF q, x
  <1>7. CASE x = <<>>
    <2>1. v = w
      BY <1>3, <1>5, <1>7, ConcatEmptySeq
    <2>2. u \o v = y \o (z \o w)
      <3>1. y \in Seq(S)
        BY <1>2
      <3>2. Associates(y, z, w)
        BY <1>5, <3>1, Associative, Zenon
      <3>. QED
        BY <1>4, <2>1, <3>2 DEF Associates
    <2>3. z \o w \in Seq(S \ C)
      BY ConcatProperties
    <2>. DEFINE q == z \o w
    <2>. HIDE DEF q
    <2>4. q \in Seq(S \ C)
      BY <2>3 DEF q
    <2>5. UpTo(y \o q, C) = y
      BY <1>2, <2>4, UpToOf
    <2>. QED
      BY <1>7, <2>2, <2>5 DEF q, x, y
  <1>. QED
    BY <1>6, <1>7

LEMMA TrimConcat ==
    ASSUME NEW S, NEW u \in Seq(S), NEW v \in Seq(S)
    PROVE  trim(u \o v) = IF trim(v) # <<>> THEN u \o trim(v) ELSE trim(u)
  <1>. DEFINE C == Alphanumeric
  <1>. HIDE DEF C
  <1>1. UpTo(u \o v, C) = IF UpTo(v, C) # <<>> THEN u \o UpTo(v, C) ELSE UpTo(u, C)
    BY UpToConcat
  <1>2. trim(u \o v) = UpTo(u \o v, C) /\ trim(u) = UpTo(u, C) /\ trim(v) = UpTo(v, C)
    BY DEF trim, C
  <1>. QED
    BY <1>1, <1>2

LEMMA UpToSame ==
    ASSUME NEW S, NEW u \in Seq(S), NEW C, u = <<>> \/ Last(u) \in C
    PROVE  UpTo(u, C) = u
  <1>1. u \o <<>> = u /\ <<>> \in Seq(S \ C)
    BY ConcatEmptySeq
  <1>2. UpTo(u \o <<>>, C) = u
    BY <1>1, UpToOf
  <1>. QED
    BY <1>1, <1>2

(* What starts with a character that stays is not trimmed away.            *)
LEMMA UpToStart ==
    ASSUME NEW S, NEW u \in Seq(S), NEW C, u # <<>>, u[1] \in C
    PROVE  UpTo(u, C) # <<>> /\ UpTo(u, C)[1] = u[1]
  <1>. DEFINE x == UpTo(u, C)
  <1>1. /\ x \in Seq(S)
        /\ \E w \in Seq(S \ C) : u = x \o w
        /\ x = <<>> \/ Last(x) \in C
    BY UpToSplit
  <1>. HIDE DEF x
  <1>2. PICK w \in Seq(S \ C) : u = x \o w
    BY <1>1
  <1>3. x # <<>>
    <2>1. SUFFICES ASSUME x = <<>> PROVE FALSE
      OBVIOUS
    <2>2. u = w
      BY <1>2, <2>1, ConcatEmptySeq
    <2>3. u \in Seq(S \ C)
      BY <2>2
    <2>4. u[1] \in S \ C
      BY <2>3, Ends
    <2>. QED
      BY <2>4
  <1>4. w \in Seq(S)
    BY SeqMonotonic
  <1>5. (x \o w)[1] = x[1]
    BY <1>1, <1>3, <1>4, StartConcat
  <1>. QED
    BY <1>2, <1>3, <1>5 DEF x

LEMMA FromPrefix ==
    ASSUME NEW S, NEW s \in Seq(S), NEW t \in Seq(S), NEW C, From(s, C) # <<>>
    PROVE  From(s \o t, C) = From(s, C) \o t
  <1>. DEFINE f == From(s, C)
  <1>1. /\ f \in Seq(S) /\ \E u \in Seq(S \ C) : s = u \o f
        /\ f = <<>> \/ f[1] \in C
    BY FromSplit
  <1>2. f # <<>>
    OBVIOUS
  <1>. HIDE DEF f
  <1>3. PICK u \in Seq(S \ C) : s = u \o f
    BY <1>1
  <1>4. u \in Seq(S)
    BY SeqMonotonic
  <1>5. s \o t = u \o (f \o t)
    <2>1. f \in Seq(S)
      BY <1>1
    <2>2. Associates(u, f, t)
      BY <1>4, <2>1, Associative, Zenon
    <2>. QED
      BY <1>3, <2>2 DEF Associates
  <1>. DEFINE q == f \o t
  <1>6. q \in Seq(S) /\ q[1] \in C
    BY <1>1, <1>2, StartConcat, ConcatProperties
  <1>. HIDE DEF q
  <1>7. From(u \o q, C) = q
    BY <1>6, FromOf
  <1>. QED
    BY <1>5, <1>7 DEF f, q

LEMMA FirstFirst ==
    ASSUME NEW S, NEW s \in Seq(S), NEW j \in Nat, NEW k \in Nat, k <= j
    PROVE  first(first(s, j), k) = first(s, k)
  <1>. DEFINE w == first(s, j)
  <1>1. /\ w \in Seq(S) /\ Len(w) = (IF Len(s) > j THEN j ELSE Len(s))
        /\ rest(s, j) \in Seq(S) /\ s = w \o rest(s, j)
    BY FirstIn
  <1>2. Len(s) > j \/ w = s
    BY DEF first
  <1>. HIDE DEF w
  <1>4. CASE w = s
    BY <1>4 DEF w
  <1>5. CASE Len(s) > j
    <2>1. k <= Len(w)
      BY <1>1, <1>5
    <2>2. first(w \o rest(s, j), k) = first(w, k)
      BY <1>1, <2>1, FirstConcat
    <2>. QED
      BY <1>1, <2>2 DEF w
  <1>. QED
    BY <1>2, <1>4, <1>5

LEMMA TrimFirst ==
    ASSUME NEW S, NEW s \in Seq(S), NEW k \in Nat
    PROVE  trim(first(trim(s), k)) = trim(first(s, k))
  <1>. DEFINE C == Alphanumeric
              t == UpTo(s, C)
  <1>1. /\ t \in Seq(S)
        /\ \E w \in Seq(S \ C) : s = t \o w
        /\ t = <<>> \/ Last(t) \in C
    BY UpToSplit
  <1>2. trim(s) = t
    BY DEF trim
  <1>. HIDE DEF C, t
  <1>3. PICK w \in Seq(S \ C) : s = t \o w
    BY <1>1
  <1>4. w \in Seq(S)
    BY SeqMonotonic
  <1>5. first(t \o w, k) = IF k <= Len(t) THEN first(t, k) ELSE t \o first(w, k - Len(t))
    BY <1>1, <1>4, FirstConcat
  <1>6. CASE k <= Len(t)
    BY <1>2, <1>3, <1>5, <1>6
  <1>7. CASE ~(k <= Len(t))
    <2>1. Len(t) \in Nat
      BY <1>1
    <2>2. k - Len(t) \in Nat /\ ~(Len(t) > k)
      BY <1>7, <2>1
    <2>3. first(t, k) = t
      BY <2>2 DEF first
    <2>. DEFINE v == first(w, k - Len(t))
    <2>4. v \in Seq(S \ C)
      BY <2>2, FirstIn
    <2>. HIDE DEF v
    <2>5. UpTo(t \o v, C) = t
      BY <1>1, <2>4, UpToOf
    <2>6. UpTo(t, C) = t
      BY <1>1, UpToSame
    <2>7. first(s, k) = t \o v
      BY <1>3, <1>5, <1>7 DEF v
    <2>. QED
      BY <1>2, <2>3, <2>5, <2>6, <2>7 DEF trim, C
  <1>. QED
    BY <1>6, <1>7

(* Texts that are cut to the same are cut shorter to the same.             *)
LEMMA SameFirst ==
    ASSUME NEW S, NEW s \in Seq(S), NEW t \in Seq(S), NEW j \in Nat, NEW k \in Nat, k <= j,
           trim(first(s, j)) = trim(first(t, j))
    PROVE  trim(first(s, k)) = trim(first(t, k))
  <1>. DEFINE x == first(s, j)
              y == first(t, j)
  <1>1. x \in Seq(S) /\ y \in Seq(S)
    BY FirstIn
  <1>2. first(x, k) = first(s, k) /\ first(y, k) = first(t, k) /\ trim(x) = trim(y)
    BY FirstFirst
  <1>. HIDE DEF x, y
  <1>3. trim(first(trim(x), k)) = trim(first(x, k)) /\ trim(first(trim(y), k)) = trim(first(y, k))
    BY <1>1, TrimFirst
  <1>. QED
    BY <1>2, <1>3

LEMMA ConcatNoDoubleDash ==
    ASSUME NEW S, NEW u \in Seq(S), NEW v \in Seq(S), NoDoubleDash(u \o v)
    PROVE  NoDoubleDash(u) /\ NoDoubleDash(v)
  <1>1. /\ u \o v \in Seq(S) /\ Len(u \o v) = Len(u) + Len(v)
        /\ \A i \in 1..(Len(u) + Len(v)) : (u \o v)[i] = IF i <= Len(u) THEN u[i] ELSE v[i - Len(u)]
    BY ConcatProperties
  <1>2. Len(u) \in Nat /\ Len(v) \in Nat
    OBVIOUS
  <1>. DEFINE s == u \o v
  <1>3. \A i \in 1..((Len(u) + Len(v)) - 1) : ~(s[i] = "-" /\ s[i + 1] = "-")
    BY <1>1 DEF NoDoubleDash
  <1>4. \A i \in 1..(Len(u) + Len(v)) : s[i] = IF i <= Len(u) THEN u[i] ELSE v[i - Len(u)]
    BY <1>1
  <1>. HIDE DEF s
  <1>5. ASSUME NEW i \in 1..(Len(u) - 1) PROVE ~(u[i] = "-" /\ u[i + 1] = "-")
    <2>1. /\ i \in 1..((Len(u) + Len(v)) - 1) /\ i \in 1..(Len(u) + Len(v)) /\ i <= Len(u)
          /\ i + 1 \in 1..(Len(u) + Len(v)) /\ i + 1 <= Len(u)
      BY <1>2
    <2>2. s[i] = u[i] /\ s[i + 1] = u[i + 1]
      BY <1>4, <2>1
    <2>. QED
      BY <1>3, <2>1, <2>2
  <1>6. ASSUME NEW i \in 1..(Len(v) - 1) PROVE ~(v[i] = "-" /\ v[i + 1] = "-")
    <2>. DEFINE k == Len(u) + i
    <2>1. /\ k \in 1..((Len(u) + Len(v)) - 1) /\ k \in 1..(Len(u) + Len(v)) /\ ~(k <= Len(u))
          /\ k + 1 \in 1..(Len(u) + Len(v)) /\ ~(k + 1 <= Len(u))
          /\ k - Len(u) = i /\ (k + 1) - Len(u) = i + 1
      BY <1>2
    <2>. HIDE DEF k
    <2>2. s[k] = v[i] /\ s[k + 1] = v[i + 1]
      BY <1>4, <2>1
    <2>. QED
      BY <1>3, <2>1, <2>2
  <1>. QED
    BY <1>5, <1>6 DEF NoDoubleDash

LEMMA FromLetter ==
    ASSUME NEW S, NEW s \in Seq(S), HasLetter(s)
    PROVE  From(s, Letter) # <<>>
  <1>. DEFINE f == From(s, Letter)
  <1>1. /\ f \in Seq(S)
        /\ \E u \in Seq(S \ Letter) : s = u \o f
        /\ f = <<>> \/ f[1] \in Letter
    BY FromSplit
  <1>. HIDE DEF f
  <1>2. PICK u \in Seq(S \ Letter) : s = u \o f
    BY <1>1
  <1>3. ASSUME f = <<>> PROVE FALSE
    <2>1. s = u
      BY <1>2, <1>3, ConcatEmptySeq
    <2>2. \A i \in 1..Len(u) : u[i] \in S \ Letter
      BY ElementOfSeq
    <2>. QED
      BY <2>1, <2>2 DEF HasLetter
  <1>. QED
    BY <1>3 DEF f

LEMMA ConcatHasLetter ==
    ASSUME NEW S, NEW u \in Seq(S), NEW v \in Seq(S), HasLetter(u)
    PROVE  HasLetter(u \o v)
  <1>1. /\ u \o v \in Seq(S) /\ Len(u \o v) = Len(u) + Len(v)
        /\ \A i \in 1..(Len(u) + Len(v)) : (u \o v)[i] = IF i <= Len(u) THEN u[i] ELSE v[i - Len(u)]
    BY ConcatProperties
  <1>2. Len(u) \in Nat /\ Len(v) \in Nat
    OBVIOUS
  <1>3. PICK i \in 1..Len(u) : u[i] \in Letter
    BY DEF HasLetter
  <1>4. i \in 1..(Len(u) + Len(v)) /\ i <= Len(u)
    BY <1>2
  <1>5. (u \o v)[i] \in Letter
    BY <1>1, <1>3, <1>4
  <1>. QED
    BY <1>1, <1>4, <1>5 DEF HasLetter

-----------------------------------------------------------------------------
(* What normalize returns.                                                 *)

plain(s) == collapsed(allowed(lower(s)))

LEMMA PlainIn ==
    ASSUME NEW s \in Seq(Character)
    PROVE  /\ allowed(lower(s)) \in Seq(Kept)
           /\ plain(s) \in Seq(Spaced) /\ Len(plain(s)) <= Len(s)
           /\ NoDoubleDash(plain(s))
  <1>1. lower(s) \in Seq(Character) /\ Len(lower(s)) = Len(s)
    BY LowerIs
  <1>. DEFINE l == lower(s)
  <1>. HIDE DEF l
  <1>2. l \in Seq(Character) /\ Len(l) = Len(s) /\ l = lower(s)
    BY <1>1 DEF l
  <1>. DEFINE a == allowed(l)
  <1>3. a \in Seq(Kept) /\ Len(a) <= Len(l)
    BY <1>2, AllowedType DEF GoodAllowed
  <1>. HIDE DEF a
  <1>4. collapsed(a) \in Seq(Spaced) /\ Len(collapsed(a)) <= Len(a)
    BY <1>3, CollapsedType DEF GoodCollapsed
  <1>5. NoDoubleDash(collapsed(a))
    BY <1>3, CollapsedNoDoubleDash
  <1>6. plain(s) = collapsed(a) /\ allowed(lower(s)) = a
    BY <1>2 DEF a, plain
  <1>7. Len(collapsed(a)) <= Len(s)
    <2>1. Len(a) \in Nat /\ Len(s) \in Nat /\ Len(collapsed(a)) \in Nat
      BY <1>3, <1>4
    <2>. QED
      BY <1>2, <1>3, <1>4, <2>1
  <1>. QED
    BY <1>3, <1>4, <1>5, <1>6, <1>7

LEMMA PlainSolid ==
    ASSUME NEW s \in Seq(Solid)
    PROVE  /\ allowed(lower(s)) \in Seq(KeptSolid) /\ plain(s) \in Seq(Dashed)
           /\ NoDoubleDash(plain(s))
           /\ HasLetter(s) => HasLetter(plain(s))
  <1>0. s \in Seq(Character)
    BY Texts
  <1>. DEFINE l == lower(s)
              a == allowed(l)
  <1>1. l \in Seq(Solid) /\ l \in Seq(Character)
    BY <1>0, LowerIs
  <1>2. HasLetter(s) => HasLetter(l)
    BY <1>0, LowerIs
  <1>. HIDE DEF l
  <1>3. a \in Seq(KeptSolid) /\ a \in Seq(Kept)
    BY <1>1, AllowedType DEF GoodAllowed
  <1>4. HasLetter(l) => HasLetter(a)
    BY <1>1, AllowedLetter
  <1>. HIDE DEF a
  <1>5. collapsed(a) \in Seq(Dashed)
    BY <1>3, CollapsedType DEF GoodCollapsed
  <1>6. NoDoubleDash(collapsed(a))
    BY <1>3, CollapsedNoDoubleDash
  <1>7. HasLetter(a) => HasLetter(collapsed(a))
    BY <1>3, CollapsedLetter
  <1>8. plain(s) = collapsed(a) /\ allowed(lower(s)) = a
    BY DEF a, l, plain
  <1>9. HasLetter(s) => HasLetter(plain(s))
    BY <1>2, <1>4, <1>7, <1>8, Zenon
  <1>. QED
    BY <1>3, <1>5, <1>6, <1>8, <1>9, Zenon

LEMMA PlainDash ==
    ASSUME NEW s \in Seq(Solid)
    PROVE  plain(s \o <<"-">>) # <<>> /\ Last(plain(s \o <<"-">>)) = "-"
  <1>0. s \in Seq(Character) /\ "-" \in Kept /\ "-" \in Character /\ "-" \in Separator
    BY Texts, Alphabets DEF Kept
  <1>1. <<"-">> \in Seq(Kept) /\ <<"-">> \in Seq(Character)
    BY <1>0
  <1>2. lower(<<"-">>) = <<"-">>
    <2>1. "-" \notin Upper
      BY <1>0, Alphabets
    <2>. QED
      BY <2>1 DEF lower
  <1>. DEFINE a == allowed(lower(s))
  <1>3. a \in Seq(Kept) /\ a \in Seq(Character)
    BY <1>0, PlainIn, Texts
  <1>4. allowed(lower(s \o <<"-">>)) = a \o <<"-">>
    <2>1. lower(s \o <<"-">>) = lower(s) \o <<"-">>
      BY <1>0, <1>1, <1>2, LowerConcat
    <2>2. lower(s) \in Seq(Character)
      BY <1>0, LowerIs
    <2>3. allowed(lower(s) \o <<"-">>) = a \o allowed(<<"-">>)
      BY <1>1, <2>2, AllowedConcat
    <2>4. allowed(<<"-">>) = <<"-">>
      BY <1>1, AllowedSame
    <2>. QED
      BY <2>1, <2>3, <2>4
  <1>. HIDE DEF a
  <1>5. a \o <<"-">> = Append(a, "-")
    BY <1>0, <1>3, AppendIsConcat
  <1>6. /\ collapsed(a) \in Seq(Character)
        /\ collapsed(Append(a, "-")) =
              IF collapsed(a) # <<>> /\ Last(collapsed(a)) = "-" THEN collapsed(a)
              ELSE Append(collapsed(a), "-")
    BY <1>0, <1>3, CollapsedAppend
  <1>7. Append(collapsed(a), "-") # <<>> /\ Last(Append(collapsed(a), "-")) = "-"
    BY <1>0, <1>6, LastAppend
  <1>8. plain(s \o <<"-">>) = collapsed(Append(a, "-"))
    BY <1>4, <1>5 DEF plain
  <1>. QED
    BY <1>6, <1>7, <1>8

LEMMA PlainConcat ==
    ASSUME NEW u \in Seq(Solid), plain(u) # <<>>, Last(plain(u)) = "-", NEW v \in Seq(Solid)
    PROVE  plain(u \o v) = plain(u) \o Undash(plain(v))
  <1>1. u \in Seq(Character) /\ v \in Seq(Character)
    BY Texts
  <1>2. lower(u) \in Seq(Character) /\ lower(v) \in Seq(Character)
    BY <1>1, LowerIs
  <1>3. lower(u \o v) = lower(u) \o lower(v)
    BY <1>1, LowerConcat
  <1>4. allowed(lower(u \o v)) = allowed(lower(u)) \o allowed(lower(v))
    BY <1>2, <1>3, AllowedConcat
  <1>5. allowed(lower(u)) \in Seq(Kept) /\ allowed(lower(v)) \in Seq(Kept)
    BY <1>1, PlainIn
  <1>. QED
    BY <1>4, <1>5, CollapsedDash DEF plain

LEMMA UndashStart ==
    ASSUME NEW s \in Seq(Dashed), NoDoubleDash(s)
    PROVE  /\ Undash(s) \in Seq(Dashed)
           /\ Undash(s) = <<>> \/ Undash(s)[1] \in Alphanumeric
  <1>1. CASE s # <<>> /\ s[1] = "-"
    <2>1. /\ Tail(s) \in Seq(Dashed) /\ Len(Tail(s)) = Len(s) - 1
          /\ \A i \in 1..Len(Tail(s)) : Tail(s)[i] = s[i + 1]
      BY <1>1, HeadTailProperties
    <2>2. Undash(s) = Tail(s)
      BY <1>1 DEF Undash
    <2>3. ASSUME Tail(s) # <<>> PROVE Tail(s)[1] \in Alphanumeric
      <3>1. Len(Tail(s)) \in Nat /\ Len(Tail(s)) >= 1 /\ Tail(s)[1] \in Dashed
        BY <2>1, <2>3, Ends
      <3>2. Len(s) \in Nat /\ 1 \in 1..(Len(s) - 1) /\ 1 \in 1..Len(Tail(s))
        BY <2>1, <3>1
      <3>3. Tail(s)[1] = s[2]
        BY <2>1, <3>2
      <3>4. ~(s[1] = "-" /\ s[1 + 1] = "-")
        BY <3>2 DEF NoDoubleDash
      <3>5. s[2] # "-"
        BY <1>1, <3>4
      <3>. QED
        BY <3>1, <3>3, <3>5 DEF Dashed
    <2>. QED
      BY <2>1, <2>2, <2>3
  <1>2. CASE ~(s # <<>> /\ s[1] = "-")
    <2>1. Undash(s) = s
      BY <1>2 DEF Undash
    <2>2. ASSUME s # <<>> PROVE s[1] \in Alphanumeric
      <3>1. s[1] \in Dashed /\ s[1] # "-"
        BY <1>2, <2>2, Ends
      <3>. QED
        BY <3>1 DEF Dashed
    <2>. QED
      BY <2>1, <2>2
  <1>. QED
    BY <1>1, <1>2

LEMMA OnceIn ==
    ASSUME NEW s \in Seq(Character)
    PROVE  /\ once(s) \in Seq(Spaced) /\ Len(once(s)) <= Len(s)
           /\ once(s) # <<>> => once(s)[1] \in Letter /\ Last(once(s)) \in Alphanumeric
  <1>. DEFINE l == lower(s)
              t == TrimSpace(l)
              a == allowed(t)
              c == collapsed(a)
              f == From(c, Letter)
              o == UpTo(f, Alphanumeric)
  <1>1. l \in Seq(Character) /\ Len(l) = Len(s)
    BY LowerIs
  <1>. HIDE DEF l
  <1>2. t \in Seq(Character) /\ Len(t) <= Len(l)
    <2>. DEFINE g == From(l, Character \ {" "})
    <2>1. g \in Seq(Character) /\ Len(g) <= Len(l)
      BY <1>1, FromType
    <2>. HIDE DEF g
    <2>2. UpTo(g, Character \ {" "}) \in Seq(Character) /\ Len(UpTo(g, Character \ {" "})) <= Len(g)
      BY <2>1, UpToType
    <2>3. t = UpTo(g, Character \ {" "})
      BY DEF TrimSpace, g
    <2>. HIDE DEF t
    <2>4. t \in Seq(Character) /\ Len(t) <= Len(g)
      BY <2>2, <2>3, Zenon
    <2>5. Len(g) \in Nat /\ Len(l) \in Nat /\ Len(t) \in Nat
      BY <1>1, <2>1, <2>4
    <2>. QED
      BY <2>1, <2>4, <2>5
  <1>. HIDE DEF t
  <1>3. a \in Seq(Kept) /\ Len(a) <= Len(t)
    BY <1>2, AllowedType DEF GoodAllowed
  <1>. HIDE DEF a
  <1>4. c \in Seq(Spaced) /\ Len(c) <= Len(a)
    BY <1>3, CollapsedType DEF GoodCollapsed
  <1>. HIDE DEF c
  <1>5. f \in Seq(Spaced) /\ Len(f) <= Len(c)
    BY <1>4, FromType
  <1>6. f = <<>> \/ f[1] \in Letter
    BY <1>4, FromSplit
  <1>. HIDE DEF f
  <1>7. o \in Seq(Spaced) /\ Len(o) <= Len(f)
    BY <1>5, UpToType
  <1>8. o # <<>> => Last(o) \in Alphanumeric
    BY <1>5, UpToSplit
  <1>9. o # <<>> => o[1] \in Letter
    <2>1. CASE f = <<>>
      <3>1. Len(o) \in Nat /\ Len(f) = 0
        BY <1>7, <2>1, EmptySeq
      <3>2. Len(o) = 0
        BY <1>7, <3>1
      <3>. QED
        BY <1>7, <3>2, EmptySeq
    <2>2. CASE f # <<>>
      <3>1. f[1] \in Letter /\ f[1] \in Alphanumeric
        BY <1>6, <2>2, Alphabets
      <3>2. o[1] = f[1]
        BY <1>5, <2>2, <3>1, UpToStart
      <3>. QED
        BY <3>1, <3>2
    <2>. QED
      BY <2>1, <2>2
  <1>10. once(s) = o
    BY DEF once, stripped, f, c, a, t, l
  <1>11. Len(o) <= Len(s)
    <2>1. /\ Len(o) \in Nat /\ Len(f) \in Nat /\ Len(c) \in Nat /\ Len(a) \in Nat
          /\ Len(t) \in Nat /\ Len(l) \in Nat /\ Len(s) \in Nat
      BY <1>1, <1>2, <1>3, <1>4, <1>5, <1>7
    <2>. QED
      BY <1>1, <1>2, <1>3, <1>4, <1>5, <1>7, <2>1
  <1>. HIDE DEF o
  <1>. QED
    BY <1>7, <1>8, <1>9, <1>10, <1>11

LEMMA Lengths ==
    MaxLength \in Nat \ {0} /\ MaxHost \in Nat
  BY NameAssumption, Zenon

LEMMA SubSeqIsFirst ==
    ASSUME NEW s, Len(s) > MaxLength
    PROVE  SubSeq(s, 1, MaxLength) = first(s, MaxLength)
  BY DEF first

LEMMA NormalizeIn ==
    ASSUME NEW s \in Seq(Character)
    PROVE  /\ normalize(s) \in Seq(Spaced) /\ Len(normalize(s)) <= MaxLength
           /\ normalize(s) # <<>> => normalize(s)[1] \in Letter /\ Last(normalize(s)) \in Alphanumeric
  <1>. DEFINE o == once(s)
  <1>1. /\ o \in Seq(Spaced) /\ Len(o) <= Len(s)
        /\ o # <<>> => o[1] \in Letter /\ Last(o) \in Alphanumeric
    BY OnceIn
  <1>. HIDE DEF o
  <1>2. MaxLength \in Nat /\ Len(o) \in Nat
    BY <1>1, Lengths
  <1>3. normalize(s) = cut(o)
    BY DEF normalize, o
  <1>4. CASE Len(o) > MaxLength
    <2>. DEFINE w == first(o, MaxLength)
    <2>1. w \in Seq(Spaced) /\ Len(w) = MaxLength
      BY <1>1, <1>2, <1>4, FirstIn
    <2>2. cut(o) = once(w)
      BY <1>4, SubSeqIsFirst DEF cut
    <2>. HIDE DEF w
    <2>3. w \in Seq(Character)
      BY <2>1, Texts
    <2>4. /\ once(w) \in Seq(Spaced) /\ Len(once(w)) <= Len(w)
          /\ once(w) # <<>> => once(w)[1] \in Letter /\ Last(once(w)) \in Alphanumeric
      BY <2>3, OnceIn
    <2>. QED
      BY <1>3, <2>1, <2>2, <2>4
  <1>5. CASE ~(Len(o) > MaxLength)
    <2>1. cut(o) = o /\ Len(o) <= MaxLength
      BY <1>2, <1>5 DEF cut
    <2>. QED
      BY <1>1, <1>3, <2>1
  <1>. QED
    BY <1>4, <1>5

LEMMA OnceSolid ==
    ASSUME NEW s \in Seq(Solid)
    PROVE  once(s) = trim(From(plain(s), Letter))
  <1>1. lower(s) \in Seq(Solid)
    BY LowerIs, Texts
  <1>2. TrimSpace(lower(s)) = lower(s)
    BY <1>1, TrimSolid
  <1>. QED
    BY <1>2 DEF once, stripped, plain, trim

LEMMA FromSame ==
    ASSUME NEW S, NEW s \in Seq(S), NEW C, s = <<>> \/ s[1] \in C
    PROVE  From(s, C) = s
  <1>1. <<>> \o s = s /\ <<>> \in Seq(S \ C)
    BY ConcatEmptySeq
  <1>2. From(<<>> \o s, C) = s
    BY <1>1, FromOf
  <1>. QED
    BY <1>1, <1>2

LEMMA LowerSame ==
    ASSUME NEW s \in Seq(Dashed)
    PROVE  lower(s) = s
  <1>1. s \in Seq(Character)
    BY Texts
  <1>. DEFINE l == lower(s)
  <1>2. /\ l \in Seq(Character) /\ Len(l) = Len(s)
        /\ \A i \in 1..Len(s) : l[i] = IF s[i] \in Upper THEN lowercase[s[i]] ELSE s[i]
    BY <1>1, LowerIs
  <1>. HIDE DEF l
  <1>3. ASSUME NEW i \in 1..Len(l) PROVE l[i] = s[i]
    <2>1. s[i] \in Dashed
      BY <1>2, ElementOfSeq
    <2>2. s[i] \notin Upper
      BY <2>1, Alphabets
    <2>. QED
      BY <1>2, <2>2
  <1>4. l = s
    BY <1>1, <1>2, <1>3, SeqEqual
  <1>. QED
    BY <1>4 DEF l

(* What has been through normalize once is only trimmed.                   *)
LEMMA OnceSame ==
    ASSUME NEW s \in Seq(Dashed), NoDoubleDash(s), s = <<>> \/ s[1] \in Letter
    PROVE  once(s) = trim(s)
  <1>1. s \in Seq(Solid) /\ s \in Seq(Kept) /\ s \in Seq(Spaced)
    BY Texts
  <1>2. lower(s) = s /\ allowed(s) = s
    BY <1>1, LowerSame, AllowedSame
  <1>3. collapsed(s) = s
    BY <1>1, CollapsedSame
  <1>4. plain(s) = s
    BY <1>2, <1>3 DEF plain
  <1>5. From(s, Letter) = s
    BY FromSame
  <1>6. once(s) = trim(From(plain(s), Letter))
    BY <1>1, OnceSolid
  <1>. QED
    BY <1>4, <1>5, <1>6

LEMMA NormalizeIs ==
    ASSUME NEW s \in Seq(Solid)
    PROVE  normalize(s) = trim(first(From(plain(s), Letter), MaxLength))
  <1>. DEFINE p == plain(s)
              y == From(p, Letter)
              t == UpTo(y, Alphanumeric)
              M == MaxLength
  <1>1. p \in Seq(Dashed) /\ NoDoubleDash(p)
    BY PlainSolid
  <1>. HIDE DEF p
  <1>2. /\ y \in Seq(Dashed)
        /\ \E u \in Seq(Dashed \ Letter) : p = u \o y
        /\ y = <<>> \/ y[1] \in Letter
    BY <1>1, FromSplit
  <1>. HIDE DEF y
  <1>3. NoDoubleDash(y)
    <2>1. PICK u \in Seq(Dashed \ Letter) : p = u \o y
      BY <1>2
    <2>2. u \in Seq(Dashed)
      BY SeqMonotonic
    <2>. QED
      BY <1>1, <1>2, <2>1, <2>2, ConcatNoDoubleDash
  <1>4. /\ t \in Seq(Dashed)
        /\ \E w \in Seq(Dashed \ Alphanumeric) : y = t \o w
        /\ t = <<>> \/ Last(t) \in Alphanumeric
    BY <1>2, UpToSplit
  <1>5. once(s) = t
    BY OnceSolid DEF trim, t, y, p
  <1>6. trim(y) = t
    BY DEF trim
  <1>. HIDE DEF t
  <1>7. PICK w \in Seq(Dashed \ Alphanumeric) : y = t \o w
    BY <1>4
  <1>8. w \in Seq(Dashed)
    BY SeqMonotonic
  <1>9. M \in Nat /\ M # 0
    BY Lengths
  <1>. HIDE DEF M
  <1>10. trim(first(t, M)) = trim(first(y, M))
    BY <1>2, <1>6, <1>9, TrimFirst
  <1>11. normalize(s) = cut(t)
    BY <1>5 DEF normalize
  <1>12. CASE Len(t) > M
    <2>. DEFINE x == first(t, M)
    <2>1. x \in Seq(Dashed) /\ rest(t, M) \in Seq(Dashed) /\ t = x \o rest(t, M)
      BY <1>4, <1>9, FirstIn
    <2>2. cut(t) = once(x)
      BY <1>12 DEF cut, first, M
    <2>3. t # <<>>
      <3>1. Len(t) \in Nat /\ Len(t) # 0
        BY <1>4, <1>9, <1>12
      <3>. QED
        BY <3>1, EmptySeq
    <2>4. x # <<>> /\ x[1] = t[1]
      BY <1>4, <1>9, <2>3, FirstStart
    <2>. HIDE DEF x
    <2>5. NoDoubleDash(t)
      BY <1>3, <1>4, <1>7, <1>8, ConcatNoDoubleDash
    <2>6. NoDoubleDash(x)
      BY <2>1, <2>5, ConcatNoDoubleDash
    <2>7. y # <<>> /\ y[1] = t[1]
      BY <1>4, <1>7, <1>8, <2>3, StartConcat
    <2>8. once(x) = trim(x)
      BY <1>2, <2>1, <2>4, <2>6, <2>7, OnceSame
    <2>. QED
      BY <1>10, <1>11, <2>2, <2>8 DEF x, y, p, M
  <1>13. CASE ~(Len(t) > M)
    <2>1. cut(t) = t /\ first(t, M) = t
      BY <1>13 DEF cut, first, M
    <2>2. UpTo(t, Alphanumeric) = t
      BY <1>4, UpToSame
    <2>. QED
      BY <1>10, <1>11, <2>1, <2>2 DEF trim, y, p, M
  <1>. QED
    BY <1>12, <1>13

LEMMA IsLabelIs ==
    ASSUME NEW s \in Seq(Solid), normalize(s) # <<>>
    PROVE  IsLabel(normalize(s)) /\ normalize(s) \in Seq(Dashed)
  <1>. DEFINE y == From(plain(s), Letter)
              x == first(y, MaxLength)
              n == normalize(s)
  <1>1. plain(s) \in Seq(Dashed)
    BY PlainSolid
  <1>2. y \in Seq(Dashed)
    BY <1>1, FromType
  <1>3. x \in Seq(Dashed)
    BY <1>2, Lengths, FirstIn
  <1>4. n = trim(x)
    BY NormalizeIs
  <1>5. s \in Seq(Character)
    BY Texts
  <1>6. /\ Len(n) <= MaxLength
        /\ n # <<>> => n[1] \in Letter /\ Last(n) \in Alphanumeric
    BY <1>5, NormalizeIn
  <1>. HIDE DEF x
  <1>7. trim(x) \in Seq(Dashed)
    BY <1>3, UpToType DEF trim
  <1>8. n \in Seq(Dashed)
    BY <1>4, <1>7
  <1>9. \A i \in DOMAIN n : n[i] \in Alphanumeric \cup {"-"}
    <2>. HIDE DEF n
    <2>1. DOMAIN n = 1..Len(n)
      BY <1>8
    <2>. QED
      BY <1>8, <2>1, ElementOfSeq DEF Dashed
  <1>. QED
    BY <1>6, <1>8, <1>9 DEF IsLabel

LEMMA NormalizeNotEmpty ==
    ASSUME NEW s \in Seq(Solid), HasLetter(s)
    PROVE  normalize(s) # <<>>
  <1>. DEFINE p == plain(s)
              y == From(p, Letter)
              x == first(y, MaxLength)
  <1>1. p \in Seq(Dashed)
    BY PlainSolid
  <1>2. HasLetter(p)
    BY PlainSolid
  <1>3. normalize(s) = trim(x)
    BY NormalizeIs
  <1>. HIDE DEF p
  <1>4. y # <<>>
    BY <1>1, <1>2, FromLetter
  <1>5. y \in Seq(Dashed)
    BY <1>1, FromType
  <1>6. y = <<>> \/ y[1] \in Letter
    BY <1>1, FromSplit
  <1>. HIDE DEF y
  <1>7. x # <<>> /\ x[1] = y[1]
    BY <1>4, <1>5, Lengths, FirstStart
  <1>8. x \in Seq(Dashed)
    BY <1>5, Lengths, FirstIn
  <1>. HIDE DEF x
  <1>9. x[1] \in Alphanumeric
    BY <1>4, <1>6, <1>7, Alphabets
  <1>10. UpTo(x, Alphanumeric) # <<>>
    BY <1>7, <1>8, <1>9, UpToStart
  <1>. QED
    BY <1>3, <1>10 DEF trim

-----------------------------------------------------------------------------
(* Names of PullRequests and Deployments.                                  *)

dash == <<"-">>

LEMMA DashIn == dash \in Seq(Solid) /\ dash \in Seq(Character)
  <1>1. "-" \in Solid /\ "-" \in Character
    BY Alphabets
  <1>. QED
    BY <1>1 DEF dash

Regroups(u, v, w, x) == (u \o v) \o (w \o x) = (u \o (v \o w)) \o x

LEMMA Regroup ==
    ASSUME NEW S, NEW u \in Seq(S), NEW v \in Seq(S), NEW w \in Seq(S), NEW x \in Seq(S)
    PROVE  Regroups(u, v, w, x)
  <1>1. (u \o v) \o w = u \o (v \o w)
    BY ConcatAssociative
  <1>. DEFINE y == u \o v
  <1>2. y \in Seq(S)
    BY ConcatProperties
  <1>. HIDE DEF y
  <1>3. y \o (w \o x) = (y \o w) \o x
    BY <1>2, ConcatAssociative
  <1>. QED
    BY <1>1, <1>3 DEF Regroups, y

LEMMA TwoNames ==
    ASSUME NEW a \in Seq(Character), NEW b \in Seq(Character)
    PROVE  GetResourceName(<<a, b>>) = normalize((a \o dash) \o b)
  <1>. DEFINE S == Seq(Character)
              x == dash \o b
              s == [i \in DOMAIN <<a, b>> |-> IF i = 1 THEN <<a, b>>[i] ELSE dash \o <<a, b>>[i]]
  <1>1. dash \in S
    BY DashIn
  <1>2. x \in S
    BY <1>1, ConcatProperties
  <1>3. s = <<a, x>>
    OBVIOUS
  <1>. HIDE DEF x, s
  <1>. HIDE DEF S
  <1>4. <<a, x>> = Append(<<a>>, x) /\ <<a>> = Append(<<>>, a)
    BY <1>2
  <1>5. <<>> \in Seq(S) /\ <<a>> \in Seq(S)
    BY DEF S
  <1>6. FlattenSeq(Append(<<>>, a)) = FlattenSeq(<<>>) \o a
    BY <1>5, FlattenAppend DEF S
  <1>7. FlattenSeq(Append(<<a>>, x)) = FlattenSeq(<<a>>) \o x
    BY <1>2, <1>5, FlattenAppend DEF S
  <1>8. FlattenSeq(<<>>) \o a = a
    BY FlattenEmpty, ConcatEmptySeq
  <1>9. FlattenSeq(s) = a \o x
    BY <1>3, <1>4, <1>6, <1>7, <1>8
  <1>10. a \o (dash \o b) = (a \o dash) \o b
    BY <1>1, ConcatAssociative DEF S
  <1>11. GetResourceName(<<a, b>>) = normalize(FlattenSeq(s))
    BY DEF GetResourceName, s, dash
  <1>. QED
    BY <1>9, <1>10, <1>11 DEF x

LEMMA ThreeNames ==
    ASSUME NEW a \in Seq(Character), NEW b \in Seq(Character), NEW c \in Seq(Character)
    PROVE  GetResourceName(<<a, b, c>>) = normalize(((a \o dash) \o (b \o dash)) \o c)
  <1>. DEFINE S == Seq(Character)
              x == dash \o b
              y == dash \o c
              n == <<a, b, c>>
              s == [i \in DOMAIN n |-> IF i = 1 THEN n[i] ELSE dash \o n[i]]
  <1>1. dash \in S
    BY DashIn
  <1>2. x \in S /\ y \in S
    BY <1>1, ConcatProperties
  <1>3. s = <<a, x, y>>
    OBVIOUS
  <1>. HIDE DEF x, y, s
  <1>. HIDE DEF S
  <1>4. /\ <<a, x, y>> = Append(<<a, x>>, y) /\ <<a, x>> = Append(<<a>>, x)
        /\ <<a>> = Append(<<>>, a)
    BY <1>2
  <1>5. <<>> \in Seq(S) /\ <<a>> \in Seq(S) /\ <<a, x>> \in Seq(S)
    BY <1>2 DEF S
  <1>6. FlattenSeq(Append(<<>>, a)) = FlattenSeq(<<>>) \o a
    BY <1>5, FlattenAppend DEF S
  <1>7. FlattenSeq(Append(<<a>>, x)) = FlattenSeq(<<a>>) \o x
    BY <1>2, <1>5, FlattenAppend DEF S
  <1>8. FlattenSeq(Append(<<a, x>>, y)) = FlattenSeq(<<a, x>>) \o y
    BY <1>2, <1>5, FlattenAppend DEF S
  <1>9. FlattenSeq(<<>>) \o a = a
    BY FlattenEmpty, ConcatEmptySeq
  <1>10. FlattenSeq(s) = (a \o x) \o y
    BY <1>3, <1>4, <1>6, <1>7, <1>8, <1>9
  <1>11. a \o (dash \o b) = (a \o dash) \o b
    BY <1>1, ConcatAssociative DEF S
  <1>. DEFINE u == a \o dash
  <1>12. u \in S
    BY <1>1, ConcatProperties DEF S
  <1>. HIDE DEF u
  <1>13. (u \o b) \o (dash \o c) = (u \o (b \o dash)) \o c
    <2>1. Regroups(u, b, dash, c)
      BY <1>1, <1>12, Regroup DEF S
    <2>. QED
      BY <2>1 DEF Regroups
  <1>14. GetResourceName(n) = normalize(FlattenSeq(s))
    BY DEF GetResourceName, s, dash
  <1>. HIDE DEF n
  <1>15. FlattenSeq(s) = (u \o (b \o dash)) \o c
    BY <1>10, <1>11, <1>13 DEF u, x, y
  <1>. QED
    BY <1>14, <1>15 DEF u, n

(* Deployments have no space in their names, as Services and Deployments   *)
(* must not.                                                               *)
NoSpaces == \A d \in Deployments : d.name \in Seq(Solid)

(* The ReviewAppConfig has a letter in its name.                           *)
AppHasLetter == HasLetter(App)

LEMMA AppIn == App \in Seq(Solid) /\ App \in Seq(Character)
  <1>1. App \in Seq(Alphanumeric \cup {"-", "."})
    BY NameAssumption, Zenon
  <1>2. Alphanumeric \cup {"-", "."} \subseteq Solid
    BY Alphabets DEF Separator
  <1>3. App \in Seq(Solid)
    BY <1>1, <1>2, SeqMonotonic
  <1>. QED
    BY <1>3, Texts

LEMMA BranchIn ==
    ASSUME NEW b \in Seq(BranchCharacter)
    PROVE  b \in Seq(Solid) /\ b \in Seq(Character)
  <1>1. BranchCharacter \subseteq Solid
    BY NameAssumption, Zenon DEF Solid
  <1>2. b \in Seq(Solid)
    BY <1>1, SeqMonotonic
  <1>. QED
    BY <1>2, Texts

(* The name of a PullRequest, and that of a Deployment, up to the branch.  *)
appDash == App \o dash
nameDash(d) == appDash \o (d \o dash)

LEMMA PullRequestNameIs ==
    ASSUME NEW b \in Seq(Character)
    PROVE  GetPullRequestName(b) = normalize(appDash \o b)
  BY AppIn, TwoNames DEF GetPullRequestName, appDash

LEMMA DeploymentNameIs ==
    ASSUME NEW b \in Seq(Character), NEW d \in Seq(Character)
    PROVE  GetDeploymentName(b, d) = normalize(nameDash(d) \o b)
  BY AppIn, ThreeNames DEF GetDeploymentName, appDash, nameDash

LEMMA PrefixesIn ==
    /\ appDash \in Seq(Solid)
    /\ \A d \in Seq(Solid) : nameDash(d) \in Seq(Solid) /\ d \o dash \in Seq(Solid)
  <1>1. appDash \in Seq(Solid)
    BY AppIn, DashIn, ConcatProperties DEF appDash
  <1>2. ASSUME NEW d \in Seq(Solid) PROVE nameDash(d) \in Seq(Solid) /\ d \o dash \in Seq(Solid)
    <2>1. d \o dash \in Seq(Solid)
      BY DashIn, ConcatProperties
    <2>. QED
      BY <1>1, <2>1, ConcatProperties DEF nameDash
  <1>. QED
    BY <1>1, <1>2

LEMMA NamesAreLabels ==
    ASSUME AppHasLetter, NEW b \in Seq(Solid), NEW d \in Seq(Solid)
    PROVE  IsLabel(GetPullRequestName(b)) /\ IsLabel(GetDeploymentName(b, d))
  <1>1. b \in Seq(Character) /\ d \in Seq(Character)
    BY Texts
  <1>2. HasLetter(appDash)
    BY AppIn, DashIn, ConcatHasLetter DEF AppHasLetter, appDash
  <1>3. HasLetter(nameDash(d))
    BY <1>2, PrefixesIn, ConcatHasLetter DEF nameDash
  <1>4. HasLetter(appDash \o b)
    BY <1>2, PrefixesIn, ConcatHasLetter
  <1>5. HasLetter(nameDash(d) \o b)
    BY <1>3, PrefixesIn, ConcatHasLetter
  <1>. DEFINE u == appDash \o b
              v == nameDash(d) \o b
  <1>6. u \in Seq(Solid) /\ v \in Seq(Solid)
    BY PrefixesIn, ConcatProperties
  <1>7. GetPullRequestName(b) = normalize(u) /\ GetDeploymentName(b, d) = normalize(v)
    BY <1>1, PullRequestNameIs, DeploymentNameIs
  <1>8. HasLetter(u) /\ HasLetter(v)
    BY <1>4, <1>5
  <1>. HIDE DEF u, v
  <1>9. normalize(u) # <<>> /\ normalize(v) # <<>>
    BY <1>6, <1>8, NormalizeNotEmpty
  <1>. QED
    BY <1>6, <1>7, <1>9, IsLabelIs

LEMMA NormalizeDashed ==
    ASSUME NEW s \in Seq(Solid)
    PROVE  normalize(s) \in Seq(Dashed)
  <1>1. CASE normalize(s) = <<>>
    BY <1>1
  <1>2. CASE normalize(s) # <<>>
    BY <1>2, IsLabelIs
  <1>. QED
    BY <1>1, <1>2

LEMMA ConcatSplit ==
    ASSUME NEW S, NEW u \in Seq(S), NEW v \in Seq(S), NEW w \in Seq(S), NEW x \in Seq(S),
           u \o v = w \o x, Len(u) = Len(w)
    PROVE  u = w /\ v = x
  <1>1. first(u \o v, Len(u)) = u /\ first(w \o x, Len(w)) = w
    BY FirstOf
  <1>2. u = w
    BY <1>1
  <1>3. u \o v = u \o x
    BY <1>2
  <1>4. \A s, t, y \in Seq(S) : s \o t = s \o y => t = y
    BY ConcatSimplifications
  <1>5. v = x
    BY <1>3, <1>4
  <1>. QED
    BY <1>2, <1>5

(* Texts that are the same when they are trimmed and cut behind a prefix    *)
(* are so behind a longer one too.                                         *)
LEMMA LongerPrefix ==
    ASSUME NEW P \in Seq(Dashed), NEW R \in Seq(Dashed), NEW s \in Seq(Dashed),
           NEW t \in Seq(Dashed), NEW M \in Nat, trim(first(P \o s, M)) = trim(first(P \o t, M))
    PROVE  trim(first((P \o R) \o s, M)) = trim(first((P \o R) \o t, M))
  <1>. DEFINE Q == P \o R
  <1>1. Q \in Seq(Dashed) /\ Len(Q) = Len(P) + Len(R)
    BY ConcatProperties
  <1>. HIDE DEF Q
  <1>2. Len(P) \in Nat /\ Len(R) \in Nat
    OBVIOUS
  <1>3. /\ first(Q \o s, M) = IF M <= Len(Q) THEN first(Q, M) ELSE Q \o first(s, M - Len(Q))
        /\ first(Q \o t, M) = IF M <= Len(Q) THEN first(Q, M) ELSE Q \o first(t, M - Len(Q))
    BY <1>1, FirstConcat
  <1>4. CASE M <= Len(Q)
    BY <1>3, <1>4 DEF Q
  <1>5. CASE ~(M <= Len(Q))
    <2>. DEFINE j == M - Len(P)
                k == M - Len(Q)
                x == first(s, j)
                y == first(t, j)
                x1 == first(s, k)
                y1 == first(t, k)
    <2>1. j \in Nat /\ k \in Nat /\ k <= j /\ ~(M <= Len(P))
      BY <1>1, <1>2, <1>5
    <2>2. first(P \o s, M) = P \o x /\ first(P \o t, M) = P \o y
      <3>1. /\ first(P \o s, M) = IF M <= Len(P) THEN first(P, M) ELSE P \o first(s, M - Len(P))
            /\ first(P \o t, M) = IF M <= Len(P) THEN first(P, M) ELSE P \o first(t, M - Len(P))
        BY FirstConcat
      <3>. QED
        BY <2>1, <3>1
    <2>3. first(Q \o s, M) = Q \o x1 /\ first(Q \o t, M) = Q \o y1
      BY <1>3, <1>5
    <2>. HIDE DEF j, k
    <2>4. x \in Seq(Dashed) /\ y \in Seq(Dashed) /\ x1 \in Seq(Dashed) /\ y1 \in Seq(Dashed)
      BY <2>1, FirstIn
    <2>5. trim(x) = trim(y) => trim(x1) = trim(y1)
      BY <2>1, SameFirst
    <2>. HIDE DEF x, y, x1, y1
    <2>6. /\ trim(P \o x) = IF trim(x) # <<>> THEN P \o trim(x) ELSE trim(P)
          /\ trim(P \o y) = IF trim(y) # <<>> THEN P \o trim(y) ELSE trim(P)
      BY <2>4, TrimConcat
    <2>7. /\ trim(Q \o x1) = IF trim(x1) # <<>> THEN Q \o trim(x1) ELSE trim(Q)
          /\ trim(Q \o y1) = IF trim(y1) # <<>> THEN Q \o trim(y1) ELSE trim(Q)
      BY <1>1, <2>4, TrimConcat
    <2>8. trim(P \o x) = trim(P \o y)
      BY <2>2
    <2>9. trim(x) = trim(y)
      <3>1. trim(x) \in Seq(Dashed) /\ trim(y) \in Seq(Dashed)
        BY <2>4, UpToType DEF trim
      <3>2. trim(P) \in Seq(Dashed) /\ Len(trim(P)) <= Len(P)
        BY UpToType DEF trim
      <3>. DEFINE a == trim(x)
                  b == trim(y)
                  c == trim(P)
      <3>. HIDE DEF a, b, c
      <3>3. a \in Seq(Dashed) /\ b \in Seq(Dashed) /\ c \in Seq(Dashed) /\ Len(c) <= Len(P)
        BY <3>1, <3>2 DEF a, b, c
      <3>4. (IF a # <<>> THEN P \o a ELSE c) = (IF b # <<>> THEN P \o b ELSE c)
        BY <2>6, <2>8 DEF a, b, c
      <3>5. ASSUME NEW d \in Seq(Dashed), d # <<>>, P \o d = c PROVE FALSE
        <4>1. Len(P \o d) = Len(P) + Len(d)
          BY ConcatProperties
        <4>2. Len(d) \in Nat /\ Len(d) >= 1
          BY <3>5, Ends
        <4>. QED
          BY <1>2, <3>3, <3>5, <4>1, <4>2
      <3>6. a = b
        <4>1. CASE a # <<>> /\ b # <<>>
          BY <3>3, <3>4, <4>1, ConcatSplit
        <4>2. CASE a = <<>> /\ b = <<>>
          BY <4>2
        <4>3. CASE a # <<>> /\ b = <<>>
          BY <3>3, <3>4, <3>5, <4>3
        <4>4. CASE a = <<>> /\ b # <<>>
          BY <3>3, <3>4, <3>5, <4>4
        <4>. QED
          BY <4>1, <4>2, <4>3, <4>4
      <3>. QED
        BY <3>6 DEF a, b
    <2>10. trim(Q \o x1) = trim(Q \o y1)
      BY <2>5, <2>7, <2>9
    <2>. QED
      BY <2>3, <2>10 DEF Q
  <1>. QED
    BY <1>4, <1>5

(* A name is that of its prefix followed by a branch without its dash.      *)
LEMMA BehindPrefix ==
    ASSUME NEW u \in Seq(Solid), plain(u) # <<>>, Last(plain(u)) = "-", HasLetter(u),
           NEW b \in Seq(Solid)
    PROVE  /\ normalize(u \o b) =
                 trim(first(From(plain(u), Letter) \o Undash(plain(b)), MaxLength))
           /\ From(plain(u), Letter) \in Seq(Dashed) /\ From(plain(u), Letter) # <<>>
           /\ Undash(plain(b)) \in Seq(Dashed)
  <1>. DEFINE p == plain(u)
              t == Undash(plain(b))
  <1>1. p \in Seq(Dashed)
    BY PlainSolid
  <1>2. HasLetter(p)
    BY PlainSolid
  <1>3. plain(b) \in Seq(Dashed) /\ NoDoubleDash(plain(b))
    BY PlainSolid
  <1>4. t \in Seq(Dashed)
    BY <1>3, UndashStart
  <1>5. plain(u \o b) = p \o t
    BY PlainConcat
  <1>6. normalize(u \o b) = trim(first(From(plain(u \o b), Letter), MaxLength))
    <2>. DEFINE s == u \o b
    <2>1. s \in Seq(Solid)
      BY ConcatProperties
    <2>. HIDE DEF s
    <2>2. normalize(s) = trim(first(From(plain(s), Letter), MaxLength))
      BY <2>1, NormalizeIs
    <2>. QED
      BY <2>2 DEF s
  <1>. HIDE DEF p, t
  <1>7. From(p, Letter) # <<>>
    BY <1>1, <1>2, FromLetter
  <1>8. From(p \o t, Letter) = From(p, Letter) \o t
    BY <1>1, <1>4, <1>7, FromPrefix
  <1>9. From(p, Letter) \in Seq(Dashed)
    BY <1>1, FromType
  <1>. QED
    BY <1>4, <1>5, <1>6, <1>7, <1>8, <1>9 DEF p, t

LEMMA SameNamesOf ==
    ASSUME AppHasLetter, NEW b \in Seq(Solid), NEW c \in Seq(Solid), NEW d \in Seq(Solid),
           GetPullRequestName(b) = GetPullRequestName(c)
    PROVE  GetDeploymentName(b, d) = GetDeploymentName(c, d)
  <1>. DEFINE e == d \o dash
              p == plain(appDash)
              q == plain(nameDash(d))
              P == From(p, Letter)
              R == Undash(plain(e))
              s == Undash(plain(b))
              t == Undash(plain(c))
              M == MaxLength
  <1>1. /\ appDash \in Seq(Solid) /\ nameDash(d) \in Seq(Solid) /\ e \in Seq(Solid)
        /\ b \in Seq(Character) /\ c \in Seq(Character) /\ d \in Seq(Character)
    BY PrefixesIn, Texts
  <1>2. HasLetter(appDash)
    BY AppIn, DashIn, ConcatHasLetter DEF AppHasLetter, appDash
  <1>3. HasLetter(nameDash(d))
    BY <1>1, <1>2, ConcatHasLetter DEF nameDash
  <1>4. p # <<>> /\ Last(p) = "-"
    BY AppIn, PlainDash DEF appDash, dash
  <1>5. q # <<>> /\ Last(q) = "-"
    <2>1. appDash \o d \in Seq(Solid)
      BY <1>1, ConcatProperties
    <2>2. nameDash(d) = (appDash \o d) \o dash
      BY <1>1, DashIn, ConcatAssociative DEF nameDash
    <2>. DEFINE x == appDash \o d
    <2>. HIDE DEF x
    <2>3. x \in Seq(Solid)
      BY <2>1 DEF x
    <2>4. plain(x \o dash) # <<>> /\ Last(plain(x \o dash)) = "-"
      BY <2>3, PlainDash DEF dash
    <2>. QED
      BY <2>2, <2>4 DEF x
  <1>6. /\ normalize(appDash \o b) = trim(first(P \o s, M))
        /\ P \in Seq(Dashed) /\ P # <<>> /\ s \in Seq(Dashed)
    BY <1>1, <1>2, <1>4, BehindPrefix
  <1>7. normalize(appDash \o c) = trim(first(P \o t, M)) /\ t \in Seq(Dashed)
    BY <1>1, <1>2, <1>4, BehindPrefix
  <1>8. normalize(nameDash(d) \o b) = trim(first(From(q, Letter) \o s, M))
    BY <1>1, <1>3, <1>5, BehindPrefix
  <1>9. normalize(nameDash(d) \o c) = trim(first(From(q, Letter) \o t, M))
    BY <1>1, <1>3, <1>5, BehindPrefix
  <1>10. From(q, Letter) = P \o R /\ R \in Seq(Dashed)
    <2>1. q = p \o R
      BY <1>1, <1>4, PlainConcat DEF nameDash
    <2>2. plain(e) \in Seq(Dashed) /\ NoDoubleDash(plain(e))
      BY <1>1, PlainSolid
    <2>3. R \in Seq(Dashed)
      BY <2>2, UndashStart
    <2>4. p \in Seq(Dashed)
      BY <1>1, PlainSolid
    <2>. HIDE DEF p, q, R
    <2>5. From(p \o R, Letter) = From(p, Letter) \o R
      BY <1>6, <2>3, <2>4, FromPrefix
    <2>. QED
      BY <2>1, <2>3, <2>5
  <1>11. M \in Nat
    BY Lengths
  <1>12. /\ GetPullRequestName(b) = normalize(appDash \o b)
         /\ GetPullRequestName(c) = normalize(appDash \o c)
         /\ GetDeploymentName(b, d) = normalize(nameDash(d) \o b)
         /\ GetDeploymentName(c, d) = normalize(nameDash(d) \o c)
    BY <1>1, PullRequestNameIs, DeploymentNameIs
  <1>. HIDE DEF P, R, s, t, q, M
  <1>13. trim(first(P \o s, M)) = trim(first(P \o t, M))
    BY <1>6, <1>7, <1>12
  <1>14. trim(first((P \o R) \o s, M)) = trim(first((P \o R) \o t, M))
    BY <1>6, <1>7, <1>10, <1>11, <1>13, LongerPrefix
  <1>. QED
    BY <1>8, <1>9, <1>10, <1>12, <1>14

-----------------------------------------------------------------------------
(* The invariants.                                                         *)

Typed ==
    /\ branch \in Seq(BranchCharacter) /\ Len(branch) <= MaxBranch
    /\ deployment \in Deployments

LEMMA AlwaysTyped == Spec => []Typed
  <1>1. MaxBranch \in Nat
    BY NameAssumption, Zenon
  <1>2. Init => Typed
    BY <1>1 DEF Init, Typed
  <1>3. Typed /\ [Next]_vars => Typed'
    <2>1. SUFFICES ASSUME Typed, [Next]_vars PROVE Typed'
      OBVIOUS
    <2>2. CASE Next
      <3>1. PICK c \in BranchCharacter : branch' = Append(branch, c)
        BY <2>2 DEF Next
      <3>2. Len(branch) < MaxBranch /\ deployment' = deployment
        BY <2>2 DEF Next
      <3>3. branch' \in Seq(BranchCharacter) /\ Len(branch') = Len(branch) + 1 /\ Len(branch) \in Nat
        BY <2>1, <3>1, AppendProperties DEF Typed
      <3>. QED
        BY <1>1, <2>1, <3>2, <3>3 DEF Typed
    <2>3. CASE UNCHANGED vars
      BY <2>1, <2>3 DEF vars, Typed
    <2>. QED
      BY <2>1, <2>2, <2>3
  <1>. QED
    BY <1>2, <1>3, PTL DEF Spec

LEMMA BranchesIn ==
    ASSUME NEW b \in Branches
    PROVE  b \in Seq(BranchCharacter)
  <1>1. MaxBranch \in Nat
    BY NameAssumption, Zenon
  <1>2. PICK n \in 0..MaxBranch : b \in [1..n -> BranchCharacter]
    BY DEF Branches, BoundedSeq, SeqOf
  <1>3. n \in Nat
    BY <1>1
  <1>. QED
    BY <1>2, <1>3

LEMMA DeploymentIn ==
    ASSUME NEW d \in Deployments
    PROVE  /\ d.name \in Seq(Character) /\ d.image \in Image
           /\ d.template \in Seq(Alphanumeric \cup {"-", "."} \cup Variable)
  BY NameAssumption, Zenon

(* The names of a PullRequest and of its Deployments are made of letters,   *)
(* digits and dashes, whatever the branch, for names of deployments without *)
(* a space: disallowed characters are dropped and separators collapse into  *)
(* dashes (normalize, GetResourceName).                                     *)
THEOREM NamesTyped ==
    ASSUME NoSpaces
    PROVE  Spec => []TypeOK
  <1>1. Typed => TypeOK
    <2>1. SUFFICES ASSUME Typed PROVE TypeOK
      OBVIOUS
    <2>. DEFINE d == deployment.name
    <2>2. d \in Seq(Solid) /\ branch \in Seq(Solid) /\ d \in Seq(Character) /\ branch \in Seq(Character)
      BY <2>1, BranchIn, Texts DEF Typed, NoSpaces
    <2>3. image \in Image
      BY <2>1, DeploymentIn DEF Typed, image
    <2>4. appDash \o branch \in Seq(Solid) /\ nameDash(d) \o branch \in Seq(Solid)
      BY <2>2, PrefixesIn, ConcatProperties
    <2>5. /\ GetPullRequestName(branch) = normalize(appDash \o branch)
          /\ GetDeploymentName(branch, d) = normalize(nameDash(d) \o branch)
      BY <2>2, PullRequestNameIs, DeploymentNameIs
    <2>6. GetPullRequestName(branch) \in Seq(Dashed) /\ GetDeploymentName(branch, d) \in Seq(Dashed)
      BY <2>4, <2>5, NormalizeDashed
    <2>7. {GetPullRequestName(branch), GetDeploymentName(branch, d)} \subseteq Seq(Alphanumeric \cup {"-"})
      BY <2>6 DEF Dashed
    <2>. QED
      BY <2>1, <2>3, <2>7 DEF TypeOK, Typed
  <1>. QED
    BY <1>1, AlwaysTyped, PTL

(* Every branch has names that Kubernetes allows, of a length of at most    *)
(* MaxLength and with a letter at their start, if the ReviewAppConfig has a *)
(* letter in its name and no deployment a space in its own: what follows a  *)
(* letter may be cut off, but never the letter (normalize).                 *)
THEOREM NamesAreValid ==
    ASSUME NoSpaces, AppHasLetter
    PROVE  Spec => []ValidNames
  <1>1. Typed => ValidNames
    <2>1. SUFFICES ASSUME Typed PROVE ValidNames
      OBVIOUS
    <2>2. deployment.name \in Seq(Solid) /\ branch \in Seq(Solid)
      BY <2>1, BranchIn DEF Typed, NoSpaces
    <2>3. IsLabel(GetPullRequestName(branch)) /\ IsLabel(GetDeploymentName(branch, deployment.name))
      BY <2>2, NamesAreLabels
    <2>4. normalize(branch) # <<>> => IsLabel(normalize(branch))
      BY <2>2, IsLabelIs
    <2>. QED
      BY <2>3, <2>4 DEF ValidNames
  <1>. QED
    BY <1>1, AlwaysTyped, PTL

(* Branches whose PullRequests have the same name have Deployments of the   *)
(* same names: the prefix of a Deployment is longer, so that less of the    *)
(* branch is left in its name, and what is cut off that of the PullRequest  *)
(* is cut off that of the Deployment too (GetResourceName).                 *)
THEOREM SharedNamesAreShared ==
    ASSUME NoSpaces, AppHasLetter
    PROVE  Spec => []SameNames
  <1>1. Typed => SameNames
    <2>1. SUFFICES ASSUME Typed, NEW b \in Branches, NEW d \in DeploymentNames,
                          GetPullRequestName(b) = GetPullRequestName(branch),
                          d = deployment.name
                   PROVE  GetDeploymentName(b, d) = GetDeploymentName(branch, deployment.name)
      BY DEF SameNames, AllNames
    <2>2. d \in Seq(Solid) /\ branch \in Seq(Solid)
      BY <2>1, BranchIn DEF Typed, NoSpaces
    <2>3. b \in Seq(Solid)
      BY <2>1, BranchesIn, BranchIn
    <2>. QED
      BY <2>1, <2>2, <2>3, SameNamesOf
  <1>. QED
    BY <1>1, AlwaysTyped, PTL

-----------------------------------------------------------------------------
(* Images.                                                                 *)

LEMMA SubSeqStart ==
    ASSUME NEW S, NEW u \in Seq(S), NEW v \in Seq(S)
    PROVE  SubSeq(u \o v, 1, Len(u)) = u
  <1>1. /\ Len(u \o v) = Len(u) + Len(v) /\ Len(u) \in Nat /\ Len(v) \in Nat
        /\ first(u \o v, Len(u)) = u
    BY FirstOf, ConcatProperties
  <1>2. CASE v # <<>>
    <2>1. Len(v) >= 1
      BY <1>2, Ends
    <2>2. Len(u \o v) > Len(u)
      BY <1>1, <2>1
    <2>. QED
      BY <1>1, <2>2 DEF first
  <1>3. CASE v = <<>>
    <2>1. u \o v = u
      BY <1>3, ConcatEmptySeq
    <2>. DEFINE n == Len(u)
                x == SubSeq(u, 1, n)
    <2>2. n \in Nat /\ \A i \in 1..n : u[i] \in S
      BY ElementOfSeq
    <2>3. /\ x \in Seq(S) /\ Len(x) = (IF 1 <= n THEN n - 1 + 1 ELSE 0)
          /\ \A i \in 1..(n - 1 + 1) : x[i] = u[1 + i - 1]
      BY <2>2, SubSeqProperties
    <2>. HIDE DEF x
    <2>4. Len(x) = Len(u) /\ \A i \in 1..Len(x) : x[i] = u[i]
      BY <2>2, <2>3
    <2>5. x = u
      BY <2>3, <2>4, SeqEqual
    <2>. QED
      BY <2>1, <2>5 DEF x
  <1>. QED
    BY <1>2, <1>3

(* Where a character is first in two texts that follow each other.          *)
LEMMA IndexConcat ==
    ASSUME NEW S, NEW u \in Seq(S), NEW v \in Seq(S), NEW x,
           \A i \in 1..Len(u) : u[i] # x
    PROVE  /\ v = <<>> => Index(u \o v, x) = 0
           /\ v # <<>> /\ v[1] = x => Index(u \o v, x) = Len(u) + 1
  <1>. DEFINE s == u \o v
              k == Index(s, x)
  <1>1. /\ s \in Seq(S) /\ Len(s) = Len(u) + Len(v) /\ Len(u) \in Nat /\ Len(v) \in Nat
        /\ \A i \in 1..(Len(u) + Len(v)) : s[i] = IF i <= Len(u) THEN u[i] ELSE v[i - Len(u)]
    BY ConcatProperties
  <1>. HIDE DEF s
  <1>2. /\ k \in 0..Len(s)
        /\ k = 0 => \A i \in 1..Len(s) : s[i] # x
        /\ k # 0 => s[k] = x /\ \A i \in 1..Len(s) : i < k => s[i] # x
    BY <1>1, IndexIs
  <1>. HIDE DEF k
  <1>3. ASSUME k # 0 PROVE k > Len(u)
    <2>1. ASSUME k <= Len(u) PROVE FALSE
      <3>1. k \in 1..Len(u) /\ k \in 1..(Len(u) + Len(v))
        BY <1>1, <1>2, <1>3, <2>1
      <3>2. s[k] = u[k]
        BY <1>1, <2>1, <3>1
      <3>. QED
        BY <1>2, <1>3, <3>1, <3>2
    <2>. QED
      BY <1>1, <1>2, <2>1
  <1>4. ASSUME v = <<>> PROVE k = 0
    <2>1. Len(v) = 0
      BY <1>4, EmptySeq
    <2>. QED
      BY <1>1, <1>2, <1>3, <2>1
  <1>5. ASSUME v # <<>>, v[1] = x PROVE k = Len(u) + 1
    <2>1. Len(v) >= 1
      BY <1>5, Ends
    <2>2. /\ Len(u) + 1 \in 1..(Len(u) + Len(v)) /\ ~(Len(u) + 1 <= Len(u))
          /\ (Len(u) + 1) - Len(u) = 1
      BY <1>1, <2>1
    <2>3. s[Len(u) + 1] = x
      BY <1>1, <1>5, <2>2
    <2>4. k # 0 /\ ~(Len(u) + 1 < k)
      BY <1>1, <1>2, <2>2, <2>3
    <2>. QED
      BY <1>1, <1>2, <1>3, <2>4
  <1>. QED
    BY <1>4, <1>5 DEF k, s

LEMMA RepositoryIs ==
    ASSUME NEW i \in Image
    PROVE  imageRepository(Reference(i)) = i.repository
  <1>. DEFINE S == STRING
              u == i.repository
              v == i.tag
              w == i.digest
              r == u \o v
              s == r \o w
              at == Index(s, "@")
              colon == LastIndex(r, ":")
              slash == LastIndex(r, "/")
  <1>1. /\ {u, v, w} \subseteq Seq(S)
        /\ ~Holds(u, "@") /\ ~Holds(v, "@") /\ ~Holds(v, "/")
        /\ \A k \in DOMAIN u : u[k] = ":" => \E l \in DOMAIN u : l > k /\ u[l] = "/"
        /\ \A k \in DOMAIN v : v[k] = ":" <=> k = 1
        /\ w # <<>> => w[1] = "@"
    BY ImageAssumption, Zenon
  <1>2. imageRepository(Reference(i)) =
           LET a == Index((u \o v) \o w, "@")
               repo == IF a = 0 THEN (u \o v) \o w ELSE SubSeq((u \o v) \o w, 1, a - 1)
               c == LastIndex(repo, ":")
           IN IF c > LastIndex(repo, "/") THEN SubSeq(repo, 1, c - 1) ELSE repo
    BY DEF imageRepository, Reference
  <1>. HIDE DEF S, u, v, w
  <1>3. u \in Seq(S) /\ v \in Seq(S) /\ w \in Seq(S)
    BY <1>1
  <1>4. /\ DOMAIN u = 1..Len(u) /\ DOMAIN v = 1..Len(v)
        /\ Len(u) \in Nat /\ Len(v) \in Nat
    BY <1>3
  <1>5. /\ r \in Seq(S) /\ Len(r) = Len(u) + Len(v)
        /\ \A k \in 1..(Len(u) + Len(v)) : r[k] = IF k <= Len(u) THEN u[k] ELSE v[k - Len(u)]
    BY <1>3, ConcatProperties
  <1>6. SubSeq(r, 1, Len(u)) = u
    BY <1>3, SubSeqStart
  <1>7. v = <<>> => r = u
    BY <1>3, ConcatEmptySeq
  <1>. HIDE DEF r
  <1>8. \A k \in 1..Len(r) : r[k] # "@"
    <2>1. SUFFICES ASSUME NEW k \in 1..Len(r) PROVE r[k] # "@"
      OBVIOUS
    <2>2. CASE k <= Len(u)
      <3>1. k \in DOMAIN u /\ r[k] = u[k]
        BY <1>4, <1>5, <2>2
      <3>. QED
        BY <1>1, <3>1 DEF Holds
    <2>3. CASE ~(k <= Len(u))
      <3>1. k - Len(u) \in DOMAIN v /\ r[k] = v[k - Len(u)]
        BY <1>4, <1>5, <2>3
      <3>. QED
        BY <1>1, <3>1 DEF Holds
    <2>. QED
      BY <2>2, <2>3
  <1>9. (IF at = 0 THEN s ELSE SubSeq(s, 1, at - 1)) = r
    <2>1. CASE w = <<>>
      <3>1. s = r
        BY <1>5, <2>1, ConcatEmptySeq
      <3>2. at = 0
        BY <1>3, <1>5, <1>8, <2>1, IndexConcat
      <3>. QED
        BY <3>1, <3>2
    <2>2. CASE w # <<>>
      <3>1. at = Len(r) + 1
        BY <1>1, <1>3, <1>5, <1>8, <2>2, IndexConcat
      <3>2. SubSeq(s, 1, Len(r)) = r
        BY <1>3, <1>5, SubSeqStart
      <3>3. at # 0 /\ at - 1 = Len(r)
        BY <1>4, <1>5, <3>1
      <3>. QED
        BY <3>2, <3>3
    <2>. QED
      BY <2>1, <2>2
  <1>10. imageRepository(Reference(i)) = IF colon > slash THEN SubSeq(r, 1, colon - 1) ELSE r
    BY <1>2, <1>9 DEF r
  <1>11. /\ colon \in 0..Len(r)
         /\ colon # 0 => r[colon] = ":"
         /\ \A k \in 1..Len(r) : k > colon => r[k] # ":"
    BY <1>5, LastIndexIs
  <1>12. /\ slash \in 0..Len(r)
         /\ slash # 0 => r[slash] = "/"
         /\ \A k \in 1..Len(r) : k > slash => r[k] # "/"
    BY <1>5, LastIndexIs
  <1>. HIDE DEF at, s, colon, slash
  <1>13. CASE v = <<>>
    <2>1. r = u
      BY <1>7, <1>13
    <2>2. ASSUME colon > slash PROVE FALSE
      <3>1. colon # 0 /\ colon \in DOMAIN u /\ u[colon] = ":"
        BY <1>4, <1>5, <1>11, <1>12, <2>1, <2>2
      <3>2. PICK l \in DOMAIN u : l > colon /\ u[l] = "/"
        BY <1>1, <3>1
      <3>3. l \in 1..Len(r) /\ l > slash
        BY <1>4, <1>5, <1>11, <1>12, <2>1, <2>2, <3>2
      <3>. QED
        BY <1>12, <2>1, <3>2, <3>3
    <2>. QED
      BY <1>10, <2>1, <2>2 DEF u
  <1>14. CASE v # <<>>
    <2>1. Len(v) >= 1
      BY <1>3, <1>14, Ends
    <2>2. 1 \in DOMAIN v
      BY <1>4, <2>1
    <2>3. v[1] = ":" /\ \A k \in DOMAIN v : k # 1 => v[k] # ":"
      BY <1>1, <2>2
    <2>4. /\ Len(u) + 1 \in 1..(Len(u) + Len(v)) /\ ~(Len(u) + 1 <= Len(u))
          /\ (Len(u) + 1) - Len(u) = 1
      BY <1>4, <2>1
    <2>5. r[Len(u) + 1] = ":"
      BY <1>5, <2>3, <2>4
    <2>6. colon >= Len(u) + 1
      BY <1>4, <1>5, <1>11, <2>4, <2>5
    <2>7. ASSUME colon > Len(u) + 1 PROVE FALSE
      <3>1. /\ colon \in 1..(Len(u) + Len(v)) /\ ~(colon <= Len(u)) /\ colon # 0
            /\ colon - Len(u) \in DOMAIN v /\ colon - Len(u) # 1
        BY <1>4, <1>5, <1>11, <2>7
      <3>2. r[colon] = v[colon - Len(u)]
        BY <1>5, <3>1
      <3>. QED
        BY <1>11, <2>3, <3>1, <3>2
    <2>8. colon = Len(u) + 1
      BY <1>4, <1>5, <1>11, <2>6, <2>7
    <2>9. ASSUME slash > Len(u) PROVE FALSE
      <3>1. /\ slash \in 1..(Len(u) + Len(v)) /\ ~(slash <= Len(u)) /\ slash # 0
            /\ slash - Len(u) \in DOMAIN v
        BY <1>4, <1>5, <1>12, <2>9
      <3>2. v[slash - Len(u)] = "/"
        BY <1>5, <1>12, <3>1
      <3>. QED
        BY <1>1, <3>1, <3>2 DEF Holds
    <2>10. colon > slash /\ colon - 1 = Len(u)
      BY <1>4, <1>5, <1>12, <2>8, <2>9
    <2>. QED
      BY <1>6, <1>10, <2>10 DEF u
  <1>. QED
    BY <1>13, <1>14

(* An image is of the repository of another exactly when the two differ in  *)
(* tag and digest only: what imageRepository takes for the tag or digest of *)
(* a reference is never the port of its registry (IsSameImageRepo).         *)
THEOREM RepositoriesAreTold == Spec => []SameRepository
  <1>1. Typed => SameRepository
    <2>1. SUFFICES ASSUME Typed, NEW i \in Image
                   PROVE  IsSameImageRepo(Reference(i), Reference(image))
                             <=> i.repository = image.repository
      BY DEF SameRepository
    <2>2. image \in Image
      BY <2>1, DeploymentIn DEF Typed, image
    <2>. QED
      BY <2>1, <2>2, RepositoryIs DEF IsSameImageRepo
  <1>. QED
    BY <1>1, AlwaysTyped, PTL

-----------------------------------------------------------------------------
(* Hostnames: what is rendered, and its label.                             *)

LEMMA SubSeqIn ==
    ASSUME NEW S, NEW s \in Seq(S), NEW m \in Nat, NEW n \in Nat, m >= 1, n <= Len(s)
    PROVE  /\ SubSeq(s, m, n) \in Seq(S)
           /\ Len(SubSeq(s, m, n)) = IF m <= n THEN n - m + 1 ELSE 0
           /\ \A i \in 1..(n - m + 1) : SubSeq(s, m, n)[i] = s[m + i - 1]
  <1>1. \A i \in m..n : s[i] \in S
    <2>1. \A i \in m..n : i \in 1..Len(s)
      OBVIOUS
    <2>. QED
      BY <2>1, ElementOfSeq
  <1>. QED
    BY <1>1, SubSeqProperties

LEMMA LabelSplit ==
    ASSUME NEW S, NEW s \in Seq(S)
    PROVE  /\ Label(s) \in Seq(S \ {"."}) /\ Label(s) \in Seq(S) /\ Len(Label(s)) <= Len(s)
           /\ Domain(s) \in Seq(S)
           /\ Domain(s) # <<>> => s = (Label(s) \o <<".">>) \o Domain(s)
           /\ s \in Seq(S \ {"."}) \/ s = (Label(s) \o <<".">>) \o Domain(s)
  <1>. DEFINE k == Index(s, ".")
              n == Len(s)
              u == SubSeq(s, 1, k - 1)
              v == SubSeq(s, k + 1, n)
  <1>1. /\ k \in 0..n
        /\ k = 0 => \A i \in 1..n : s[i] # "."
        /\ k # 0 => s[k] = "." /\ \A i \in 1..n : i < k => s[i] # "."
    BY IndexIs
  <1>2. Label(s) = IF k = 0 THEN s ELSE u
    BY DEF Label
  <1>. HIDE DEF k
  <1>3. n \in Nat
    OBVIOUS
  <1>4. CASE k = 0
    <2>1. Label(s) = s
      BY <1>2, <1>4
    <2>2. \A i \in 1..Len(s) : s[i] \in S \ {"."}
      BY <1>1, <1>4, ElementOfSeq
    <2>3. s \in Seq(S \ {"."})
      BY <2>2, <1>3
    <2>4. Domain(s) = SubSeq(s, Len(s) + 2, Len(s))
      BY <2>1 DEF Domain
    <2>5. Domain(s) = <<>>
      BY <1>3, <2>4, SubSeqEmpty
    <2>. QED
      BY <1>3, <2>1, <2>3, <2>5
  <1>5. CASE k # 0
    <2>1. k \in 1..n /\ k \in Nat /\ k - 1 \in Nat /\ k - 1 <= n
      BY <1>1, <1>3, <1>5
    <2>2. u \in Seq(S) /\ Len(u) = k - 1 /\ \A i \in 1..(k - 1) : u[i] = s[i]
      <3>1. /\ u \in Seq(S) /\ Len(u) = (IF 1 <= k - 1 THEN (k - 1) - 1 + 1 ELSE 0)
            /\ \A i \in 1..((k - 1) - 1 + 1) : u[i] = s[1 + i - 1]
        BY <1>3, <2>1, SubSeqIn
      <3>. HIDE DEF u
      <3>2. (k - 1) - 1 + 1 = k - 1 /\ (IF 1 <= k - 1 THEN (k - 1) - 1 + 1 ELSE 0) = k - 1
        BY <2>1
      <3>3. \A i \in 1..(k - 1) : 1 + i - 1 = i
        BY <2>1
      <3>. QED
        BY <3>1, <3>2, <3>3
    <2>3. v \in Seq(S) /\ Len(v) = n - k /\ \A i \in 1..(n - k) : v[i] = s[k + i]
      <3>1. /\ v \in Seq(S) /\ Len(v) = (IF k + 1 <= n THEN n - (k + 1) + 1 ELSE 0)
            /\ \A i \in 1..(n - (k + 1) + 1) : v[i] = s[(k + 1) + i - 1]
        BY <1>3, <2>1, SubSeqIn
      <3>. HIDE DEF v
      <3>2. n - (k + 1) + 1 = n - k /\ (IF k + 1 <= n THEN n - (k + 1) + 1 ELSE 0) = n - k
        BY <1>3, <2>1
      <3>3. \A i \in 1..(n - k) : (k + 1) + i - 1 = k + i
        BY <1>3, <2>1
      <3>. QED
        BY <3>1, <3>2, <3>3
    <2>4. Label(s) = u
      BY <1>2, <1>5
    <2>5. Domain(s) = v
      <3>1. Len(Label(s)) + 2 = k + 1
        BY <1>3, <2>1, <2>2, <2>4
      <3>. QED
        BY <3>1 DEF Domain
    <2>. HIDE DEF u, v
    <2>6. u \in Seq(S \ {"."})
      <3>1. \A i \in 1..Len(u) : u[i] \in S \ {"."}
        <4>1. SUFFICES ASSUME NEW i \in 1..Len(u) PROVE u[i] \in S \ {"."}
          OBVIOUS
        <4>2. i \in 1..(k - 1) /\ i \in 1..n /\ i < k
          BY <1>3, <2>1, <2>2
        <4>3. u[i] = s[i] /\ s[i] # "." /\ s[i] \in S
          BY <1>1, <1>5, <2>2, <4>2, ElementOfSeq
        <4>. QED
          BY <4>3
      <3>. QED
        BY <2>2, <3>1
    <2>. DEFINE d == <<".">>
                x == u \o d
                y == x \o v
    <2>7. "." \in S
      BY <1>1, <1>5, <2>1, ElementOfSeq
    <2>8. d \in Seq(S) /\ Len(d) = 1 /\ d[1] = "."
      BY <2>7
    <2>. HIDE DEF d
    <2>9. /\ x \in Seq(S) /\ Len(x) = Len(u) + Len(d)
          /\ \A i \in 1..(Len(u) + Len(d)) : x[i] = IF i <= Len(u) THEN u[i] ELSE d[i - Len(u)]
      BY <2>2, <2>8, ConcatProperties
    <2>10. Len(x) = k /\ \A i \in 1..k : x[i] = s[i]
      <3>1. Len(x) = k
        BY <2>1, <2>2, <2>8, <2>9
      <3>2. ASSUME NEW i \in 1..k PROVE x[i] = s[i]
        <4>1. CASE i = k
          <5>1. i \in 1..(Len(u) + Len(d)) /\ ~(i <= Len(u)) /\ i - Len(u) = 1
            BY <2>1, <2>2, <2>8, <4>1
          <5>. QED
            BY <1>1, <1>5, <2>8, <2>9, <4>1, <5>1
        <4>2. CASE i # k
          <5>1. i \in 1..(Len(u) + Len(d)) /\ i <= Len(u) /\ i \in 1..(k - 1)
            BY <2>1, <2>2, <2>8, <4>2
          <5>. QED
            BY <2>2, <2>9, <5>1
        <4>. QED
          BY <4>1, <4>2
      <3>. QED
        BY <3>1, <3>2
    <2>. HIDE DEF x
    <2>11. /\ y \in Seq(S) /\ Len(y) = Len(x) + Len(v)
           /\ \A i \in 1..(Len(x) + Len(v)) : y[i] = IF i <= Len(x) THEN x[i] ELSE v[i - Len(x)]
      <3>1. x \in Seq(S) /\ v \in Seq(S)
        BY <2>3, <2>9
      <3>. QED
        BY <3>1, ConcatProperties
    <2>. HIDE DEF y
    <2>12. ASSUME NEW i \in 1..Len(s) PROVE y[i] = s[i]
      <3>0. i \in 1..(Len(x) + Len(v))
        BY <1>3, <2>1, <2>3, <2>10
      <3>1. CASE i <= k
        BY <2>1, <2>10, <2>11, <3>0, <3>1
      <3>2. CASE ~(i <= k)
        <4>1. i - k \in 1..(n - k) /\ k + (i - k) = i
          BY <1>3, <2>1, <3>2
        <4>. QED
          BY <2>3, <2>10, <2>11, <3>0, <3>2, <4>1
      <3>. QED
        BY <3>1, <3>2
    <2>13. Len(y) = Len(s)
      BY <1>3, <2>1, <2>3, <2>10, <2>11
    <2>14. y = s
      BY <2>11, <2>12, <2>13, SeqEqual
    <2>. QED
      BY <1>3, <2>1, <2>2, <2>3, <2>4, <2>5, <2>6, <2>14 DEF y, x, d
  <1>. QED
    BY <1>4, <1>5

LEMMA LabelOf ==
    ASSUME NEW S, NEW u \in Seq(S \ {"."}), NEW v \in Seq(S), "." \in S
    PROVE  Label((u \o <<".">>) \o v) = u
  <1>. DEFINE d == <<".">>
              w == d \o v
              s == (u \o d) \o v
  <1>1. d \in Seq(S) /\ u \in Seq(S) /\ d # <<>> /\ d[1] = "."
    BY SeqMonotonic
  <1>. HIDE DEF d
  <1>2. w \in Seq(S) /\ w # <<>> /\ w[1] = "."
    BY <1>1, StartConcat, ConcatProperties
  <1>3. s = u \o w
    <2>1. Associates(u, d, v)
      BY <1>1, Associative, Zenon
    <2>. QED
      BY <2>1 DEF Associates
  <1>. HIDE DEF s, w
  <1>4. \A i \in 1..Len(u) : u[i] # "."
    <2>1. \A i \in 1..Len(u) : u[i] \in S \ {"."}
      BY ElementOfSeq
    <2>. QED
      BY <2>1
  <1>5. Index(u \o w, ".") = Len(u) + 1
    BY <1>1, <1>2, <1>4, IndexConcat
  <1>6. SubSeq(u \o w, 1, Len(u)) = u
    BY <1>1, <1>2, SubSeqStart
  <1>7. Len(u) \in Nat
    BY <1>1
  <1>8. Index(s, ".") # 0 /\ Index(s, ".") - 1 = Len(u)
    BY <1>3, <1>5, <1>7
  <1>9. Label(s) = u
    BY <1>3, <1>6, <1>8 DEF Label
  <1>. QED
    BY <1>9 DEF s, d

Includes(s, x, S) == \E u, v \in Seq(S) : s = (u \o x) \o v

LEMMA IncludesMore ==
    ASSUME NEW S, NEW f \in Seq(S), NEW x \in Seq(S), NEW p \in Seq(S), Includes(f, x, S)
    PROVE  Includes(f \o p, x, S)
  <1>1. PICK u \in Seq(S), v \in Seq(S) : f = (u \o x) \o v
    BY DEF Includes
  <1>. DEFINE w == u \o x
  <1>2. w \in Seq(S)
    BY ConcatProperties
  <1>. HIDE DEF w
  <1>3. Associates(w, v, p)
    BY <1>2, Associative, Zenon
  <1>4. v \o p \in Seq(S)
    BY ConcatProperties
  <1>5. f \o p = (u \o x) \o (v \o p)
    BY <1>1, <1>3 DEF w, Associates
  <1>. QED
    BY <1>4, <1>5 DEF Includes

LEMMA IncludesWithin ==
    ASSUME NEW S, NEW s \in Seq(S), NEW x \in Seq(S), Includes(s, x, S)
    PROVE  Within(x, s)
  <1>1. PICK u \in Seq(S), v \in Seq(S) : s = (u \o x) \o v
    BY DEF Includes
  <1>. DEFINE w == u \o x
  <1>2. /\ w \in Seq(S) /\ Len(w) = Len(u) + Len(x)
        /\ \A i \in 1..(Len(u) + Len(x)) : w[i] = IF i <= Len(u) THEN u[i] ELSE x[i - Len(u)]
    BY ConcatProperties
  <1>3. s = w \o v
    BY <1>1
  <1>. HIDE DEF w
  <1>4. /\ Len(s) = Len(w) + Len(v)
        /\ \A i \in 1..(Len(w) + Len(v)) : s[i] = IF i <= Len(w) THEN w[i] ELSE v[i - Len(w)]
    <2>1. w \in Seq(S) /\ v \in Seq(S)
      BY <1>2
    <2>. QED
      BY <1>3, <2>1, ConcatProperties
  <1>. DEFINE k == Len(u)
              n == Len(x)
              y == SubSeq(s, k + 1, k + n)
  <1>5. k \in Nat /\ n \in Nat /\ Len(v) \in Nat /\ k + n <= Len(s) /\ k \in 0..(Len(s) - n)
    BY <1>2, <1>4
  <1>6. /\ y \in Seq(S) /\ Len(y) = (IF k + 1 <= k + n THEN (k + n) - (k + 1) + 1 ELSE 0)
        /\ \A i \in 1..((k + n) - (k + 1) + 1) : y[i] = s[(k + 1) + i - 1]
    BY <1>5, SubSeqIn
  <1>. HIDE DEF y
  <1>7. Len(y) = n
    BY <1>5, <1>6
  <1>8. ASSUME NEW i \in 1..n PROVE y[i] = x[i]
    <2>1. /\ i \in 1..((k + n) - (k + 1) + 1) /\ (k + 1) + i - 1 = k + i
          /\ k + i \in 1..(Len(w) + Len(v)) /\ k + i <= Len(w)
          /\ k + i \in 1..(Len(u) + Len(x)) /\ ~(k + i <= Len(u)) /\ (k + i) - Len(u) = i
      BY <1>2, <1>5
    <2>2. y[i] = s[k + i]
      BY <1>6, <2>1
    <2>3. s[k + i] = w[k + i]
      BY <1>4, <2>1
    <2>4. w[k + i] = x[i]
      BY <1>2, <2>1
    <2>. QED
      BY <2>2, <2>3, <2>4
  <1>9. y = x
    BY <1>6, <1>7, <1>8, SeqEqual
  <1>. QED
    BY <1>5, <1>9 DEF Within, y

(* Every part of what is joined is in it.                                  *)
LEMMA FlattenIncludes ==
    ASSUME NEW S, NEW s \in Seq(Seq(S)), NEW i \in 1..Len(s)
    PROVE  Includes(FlattenSeq(s), s[i], S)
  <1>. DEFINE A == Seq(S)
              T == {t \in Seq(A) : \A j \in 1..Len(t) : Includes(FlattenSeq(t), t[j], S)}
  <1>1. <<>> \in T
    OBVIOUS
  <1>2. ASSUME NEW t \in Seq(A), \A j \in 1..Len(t) : Includes(FlattenSeq(t), t[j], S),
               NEW p \in A, NEW j \in 1..Len(Append(t, p))
        PROVE  Includes(FlattenSeq(Append(t, p)), Append(t, p)[j], S)
    <2>. DEFINE f == FlattenSeq(t)
    <2>1. FlattenSeq(Append(t, p)) = f \o p
      BY <1>2, FlattenAppend
    <2>2. f \in Seq(S)
      BY <1>2, FlattenType
    <2>. HIDE DEF f
    <2>3. p \in Seq(S)
      OBVIOUS
    <2>. HIDE DEF A
    <2>4. /\ Len(Append(t, p)) = Len(t) + 1 /\ Len(t) \in Nat
          /\ \A k \in 1..Len(t) : Append(t, p)[k] = t[k]
          /\ Append(t, p)[Len(t) + 1] = p
      BY AppendProperties
    <2>5. CASE j \in 1..Len(t)
      <3>1. Includes(f, t[j], S)
        BY <1>2, <2>5 DEF f
      <3>. DEFINE x == t[j]
      <3>2. x \in Seq(S)
        BY <2>5, ElementOfSeq DEF A
      <3>. HIDE DEF x
      <3>8. Includes(f \o p, x, S)
        BY <2>2, <2>3, <3>1, <3>2, IncludesMore DEF x
      <3>9. Append(t, p)[j] = x
        BY <2>4, <2>5 DEF x
      <3>. QED
        BY <2>1, <3>8, <3>9
    <2>6. CASE j \notin 1..Len(t)
      <3>1. j = Len(t) + 1
        <4>1. ASSUME NEW n \in Nat, NEW k \in 1..(n + 1), k \notin 1..n
              PROVE  k = n + 1
          BY <4>1
        <4>2. j \in 1..(Len(t) + 1) /\ Len(t) \in Nat
          BY <2>4, Zenon
        <4>. QED
          BY <2>6, <4>1, <4>2, Zenon
      <3>2. Append(t, p)[j] = p
        BY <2>4, <3>1
      <3>. DEFINE w == f \o p
      <3>3. w \in Seq(S)
        BY <2>2, <2>3, ConcatProperties
      <3>. HIDE DEF w
      <3>4. w \o <<>> = w /\ <<>> \in Seq(S)
        BY <3>3, ConcatEmptySeq
      <3>5. f \o p = (f \o p) \o <<>>
        BY <3>4 DEF w
      <3>6. Includes(f \o p, p, S)
        BY <2>2, <3>4, <3>5 DEF Includes
      <3>. QED
        BY <2>1, <3>2, <3>6
    <2>. QED
      BY <2>5, <2>6
  <1>3. T = Seq(A)
    <2>1. T \in SUBSET Seq(A)
      OBVIOUS
    <2>2. ASSUME NEW t \in T, NEW p \in A PROVE Append(t, p) \in T
      <3>1. t \in Seq(A) /\ \A j \in 1..Len(t) : Includes(FlattenSeq(t), t[j], S)
        OBVIOUS
      <3>2. \A j \in 1..Len(Append(t, p)) : Includes(FlattenSeq(Append(t, p)), Append(t, p)[j], S)
        BY <1>2, <3>1
      <3>3. Append(t, p) \in Seq(A)
        BY <3>1, AppendProperties
      <3>. QED
        BY <3>2, <3>3
    <2>. HIDE DEF T, A
    <2>. QED
      BY <1>1, <2>1, <2>2, SeqInd
  <1>. QED
    BY <1>3

(* Texts that are joined of as many parts, none of them longer than that of *)
(* the other, are the same only if all parts are.                          *)
NoLonger(f, g) == Len(f) = Len(g) /\ \A i \in 1..Len(f) : Len(f[i]) <= Len(g[i])
JoinsApart(f, g) ==
    /\ Len(FlattenSeq(f)) <= Len(FlattenSeq(g))
    /\ FlattenSeq(f) = FlattenSeq(g) => f = g
AllApart(f, G) == \A g \in G : NoLonger(f, g) => JoinsApart(f, g)

LEMMA FlattenPointwise ==
    ASSUME NEW S, NEW f \in Seq(Seq(S)), NEW g \in Seq(Seq(S)), NoLonger(f, g)
    PROVE  JoinsApart(f, g)
  <1>. DEFINE A == Seq(S)
              G == Seq(A)
              T == {t \in G : AllApart(t, G)}
  <1>1. <<>> \in T
    <2>1. ASSUME NEW h \in G, NoLonger(<<>>, h) PROVE h = <<>>
      BY <2>1, EmptySeq DEF NoLonger
    <2>2. FlattenSeq(<<>>) = <<>> /\ Len(<<>>) <= Len(<<>>)
      BY FlattenEmpty
    <2>3. JoinsApart(<<>>, <<>>)
      BY <2>2 DEF JoinsApart
    <2>. QED
      BY <2>1, <2>3 DEF AllApart
  <1>2. ASSUME NEW t \in G, AllApart(t, G), NEW p \in A
        PROVE  AllApart(Append(t, p), G)
    <2>1. SUFFICES ASSUME NEW h \in G, NoLonger(Append(t, p), h)
                   PROVE  JoinsApart(Append(t, p), h)
      BY DEF AllApart
    <2>. HIDE DEF A, G
    <2>2. /\ Append(t, p) \in Seq(A) /\ Len(Append(t, p)) = Len(t) + 1 /\ Len(t) \in Nat
          /\ \A k \in 1..Len(t) : Append(t, p)[k] = t[k]
          /\ Append(t, p)[Len(t) + 1] = p
      BY AppendProperties DEF G
    <2>3. h \in Seq(A) /\ Len(h) = Len(t) + 1
      BY <2>1, <2>2 DEF NoLonger, G
    <2>0. h # <<>>
      BY <2>2, <2>3, EmptySeq
    <2>4. PICK k \in Seq(A), q \in A : h = Append(k, q)
      BY <2>3, <2>0, SequenceEmptyOrAppend
    <2>5. /\ Len(h) = Len(k) + 1 /\ Len(k) \in Nat
          /\ \A i \in 1..Len(k) : h[i] = k[i]
          /\ h[Len(k) + 1] = q
      BY <2>4, AppendProperties
    <2>6. Len(k) = Len(t)
      BY <2>2, <2>3, <2>5
    <2>7. NoLonger(t, k)
      <3>1. ASSUME NEW i \in 1..Len(t) PROVE Len(t[i]) <= Len(k[i])
        <4>1. i \in 1..Len(Append(t, p)) /\ i \in 1..Len(k)
          BY <2>2, <2>6
        <4>. QED
          BY <2>1, <2>2, <2>5, <4>1 DEF NoLonger
      <3>. QED
        BY <2>6, <3>1 DEF NoLonger
    <2>8. Len(p) <= Len(q)
      <3>1. Len(t) + 1 \in 1..Len(Append(t, p))
        BY <2>2
      <3>. QED
        BY <2>1, <2>2, <2>5, <2>6, <3>1 DEF NoLonger
    <2>9. JoinsApart(t, k)
      BY <1>2, <2>4, <2>7 DEF AllApart, G
    <2>. DEFINE x == FlattenSeq(t)
                y == FlattenSeq(k)
    <2>10. t \in Seq(Seq(S)) /\ k \in Seq(Seq(S)) /\ p \in Seq(S) /\ q \in Seq(S)
      BY <2>4 DEF A, G
    <2>11. x \in Seq(S) /\ y \in Seq(S)
      BY <2>10, FlattenType
    <2>12. FlattenSeq(Append(t, p)) = x \o p /\ FlattenSeq(h) = y \o q
      BY <2>4, <2>10, FlattenAppend
    <2>13. Len(x) <= Len(y) /\ (x = y => t = k)
      BY <2>9 DEF JoinsApart
    <2>. HIDE DEF x, y
    <2>14. Len(x \o p) = Len(x) + Len(p) /\ Len(y \o q) = Len(y) + Len(q)
      BY <2>10, <2>11, ConcatProperties
    <2>15. Len(x) \in Nat /\ Len(y) \in Nat /\ Len(p) \in Nat /\ Len(q) \in Nat
      BY <2>10, <2>11
    <2>16. Len(x \o p) <= Len(y \o q)
      BY <2>8, <2>13, <2>14, <2>15
    <2>17. ASSUME x \o p = y \o q PROVE Append(t, p) = h
      <3>1. Len(x) = Len(y)
        BY <2>8, <2>13, <2>14, <2>15, <2>17
      <3>2. x = y /\ p = q
        BY <2>10, <2>11, <2>17, <3>1, ConcatSplit
      <3>. QED
        BY <2>4, <2>13, <3>2
    <2>. QED
      BY <2>12, <2>16, <2>17 DEF JoinsApart
  <1>3. T = G
    <2>1. T \in SUBSET Seq(A)
      OBVIOUS
    <2>2. ASSUME NEW t \in T, NEW p \in A PROVE Append(t, p) \in T
      <3>1. t \in G /\ AllApart(t, G)
        OBVIOUS
      <3>2. AllApart(Append(t, p), G)
        BY <1>2, <3>1
      <3>3. Append(t, p) \in G
        BY <3>1, AppendProperties
      <3>. QED
        BY <3>2, <3>3
    <2>3. G = Seq(A)
      OBVIOUS
    <2>. HIDE DEF T, A, G
    <2>. QED
      BY <1>1, <2>1, <2>2, <2>3, SeqInd
  <1>4. f \in T
    BY <1>3
  <1>5. AllApart(f, G)
    BY <1>4
  <1>. QED
    BY <1>5 DEF AllApart

-----------------------------------------------------------------------------
(* What is rendered of a template: a part for every character and variable.  *)

ValueNames == {"BranchName", "ReviewAppConfig", "DeploymentName", "RandomID"}
Values(S) == [BranchName : Seq(S), ReviewAppConfig : Seq(S),
              DeploymentName : Seq(S), RandomID : Seq(S)]
Parts(t, v) == [i \in DOMAIN t |-> IF t[i] \in DOMAIN v THEN v[t[i]] ELSE <<t[i]>>]

LEMMA ValuesIs ==
    ASSUME NEW S, NEW v \in Values(S)
    PROVE  /\ DOMAIN v = ValueNames
           /\ v["BranchName"] \in Seq(S) /\ v["ReviewAppConfig"] \in Seq(S)
           /\ v["DeploymentName"] \in Seq(S) /\ v["RandomID"] \in Seq(S)
           /\ \A k \in ValueNames : v[k] \in Seq(S)
  <1>1. DOMAIN v = ValueNames
    BY DEF Values, ValueNames
  <1>2. /\ v["BranchName"] \in Seq(S) /\ v["ReviewAppConfig"] \in Seq(S)
        /\ v["DeploymentName"] \in Seq(S) /\ v["RandomID"] \in Seq(S)
    BY DEF Values
  <1>. QED
    BY <1>1, <1>2 DEF ValueNames

(* Only the value of the branch is replaced.                                *)
LEMMA ValuesExcept ==
    ASSUME NEW S, NEW v \in Values(S), NEW x \in Seq(S)
    PROVE  LET w == [v EXCEPT !.BranchName = x]
           IN  /\ w \in Values(S) /\ w["BranchName"] = x
               /\ \A k \in ValueNames \ {"BranchName"} : w[k] = v[k]
  BY DEF Values, ValueNames

LEMMA PartsIn ==
    ASSUME NEW T, NEW S, NEW t \in Seq(T), NEW v \in Values(S), T \ ValueNames \subseteq S
    PROVE  /\ Parts(t, v) \in Seq(Seq(S)) /\ Len(Parts(t, v)) = Len(t)
           /\ \A i \in 1..Len(t) :
                 Parts(t, v)[i] = IF t[i] \in ValueNames THEN v[t[i]] ELSE <<t[i]>>
           /\ render(t, v) = FlattenSeq(Parts(t, v)) /\ render(t, v) \in Seq(S)
  <1>. DEFINE e == Parts(t, v)
  <1>1. DOMAIN v = ValueNames /\ \A k \in ValueNames : v[k] \in Seq(S)
    BY ValuesIs
  <1>2. DOMAIN t = 1..Len(t) /\ Len(t) \in Nat
    BY LenProperties
  <1>3. e = [i \in 1..Len(t) |-> IF t[i] \in ValueNames THEN v[t[i]] ELSE <<t[i]>>]
    BY <1>1, <1>2 DEF Parts
  <1>4. ASSUME NEW i \in 1..Len(t)
        PROVE  (IF t[i] \in ValueNames THEN v[t[i]] ELSE <<t[i]>>) \in Seq(S)
    <2>1. t[i] \in T
      BY ElementOfSeq
    <2>2. CASE t[i] \in ValueNames
      BY <1>1, <2>2
    <2>3. CASE t[i] \notin ValueNames
      <3>1. t[i] \in S
        BY <2>1, <2>3
      <3>. QED
        BY <2>3, <3>1
    <2>. QED
      BY <2>2, <2>3
  <1>5. e \in [1..Len(t) -> Seq(S)]
    BY <1>3, <1>4
  <1>6. e \in Seq(Seq(S)) /\ Len(e) = Len(t)
    BY <1>2, <1>5
  <1>7. \A i \in 1..Len(t) : e[i] = IF t[i] \in ValueNames THEN v[t[i]] ELSE <<t[i]>>
    BY <1>3
  <1>8. render(t, v) = FlattenSeq(e)
    BY DEF render, Parts
  <1>. HIDE DEF e
  <1>9. FlattenSeq(e) \in Seq(S)
    BY <1>6, FlattenType
  <1>. QED
    BY <1>6, <1>7, <1>8, <1>9 DEF e

-----------------------------------------------------------------------------
(* Hostnames.                                                              *)

Template == Alphanumeric \cup {"-", "."} \cup Variable
HostText == Spaced \cup {".", "Misspelled"}
Dotted == Spaced \cup {"."}

used(t, v) ==
    IF Holds(t, "RandomID")
    THEN [v EXCEPT !.BranchName = shortened(@, Label(render(t, v)))]
    ELSE v

LEMMA TextsOfHosts ==
    /\ Template \ ValueNames \subseteq HostText /\ Spaced \subseteq HostText
    /\ Dotted \subseteq HostText /\ Spaced \subseteq Dotted /\ Dotted \subseteq Character
    /\ HostText \ {"Misspelled"} = Dotted /\ Alphanumeric \subseteq Spaced
    /\ "." \in Character /\ "." \in Dotted /\ "." \notin Spaced /\ Dotted \ {"."} = Spaced
  <1>1. "Misspelled" \notin Character
    BY CharacterAssumption DEF Variable
  <1>2. "." \in Character /\ "." # " " /\ "." # "-"
    BY CharacterAssumption DEF Character, Separator
  <1>3. Spaced \subseteq Character
    BY Alphabets DEF Spaced
  <1>4. "." \notin Spaced
    BY <1>2, Alphabets DEF Spaced, Dashed, Separator
  <1>5. Alphanumeric \cup {"-"} \subseteq Spaced
    BY DEF Spaced, Dashed
  <1>6. Template \ ValueNames \subseteq HostText
    BY <1>5 DEF Template, Variable, ValueNames, HostText
  <1>. QED
    BY <1>1, <1>2, <1>3, <1>4, <1>5, <1>6 DEF HostText, Dotted

LEMMA ValuesOfIn ==
    ASSUME NEW d \in Seq(Character), NEW b \in Seq(Character), NEW id \in Seq(Alphanumeric)
    PROVE  /\ valuesOf(d, b, id) \in Values(Spaced)
           /\ valuesOf(d, b, id)["RandomID"] = id
           /\ valuesOf(d, b, id)["BranchName"] = normalize(b)
           /\ valuesOf(d, b, id)["ReviewAppConfig"] = normalize(App)
           /\ valuesOf(d, b, id)["DeploymentName"] = normalize(d)
  <1>1. normalize(b) \in Seq(Spaced) /\ normalize(d) \in Seq(Spaced) /\ normalize(App) \in Seq(Spaced)
    BY NormalizeIn, AppIn
  <1>2. id \in Seq(Spaced)
    BY TextsOfHosts, SeqMonotonic
  <1>. QED
    BY <1>1, <1>2 DEF valuesOf, Values

LEMMA ShortenedIn ==
    ASSUME NEW S, NEW b \in Seq(S), NEW label \in Seq(HostText)
    PROVE  shortened(b, label) \in Seq(S) /\ Len(shortened(b, label)) <= Len(b)
  <1>. DEFINE n == Len(b) - (Len(label) - MaxLength)
              m == IF n > 0 THEN n ELSE 0
              x == SubSeq(b, 1, m)
  <1>1. CASE Len(label) > MaxLength /\ Within(b, label)
    <2>1. m \in Nat /\ m <= Len(b)
      BY <1>1, Lengths
    <2>. HIDE DEF m
    <2>2. x \in Seq(S) /\ Len(x) = IF 1 <= m THEN m - 1 + 1 ELSE 0
      BY <2>1, SubSeqIn
    <2>3. Len(x) <= Len(b) /\ Len(x) \in Nat
      BY <2>1, <2>2
    <2>4. shortened(b, label) = UpTo(x, Character \ {"-"})
      BY <1>1 DEF shortened, x, m
    <2>. HIDE DEF x
    <2>5. UpTo(x, Character \ {"-"}) \in Seq(S) /\ Len(UpTo(x, Character \ {"-"})) <= Len(x)
      BY <2>2, UpToType
    <2>6. Len(UpTo(x, Character \ {"-"})) <= Len(b)
      BY <2>3, <2>5
    <2>. QED
      BY <2>4, <2>5, <2>6
  <1>2. CASE ~(Len(label) > MaxLength /\ Within(b, label))
    BY <1>2 DEF shortened
  <1>. QED
    BY <1>1, <1>2

LEMMA RenderIn ==
    ASSUME NEW t \in Seq(Template), NEW v \in Values(Spaced)
    PROVE  render(t, v) \in Seq(HostText)
  <1>1. v \in Values(HostText)
    <2>1. Seq(Spaced) \subseteq Seq(HostText)
      BY TextsOfHosts, SeqMonotonic
    <2>. QED
      BY <2>1 DEF Values
  <1>. QED
    BY <1>1, TextsOfHosts, PartsIn

LEMMA UsedIn ==
    ASSUME NEW t \in Seq(Template), NEW v \in Values(Spaced)
    PROVE  /\ used(t, v) \in Values(Spaced) /\ rendered(t, v) = render(t, used(t, v))
           /\ \A k \in ValueNames \ {"BranchName"} : used(t, v)[k] = v[k]
  <1>. DEFINE l == Label(render(t, v))
              x == shortened(v["BranchName"], l)
  <1>1. render(t, v) \in Seq(HostText)
    BY RenderIn
  <1>2. l \in Seq(HostText)
    BY <1>1, LabelSplit
  <1>3. v["BranchName"] \in Seq(Spaced)
    BY ValuesIs
  <1>. HIDE DEF l
  <1>4. x \in Seq(Spaced)
    BY <1>2, <1>3, ShortenedIn
  <1>5. used(t, v) = IF Holds(t, "RandomID") THEN [v EXCEPT !.BranchName = x] ELSE v
    BY DEF used, l
  <1>6. rendered(t, v) = render(t, used(t, v))
    BY DEF used, rendered
  <1>. HIDE DEF x
  <1>7. CASE Holds(t, "RandomID")
    BY <1>4, <1>5, <1>6, <1>7, ValuesExcept
  <1>8. CASE ~Holds(t, "RandomID")
    BY <1>5, <1>6, <1>8
  <1>. QED
    BY <1>7, <1>8

RenderedParts(t, v) == Parts(t, used(t, v))

LEMMA RenderedIn ==
    ASSUME NEW t \in Seq(Template), NEW v \in Values(Spaced)
    PROVE  /\ rendered(t, v) \in Seq(HostText)
           /\ RenderedParts(t, v) \in Seq(Seq(HostText))
           /\ rendered(t, v) = FlattenSeq(RenderedParts(t, v))
           /\ Len(RenderedParts(t, v)) = Len(t)
           /\ \A i \in 1..Len(t) :
                 RenderedParts(t, v)[i] =
                    IF t[i] \in ValueNames THEN used(t, v)[t[i]] ELSE <<t[i]>>
  <1>. DEFINE w == used(t, v)
  <1>1. w \in Values(Spaced) /\ rendered(t, v) = render(t, w)
    BY UsedIn
  <1>2. w \in Values(HostText)
    <2>1. Seq(Spaced) \subseteq Seq(HostText)
      BY TextsOfHosts, SeqMonotonic
    <2>. QED
      BY <1>1, <2>1 DEF Values
  <1>3. Template \ ValueNames \subseteq HostText
    BY TextsOfHosts
  <1>4. RenderedParts(t, v) = Parts(t, w)
    BY DEF RenderedParts
  <1>5. \A i \in 1..Len(t) : Parts(t, w)[i] = IF t[i] \in ValueNames THEN w[t[i]] ELSE <<t[i]>>
    BY <1>2, <1>3, PartsIn
  <1>6. /\ Parts(t, w) \in Seq(Seq(HostText)) /\ Len(Parts(t, w)) = Len(t)
        /\ render(t, w) = FlattenSeq(Parts(t, w)) /\ render(t, w) \in Seq(HostText)
    BY <1>2, <1>3, PartsIn
  <1>. QED
    BY <1>1, <1>4, <1>5, <1>6

(* What a hostname that is no error is.                                     *)
IsHostOf(host, t, s) ==
    /\ s \in Seq(Dotted) /\ fit(t, Label(s)) # NoName /\ Domain(s) # <<>>
    /\ host = (fit(t, Label(s)) \o <<".">>) \o Domain(s)
    /\ IsDNS1123Subdomain(host)

LEMMA HostIs ==
    ASSUME NEW t, NEW s \in Seq(HostText), splitHost(t, s) # NoName
    PROVE  IsHostOf(splitHost(t, s), t, s)
  <1>1. ~Holds(s, "Misspelled")
    BY DEF splitHost
  <1>2. s \in Seq(Dotted)
    <2>1. \A i \in 1..Len(s) : s[i] # "Misspelled"
      BY <1>1, LenProperties DEF Holds
    <2>2. \A i \in 1..Len(s) : s[i] \in HostText
      BY ElementOfSeq
    <2>3. \A i \in 1..Len(s) : s[i] \in Dotted
      BY <2>1, <2>2, TextsOfHosts
    <2>. QED
      BY <2>3
  <1>. DEFINE l == fit(t, Label(s))
              d == Domain(s)
  <1>3. splitHost(t, s) = validHost(l, d)
    BY <1>1 DEF splitHost
  <1>. HIDE DEF l, d
  <1>4. /\ l # NoName /\ d # <<>> /\ IsDNS1123Subdomain(l \o <<".">> \o d)
        /\ validHost(l, d) = l \o <<".">> \o d
    BY <1>3 DEF validHost
  <1>. QED
    BY <1>2, <1>3, <1>4 DEF IsHostOf, l, d

LEMMA HostLabel ==
    ASSUME NEW t, NEW s, NEW host, IsHostOf(host, t, s)
    PROVE  /\ Len(Label(host)) <= MaxLength
           /\ Holds(t, "RandomID") => host = s
  <1>. DEFINE l == Label(s)
              f == fit(t, l)
              d == Domain(s)
  <1>1. s \in Seq(Dotted)
    BY DEF IsHostOf
  <1>2. l \in Seq(Spaced) /\ d \in Seq(Dotted) /\ (d # <<>> => s = (l \o <<".">>) \o d)
    BY <1>1, LabelSplit, TextsOfHosts
  <1>3. f # NoName /\ d # <<>> /\ host = (f \o <<".">>) \o d
    BY DEF IsHostOf
  <1>4. f = IF Len(l) <= MaxLength THEN l
            ELSE IF Holds(t, "RandomID") THEN NoName ELSE normalize(SubSeq(l, 1, MaxLength))
    BY DEF fit
  <1>. HIDE DEF l, d, f
  <1>5. f \in Seq(Spaced) /\ Len(f) <= MaxLength
    <2>1. CASE Len(l) <= MaxLength
      BY <1>2, <1>4, <2>1
    <2>2. CASE ~(Len(l) <= MaxLength)
      <3>. DEFINE x == SubSeq(l, 1, MaxLength)
      <3>1. Len(l) > MaxLength /\ MaxLength \in Nat
        BY <1>2, <2>2, Lengths
      <3>2. x \in Seq(Spaced)
        BY <1>2, <3>1, SubSeqIn
      <3>. HIDE DEF x
      <3>3. x \in Seq(Character)
        BY <3>2, Texts
      <3>4. normalize(x) \in Seq(Spaced) /\ Len(normalize(x)) <= MaxLength
        BY <3>3, NormalizeIn
      <3>5. f = normalize(x)
        BY <1>3, <1>4, <2>2 DEF x
      <3>. QED
        BY <3>4, <3>5
    <2>. QED
      BY <2>1, <2>2
  <1>6. Label((f \o <<".">>) \o d) = f
    <2>1. f \in Seq(Dotted \ {"."}) /\ "." \in Dotted
      BY <1>5, TextsOfHosts
    <2>. QED
      BY <1>2, <2>1, LabelOf
  <1>7. Holds(t, "RandomID") => f = l
    BY <1>3, <1>4
  <1>. QED
    BY <1>2, <1>3, <1>5, <1>6, <1>7

LEMMA HostnameIs ==
    ASSUME NEW t \in Seq(Template), NEW d \in Seq(Character), NEW b \in Seq(Character),
           NEW id \in Seq(Alphanumeric), GetHostnameFromTemplate(t, d, b, id) # NoName
    PROVE  /\ IsHostOf(GetHostnameFromTemplate(t, d, b, id), t, rendered(t, valuesOf(d, b, id)))
           /\ Holds(t, "RandomID") => id # <<>>
  <1>. DEFINE v == valuesOf(d, b, id)
              s == rendered(t, v)
  <1>1. v \in Values(Spaced)
    BY ValuesOfIn
  <1>. HIDE DEF v
  <1>2. s \in Seq(HostText)
    BY <1>1, RenderedIn
  <1>3. GetHostnameFromTemplate(t, d, b, id) = splitHost(t, s) /\ (Holds(t, "RandomID") => id # <<>>)
    BY DEF GetHostnameFromTemplate, v
  <1>. HIDE DEF s
  <1>4. splitHost(t, s) # NoName
    BY <1>3
  <1>5. IsHostOf(splitHost(t, s), t, s)
    BY <1>2, <1>4, HostIs
  <1>. QED
    BY <1>3, <1>5 DEF s, v

LEMMA IDsIn ==
    /\ RandomIDs \subseteq Seq(Alphanumeric) /\ <<>> \notin RandomIDs
    /\ \A x, y \in RandomIDs : Len(x) = Len(y)
    /\ OtherBranches \subseteq Seq(BranchCharacter)
  <1>1. /\ RandomIDs \subseteq Seq(Alphanumeric) \ {<<>>}
        /\ \A x, y \in RandomIDs : Len(x) = Len(y)
        /\ OtherBranches \subseteq Seq(BranchCharacter)
    BY NameAssumption, Zenon
  <1>. QED
    BY <1>1

(* The random ID is in what is rendered.                                    *)
LEMMA RenderedHasID ==
    ASSUME NEW t \in Seq(Template), Holds(t, "RandomID"), NEW v \in Values(Spaced)
    PROVE  Within(v["RandomID"], rendered(t, v))
  <1>1. PICK i \in 1..Len(t) : t[i] = "RandomID"
    BY LenProperties DEF Holds
  <1>2. "RandomID" \in ValueNames \ {"BranchName"}
    BY DEF ValueNames
  <1>. DEFINE e == RenderedParts(t, v)
              id == v["RandomID"]
  <1>3. used(t, v)["RandomID"] = id
    BY <1>2, UsedIn
  <1>4. /\ rendered(t, v) = FlattenSeq(e) /\ rendered(t, v) \in Seq(HostText)
        /\ e \in Seq(Seq(HostText)) /\ i \in 1..Len(e)
    BY RenderedIn
  <1>5. e[i] = id
    <2>1. e[i] = IF t[i] \in ValueNames THEN used(t, v)[t[i]] ELSE <<t[i]>>
      BY RenderedIn
    <2>. HIDE DEF e, id
    <2>. QED
      BY <1>1, <1>2, <1>3, <2>1
  <1>6. id \in Seq(HostText)
    <2>1. id \in Seq(Spaced)
      BY ValuesIs
    <2>. QED
      BY <2>1, TextsOfHosts, SeqMonotonic
  <1>. HIDE DEF e, id
  <1>7. Includes(FlattenSeq(e), e[i], HostText)
    BY <1>4, FlattenIncludes
  <1>8. Includes(rendered(t, v), id, HostText)
    BY <1>4, <1>5, <1>7
  <1>9. Within(id, rendered(t, v))
    BY <1>4, <1>6, <1>8, IncludesWithin
  <1>. QED
    BY <1>9 DEF id

(* A hostname is valid and its label not too long, and it has the random ID *)
(* that the template asks for: the branch is shortened for it, and the ID   *)
(* never cut (GetHostnameFromTemplate).                                     *)
THEOREM HostsHaveRandomIDs == Spec => []HasRandomID
  <1>1. Typed => HasRandomID
    <2>. DEFINE H(id) == GetHostnameFromTemplate(template, deployment.name, branch, id)
    <2>1. SUFFICES ASSUME Typed, NEW id \in RandomIDs \cup {<<>>}, H(id) # NoName
                   PROVE  /\ IsDNS1123Subdomain(H(id)) /\ Len(Label(H(id))) <= MaxLength
                          /\ Holds(template, "RandomID") => id # <<>> /\ Within(id, H(id))
      BY DEF HasRandomID
    <2>2. template \in Seq(Template) /\ deployment.name \in Seq(Character) /\ branch \in Seq(Character)
      BY <2>1, DeploymentIn, BranchIn DEF Typed, template, Template
    <2>3. id \in Seq(Alphanumeric)
      <3>1. <<>> \in Seq(Alphanumeric)
        BY EmptySeq
      <3>. QED
        BY <2>1, <3>1, IDsIn
    <2>. DEFINE v == valuesOf(deployment.name, branch, id)
                s == rendered(template, v)
                host == H(id)
    <2>4. IsHostOf(host, template, s) /\ (Holds(template, "RandomID") => id # <<>>)
      BY <2>1, <2>2, <2>3, HostnameIs
    <2>5. v \in Values(Spaced) /\ v["RandomID"] = id
      BY <2>2, <2>3, ValuesOfIn
    <2>. HIDE DEF v, host
    <2>6. Holds(template, "RandomID") => Within(id, s)
      BY <2>2, <2>5, RenderedHasID
    <2>. HIDE DEF s
    <2>7. Len(Label(host)) <= MaxLength /\ (Holds(template, "RandomID") => host = s)
      BY <2>4, HostLabel
    <2>8. IsDNS1123Subdomain(host)
      BY <2>4 DEF IsHostOf
    <2>9. /\ IsDNS1123Subdomain(host) /\ Len(Label(host)) <= MaxLength
          /\ Holds(template, "RandomID") => id # <<>> /\ Within(id, host)
      BY <2>4, <2>6, <2>7, <2>8
    <2>. QED
      BY <2>9 DEF host
  <1>. QED
    BY <1>1, AlwaysTyped, PTL

(* What is rendered with different random IDs of the same length is         *)
(* different.                                                               *)
LEMMA RenderedDiffer ==
    ASSUME NEW t \in Seq(Template), Holds(t, "RandomID"),
           NEW v \in Values(Spaced), NEW w \in Values(Spaced),
           v["RandomID"] # w["RandomID"], Len(v["RandomID"]) = Len(w["RandomID"]),
           v["ReviewAppConfig"] = w["ReviewAppConfig"],
           v["DeploymentName"] = w["DeploymentName"],
           Len(used(t, v)["BranchName"]) <= Len(used(t, w)["BranchName"])
    PROVE  rendered(t, v) # rendered(t, w)
  <1>1. PICK i \in 1..Len(t) : t[i] = "RandomID"
    BY LenProperties DEF Holds
  <1>. DEFINE e == RenderedParts(t, v)
              f == RenderedParts(t, w)
              x == used(t, v)
              y == used(t, w)
  <1>2. /\ x["RandomID"] = v["RandomID"] /\ y["RandomID"] = w["RandomID"]
        /\ x["ReviewAppConfig"] = v["ReviewAppConfig"] /\ y["ReviewAppConfig"] = w["ReviewAppConfig"]
        /\ x["DeploymentName"] = v["DeploymentName"] /\ y["DeploymentName"] = w["DeploymentName"]
    <2>1. /\ "RandomID" \in ValueNames \ {"BranchName"}
          /\ "ReviewAppConfig" \in ValueNames \ {"BranchName"}
          /\ "DeploymentName" \in ValueNames \ {"BranchName"}
      BY DEF ValueNames
    <2>. QED
      BY <2>1, UsedIn
  <1>3. /\ e \in Seq(Seq(HostText)) /\ Len(e) = Len(t) /\ rendered(t, v) = FlattenSeq(e)
        /\ \A k \in 1..Len(t) : e[k] = IF t[k] \in ValueNames THEN x[t[k]] ELSE <<t[k]>>
    BY RenderedIn
  <1>4. /\ f \in Seq(Seq(HostText)) /\ Len(f) = Len(t) /\ rendered(t, w) = FlattenSeq(f)
        /\ \A k \in 1..Len(t) : f[k] = IF t[k] \in ValueNames THEN y[t[k]] ELSE <<t[k]>>
    BY RenderedIn
  <1>5. x \in Values(Spaced) /\ y \in Values(Spaced)
    BY UsedIn
  <1>6. \A k \in ValueNames : x[k] \in Seq(Spaced) /\ y[k] \in Seq(Spaced)
    BY <1>5, ValuesIs
  <1>7. Len(x["BranchName"]) <= Len(y["BranchName"])
    OBVIOUS
  <1>. HIDE DEF e, f, x, y
  <1>8. \A k \in ValueNames : Len(x[k]) <= Len(y[k])
    <2>1. SUFFICES ASSUME NEW k \in ValueNames PROVE Len(x[k]) <= Len(y[k])
      OBVIOUS
    <2>2. Len(x[k]) \in Nat
      BY <1>6
    <2>3. CASE k = "BranchName"
      BY <1>7, <2>3
    <2>4. CASE k # "BranchName"
      <3>1. Len(x[k]) = Len(y[k])
        BY <1>2, <2>1, <2>4 DEF ValueNames
      <3>. QED
        BY <2>2, <3>1
    <2>. QED
      BY <2>3, <2>4
  <1>9. NoLonger(e, f)
    <2>1. SUFFICES ASSUME NEW k \in 1..Len(t) PROVE Len(e[k]) <= Len(f[k])
      BY <1>3, <1>4 DEF NoLonger
    <2>2. CASE t[k] \in ValueNames
      BY <1>3, <1>4, <1>8, <2>1, <2>2
    <2>3. CASE t[k] \notin ValueNames
      <3>1. e[k] = <<t[k]>> /\ f[k] = <<t[k]>> /\ Len(<<t[k]>>) = 1
        BY <1>3, <1>4, <2>1, <2>3
      <3>. QED
        BY <3>1
    <2>. QED
      BY <2>2, <2>3
  <1>10. JoinsApart(e, f)
    BY <1>3, <1>4, <1>9, FlattenPointwise
  <1>11. e[i] # f[i]
    <2>1. "RandomID" \in ValueNames
      BY DEF ValueNames
    <2>. QED
      BY <1>1, <1>2, <1>3, <1>4, <2>1
  <1>. QED
    BY <1>3, <1>4, <1>10, <1>11 DEF JoinsApart

(* Pull requests with different random IDs never have the same hostname:    *)
(* if they had, the parts that it is rendered of would be as long as each   *)
(* other, and the IDs the same (GetHostnameFromTemplate).                   *)
THEOREM HostsAreDistinct == Spec => []DistinctHosts
  <1>1. Typed => DistinctHosts
    <2>. DEFINE H(b, id) == GetHostnameFromTemplate(template, deployment.name, b, id)
    <2>1. SUFFICES ASSUME Typed, Holds(template, "RandomID"),
                          NEW x \in RandomIDs, NEW y \in RandomIDs, x # y,
                          NEW b \in OtherBranches, H(branch, x) # NoName
                   PROVE  H(branch, x) # H(b, y)
      BY DEF DistinctHosts
    <2>. DEFINE d == deployment.name
                g == H(branch, x)
                h == H(b, y)
                v == valuesOf(d, branch, x)
                w == valuesOf(d, b, y)
    <2>2. /\ template \in Seq(Template) /\ d \in Seq(Character)
          /\ branch \in Seq(Character) /\ b \in Seq(Character)
      <3>1. b \in Seq(BranchCharacter)
        BY IDsIn
      <3>. QED
        BY <2>1, <3>1, DeploymentIn, BranchIn DEF Typed, template, Template
    <2>3. x \in Seq(Alphanumeric) /\ y \in Seq(Alphanumeric) /\ Len(x) = Len(y)
      BY IDsIn
    <2>. HIDE DEF d
    <2>4. /\ v \in Values(Spaced) /\ v["RandomID"] = x
          /\ v["ReviewAppConfig"] = normalize(App) /\ v["DeploymentName"] = normalize(d)
      BY <2>2, <2>3, ValuesOfIn
    <2>5. /\ w \in Values(Spaced) /\ w["RandomID"] = y
          /\ w["ReviewAppConfig"] = normalize(App) /\ w["DeploymentName"] = normalize(d)
      BY <2>2, <2>3, ValuesOfIn
    <2>6. IsHostOf(g, template, rendered(template, v))
      BY <2>1, <2>2, <2>3, HostnameIs DEF d
    <2>7. h # NoName => IsHostOf(h, template, rendered(template, w))
      BY <2>2, <2>3, HostnameIs DEF d
    <2>8. g # NoName
      BY <2>1
    <2>. HIDE DEF g, h, v, w
    <2>9. g = rendered(template, v)
      BY <2>1, <2>6, HostLabel
    <2>10. h # NoName => h = rendered(template, w)
      BY <2>1, <2>7, HostLabel
    <2>. DEFINE k == Len(used(template, v)["BranchName"])
                l == Len(used(template, w)["BranchName"])
    <2>11. k \in Nat /\ l \in Nat
      <3>1. used(template, v) \in Values(Spaced) /\ used(template, w) \in Values(Spaced)
        BY <2>2, <2>4, <2>5, UsedIn
      <3>2. /\ used(template, v)["BranchName"] \in Seq(Spaced)
            /\ used(template, w)["BranchName"] \in Seq(Spaced)
        BY <3>1, ValuesIs
      <3>. QED
        BY <3>2, LenProperties
    <2>12. rendered(template, v) # rendered(template, w)
      <3>1. /\ v["RandomID"] # w["RandomID"] /\ Len(v["RandomID"]) = Len(w["RandomID"])
            /\ Len(w["RandomID"]) = Len(v["RandomID"])
            /\ v["ReviewAppConfig"] = w["ReviewAppConfig"]
            /\ v["DeploymentName"] = w["DeploymentName"]
        BY <2>1, <2>3, <2>4, <2>5
      <3>2. CASE k <= l
        BY <2>1, <2>2, <2>4, <2>5, <3>1, <3>2, RenderedDiffer
      <3>3. CASE l <= k
        BY <2>1, <2>2, <2>4, <2>5, <3>1, <3>3, RenderedDiffer
      <3>. QED
        BY <2>11, <3>2, <3>3
    <2>13. g # h
      BY <2>8, <2>9, <2>10, <2>12
    <2>. QED
      BY <2>13 DEF g, h, d
  <1>. QED
    BY <1>1, AlwaysTyped, PTL

-----------------------------------------------------------------------------
(* Hostnames of long branches.  Templates with no variable misspelled are   *)
(* rendered in two parts, of their own label and domain.                    *)

Spelled == Alphanumeric \cup {"-", "."} \cup ValueNames
Dashdot == Dashed \cup {"."}
part(c, v) == IF c \in ValueNames THEN v[c] ELSE <<c>>

LEMMA Dashdots ==
    /\ Spelled \ ValueNames \subseteq Dashdot /\ (Spelled \ {"."}) \ ValueNames \subseteq Dashed
    /\ Dashdot \ {"."} = Dashed /\ Dashed \subseteq Dashdot /\ "." \in Dashdot
    /\ Template \ {"Misspelled"} \subseteq Spelled /\ Dashdot \subseteq Character
    /\ "." \notin Dashed /\ Spelled \ {"."} \subseteq Spelled /\ ValueNames \subseteq Spelled \ {"."}
    /\ Spelled \subseteq Template
  <1>1. "." \notin Dashed /\ Dashed \subseteq Character /\ "." \in Character
    BY Alphabets, TextsOfHosts DEF Kept
  <1>2. Spelled \ ValueNames \subseteq Dashdot
    BY DEF Spelled, Dashdot, Dashed
  <1>3. (Spelled \ {"."}) \ ValueNames \subseteq Dashed
    BY DEF Spelled, Dashed
  <1>4. Template \ {"Misspelled"} \subseteq Spelled /\ Spelled \subseteq Template
    BY DEF Template, Spelled, Variable, ValueNames
  <1>5. ValueNames \subseteq Spelled \ {"."}
    BY DEF ValueNames, Spelled
  <1>. QED
    BY <1>1, <1>2, <1>3, <1>4, <1>5 DEF Dashdot

LEMMA RenderAppend ==
    ASSUME NEW T, NEW S, NEW t \in Seq(T), NEW c \in T, NEW v \in Values(S),
           T \ ValueNames \subseteq S
    PROVE  /\ part(c, v) \in Seq(S) /\ render(t, v) \in Seq(S)
           /\ render(Append(t, c), v) = render(t, v) \o part(c, v)
  <1>. DEFINE e == Parts(t, v)
              f == Parts(Append(t, c), v)
              p == part(c, v)
              g == Append(e, p)
  <1>1. /\ Append(t, c) \in Seq(T) /\ Len(Append(t, c)) = Len(t) + 1 /\ Len(t) \in Nat
        /\ \A i \in 1..Len(t) : Append(t, c)[i] = t[i]
        /\ Append(t, c)[Len(t) + 1] = c
    BY AppendProperties
  <1>2. /\ e \in Seq(Seq(S)) /\ Len(e) = Len(t) /\ render(t, v) = FlattenSeq(e)
        /\ render(t, v) \in Seq(S)
        /\ \A i \in 1..Len(t) : e[i] = IF t[i] \in ValueNames THEN v[t[i]] ELSE <<t[i]>>
    BY PartsIn
  <1>3. /\ f \in Seq(Seq(S)) /\ Len(f) = Len(t) + 1
        /\ render(Append(t, c), v) = FlattenSeq(f)
        /\ \A i \in 1..(Len(t) + 1) : f[i] = IF Append(t, c)[i] \in ValueNames
                                            THEN v[Append(t, c)[i]] ELSE <<Append(t, c)[i]>>
    <2>. DEFINE r == Append(t, c)
    <2>1. r \in Seq(T) /\ Len(r) = Len(t) + 1
      BY <1>1
    <2>. HIDE DEF r
    <2>2. /\ Parts(r, v) \in Seq(Seq(S)) /\ Len(Parts(r, v)) = Len(r)
          /\ render(r, v) = FlattenSeq(Parts(r, v))
          /\ \A i \in 1..Len(r) : Parts(r, v)[i] = IF r[i] \in ValueNames THEN v[r[i]] ELSE <<r[i]>>
      BY <2>1, PartsIn
    <2>. QED
      BY <2>1, <2>2 DEF r
  <1>4. p \in Seq(S)
    <2>1. \A k \in ValueNames : v[k] \in Seq(S)
      BY ValuesIs
    <2>2. CASE c \in ValueNames
      BY <2>1, <2>2 DEF part
    <2>3. CASE c \notin ValueNames
      <3>1. c \in S
        BY <2>3
      <3>. QED
        BY <2>3, <3>1 DEF part
    <2>. QED
      BY <2>2, <2>3
  <1>. HIDE DEF e, f
  <1>5. f[Len(t) + 1] = p
    <2>1. Len(t) + 1 \in 1..(Len(t) + 1)
      BY <1>1
    <2>. QED
      BY <1>1, <1>3, <2>1 DEF part
  <1>. HIDE DEF p
  <1>6. /\ g \in Seq(Seq(S)) /\ Len(g) = Len(t) + 1
        /\ \A i \in 1..Len(t) : g[i] = e[i]
        /\ g[Len(t) + 1] = p
    <2>1. e \in Seq(Seq(S)) /\ p \in Seq(S)
      BY <1>2, <1>4
    <2>2. /\ Append(e, p) \in Seq(Seq(S)) /\ Len(Append(e, p)) = Len(e) + 1
          /\ \A i \in 1..Len(e) : Append(e, p)[i] = e[i]
          /\ Append(e, p)[Len(e) + 1] = p
      BY <2>1, AppendProperties
    <2>. QED
      BY <1>2, <2>2
  <1>. HIDE DEF g
  <1>7. ASSUME NEW i \in 1..Len(f) PROVE f[i] = g[i]
    <2>1. i \in 1..(Len(t) + 1)
      BY <1>3
    <2>2. CASE i = Len(t) + 1
      BY <1>5, <1>6, <2>2
    <2>3. CASE i # Len(t) + 1
      <3>1. i \in 1..Len(t)
        BY <1>1, <2>1, <2>3
      <3>2. f[i] = IF t[i] \in ValueNames THEN v[t[i]] ELSE <<t[i]>>
        BY <1>1, <1>3, <2>1, <3>1
      <3>. QED
        BY <1>2, <1>6, <3>1, <3>2
    <2>. QED
      BY <2>2, <2>3
  <1>8. f = g
    BY <1>3, <1>6, <1>7, SeqEqual
  <1>9. FlattenSeq(Append(e, p)) = FlattenSeq(e) \o p
    BY <1>2, <1>4, FlattenAppend
  <1>. QED
    BY <1>2, <1>3, <1>4, <1>8, <1>9 DEF g, p

LEMMA RenderEmpty ==
    ASSUME NEW v
    PROVE  render(<<>>, v) = <<>>
  <1>1. Parts(<<>>, v) = <<>>
    BY DEF Parts
  <1>2. render(<<>>, v) = FlattenSeq(Parts(<<>>, v))
    BY DEF render, Parts
  <1>. QED
    BY <1>1, <1>2, FlattenEmpty

RendersJoined(t, u, v) == render(t \o u, v) = render(t, v) \o render(u, v)

LEMMA RenderConcat ==
    ASSUME NEW T, NEW S, NEW t \in Seq(T), NEW u \in Seq(T), NEW v \in Values(S),
           T \ ValueNames \subseteq S
    PROVE  RendersJoined(t, u, v)
  <1>. DEFINE U == {x \in Seq(T) : RendersJoined(t, x, v)}
  <1>0. ASSUME NEW x \in Seq(T) PROVE render(x, v) \in Seq(S)
    BY PartsIn
  <1>1. <<>> \in U
    <2>1. t \o <<>> = t
      BY ConcatEmptySeq
    <2>2. render(t, v) \o <<>> = render(t, v)
      BY <1>0, ConcatEmptySeq
    <2>3. RendersJoined(t, <<>>, v)
      BY <2>1, <2>2, RenderEmpty DEF RendersJoined
    <2>. QED
      BY <2>3, EmptySeq
  <1>2. ASSUME NEW x \in Seq(T), RendersJoined(t, x, v), NEW c \in T
        PROVE  RendersJoined(t, Append(x, c), v)
    <2>. DEFINE y == t \o x
                p == part(c, v)
                f == render(t, v)
                g == render(x, v)
    <2>1. y \in Seq(T) /\ t \o Append(x, c) = Append(y, c)
      BY ConcatProperties, ConcatAppend
    <2>. HIDE DEF y
    <2>2. render(Append(y, c), v) = render(y, v) \o p /\ p \in Seq(S)
      BY <2>1, RenderAppend
    <2>3. render(Append(x, c), v) = g \o p
      BY RenderAppend
    <2>4. f \in Seq(S) /\ g \in Seq(S)
      BY <1>0
    <2>5. render(y, v) = f \o g
      BY <1>2 DEF RendersJoined, y
    <2>. HIDE DEF f, g, p
    <2>6. (f \o g) \o p = f \o (g \o p)
      <3>1. Associates(f, g, p)
        BY <2>2, <2>4, Associative, Zenon
      <3>. QED
        BY <3>1 DEF Associates
    <2>7. render(t \o Append(x, c), v) = f \o render(Append(x, c), v)
      BY <2>1, <2>2, <2>3, <2>5, <2>6
    <2>. QED
      BY <2>7 DEF RendersJoined, f
  <1>3. U = Seq(T)
    <2>1. U \in SUBSET Seq(T)
      OBVIOUS
    <2>2. ASSUME NEW x \in U, NEW c \in T PROVE Append(x, c) \in U
      <3>1. x \in Seq(T) /\ RendersJoined(t, x, v)
        OBVIOUS
      <3>2. RendersJoined(t, Append(x, c), v)
        BY <1>2, <3>1
      <3>3. Append(x, c) \in Seq(T)
        BY <3>1, AppendProperties
      <3>. QED
        BY <3>2, <3>3
    <2>. HIDE DEF U
    <2>. QED
      BY <1>1, <2>1, <2>2, SeqInd
  <1>. QED
    BY <1>3

LEMMA RenderOne ==
    ASSUME NEW T, NEW S, NEW c \in T, NEW v \in Values(S), T \ ValueNames \subseteq S
    PROVE  render(<<c>>, v) = part(c, v) /\ part(c, v) \in Seq(S)
  <1>1. <<>> \in Seq(T) /\ Append(<<>>, c) = <<c>>
    OBVIOUS
  <1>. DEFINE t == <<>>
  <1>2. t \in Seq(T)
    BY <1>1
  <1>. HIDE DEF t
  <1>3. render(Append(t, c), v) = render(t, v) \o part(c, v) /\ part(c, v) \in Seq(S)
    BY <1>2, RenderAppend
  <1>4. render(Append(<<>>, c), v) = render(<<>>, v) \o part(c, v) /\ part(c, v) \in Seq(S)
    BY <1>3 DEF t
  <1>. DEFINE p == part(c, v)
  <1>5. p \in Seq(S)
    BY <1>4
  <1>. HIDE DEF p
  <1>6. <<>> \o p = p
    BY <1>5, ConcatEmptySeq
  <1>. QED
    BY <1>1, <1>4, <1>6, RenderEmpty DEF p

(* Values that differ in the branch only render the same without it.        *)
OtherwiseSame(v, w) == \A k \in ValueNames \ {"BranchName"} : v[k] = w[k]

LEMMA RenderSame ==
    ASSUME NEW S, NEW t, NEW v \in Values(S), NEW w \in Values(S),
           v["BranchName"] = w["BranchName"] \/ ~Holds(t, "BranchName"), OtherwiseSame(v, w)
    PROVE  render(t, v) = render(t, w)
  <1>1. DOMAIN v = ValueNames /\ DOMAIN w = ValueNames
    BY ValuesIs
  <1>2. ASSUME NEW i \in DOMAIN t
        PROVE  (IF t[i] \in DOMAIN v THEN v[t[i]] ELSE <<t[i]>>)
                  = (IF t[i] \in DOMAIN w THEN w[t[i]] ELSE <<t[i]>>)
    <2>1. CASE t[i] \in ValueNames
      <3>1. v[t[i]] = w[t[i]]
        BY <2>1 DEF Holds, OtherwiseSame
      <3>. QED
        BY <1>1, <2>1, <3>1
    <2>2. CASE t[i] \notin ValueNames
      BY <1>1, <2>2
    <2>. QED
      BY <2>1, <2>2
  <1>3. Parts(t, v) = Parts(t, w)
    BY <1>2 DEF Parts
  <1>4. render(t, v) = FlattenSeq(Parts(t, v)) /\ render(t, w) = FlattenSeq(Parts(t, w))
    BY DEF render, Parts
  <1>. QED
    BY <1>3, <1>4

LEMMA DomainOf ==
    ASSUME NEW S, NEW u \in Seq(S \ {"."}), NEW v \in Seq(S), "." \in S
    PROVE  Domain((u \o <<".">>) \o v) = v
  <1>. DEFINE d == <<".">>
              x == u \o d
              s == x \o v
              y == SubSeq(s, Len(u) + 2, Len(s))
  <1>1. u \in Seq(S) /\ d \in Seq(S) /\ Len(d) = 1
    BY SeqMonotonic
  <1>. HIDE DEF d
  <1>2. x \in Seq(S) /\ Len(x) = Len(u) + 1
    <2>1. u \in Seq(S) /\ d \in Seq(S)
      BY <1>1
    <2>2. x \in Seq(S) /\ Len(x) = Len(u) + Len(d)
      BY <2>1, ConcatProperties
    <2>. QED
      BY <1>1, <2>2
  <1>. HIDE DEF x
  <1>3. /\ s \in Seq(S) /\ Len(s) = Len(x) + Len(v)
        /\ \A i \in 1..(Len(x) + Len(v)) : s[i] = IF i <= Len(x) THEN x[i] ELSE v[i - Len(x)]
    BY <1>2, ConcatProperties
  <1>4. Label((u \o <<".">>) \o v) = u
    BY LabelOf
  <1>5. Domain((u \o <<".">>) \o v) = y
    BY <1>4 DEF Domain, s, x, d
  <1>6. Len(u) \in Nat /\ Len(v) \in Nat
    BY <1>1
  <1>. HIDE DEF s
  <1>7. /\ y \in Seq(S)
        /\ Len(y) = IF Len(u) + 2 <= Len(s) THEN Len(s) - (Len(u) + 2) + 1 ELSE 0
        /\ \A i \in 1..(Len(s) - (Len(u) + 2) + 1) : y[i] = s[(Len(u) + 2) + i - 1]
    <2>1. Len(u) + 2 \in Nat /\ Len(s) \in Nat /\ Len(u) + 2 >= 1 /\ Len(s) <= Len(s)
      BY <1>3, <1>6
    <2>. QED
      BY <1>3, <2>1, SubSeqIn
  <1>. HIDE DEF y
  <1>8. Len(y) = Len(v) /\ Len(s) - (Len(u) + 2) + 1 = Len(v)
    BY <1>2, <1>3, <1>6, <1>7
  <1>9. ASSUME NEW i \in 1..Len(y) PROVE y[i] = v[i]
    <2>1. /\ (Len(u) + 2) + i - 1 \in 1..(Len(x) + Len(v))
          /\ ~((Len(u) + 2) + i - 1 <= Len(x)) /\ ((Len(u) + 2) + i - 1) - Len(x) = i
      BY <1>2, <1>6, <1>8
    <2>2. y[i] = s[(Len(u) + 2) + i - 1]
      BY <1>7, <1>8
    <2>. QED
      BY <1>3, <2>1, <2>2
  <1>10. y = v
    BY <1>7, <1>8, <1>9, SeqEqual
  <1>. QED
    BY <1>5, <1>10

(* With a dot, the label and the domain are rendered of those of the template. *)
InTwo(t, v) ==
    LET l == render(Label(t), v)
        m == render(Domain(t), v)
    IN  /\ t = (Label(t) \o <<".">>) \o Domain(t)
        /\ l \in Seq(Dashed) /\ m \in Seq(Dashdot) /\ render(t, v) = (l \o <<".">>) \o m
        /\ Label(render(t, v)) = l /\ Domain(render(t, v)) = m

LEMMA RenderSplit ==
    ASSUME NEW t \in Seq(Spelled), NEW v \in Values(Dashed)
    PROVE  InTwo(t, v) \/ (t \in Seq(Spelled \ {"."}) /\ render(t, v) \in Seq(Dashed))
  <1>. DEFINE T == Spelled \ {"."}
              a == Label(t)
              b == Domain(t)
              d == <<".">>
              l == render(a, v)
              m == render(b, v)
  <1>1. a \in Seq(T) /\ a \in Seq(Spelled) /\ b \in Seq(Spelled) /\ (t \in Seq(T) \/ t = (a \o d) \o b)
    BY LabelSplit
  <1>2. v \in Values(Dashdot)
    <2>1. Seq(Dashed) \subseteq Seq(Dashdot)
      BY Dashdots, SeqMonotonic
    <2>. QED
      BY <2>1 DEF Values
  <1>3. T \ ValueNames \subseteq Dashed /\ Spelled \ ValueNames \subseteq Dashdot
    BY Dashdots
  <1>. HIDE DEF T, a, b
  <1>4. l \in Seq(Dashed) /\ m \in Seq(Dashdot)
    BY <1>1, <1>2, <1>3, PartsIn
  <1>5. CASE t \in Seq(T)
    <2>1. render(t, v) \in Seq(Dashed)
      BY <1>3, <1>5, PartsIn
    <2>. QED
      BY <1>5, <2>1 DEF T
  <1>6. CASE t = (a \o d) \o b
    <2>. DEFINE x == a \o d
    <2>1. d \in Seq(Spelled) /\ render(d, v) = d
      <3>1. "." \in Spelled /\ "." \notin ValueNames
        BY DEF Spelled, ValueNames
      <3>2. render(<<".">>, v) = part(".", v)
        BY <1>2, <1>3, <3>1, RenderOne
      <3>. QED
        BY <3>1, <3>2 DEF part
    <2>. HIDE DEF d
    <2>2. x \in Seq(Spelled)
      BY <1>1, <2>1, ConcatProperties
    <2>3. render(x, v) = l \o d
      <3>1. RendersJoined(a, d, v)
        BY <1>1, <1>2, <1>3, <2>1, RenderConcat
      <3>. QED
        BY <2>1, <3>1 DEF RendersJoined
    <2>. HIDE DEF x
    <2>4. render(t, v) = (l \o d) \o m
      <3>1. RendersJoined(x, b, v)
        BY <1>1, <1>2, <1>3, <2>2, RenderConcat
      <3>. QED
        BY <1>6, <2>3, <3>1 DEF RendersJoined, x
    <2>. HIDE DEF l, m
    <2>5. Label((l \o d) \o m) = l /\ Domain((l \o d) \o m) = m
      <3>1. l \in Seq(Dashdot \ {"."}) /\ "." \in Dashdot
        BY <1>4, Dashdots
      <3>. QED
        BY <1>4, <3>1, LabelOf, DomainOf DEF d
    <2>6. InTwo(t, v)
      BY <1>4, <1>6, <2>4, <2>5 DEF InTwo, l, m, a, b, d
    <2>. QED
      BY <2>6
  <1>. QED
    BY <1>1, <1>5, <1>6

(* A branch that is no shorter, in the place of another.  What it is         *)
(* rendered in is no shorter, and as valid.                                *)
Word(x) == x \in Seq(Dashed) /\ x # <<>> /\ x[1] \in Letter /\ Last(x) \in Alphanumeric
Alike(x, y) == x = y \/ (Word(x) /\ Word(y) /\ Len(x) <= Len(y))

Flanked(a, b) == (a = "." => b \in Alphanumeric) /\ (b = "." => a \in Alphanumeric)
DotsFlanked(x) == \A i \in 1..(Len(x) - 1) : Flanked(x[i], x[i + 1])
SameKind(a, b) == (a \in Alphanumeric <=> b \in Alphanumeric) /\ (a = "." <=> b = ".")
SameEnds(x, y) == SameKind(x[1], y[1]) /\ SameKind(Last(x), Last(y))
AsValid(x, y) ==
    /\ x \in Seq(Dashdot) /\ y \in Seq(Dashdot)
    /\ x = <<>> <=> y = <<>>
    /\ x # <<>> => SameEnds(x, y)
    /\ DotsFlanked(x) => DotsFlanked(y)
    /\ Len(x) <= Len(y)

LEMMA DotsConcat ==
    ASSUME NEW x \in Seq(Dashdot), NEW y \in Seq(Dashdot), x # <<>>, y # <<>>
    PROVE  DotsFlanked(x \o y) <=> DotsFlanked(x) /\ DotsFlanked(y) /\ Flanked(Last(x), y[1])
  <1>. DEFINE s == x \o y
              n == Len(x)
  <1>1. /\ s \in Seq(Dashdot) /\ Len(s) = n + Len(y)
        /\ \A i \in 1..(n + Len(y)) : s[i] = IF i <= n THEN x[i] ELSE y[i - n]
    BY ConcatProperties
  <1>2. n \in Nat /\ n >= 1 /\ Len(y) \in Nat /\ Len(y) >= 1
    BY Ends
  <1>3. Last(x) = x[n]
    BY DEF Last
  <1>. HIDE DEF s, n
  <1>4. ASSUME NEW i \in 1..(n - 1) PROVE s[i] = x[i] /\ s[i + 1] = x[i + 1]
    BY <1>1, <1>2
  <1>5. s[n] = Last(x) /\ s[n + 1] = y[1]
    BY <1>1, <1>2, <1>3
  <1>6. ASSUME NEW i \in 1..(Len(y) - 1) PROVE s[n + i] = y[i] /\ s[(n + i) + 1] = y[i + 1]
    <2>1. /\ n + i \in 1..(n + Len(y)) /\ ~(n + i <= n) /\ (n + i) - n = i
          /\ (n + i) + 1 \in 1..(n + Len(y)) /\ ~((n + i) + 1 <= n) /\ ((n + i) + 1) - n = i + 1
      BY <1>2
    <2>2. s[n + i] = y[(n + i) - n] /\ s[(n + i) + 1] = y[((n + i) + 1) - n]
      BY <1>1, <2>1
    <2>. QED
      BY <2>1, <2>2
  <1>7. ASSUME DotsFlanked(s)
        PROVE  DotsFlanked(x) /\ DotsFlanked(y) /\ Flanked(Last(x), y[1])
    <2>1. \A i \in 1..(Len(s) - 1) : Flanked(s[i], s[i + 1])
      BY <1>7 DEF DotsFlanked
    <2>2. ASSUME NEW i \in 1..(n - 1) PROVE Flanked(x[i], x[i + 1])
      <3>1. i \in 1..(Len(s) - 1)
        BY <1>1, <1>2
      <3>. QED
        BY <1>4, <2>1, <3>1
    <2>3. ASSUME NEW i \in 1..(Len(y) - 1) PROVE Flanked(y[i], y[i + 1])
      <3>1. n + i \in 1..(Len(s) - 1)
        BY <1>1, <1>2
      <3>2. Flanked(s[n + i], s[(n + i) + 1])
        BY <2>1, <3>1
      <3>. QED
        BY <1>6, <3>2
    <2>4. Flanked(Last(x), y[1])
      <3>1. n \in 1..(Len(s) - 1)
        BY <1>1, <1>2
      <3>. QED
        BY <1>5, <2>1, <3>1
    <2>. QED
      BY <2>2, <2>3, <2>4 DEF DotsFlanked, n
  <1>8. ASSUME DotsFlanked(x), DotsFlanked(y), Flanked(Last(x), y[1])
        PROVE  DotsFlanked(s)
    <2>1. SUFFICES ASSUME NEW i \in 1..(Len(s) - 1) PROVE Flanked(s[i], s[i + 1])
      BY DEF DotsFlanked
    <2>2. CASE i < n
      <3>1. i \in 1..(n - 1)
        BY <1>2, <2>2
      <3>2. Flanked(x[i], x[i + 1])
        BY <1>8, <3>1 DEF DotsFlanked, n
      <3>. QED
        BY <1>4, <3>1, <3>2
    <2>3. CASE i = n
      BY <1>5, <1>8, <2>3
    <2>4. CASE i > n
      <3>. DEFINE j == i - n
      <3>1. j \in 1..(Len(y) - 1) /\ n + j = i
        BY <1>1, <1>2, <2>1, <2>4
      <3>. HIDE DEF j
      <3>2. Flanked(y[j], y[j + 1])
        BY <1>8, <3>1 DEF DotsFlanked
      <3>3. s[n + j] = y[j] /\ s[(n + j) + 1] = y[j + 1]
        BY <1>6, <3>1
      <3>. QED
        BY <3>1, <3>2, <3>3
    <2>. QED
      BY <1>2, <2>2, <2>3, <2>4
  <1>. QED
    BY <1>7, <1>8 DEF s

LEMMA AsValidConcat ==
    ASSUME NEW x, NEW y, NEW u, NEW v, AsValid(x, y), AsValid(u, v)
    PROVE  AsValid(x \o u, y \o v)
  <1>1. /\ x \in Seq(Dashdot) /\ y \in Seq(Dashdot) /\ (x = <<>> <=> y = <<>>)
        /\ (DotsFlanked(x) => DotsFlanked(y)) /\ Len(x) <= Len(y)
    BY DEF AsValid
  <1>2. /\ u \in Seq(Dashdot) /\ v \in Seq(Dashdot) /\ (u = <<>> <=> v = <<>>)
        /\ (DotsFlanked(u) => DotsFlanked(v)) /\ Len(u) <= Len(v)
    BY DEF AsValid
  <1>. DEFINE s == x \o u
              t == y \o v
  <1>3. CASE x = <<>>
    <2>1. s = u /\ t = v
      BY <1>1, <1>2, <1>3, ConcatEmptySeq
    <2>. QED
      BY <2>1
  <1>4. CASE u = <<>>
    <2>1. s = x /\ t = y
      BY <1>1, <1>2, <1>4, ConcatEmptySeq
    <2>. QED
      BY <2>1
  <1>5. CASE x # <<>> /\ u # <<>>
    <2>1. y # <<>> /\ v # <<>>
      BY <1>1, <1>2, <1>5
    <2>2. SameEnds(x, y) /\ SameEnds(u, v)
      BY <1>5 DEF AsValid
    <2>3. /\ SameKind(x[1], y[1]) /\ SameKind(Last(x), Last(y))
          /\ SameKind(u[1], v[1]) /\ SameKind(Last(u), Last(v))
      BY <2>2 DEF SameEnds
    <2>4. s \in Seq(Dashdot) /\ Len(s) = Len(x) + Len(u)
      BY <1>1, <1>2, ConcatProperties
    <2>5. t \in Seq(Dashdot) /\ Len(t) = Len(y) + Len(v)
      BY <1>1, <1>2, ConcatProperties
    <2>6. Len(s) <= Len(t)
      BY <1>1, <1>2, <2>4, <2>5
    <2>7. s # <<>> /\ s[1] = x[1] /\ Last(s) = Last(u)
      BY <1>1, <1>2, <1>5, StartConcat, LastConcat
    <2>8. t # <<>> /\ t[1] = y[1] /\ Last(t) = Last(v)
      BY <1>1, <1>2, <2>1, StartConcat, LastConcat
    <2>9. DotsFlanked(s) <=> DotsFlanked(x) /\ DotsFlanked(u) /\ Flanked(Last(x), u[1])
      BY <1>1, <1>2, <1>5, DotsConcat
    <2>10. DotsFlanked(t) <=> DotsFlanked(y) /\ DotsFlanked(v) /\ Flanked(Last(y), v[1])
      BY <1>1, <1>2, <2>1, DotsConcat
    <2>11. Flanked(Last(x), u[1]) => Flanked(Last(y), v[1])
      BY <2>3 DEF Flanked, SameKind
    <2>12. SameEnds(s, t)
      BY <2>3, <2>7, <2>8 DEF SameEnds
    <2>13. DotsFlanked(s) => DotsFlanked(t)
      BY <1>1, <1>2, <2>9, <2>10, <2>11
    <2>. HIDE DEF s, t
    <2>14. AsValid(s, t)
      BY <2>4, <2>5, <2>6, <2>7, <2>8, <2>12, <2>13 DEF AsValid
    <2>. QED
      BY <2>14 DEF s, t
  <1>. QED
    BY <1>3, <1>4, <1>5

LEMMA AsValidSame ==
    ASSUME NEW x \in Seq(Dashdot)
    PROVE  AsValid(x, x)
  BY DEF AsValid, SameEnds, SameKind

LEMMA AsValidWords ==
    ASSUME NEW x, NEW y, Word(x), Word(y), Len(x) <= Len(y)
    PROVE  AsValid(x, y)
  <1>1. x \in Seq(Dashed) /\ y \in Seq(Dashed) /\ x # <<>> /\ y # <<>>
    BY DEF Word
  <1>2. x \in Seq(Dashdot) /\ y \in Seq(Dashdot)
    BY <1>1, Dashdots, SeqMonotonic
  <1>3. /\ x[1] \in Alphanumeric /\ Last(x) \in Alphanumeric
        /\ y[1] \in Alphanumeric /\ Last(y) \in Alphanumeric
    BY Alphabets DEF Word
  <1>4. SameEnds(x, y)
    BY <1>3, Alphabets DEF SameEnds, SameKind
  <1>5. DotsFlanked(y)
    <2>1. SUFFICES ASSUME NEW i \in 1..(Len(y) - 1) PROVE Flanked(y[i], y[i + 1])
      BY DEF DotsFlanked
    <2>2. i \in 1..Len(y) /\ i + 1 \in 1..Len(y)
      BY <1>1
    <2>3. y[i] \in Dashed /\ y[i + 1] \in Dashed
      BY <1>1, <2>2, ElementOfSeq
    <2>. QED
      BY <2>3, Dashdots DEF Flanked
  <1>. QED
    BY <1>1, <1>2, <1>4, <1>5 DEF AsValid

LEMMA RenderSpelled ==
    ASSUME NEW x \in Seq(Spelled), NEW v \in Values(Dashdot), NEW c \in Spelled
    PROVE  render(Append(x, c), v) = render(x, v) \o part(c, v)
  <1>1. Spelled \ ValueNames \subseteq Dashdot
    BY Dashdots
  <1>. QED
    BY <1>1, RenderAppend

LEMMA RenderAsValid ==
    ASSUME NEW t \in Seq(Spelled), NEW v \in Values(Dashed), NEW w \in Values(Dashed),
           OtherwiseSame(v, w), Alike(v["BranchName"], w["BranchName"])
    PROVE  AsValid(render(t, v), render(t, w))
  <1>. DEFINE T == {x \in Seq(Spelled) : AsValid(render(x, v), render(x, w))}
  <1>1. v \in Values(Dashdot) /\ w \in Values(Dashdot)
    <2>1. Seq(Dashed) \subseteq Seq(Dashdot)
      BY Dashdots, SeqMonotonic
    <2>. QED
      BY <2>1 DEF Values
  <1>2. <<>> \in T
    <2>1. AsValid(<<>>, <<>>)
      BY EmptySeq, AsValidSame
    <2>. QED
      BY <2>1, RenderEmpty
  <1>3. ASSUME NEW c \in Spelled PROVE AsValid(part(c, v), part(c, w))
    <2>1. CASE c = "BranchName"
      <3>. DEFINE x == v["BranchName"]
                  y == w["BranchName"]
      <3>1. part(c, v) = x /\ part(c, w) = y
        BY <2>1 DEF part, ValueNames
      <3>2. x \in Seq(Dashdot) /\ y \in Seq(Dashdot)
        BY <1>1, ValuesIs
      <3>. HIDE DEF x, y
      <3>3. CASE x = y
        BY <3>1, <3>2, <3>3, AsValidSame
      <3>4. CASE Word(x) /\ Word(y) /\ Len(x) <= Len(y)
        BY <3>1, <3>4, AsValidWords
      <3>. QED
        BY <3>3, <3>4 DEF Alike, x, y
    <2>2. CASE c # "BranchName"
      <3>1. part(c, v) = part(c, w)
        BY <2>2 DEF part, OtherwiseSame
      <3>. DEFINE p == part(c, v)
      <3>2. p \in Seq(Dashdot)
        <4>1. Spelled \ ValueNames \subseteq Dashdot
          BY Dashdots
        <4>. QED
          BY <1>1, <4>1, RenderOne
      <3>. HIDE DEF p
      <3>3. AsValid(p, p)
        BY <3>2, AsValidSame
      <3>. QED
        BY <3>1, <3>3 DEF p
    <2>. QED
      BY <2>1, <2>2
  <1>4. ASSUME NEW x \in Seq(Spelled), AsValid(render(x, v), render(x, w)), NEW c \in Spelled
        PROVE  AsValid(render(Append(x, c), v), render(Append(x, c), w))
    <2>1. render(Append(x, c), v) = render(x, v) \o part(c, v)
      BY <1>1, RenderSpelled
    <2>2. render(Append(x, c), w) = render(x, w) \o part(c, w)
      BY <1>1, RenderSpelled
    <2>3. AsValid(part(c, v), part(c, w))
      BY <1>3
    <2>4. AsValid(render(x, v) \o part(c, v), render(x, w) \o part(c, w))
      BY <1>4, <2>3, AsValidConcat
    <2>. QED
      BY <2>1, <2>2, <2>4
  <1>5. T = Seq(Spelled)
    <2>1. T \in SUBSET Seq(Spelled)
      OBVIOUS
    <2>2. ASSUME NEW x \in T, NEW c \in Spelled PROVE Append(x, c) \in T
      <3>1. x \in Seq(Spelled) /\ AsValid(render(x, v), render(x, w))
        OBVIOUS
      <3>2. AsValid(render(Append(x, c), v), render(Append(x, c), w))
        BY <1>4, <3>1
      <3>3. Append(x, c) \in Seq(Spelled)
        BY <3>1, AppendProperties
      <3>. QED
        BY <3>2, <3>3
    <2>. HIDE DEF T
    <2>. QED
      BY <1>2, <2>1, <2>2, SeqInd
  <1>. QED
    BY <1>5

Edges(s) == s # <<>> /\ s[1] \in Alphanumeric /\ Last(s) \in Alphanumeric

LEMMA SubdomainIs ==
    ASSUME NEW s \in Seq(Dashdot), s # <<>>
    PROVE  IsDNS1123Subdomain(s) <=> Len(s) <= MaxHost /\ Edges(s) /\ DotsFlanked(s)
  <1>. DEFINE n == Len(s)
  <1>1. n \in Nat /\ n >= 1 /\ Last(s) = s[n] /\ DOMAIN s = 1..n
    BY Ends, LenProperties DEF Last
  <1>2. \A i \in 1..n : s[i] \in Alphanumeric \cup {"-", "."}
    <2>1. \A i \in 1..n : s[i] \in Dashdot
      BY ElementOfSeq
    <2>. QED
      BY <2>1 DEF Dashdot, Dashed
  <1>3. "." \notin Alphanumeric
    BY Alphabets
  <1>4. ASSUME IsDNS1123Subdomain(s) PROVE Len(s) <= MaxHost /\ Edges(s) /\ DotsFlanked(s)
    <2>1. \A i \in 1..n : s[i] = "." => s[i - 1] \in Alphanumeric /\ s[i + 1] \in Alphanumeric
      BY <1>1, <1>4 DEF IsDNS1123Subdomain
    <2>2. ASSUME NEW i \in 1..(n - 1) PROVE Flanked(s[i], s[i + 1])
      <3>1. i \in 1..n /\ i + 1 \in 1..n /\ (i + 1) - 1 = i
        BY <1>1
      <3>. QED
        BY <2>1, <3>1 DEF Flanked
    <2>3. Len(s) <= MaxHost /\ Edges(s)
      BY <1>4 DEF IsDNS1123Subdomain, Edges
    <2>. QED
      BY <2>2, <2>3 DEF DotsFlanked
  <1>5. ASSUME Len(s) <= MaxHost, Edges(s), DotsFlanked(s) PROVE IsDNS1123Subdomain(s)
    <2>1. s[1] \in Alphanumeric /\ s[n] \in Alphanumeric
      BY <1>1, <1>5 DEF Edges
    <2>2. ASSUME NEW i \in 1..n, s[i] = "."
          PROVE  s[i - 1] \in Alphanumeric /\ s[i + 1] \in Alphanumeric
      <3>1. i # 1 /\ i # n
        BY <1>3, <2>1, <2>2
      <3>. HIDE DEF n
      <3>2. i \in 1..(n - 1) /\ i - 1 \in 1..(n - 1) /\ (i - 1) + 1 = i
        <4>1. n \in Nat
          BY <1>1
        <4>. QED
          BY <3>1, <4>1
      <3>3. Flanked(s[i], s[i + 1]) /\ Flanked(s[i - 1], s[(i - 1) + 1])
        BY <1>5, <3>2 DEF DotsFlanked, n
      <3>. QED
        BY <2>2, <3>2, <3>3 DEF Flanked
    <2>3. s[1] \in Alphanumeric /\ Last(s) \in Alphanumeric
      BY <1>5 DEF Edges
    <2>. QED
      BY <1>1, <1>2, <1>5, <2>2, <2>3 DEF IsDNS1123Subdomain
  <1>. QED
    BY <1>4, <1>5

LEMMA DotsOfLabel ==
    ASSUME NEW z \in Seq(Dashed)
    PROVE  DotsFlanked(z)
  <1>1. SUFFICES ASSUME NEW i \in 1..(Len(z) - 1) PROVE Flanked(z[i], z[i + 1])
    BY DEF DotsFlanked
  <1>2. i \in 1..Len(z) /\ i + 1 \in 1..Len(z)
    OBVIOUS
  <1>3. z[i] \in Dashed /\ z[i + 1] \in Dashed
    BY <1>2, ElementOfSeq
  <1>. QED
    BY <1>3, Dashdots DEF Flanked

(* A hostname is as valid as its label and its domain are.                  *)
LEMMA HostValid ==
    ASSUME NEW z \in Seq(Dashed), NEW y \in Seq(Dashdot), y # <<>>
    PROVE  IsDNS1123Subdomain((z \o <<".">>) \o y)
              <=> Edges(z) /\ Edges(y) /\ DotsFlanked(y) /\ (Len(z) + 1) + Len(y) <= MaxHost
  <1>. DEFINE d == <<".">>
              x == z \o d
              s == x \o y
  <1>1. d \in Seq(Dashdot) /\ d # <<>> /\ Len(d) = 1 /\ d[1] = "." /\ Last(d) = "." /\ DotsFlanked(d)
    BY Dashdots DEF Last, DotsFlanked
  <1>2. z \in Seq(Dashdot)
    BY Dashdots, SeqMonotonic
  <1>. HIDE DEF d
  <1>3. x \in Seq(Dashdot) /\ Len(x) = Len(z) + 1
    <2>1. x \in Seq(Dashdot) /\ Len(x) = Len(z) + Len(d)
      BY <1>1, <1>2, ConcatProperties
    <2>. QED
      BY <1>1, <2>1
  <1>4. x # <<>> /\ Last(x) = "."
    BY <1>1, <1>2, LastConcat
  <1>5. z # <<>> => x[1] = z[1]
    BY <1>1, <1>2, StartConcat
  <1>6. z = <<>> => x[1] = "."
    BY <1>1, ConcatEmptySeq
  <1>7. z # <<>> => (DotsFlanked(x) <=> Last(z) \in Alphanumeric)
    <2>1. SUFFICES ASSUME z # <<>> PROVE DotsFlanked(x) <=> Last(z) \in Alphanumeric
      OBVIOUS
    <2>2. DotsFlanked(x) <=> DotsFlanked(z) /\ DotsFlanked(d) /\ Flanked(Last(z), d[1])
      BY <1>1, <1>2, <2>1, DotsConcat
    <2>3. Last(z) \in Dashed
      BY <2>1, Ends
    <2>4. Flanked(Last(z), ".") <=> Last(z) \in Alphanumeric
      BY <2>3, Dashdots DEF Flanked
    <2>. QED
      BY <1>1, <2>2, <2>4, DotsOfLabel
  <1>. HIDE DEF x
  <1>8. s \in Seq(Dashdot) /\ Len(s) = Len(x) + Len(y)
    BY <1>3, ConcatProperties
  <1>9. s # <<>> /\ s[1] = x[1] /\ Last(s) = Last(y)
    BY <1>3, <1>4, StartConcat, LastConcat
  <1>10. DotsFlanked(s) <=> DotsFlanked(x) /\ DotsFlanked(y) /\ Flanked(".", y[1])
    BY <1>3, <1>4, DotsConcat
  <1>11. Flanked(".", y[1]) <=> y[1] \in Alphanumeric
    BY Alphabets DEF Flanked
  <1>. HIDE DEF s
  <1>12. IsDNS1123Subdomain(s) <=> Len(s) <= MaxHost /\ Edges(s) /\ DotsFlanked(s)
    BY <1>8, <1>9, SubdomainIs
  <1>13. Len(s) = (Len(z) + 1) + Len(y)
    BY <1>3, <1>8
  <1>14. Edges(s) <=> x[1] \in Alphanumeric /\ Last(y) \in Alphanumeric
    BY <1>9 DEF Edges
  <1>15. Edges(y) <=> y[1] \in Alphanumeric /\ Last(y) \in Alphanumeric
    BY DEF Edges
  <1>16. CASE z = <<>>
    BY <1>6, <1>12, <1>14, <1>16, Alphabets DEF Edges, s, x, d
  <1>17. CASE z # <<>>
    <2>1. Edges(z) <=> x[1] \in Alphanumeric /\ DotsFlanked(x)
      BY <1>5, <1>7, <1>17 DEF Edges
    <2>2. IsDNS1123Subdomain(s)
              <=> Edges(z) /\ Edges(y) /\ DotsFlanked(y) /\ (Len(z) + 1) + Len(y) <= MaxHost
      BY <1>10, <1>11, <1>12, <1>13, <1>14, <1>15, <2>1
    <2>. QED
      BY <2>2 DEF s, x, d
  <1>. QED
    BY <1>16, <1>17

(* Texts that differ as much as AsValid allows have the same edges.          *)
LEMMA EdgesAsValid ==
    ASSUME NEW x, NEW y, AsValid(x, y), Edges(x)
    PROVE  Edges(y) /\ Len(x) <= Len(y) /\ (DotsFlanked(x) => DotsFlanked(y))
  BY DEF AsValid, Edges, SameEnds, SameKind

LEMMA SpelledIn ==
    ASSUME NEW t \in Seq(Template), NEW v \in Values(Spaced), rendered(t, v) \in Seq(Dotted)
    PROVE  t \in Seq(Spelled)
  <1>. DEFINE s == rendered(t, v)
              e == RenderedParts(t, v)
              x == <<"Misspelled">>
  <1>1. ASSUME NEW i \in 1..Len(t), t[i] = "Misspelled" PROVE FALSE
    <2>1. "Misspelled" \notin ValueNames /\ "Misspelled" \in HostText /\ "Misspelled" \notin Dotted
      BY TextsOfHosts DEF ValueNames, HostText
    <2>2. e \in Seq(Seq(HostText)) /\ Len(e) = Len(t) /\ s = FlattenSeq(e) /\ s \in Seq(HostText)
      BY RenderedIn
    <2>3. e[i] = IF t[i] \in ValueNames THEN used(t, v)[t[i]] ELSE <<t[i]>>
      BY RenderedIn
    <2>4. s \in Seq(Dotted)
      OBVIOUS
    <2>. HIDE DEF e, s
    <2>5. e[i] = x
      BY <1>1, <2>1, <2>3
    <2>6. Includes(FlattenSeq(e), e[i], HostText)
      BY <2>2, FlattenIncludes
    <2>7. x \in Seq(HostText) /\ Len(x) = 1 /\ x[1] = "Misspelled"
      BY <2>1
    <2>. HIDE DEF x
    <2>8. Within(x, s)
      BY <2>2, <2>5, <2>6, <2>7, IncludesWithin
    <2>9. PICK k \in 0..(Len(s) - Len(x)) : SubSeq(s, k + 1, k + Len(x)) = x
      BY <2>8 DEF Within
    <2>10. k + 1 \in Nat /\ k + 1 >= 1 /\ k + 1 <= Len(s)
      BY <2>4, <2>7, <2>9
    <2>11. SubSeq(s, k + 1, k + 1) \in Seq(Dotted)
      BY <2>4, <2>10, SubSeqIn
    <2>12. x \in Seq(Dotted)
      BY <2>7, <2>9, <2>11
    <2>13. 1 \in 1..Len(x)
      BY <2>7
    <2>14. x[1] \in Dotted
      BY <2>12, <2>13, ElementOfSeq
    <2>. QED
      BY <2>1, <2>7, <2>14
  <1>2. ASSUME NEW i \in 1..Len(t) PROVE t[i] \in Spelled
    <2>1. t[i] \in Template
      BY ElementOfSeq
    <2>. QED
      BY <1>1, <2>1, Dashdots
  <1>. QED
    BY <1>2

SplitAt(l, x, S, a, b) ==
    /\ a \in Seq(S) /\ b \in Seq(S) /\ l = (a \o <<x>>) \o b
    /\ \A i \in 1..Len(a) : a[i] # x

LEMMA FirstSplit ==
    ASSUME NEW S, NEW l \in Seq(S), NEW x, Holds(l, x)
    PROVE  \E a, b : SplitAt(l, x, S, a, b)
  <1>. DEFINE k == Index(l, x)
              n == Len(l)
              a == SubSeq(l, 1, k - 1)
              b == SubSeq(l, k + 1, n)
  <1>1. /\ k \in 0..n
        /\ k = 0 => \A i \in 1..n : l[i] # x
        /\ k # 0 => l[k] = x /\ \A i \in 1..n : i < k => l[i] # x
    BY IndexIs
  <1>2. n \in Nat /\ \E i \in 1..n : l[i] = x
    BY LenProperties DEF Holds
  <1>. HIDE DEF k
  <1>3. k \in 1..n /\ k \in Nat /\ l[k] = x /\ \A i \in 1..n : i < k => l[i] # x
    BY <1>1, <1>2
  <1>4. SubSeq(l, 1, k) = a \o <<x>>
    <2>1. 1 \in 1..Len(l) /\ k \in 1..Len(l)
      BY <1>2, <1>3
    <2>2. SubSeq(l, 1, k) = SubSeq(l, 1, k - 1) \o <<l[k]>>
      BY <2>1, SubSeqRecursiveSecond
    <2>. QED
      BY <1>3, <2>2
  <1>5. SubSeq(l, 1, k) \o b = l
    <2>1. 1 \in 1..(Len(l) + 1) /\ k \in (1 - 1)..Len(l) /\ Len(l) \in k..Len(l)
      BY <1>2, <1>3
    <2>2. SubSeq(l, 1, k) \o SubSeq(l, k + 1, Len(l)) = SubSeq(l, 1, Len(l))
      BY <2>1, ConcatAdjacentSubSeq
    <2>. QED
      BY <2>2, SubSeqFull
  <1>6. k - 1 \in Nat /\ k - 1 <= Len(l) /\ k + 1 \in Nat /\ k + 1 >= 1
    BY <1>2, <1>3
  <1>7. /\ a \in Seq(S) /\ Len(a) = (IF 1 <= k - 1 THEN (k - 1) - 1 + 1 ELSE 0)
        /\ \A i \in 1..((k - 1) - 1 + 1) : a[i] = l[1 + i - 1]
    BY <1>6, SubSeqIn
  <1>8. b \in Seq(S)
    BY <1>2, <1>6, SubSeqIn
  <1>. HIDE DEF a, b
  <1>9. ASSUME NEW i \in 1..Len(a) PROVE a[i] # x
    <2>1. i \in 1..((k - 1) - 1 + 1) /\ 1 + i - 1 = i /\ i \in 1..n /\ i < k
      BY <1>2, <1>3, <1>7
    <2>. QED
      BY <1>3, <1>7, <2>1
  <1>10. SplitAt(l, x, S, a, b)
    BY <1>4, <1>5, <1>7, <1>8, <1>9 DEF SplitAt
  <1>. QED
    BY <1>10

(* Where the name of the branch is shortened, it is to the room it has.      *)
HasShortened(A, b, C, x) ==
    LET r == MaxLength - (Len(A) + Len(C))
    IN  /\ x \in Seq(Dashed)
        /\ Len(b) <= r => x = b
        /\ ~(Len(b) <= r) /\ r > 0 => Word(x) /\ Len(x) <= r
        /\ r <= 0 => x = <<>>

LEMMA ShortenedIs ==
    ASSUME NEW A \in Seq(Dashed), NEW b, Word(b), NEW C \in Seq(Dashed), NEW label,
           label = (A \o b) \o C
    PROVE  HasShortened(A, b, C, shortened(b, label))
  <1>. DEFINE x == shortened(b, label)
              r == MaxLength - (Len(A) + Len(C))
              n == Len(b) - (Len(label) - MaxLength)
              m == IF n > 0 THEN n ELSE 0
              y == SubSeq(b, 1, m)
              X == Character \ {"-"}
  <1>1. b \in Seq(Dashed) /\ b # <<>> /\ b[1] \in Letter
    BY DEF Word
  <1>. DEFINE f == A \o b
  <1>2. f \in Seq(Dashed) /\ Len(f) = Len(A) + Len(b)
    BY <1>1, ConcatProperties
  <1>3. label = f \o C
    OBVIOUS
  <1>. HIDE DEF f
  <1>4. label \in Seq(Dashed) /\ Len(label) = Len(f) + Len(C)
    BY <1>2, <1>3, ConcatProperties
  <1>5. /\ Len(A) \in Nat /\ Len(b) \in Nat /\ Len(b) >= 1 /\ Len(C) \in Nat /\ MaxLength \in Nat
        /\ Len(label) = (Len(A) + Len(b)) + Len(C)
    BY <1>1, <1>2, <1>4, Ends, Lengths
  <1>6. Within(b, label)
    <2>1. Includes(label, b, Dashed)
      BY DEF Includes
    <2>. QED
      BY <1>1, <1>4, <2>1, IncludesWithin
  <1>7. x = IF Len(label) > MaxLength THEN UpTo(y, X) ELSE b
    BY <1>6 DEF shortened
  <1>8. n = r /\ r \in Int /\ (Len(label) > MaxLength <=> ~(Len(b) <= r))
    BY <1>5
  <1>. HIDE DEF x, n, r
  <1>9. CASE Len(b) <= r
    BY <1>1, <1>5, <1>7, <1>8, <1>9 DEF HasShortened, x, r
  <1>10. CASE ~(Len(b) <= r) /\ r > 0
    <2>1. m = r /\ r \in Nat /\ r >= 1 /\ r <= Len(b)
      BY <1>5, <1>8, <1>10
    <2>. HIDE DEF m
    <2>2. /\ y \in Seq(Dashed) /\ Len(y) = (IF 1 <= m THEN m - 1 + 1 ELSE 0)
          /\ \A i \in 1..(m - 1 + 1) : y[i] = b[1 + i - 1]
      BY <1>1, <2>1, SubSeqIn
    <2>. HIDE DEF y
    <2>3. Len(y) = r
      BY <2>1, <2>2
    <2>4. 1 \in 1..(m - 1 + 1) /\ 1 + 1 - 1 = 1
      BY <2>1
    <2>5. y[1] = b[1]
      BY <2>2, <2>4
    <2>6. y # <<>>
      BY <2>1, <2>3, EmptySeq
    <2>7. Letter \subseteq X /\ Dashed \cap X \subseteq Alphanumeric
      BY Alphabets DEF Dashed, Kept
    <2>8. UpTo(y, X) # <<>> /\ UpTo(y, X)[1] = y[1]
      BY <1>1, <2>2, <2>5, <2>6, <2>7, UpToStart
    <2>. DEFINE z == UpTo(y, X)
    <2>9. z \in Seq(Dashed) /\ Len(z) <= Len(y) /\ (z = <<>> \/ Last(z) \in X)
      BY <2>2, UpToSplit, UpToType
    <2>10. z # <<>> /\ z[1] \in Letter
      BY <1>1, <2>5, <2>8
    <2>11. x = z
      BY <1>7, <1>8, <1>10
    <2>. HIDE DEF z, X
    <2>12. Last(z) \in Alphanumeric
      <3>1. Last(z) \in Dashed
        BY <2>9, <2>10, Ends
      <3>. QED
        BY <2>7, <2>9, <2>10, <3>1
    <2>13. Word(x) /\ Len(x) <= r /\ x \in Seq(Dashed)
      BY <2>3, <2>9, <2>10, <2>11, <2>12 DEF Word
    <2>14. ~(r <= 0)
      BY <2>1
    <2>. QED
      BY <1>10, <2>13, <2>14 DEF HasShortened, x, r
  <1>11. CASE r <= 0
    <2>1. m = 0 /\ ~(Len(b) <= r)
      BY <1>5, <1>8, <1>11
    <2>2. y = <<>>
      BY <2>1, SubSeqEmpty
    <2>3. UpTo(<<>>, X) = <<>> /\ <<>> \in Seq(Dashed)
      <3>1. <<>> \in Seq(Dashed)
        BY EmptySeq
      <3>. QED
        BY <3>1, UpToSame
    <2>4. x = <<>>
      BY <1>7, <1>8, <2>1, <2>2, <2>3
    <2>5. ~(r > 0)
      BY <1>8, <1>11
    <2>. QED
      BY <2>1, <2>3, <2>4, <2>5 DEF HasShortened, x, r
  <1>. QED
    BY <1>8, <1>9, <1>10, <1>11

LEMMA LengthOfThree ==
    ASSUME NEW S, NEW a \in Seq(S), NEW b \in Seq(S), NEW c \in Seq(S)
    PROVE  /\ (a \o b) \o c \in Seq(S) /\ Len((a \o b) \o c) = (Len(a) + Len(b)) + Len(c)
           /\ Len(a) \in Nat /\ Len(b) \in Nat /\ Len(c) \in Nat
  <1>. DEFINE f == a \o b
  <1>1. f \in Seq(S) /\ Len(f) = Len(a) + Len(b)
    BY ConcatProperties
  <1>. HIDE DEF f
  <1>2. f \o c \in Seq(S) /\ Len(f \o c) = Len(f) + Len(c)
    BY <1>1, ConcatProperties
  <1>. QED
    BY <1>1, <1>2 DEF f

(* If a letter fits in the place of the branch, so does what is left of it.  *)
LEMMA ShortenedFits ==
    ASSUME NEW A \in Seq(Dashed), NEW C \in Seq(Dashed), NEW q, Word(q), Len(q) = 1,
           NEW b, Word(b), NEW u, u = shortened(q, (A \o q) \o C),
           NEW x, x = shortened(b, (A \o b) \o C), Len((A \o u) \o C) <= MaxLength
    PROVE  Alike(u, x) /\ Len((A \o x) \o C) <= MaxLength
  <1>. DEFINE r == MaxLength - (Len(A) + Len(C))
  <1>1. HasShortened(A, q, C, u)
    BY ShortenedIs
  <1>2. HasShortened(A, b, C, x)
    BY ShortenedIs
  <1>3. /\ u \in Seq(Dashed)
        /\ Len(q) <= r => u = q
        /\ ~(Len(q) <= r) /\ r > 0 => Word(u) /\ Len(u) <= r
        /\ r <= 0 => u = <<>>
    BY <1>1 DEF HasShortened
  <1>4. /\ x \in Seq(Dashed)
        /\ Len(b) <= r => x = b
        /\ ~(Len(b) <= r) /\ r > 0 => Word(x) /\ Len(x) <= r
        /\ r <= 0 => x = <<>>
    BY <1>2 DEF HasShortened
  <1>5. /\ Len((A \o u) \o C) = (Len(A) + Len(u)) + Len(C)
        /\ Len(A) \in Nat /\ Len(u) \in Nat /\ Len(C) \in Nat
    BY <1>3, LengthOfThree
  <1>6. Len((A \o x) \o C) = (Len(A) + Len(x)) + Len(C) /\ Len(x) \in Nat
    BY <1>4, LengthOfThree
  <1>7. MaxLength \in Nat /\ r \in Int
    BY <1>5, Lengths
  <1>8. r >= 0
    BY <1>5, <1>7
  <1>9. b \in Seq(Dashed) /\ b # <<>>
    BY DEF Word
  <1>10. Len(b) \in Nat /\ Len(b) >= 1
    BY <1>9, Ends
  <1>11. CASE r = 0
    <2>1. u = <<>> /\ x = <<>>
      BY <1>3, <1>4, <1>11
    <2>2. Len((A \o x) \o C) <= MaxLength
      BY <2>1
    <2>. QED
      BY <2>1, <2>2 DEF Alike
  <1>12. CASE r > 0
    <2>1. u = q
      BY <1>3, <1>7, <1>12
    <2>2. Word(x) /\ Len(x) <= r
      BY <1>4, <1>7, <1>10, <1>12
    <2>3. Len((A \o x) \o C) <= MaxLength
      BY <1>5, <1>6, <1>7, <2>2
    <2>4. x \in Seq(Dashed) /\ x # <<>>
      BY <2>2 DEF Word
    <2>5. Len(x) >= 1
      BY <2>4, Ends
    <2>. QED
      BY <2>1, <2>2, <2>3, <2>5 DEF Alike
  <1>. QED
    BY <1>7, <1>8, <1>11, <1>12

(* A template that has the branch once has none after it.                   *)
Once(t) == \A i, j \in DOMAIN t : t[i] = "BranchName" /\ t[j] = "BranchName" => i = j

LEMMA OnceSplit ==
    ASSUME NEW S, NEW t \in Seq(S), Once(t), NEW l \in Seq(S), NEW m \in Seq(S),
           t = (l \o <<".">>) \o m, NEW a \in Seq(S), NEW b \in Seq(S),
           l = (a \o <<"BranchName">>) \o b, "." \in S
    PROVE  ~Holds(b, "BranchName")
  <1>. DEFINE d == <<".">>
              e == <<"BranchName">>
              f == a \o e
              g == l \o d
              k == Len(a) + 1
  <1>1. DOMAIN t = 1..Len(t) /\ DOMAIN b = 1..Len(b) /\ Len(a) \in Nat /\ Len(b) \in Nat /\ Len(m) \in Nat
    BY LenProperties
  <1>2. d \in Seq(S) /\ Len(d) = 1
    OBVIOUS
  <1>3. Len(e) = 1 /\ e[1] = "BranchName"
    OBVIOUS
  <1>. DEFINE U == S \cup {"BranchName"}
  <1>4. a \in Seq(U) /\ b \in Seq(U) /\ e \in Seq(U) /\ l \in Seq(U) /\ d \in Seq(U) /\ m \in Seq(U)
    <2>1. S \subseteq U
      OBVIOUS
    <2>2. Seq(S) \subseteq Seq(U)
      BY <2>1, SeqMonotonic
    <2>. QED
      BY <1>2, <2>2
  <1>. HIDE DEF d, e, U
  <1>5. /\ f \in Seq(U) /\ Len(f) = Len(a) + Len(e)
        /\ \A i \in 1..(Len(a) + Len(e)) : f[i] = IF i <= Len(a) THEN a[i] ELSE e[i - Len(a)]
    BY <1>4, ConcatProperties
  <1>6. l = f \o b
    BY DEF f, e
  <1>. HIDE DEF f
  <1>7. /\ Len(l) = Len(f) + Len(b)
        /\ \A i \in 1..(Len(f) + Len(b)) : l[i] = IF i <= Len(f) THEN f[i] ELSE b[i - Len(f)]
    <2>1. f \in Seq(U) /\ b \in Seq(U)
      BY <1>4, <1>5
    <2>. QED
      BY <1>6, <2>1, ConcatProperties
  <1>8. /\ g \in Seq(U) /\ Len(g) = Len(l) + Len(d)
        /\ \A i \in 1..(Len(l) + Len(d)) : g[i] = IF i <= Len(l) THEN l[i] ELSE d[i - Len(l)]
    BY <1>4, ConcatProperties
  <1>9. t = g \o m
    BY DEF g, d
  <1>. HIDE DEF g
  <1>10. /\ Len(t) = Len(g) + Len(m)
         /\ \A i \in 1..(Len(g) + Len(m)) : t[i] = IF i <= Len(g) THEN g[i] ELSE m[i - Len(g)]
    <2>1. g \in Seq(U) /\ m \in Seq(U)
      BY <1>4, <1>8
    <2>. QED
      BY <1>9, <2>1, ConcatProperties
  <1>11. ASSUME NEW i \in 1..Len(l) PROVE i \in DOMAIN t /\ t[i] = l[i]
    <2>1. Len(l) \in Nat
      BY <1>1, <1>3, <1>5, <1>7
    <2>2. i \in 1..(Len(g) + Len(m)) /\ i <= Len(g) /\ i \in 1..(Len(l) + Len(d)) /\ i <= Len(l)
      BY <1>1, <1>2, <1>8, <2>1
    <2>. QED
      BY <1>1, <1>8, <1>10, <2>2
  <1>12. k \in 1..Len(l) /\ l[k] = "BranchName"
    <2>1. k \in 1..(Len(f) + Len(b)) /\ k <= Len(f) /\ k \in 1..(Len(a) + Len(e)) /\ ~(k <= Len(a)) /\ k - Len(a) = 1
      BY <1>1, <1>3, <1>5
    <2>. QED
      BY <1>3, <1>5, <1>7, <2>1
  <1>13. ASSUME NEW i \in 1..Len(b), b[i] = "BranchName" PROVE FALSE
    <2>1. k + i \in 1..(Len(f) + Len(b)) /\ ~(k + i <= Len(f)) /\ (k + i) - Len(f) = i /\ k + i # k
      BY <1>1, <1>3, <1>5
    <2>2. k + i \in 1..Len(l) /\ l[k + i] = "BranchName"
      BY <1>7, <1>13, <2>1
    <2>3. k + i = k
      BY <1>11, <1>12, <2>2 DEF Once
    <2>. QED
      BY <2>1, <2>3
  <1>. QED
    BY <1>1, <1>13 DEF Holds

(* What is rendered before the branch, of the branch, and after it.         *)
LEMMA RenderBranch ==
    ASSUME NEW a \in Seq(Spelled \ {"."}), NEW b \in Seq(Spelled \ {"."}), NEW v \in Values(Dashed)
    PROVE  /\ render((a \o <<"BranchName">>) \o b, v)
                 = (render(a, v) \o v["BranchName"]) \o render(b, v)
           /\ render(a, v) \in Seq(Dashed) /\ render(b, v) \in Seq(Dashed)
  <1>. DEFINE T == Spelled \ {"."}
              e == <<"BranchName">>
              f == a \o e
  <1>1. T \ ValueNames \subseteq Dashed
    BY Dashdots
  <1>2. "BranchName" \in T /\ "BranchName" \in ValueNames
    BY Dashdots DEF ValueNames
  <1>. HIDE DEF T
  <1>3. a \in Seq(T) /\ b \in Seq(T) /\ e \in Seq(T)
    BY <1>2 DEF T
  <1>4. render(<<"BranchName">>, v) = part("BranchName", v)
    BY <1>1, <1>2, RenderOne
  <1>5. render(e, v) = v["BranchName"]
    BY <1>2, <1>4 DEF part
  <1>. HIDE DEF e
  <1>6. f \in Seq(T)
    BY <1>3, ConcatProperties
  <1>7. RendersJoined(a, e, v)
    BY <1>1, <1>3, RenderConcat
  <1>. HIDE DEF f
  <1>8. RendersJoined(f, b, v)
    BY <1>1, <1>3, <1>6, RenderConcat
  <1>9. render(a, v) \in Seq(Dashed) /\ render(b, v) \in Seq(Dashed)
    BY <1>1, <1>3, PartsIn
  <1>. QED
    BY <1>5, <1>7, <1>8, <1>9 DEF RendersJoined, f, e

LEMMA SpelledTypes ==
    /\ Seq(Spelled) \subseteq Seq(Template) /\ Values(Dashed) \subseteq Values(Spaced)
    /\ Seq(Spelled \ {"."}) \subseteq Seq(Spelled) /\ "." \in Spelled
  <1>1. Seq(Spelled) \subseteq Seq(Template)
    BY Dashdots, SeqMonotonic
  <1>2. Seq(Spelled \ {"."}) \subseteq Seq(Spelled)
    BY Dashdots, SeqMonotonic
  <1>3. Values(Dashed) \subseteq Values(Spaced)
    BY Texts DEF Values
  <1>. QED
    BY <1>1, <1>2, <1>3 DEF Spelled

LEMMA UsedIs ==
    ASSUME NEW t \in Seq(Spelled), NEW v \in Values(Dashed), Holds(t, "RandomID")
    PROVE  /\ used(t, v) \in Values(Dashed) /\ OtherwiseSame(used(t, v), v)
           /\ used(t, v)["BranchName"] = shortened(v["BranchName"], Label(render(t, v)))
  <1>. DEFINE l == Label(render(t, v))
              x == shortened(v["BranchName"], l)
  <1>1. render(t, v) \in Seq(HostText)
    BY SpelledTypes, RenderIn
  <1>2. l \in Seq(HostText)
    BY <1>1, LabelSplit
  <1>3. v["BranchName"] \in Seq(Dashed)
    BY ValuesIs
  <1>. HIDE DEF l
  <1>4. x \in Seq(Dashed)
    BY <1>2, <1>3, ShortenedIn
  <1>5. used(t, v) = [v EXCEPT !.BranchName = x]
    BY DEF used, l
  <1>. HIDE DEF x
  <1>6. /\ used(t, v) \in Values(Dashed) /\ used(t, v)["BranchName"] = x
        /\ \A k \in ValueNames \ {"BranchName"} : used(t, v)[k] = v[k]
    BY <1>4, <1>5, ValuesExcept
  <1>. QED
    BY <1>6 DEF OtherwiseSame, x, l

(* With a random ID, a label that fits a single letter fits what is left of  *)
(* any branch.                                                             *)
LEMMA ShortenedLabels ==
    ASSUME NEW t \in Seq(Spelled), Holds(t, "RandomID"), Once(t),
           NEW v \in Values(Dashed), NEW w \in Values(Dashed), OtherwiseSame(v, w),
           Word(v["BranchName"]), Len(v["BranchName"]) = 1, Word(w["BranchName"]),
           InTwo(t, v), InTwo(t, w), Len(render(Label(t), used(t, v))) <= MaxLength
    PROVE  /\ Alike(used(t, v)["BranchName"], used(t, w)["BranchName"])
           /\ Len(render(Label(t), used(t, w))) <= MaxLength
  <1>. DEFINE l == Label(t)
              m == Domain(t)
              x == used(t, v)
              y == used(t, w)
              T == Spelled \ {"."}
  <1>1. x \in Values(Dashed) /\ OtherwiseSame(x, v) /\ x["BranchName"] = shortened(v["BranchName"], render(l, v))
    BY UsedIs DEF InTwo
  <1>2. y \in Values(Dashed) /\ OtherwiseSame(y, w) /\ y["BranchName"] = shortened(w["BranchName"], render(l, w))
    BY UsedIs DEF InTwo
  <1>3. l \in Seq(T) /\ l \in Seq(Spelled) /\ m \in Seq(Spelled) /\ t = (l \o <<".">>) \o m
    BY LabelSplit DEF InTwo
  <1>4. Len(render(l, x)) <= MaxLength
    OBVIOUS
  <1>5. OtherwiseSame(x, w) /\ OtherwiseSame(v, y) /\ OtherwiseSame(v, x)
    BY <1>1, <1>2 DEF OtherwiseSame
  <1>. HIDE DEF l, m, x, y, T
  <1>6. CASE Holds(l, "BranchName")
    <2>1. PICK a, b : SplitAt(l, "BranchName", T, a, b)
      BY <1>3, <1>6, FirstSplit
    <2>2. a \in Seq(T) /\ b \in Seq(T) /\ l = (a \o <<"BranchName">>) \o b /\ \A i \in 1..Len(a) : a[i] # "BranchName"
      BY <2>1 DEF SplitAt
    <2>3. a \in Seq(Spelled) /\ b \in Seq(Spelled) /\ "." \in Spelled
      BY <2>2, SpelledTypes DEF T
    <2>4. ~Holds(a, "BranchName")
      BY <2>2, LenProperties DEF Holds
    <2>5. ~Holds(b, "BranchName")
      BY <1>3, <2>2, <2>3, OnceSplit
    <2>. DEFINE A == render(a, v)
                C == render(b, v)
    <2>6. render(a, w) = A /\ render(b, w) = C
      BY <2>4, <2>5, RenderSame
    <2>7. render(a, x) = A /\ render(b, x) = C
      BY <1>1, <1>5, <2>4, <2>5, RenderSame
    <2>8. render(a, y) = A /\ render(b, y) = C
      BY <1>2, <1>5, <2>4, <2>5, RenderSame
    <2>9. A \in Seq(Dashed) /\ C \in Seq(Dashed) /\ render(l, v) = (A \o v["BranchName"]) \o C
      BY <2>2, RenderBranch DEF T
    <2>10. render(l, w) = (A \o w["BranchName"]) \o C
      BY <2>2, <2>6, RenderBranch DEF T
    <2>11. render(l, x) = (A \o x["BranchName"]) \o C
      BY <1>1, <2>2, <2>7, RenderBranch DEF T
    <2>12. render(l, y) = (A \o y["BranchName"]) \o C
      BY <1>2, <2>2, <2>8, RenderBranch DEF T
    <2>. HIDE DEF A, C
    <2>13. /\ x["BranchName"] = shortened(v["BranchName"], (A \o v["BranchName"]) \o C)
           /\ y["BranchName"] = shortened(w["BranchName"], (A \o w["BranchName"]) \o C)
           /\ Len((A \o x["BranchName"]) \o C) <= MaxLength
      BY <1>1, <1>2, <1>4, <2>9, <2>10, <2>11
    <2>14. /\ Alike(x["BranchName"], y["BranchName"])
           /\ Len((A \o y["BranchName"]) \o C) <= MaxLength
      BY <2>9, <2>13, ShortenedFits
    <2>. QED
      BY <2>12, <2>14 DEF x, y, l
  <1>7. CASE ~Holds(l, "BranchName")
    <2>1. render(l, w) = render(l, v) /\ render(l, x) = render(l, v) /\ render(l, y) = render(l, v)
      BY <1>1, <1>2, <1>5, <1>7, RenderSame
    <2>2. render(l, v) \in Seq(Dashed)
      BY DEF InTwo, l
    <2>3. ~(Len(render(l, v)) > MaxLength)
      BY <1>4, <2>1, <2>2, Lengths
    <2>4. x["BranchName"] = v["BranchName"] /\ y["BranchName"] = w["BranchName"]
      BY <1>1, <1>2, <2>1, <2>3 DEF shortened
    <2>5. Len(v["BranchName"]) <= Len(w["BranchName"])
      <3>1. w["BranchName"] \in Seq(Dashed) /\ w["BranchName"] # <<>>
        BY DEF Word
      <3>. QED
        BY <3>1, Ends
    <2>6. Alike(x["BranchName"], y["BranchName"])
      BY <2>4, <2>5 DEF Alike
    <2>. QED
      BY <1>4, <2>1, <2>6 DEF x, y, l
  <1>. QED
    BY <1>6, <1>7

(* Without a random ID, a label is cut.                                     *)
LEMMA CutIs ==
    ASSUME NEW t, ~Holds(t, "RandomID"), NEW x \in Seq(Dashed)
    PROVE  /\ fit(t, x) = IF Len(x) <= MaxLength THEN x ELSE normalize(first(x, MaxLength))
           /\ fit(t, x) \in Seq(Dashed) /\ Len(fit(t, x)) <= MaxLength
           /\ ~(Len(x) <= MaxLength) /\ HasLetter(first(x, MaxLength)) => Edges(fit(t, x))
  <1>. DEFINE y == first(x, MaxLength)
  <1>1. Len(x) \in Nat /\ MaxLength \in Nat
    BY Lengths
  <1>2. y \in Seq(Dashed)
    BY <1>1, FirstIn
  <1>3. y \in Seq(Solid) /\ y \in Seq(Character)
    BY <1>2, Texts
  <1>4. ~(Len(x) <= MaxLength) => SubSeq(x, 1, MaxLength) = y
    BY <1>1 DEF first
  <1>5. fit(t, x) = IF Len(x) <= MaxLength THEN x ELSE normalize(y)
    BY <1>4 DEF fit
  <1>. HIDE DEF y
  <1>6. /\ normalize(y) \in Seq(Dashed) /\ Len(normalize(y)) <= MaxLength
        /\ normalize(y) # <<>> => normalize(y)[1] \in Letter /\ Last(normalize(y)) \in Alphanumeric
    BY <1>3, NormalizeDashed, NormalizeIn
  <1>7. HasLetter(y) => normalize(y) # <<>>
    BY <1>3, NormalizeNotEmpty
  <1>8. HasLetter(y) => Edges(normalize(y))
    BY <1>6, <1>7, Alphabets DEF Edges
  <1>9. CASE Len(x) <= MaxLength
    BY <1>5, <1>9 DEF y
  <1>10. CASE ~(Len(x) <= MaxLength)
    BY <1>5, <1>6, <1>8, <1>10 DEF y
  <1>. QED
    BY <1>9, <1>10

LEMMA CutLabels ==
    ASSUME NEW t, ~Holds(t, "RandomID"), NEW l \in Seq(Spelled \ {"."}),
           NEW v \in Values(Dashed), NEW w \in Values(Dashed), OtherwiseSame(v, w),
           Word(v["BranchName"]), Len(v["BranchName"]) = 1, Word(w["BranchName"]),
           Edges(fit(t, render(l, v)))
    PROVE  Edges(fit(t, render(l, w)))
  <1>. DEFINE T == Spelled \ {"."}
              x == render(l, v)
              y == render(l, w)
              M == MaxLength
  <1>1. x \in Seq(Dashed) /\ y \in Seq(Dashed)
    BY Dashdots, PartsIn
  <1>2. AsValid(x, y)
    <2>1. w["BranchName"] \in Seq(Dashed) /\ w["BranchName"] # <<>>
      BY DEF Word
    <2>2. Len(v["BranchName"]) <= Len(w["BranchName"])
      BY <2>1, Ends
    <2>3. Alike(v["BranchName"], w["BranchName"])
      BY <2>2 DEF Alike
    <2>4. l \in Seq(Spelled)
      BY SpelledTypes
    <2>. QED
      BY <2>3, <2>4, RenderAsValid
  <1>3. Len(x) <= Len(y)
    BY <1>2 DEF AsValid
  <1>4. Len(x) \in Nat /\ Len(y) \in Nat /\ M \in Nat
    BY <1>1, Lengths
  <1>. HIDE DEF T
  <1>5. CASE Holds(l, "BranchName")
    <2>1. PICK a, b : SplitAt(l, "BranchName", T, a, b)
      BY <1>5, FirstSplit DEF T
    <2>2. a \in Seq(T) /\ b \in Seq(T) /\ l = (a \o <<"BranchName">>) \o b /\ \A i \in 1..Len(a) : a[i] # "BranchName"
      BY <2>1 DEF SplitAt
    <2>3. ~Holds(a, "BranchName")
      BY <2>2, LenProperties DEF Holds
    <2>. DEFINE A == render(a, v)
                p == v["BranchName"]
                q == w["BranchName"]
                B == render(b, v)
                C == render(b, w)
                f == A \o p
                g == A \o q
    <2>4. render(a, w) = A
      BY <2>3, RenderSame
    <2>5. A \in Seq(Dashed) /\ B \in Seq(Dashed) /\ x = f \o B
      BY <2>2, RenderBranch DEF T
    <2>6. C \in Seq(Dashed) /\ y = g \o C
      <3>1. /\ render((a \o <<"BranchName">>) \o b, w)
                  = (render(a, w) \o w["BranchName"]) \o render(b, w)
            /\ render(a, w) \in Seq(Dashed) /\ render(b, w) \in Seq(Dashed)
        BY <2>2, RenderBranch DEF T
      <3>. QED
        BY <2>2, <2>4, <3>1
    <2>7. p \in Seq(Dashed) /\ q \in Seq(Dashed) /\ q # <<>> /\ q[1] \in Letter
      BY DEF Word
    <2>. HIDE DEF A, B, C, p, q, x, y, M
    <2>8. f \in Seq(Dashed) /\ f = A \o p
      BY <2>5, <2>7, ConcatProperties
    <2>9. /\ g \in Seq(Dashed) /\ Len(g) = Len(A) + Len(q)
          /\ \A i \in 1..(Len(A) + Len(q)) : g[i] = IF i <= Len(A) THEN A[i] ELSE q[i - Len(A)]
      BY <2>5, <2>7, ConcatProperties
    <2>10. Len(A) \in Nat /\ Len(q) \in Nat /\ Len(q) >= 1
      BY <2>5, <2>7, Ends
    <2>11. CASE M <= Len(A)
      <3>1. first(f, M) = first(A, M) /\ first(g, M) = first(A, M)
        BY <1>4, <2>5, <2>7, <2>11, FirstConcat
      <3>2. Len(f) = Len(A) + Len(p) /\ Len(p) = 1
        BY <2>5, <2>7, ConcatProperties DEF p
      <3>3. M <= Len(f) /\ M <= Len(g)
        BY <1>4, <2>9, <2>10, <2>11, <3>2
      <3>. HIDE DEF f, g
      <3>4. first(x, M) = first(f, M)
        BY <1>4, <2>5, <2>8, <3>3, FirstConcat
      <3>5. first(y, M) = first(g, M)
        BY <1>4, <2>6, <2>9, <3>3, FirstConcat
      <3>6. Len(x) = Len(f) + Len(B) /\ Len(B) \in Nat
        BY <2>5, <2>8, ConcatProperties
      <3>7. ~(Len(x) <= M) /\ ~(Len(y) <= M)
        <4>1. Len(f) \in Nat /\ Len(f) > M
          BY <1>4, <2>10, <2>11, <3>2
        <4>2. Len(x) > M
          BY <1>4, <3>6, <4>1
        <4>. QED
          BY <1>3, <1>4, <4>2
      <3>8. fit(t, x) = normalize(first(x, M)) /\ fit(t, y) = normalize(first(y, M))
        BY <1>1, <3>7, CutIs DEF M
      <3>. QED
        BY <3>1, <3>4, <3>5, <3>8 DEF x, y
    <2>12. CASE ~(M <= Len(A)) /\ Len(y) <= M
      <3>1. Len(x) <= M
        BY <1>3, <1>4, <2>12
      <3>2. fit(t, x) = x /\ fit(t, y) = y
        BY <1>1, <2>12, <3>1, CutIs DEF M
      <3>3. Edges(x)
        BY <3>2 DEF x
      <3>4. Edges(y)
        BY <1>2, <3>3, EdgesAsValid DEF x, y
      <3>. QED
        BY <3>2, <3>4 DEF y
    <2>13. CASE ~(M <= Len(A)) /\ ~(Len(y) <= M)
      <3>. DEFINE k == Len(A) + 1
                  z == first(y, M)
      <3>1. k \in 1..(Len(A) + Len(q)) /\ ~(k <= Len(A)) /\ k - Len(A) = 1 /\ k \in 1..Len(g) /\ k <= M
        BY <1>4, <2>9, <2>10, <2>13
      <3>2. g[k] \in Letter
        BY <2>7, <2>9, <3>1
      <3>. HIDE DEF g
      <3>3. /\ Len(y) = Len(g) + Len(C)
            /\ \A i \in 1..(Len(g) + Len(C)) : y[i] = IF i <= Len(g) THEN g[i] ELSE C[i - Len(g)]
        <4>1. g \in Seq(Dashed) /\ C \in Seq(Dashed)
          BY <2>6, <2>9
        <4>. QED
          BY <2>6, <4>1, ConcatProperties
      <3>4. y[k] \in Letter
        <4>1. k \in 1..(Len(g) + Len(C)) /\ k <= Len(g)
          BY <2>6, <2>9, <2>10, <3>1
        <4>. QED
          BY <3>2, <3>3, <4>1
      <3>5. Len(z) = M /\ \A i \in 1..M : z[i] = y[i]
        BY <1>1, <1>4, <2>13, FirstIn
      <3>. HIDE DEF z
      <3>6. k \in 1..M
        BY <1>4, <2>10, <3>1
      <3>7. HasLetter(z)
        BY <3>4, <3>5, <3>6 DEF HasLetter
      <3>8. Edges(fit(t, y))
        BY <1>1, <2>13, <3>7, CutIs DEF z, M
      <3>. QED
        BY <3>8 DEF y
    <2>. QED
      BY <2>11, <2>12, <2>13
  <1>6. CASE ~Holds(l, "BranchName")
    <2>1. x = y
      BY <1>6, RenderSame
    <2>. QED
      BY <2>1
  <1>. QED
    BY <1>5, <1>6

LEMMA NoDomain ==
    ASSUME NEW S, NEW s \in Seq(S), "." \notin S
    PROVE  Domain(s) = <<>>
  <1>1. Index(s, ".") = 0
    <2>1. /\ Index(s, ".") \in 0..Len(s)
          /\ Index(s, ".") # 0 => s[Index(s, ".")] = "."
      BY IndexIs
    <2>2. Len(s) \in Nat
      OBVIOUS
    <2>3. ASSUME Index(s, ".") # 0 PROVE FALSE
      <3>1. Index(s, ".") \in 1..Len(s)
        BY <2>1, <2>2, <2>3
      <3>2. s[Index(s, ".")] \in S
        BY <3>1, ElementOfSeq
      <3>. QED
        BY <2>1, <2>3, <3>2
    <2>. QED
      BY <2>3
  <1>2. Label(s) = s
    BY <1>1 DEF Label
  <1>3. Domain(s) = SubSeq(s, Len(s) + 2, Len(s))
    BY <1>2 DEF Domain
  <1>. QED
    BY <1>3, SubSeqEmpty

LEMMA NotNoName ==
    ASSUME NEW s \in Seq(Character)
    PROVE  s # NoName
  <1>1. "error" \notin Character
    BY CharacterAssumption
  <1>2. NoName \notin Seq(Character)
    <2>1. SUFFICES ASSUME NoName \in Seq(Character) PROVE FALSE
      OBVIOUS
    <2>2. Len(NoName) = 1 /\ NoName[1] = "error"
      BY DEF NoName
    <2>3. 1 \in 1..Len(NoName)
      BY <2>2
    <2>4. NoName[1] \in Character
      BY <2>1, <2>3, ElementOfSeq
    <2>. QED
      BY <1>1, <2>2, <2>4
  <1>. QED
    BY <1>2

LEMMA HostFound ==
    ASSUME NEW t, NEW s \in Seq(Dashdot), NEW z \in Seq(Dashed), z = fit(t, Label(s)),
           Domain(s) # <<>>, IsDNS1123Subdomain((z \o <<".">>) \o Domain(s))
    PROVE  splitHost(t, s) # NoName
  <1>. DEFINE d == Domain(s)
              h == (z \o <<".">>) \o d
  <1>1. ~Holds(s, "Misspelled")
    <2>1. "Misspelled" \notin Dashdot
      BY CharacterAssumption, Dashdots DEF Variable
    <2>2. \A i \in 1..Len(s) : s[i] \in Dashdot
      BY ElementOfSeq
    <2>. QED
      BY <2>1, <2>2, LenProperties DEF Holds
  <1>2. d \in Seq(Dashdot)
    BY LabelSplit
  <1>3. splitHost(t, s) = validHost(z, d)
    BY <1>1 DEF splitHost
  <1>. HIDE DEF d
  <1>4. h \in Seq(Character) /\ z \in Seq(Character)
    <2>1. <<".">> \in Seq(Dashdot) /\ z \in Seq(Dashdot)
      BY Dashdots, SeqMonotonic
    <2>2. h \in Seq(Dashdot)
      BY <1>2, <2>1, LengthOfThree
    <2>. HIDE DEF h
    <2>. QED
      BY <2>1, <2>2, Dashdots, SeqMonotonic
  <1>. HIDE DEF h
  <1>5. z # NoName /\ h # NoName
    BY <1>4, NotNoName
  <1>6. validHost(z, d) = h
    BY <1>5 DEF validHost, h, d
  <1>. QED
    BY <1>3, <1>5, <1>6

LEMMA BranchWord ==
    ASSUME NEW b \in Seq(Solid), normalize(b) # <<>>
    PROVE  Word(normalize(b))
  <1>1. b \in Seq(Character)
    BY Texts
  <1>. QED
    BY <1>1, NormalizeDashed, NormalizeIn DEF Word

LEMMA LetterWord ==
    ASSUME NEW c \in Letter
    PROVE  <<c>> \in Seq(Solid) /\ Word(normalize(<<c>>)) /\ Len(normalize(<<c>>)) = 1
  <1>. DEFINE s == <<c>>
              n == once(s)
  <1>1. s \in Seq(Solid) /\ Len(s) = 1 /\ s[1] = c
    <2>1. c \in Solid
      BY Alphabets
    <2>. QED
      BY <2>1
  <1>. HIDE DEF s
  <1>2. s \in Seq(Character)
    BY <1>1, Texts
  <1>3. HasLetter(s)
    <2>1. 1 \in 1..Len(s)
      BY <1>1
    <2>. QED
      BY <1>1, <2>1 DEF HasLetter
  <1>4. normalize(s) # <<>>
    BY <1>1, <1>3, NormalizeNotEmpty
  <1>5. n \in Seq(Spaced) /\ Len(n) <= 1
    BY <1>1, <1>2, OnceIn
  <1>6. normalize(s) = cut(n)
    BY DEF normalize
  <1>. HIDE DEF n
  <1>7. cut(n) = n
    <2>1. Len(n) \in Nat /\ MaxLength \in Nat \ {0}
      BY <1>5, Lengths
    <2>2. ~(Len(n) > MaxLength)
      BY <1>5, <2>1
    <2>. QED
      BY <2>2 DEF cut
  <1>8. Len(n) >= 1
    BY <1>4, <1>5, <1>6, <1>7, Ends
  <1>9. Len(normalize(s)) = 1
    <2>1. Len(n) \in Nat /\ Len(n) <= 1 /\ Len(n) >= 1
      BY <1>5, <1>8
    <2>2. \A k \in Nat : k <= 1 /\ k >= 1 => k = 1
      OBVIOUS
    <2>3. Len(n) = 1
      BY <2>1, <2>2
    <2>. QED
      BY <1>6, <1>7, <2>3
  <1>10. Word(normalize(s))
    BY <1>1, <1>4, BranchWord
  <1>. QED
    BY <1>1, <1>9, <1>10 DEF s

LEMMA LongHost ==
    ASSUME NEW t \in Seq(Spelled), Holds(t, "RandomID") => Once(t),
           NEW v \in Values(Dashed), NEW w \in Values(Dashed), OtherwiseSame(v, w),
           Word(v["BranchName"]), Len(v["BranchName"]) = 1, Word(w["BranchName"]),
           NEW g, IsHostOf(g, t, rendered(t, v)),
           (MaxLength + 1) + Len(Domain(rendered(t, w))) <= MaxHost
    PROVE  splitHost(t, rendered(t, w)) # NoName
  <1>. DEFINE l == Label(t)
              m == Domain(t)
              x == used(t, v)
              y == used(t, w)
              lx == render(l, x)
              ly == render(l, y)
              mx == render(m, x)
              my == render(m, y)
              zx == fit(t, lx)
              zy == fit(t, ly)
  <1>1. rendered(t, v) = render(t, x) /\ rendered(t, w) = render(t, y)
    BY DEF rendered, used
  <1>2. x \in Values(Dashed) /\ y \in Values(Dashed) /\ OtherwiseSame(x, y)
    <2>1. CASE Holds(t, "RandomID")
      BY <2>1, UsedIs DEF OtherwiseSame
    <2>2. CASE ~Holds(t, "RandomID")
      BY <2>2 DEF used
    <2>. QED
      BY <2>1, <2>2
  <1>. HIDE DEF x, y
  <1>3. /\ fit(t, Label(render(t, x))) # NoName /\ Domain(render(t, x)) # <<>>
        /\ g = (fit(t, Label(render(t, x))) \o <<".">>) \o Domain(render(t, x))
        /\ IsDNS1123Subdomain(g)
    BY <1>1 DEF IsHostOf
  <1>4. t \notin Seq(Spelled \ {"."})
    <2>1. SUFFICES ASSUME t \in Seq(Spelled \ {"."}) PROVE FALSE
      OBVIOUS
    <2>2. render(t, x) \in Seq(Dashed)
      BY <1>2, <2>1, Dashdots, PartsIn
    <2>3. Domain(render(t, x)) = <<>>
      BY <2>2, Dashdots, NoDomain
    <2>. QED
      BY <1>3, <2>3
  <1>5. InTwo(t, v) /\ InTwo(t, w) /\ InTwo(t, x) /\ InTwo(t, y)
    BY <1>2, <1>4, RenderSplit
  <1>6. /\ lx \in Seq(Dashed) /\ mx \in Seq(Dashdot)
        /\ Label(render(t, x)) = lx /\ Domain(render(t, x)) = mx
    BY <1>5 DEF InTwo
  <1>7. /\ ly \in Seq(Dashed) /\ my \in Seq(Dashdot)
        /\ Label(render(t, y)) = ly /\ Domain(render(t, y)) = my
    BY <1>5 DEF InTwo
  <1>8. l \in Seq(Spelled \ {"."}) /\ l \in Seq(Spelled) /\ m \in Seq(Spelled)
    BY LabelSplit
  <1>9. Alike(v["BranchName"], w["BranchName"])
    <2>1. w["BranchName"] \in Seq(Dashed) /\ w["BranchName"] # <<>>
      BY DEF Word
    <2>2. Len(v["BranchName"]) <= Len(w["BranchName"])
      BY <2>1, Ends
    <2>. QED
      BY <2>2 DEF Alike
  <1>. HIDE DEF l, m, lx, ly, mx, my
  <1>10. mx # <<>> /\ zx # NoName /\ IsDNS1123Subdomain((zx \o <<".">>) \o mx)
    BY <1>3, <1>6
  <1>11. /\ Alike(x["BranchName"], y["BranchName"])
         /\ zx \in Seq(Dashed) /\ zy \in Seq(Dashed) /\ Len(zy) <= MaxLength
         /\ Edges(zx) => Edges(zy)
    <2>1. CASE Holds(t, "RandomID")
      <3>1. Len(lx) <= MaxLength /\ zx = lx
        BY <1>10, <2>1 DEF fit
      <3>2. Alike(x["BranchName"], y["BranchName"]) /\ Len(ly) <= MaxLength
        BY <1>5, <2>1, <3>1, ShortenedLabels DEF lx, ly, x, y, l
      <3>3. zy = ly
        BY <3>2 DEF fit
      <3>4. AsValid(lx, ly)
        BY <1>2, <1>8, <3>2, RenderAsValid DEF lx, ly
      <3>5. Edges(lx) => Edges(ly)
        BY <3>4, EdgesAsValid
      <3>. HIDE DEF zx, zy
      <3>. QED
        BY <1>6, <1>7, <3>1, <3>2, <3>3, <3>5
    <2>2. CASE ~Holds(t, "RandomID")
      <3>1. x = v /\ y = w
        BY <2>2 DEF x, y, used
      <3>2. Alike(x["BranchName"], y["BranchName"])
        BY <1>9, <3>1
      <3>3. zx \in Seq(Dashed)
        BY <1>6, <2>2, CutIs
      <3>4. zy \in Seq(Dashed) /\ Len(zy) <= MaxLength
        BY <1>7, <2>2, CutIs
      <3>5. Edges(zx) => Edges(zy)
        BY <1>8, <2>2, <3>1, CutLabels DEF lx, ly
      <3>. QED
        BY <3>2, <3>3, <3>4, <3>5
    <2>. QED
      BY <2>1, <2>2
  <1>. HIDE DEF zx, zy
  <1>12. Edges(zx) /\ Edges(mx) /\ DotsFlanked(mx)
    BY <1>6, <1>10, <1>11, HostValid
  <1>13. AsValid(mx, my)
    BY <1>2, <1>8, <1>11, RenderAsValid DEF mx, my
  <1>14. Edges(my) /\ DotsFlanked(my)
    BY <1>12, <1>13, EdgesAsValid
  <1>15. my # <<>>
    BY <1>14 DEF Edges
  <1>16. (Len(zy) + 1) + Len(my) <= MaxHost
    <2>1. (MaxLength + 1) + Len(my) <= MaxHost
      BY <1>1, <1>7
    <2>2. Len(zy) \in Nat /\ Len(my) \in Nat /\ MaxLength \in Nat /\ MaxHost \in Nat
      BY <1>7, <1>11, Lengths
    <2>. QED
      BY <1>11, <2>1, <2>2
  <1>17. IsDNS1123Subdomain((zy \o <<".">>) \o my)
    BY <1>7, <1>11, <1>12, <1>14, <1>15, <1>16, HostValid
  <1>18. render(t, y) \in Seq(Dashdot)
    <2>1. y \in Values(Dashdot)
      <3>1. Seq(Dashed) \subseteq Seq(Dashdot)
        BY Dashdots, SeqMonotonic
      <3>. QED
        BY <1>2, <3>1 DEF Values
    <2>. QED
      BY <2>1, Dashdots, PartsIn
  <1>19. zy = fit(t, Label(render(t, y)))
    BY <1>7 DEF zy
  <1>20. splitHost(t, render(t, y)) # NoName
    BY <1>7, <1>11, <1>15, <1>17, <1>18, <1>19, HostFound
  <1>. QED
    BY <1>1, <1>20

LEMMA ValuesOfSolid ==
    ASSUME NEW d \in Seq(Solid), NEW b \in Seq(Solid), NEW id \in Seq(Alphanumeric)
    PROVE  valuesOf(d, b, id) \in Values(Dashed)
  <1>1. normalize(b) \in Seq(Dashed) /\ normalize(d) \in Seq(Dashed) /\ normalize(App) \in Seq(Dashed)
    BY NormalizeDashed, AppIn
  <1>2. id \in Seq(Dashed)
    BY Alphabets, SeqMonotonic
  <1>. QED
    BY <1>1, <1>2 DEF valuesOf, Values

(* No branch is too long for a hostname that has room for a single letter:   *)
(* what is left of it fits where the letter does, starts and ends with a     *)
(* letter or digit, and leaves the rest of the hostname as it is; without a  *)
(* random ID the label is cut, and never to nothing.  Deployments have no    *)
(* spaces in their names (GetHostnameFromTemplate).                          *)
THEOREM LongBranchesHaveHosts ==
    ASSUME NoSpaces
    PROVE  Spec => []LongBranches
  <1>1. Typed => LongBranches
    <2>. DEFINE H(b, id) == GetHostnameFromTemplate(template, deployment.name, b, id)
    <2>1. SUFFICES ASSUME Typed, NEW id \in RandomIDs, NEW c \in Letter, H(<<c>>, id) # NoName,
                          normalize(branch) # <<>>, HasRoom(template, deployment.name, branch, id)
                   PROVE  H(branch, id) # NoName
      BY DEF LongBranches
    <2>. DEFINE t == template
                d == deployment.name
                b == <<c>>
                v == valuesOf(d, b, id)
                w == valuesOf(d, branch, id)
    <2>2. t \in Seq(Template) /\ d \in Seq(Solid) /\ branch \in Seq(Solid)
      BY <2>1, DeploymentIn, BranchIn DEF Typed, template, Template, NoSpaces
    <2>3. id \in Seq(Alphanumeric)
      BY IDsIn
    <2>4. b \in Seq(Solid) /\ Word(normalize(b)) /\ Len(normalize(b)) = 1
      BY LetterWord
    <2>5. Word(normalize(branch))
      BY <2>1, <2>2, BranchWord
    <2>6. d \in Seq(Character) /\ branch \in Seq(Character) /\ b \in Seq(Character)
      BY <2>2, <2>4, Texts
    <2>7. H(b, id) # NoName /\ HasRoom(t, d, branch, id)
      BY <2>1
    <2>. HIDE DEF t, d, b
    <2>8. IsHostOf(H(b, id), t, rendered(t, v))
      BY <2>2, <2>3, <2>6, <2>7, HostnameIs DEF t, d
    <2>9. v \in Values(Dashed) /\ w \in Values(Dashed)
      BY <2>2, <2>3, <2>4, ValuesOfSolid
    <2>10. /\ v["RandomID"] = id /\ v["BranchName"] = normalize(b)
           /\ v["ReviewAppConfig"] = normalize(App) /\ v["DeploymentName"] = normalize(d)
      BY <2>3, <2>6, ValuesOfIn
    <2>11. /\ w["RandomID"] = id /\ w["BranchName"] = normalize(branch)
           /\ w["ReviewAppConfig"] = normalize(App) /\ w["DeploymentName"] = normalize(d)
      BY <2>3, <2>6, ValuesOfIn
    <2>12. (Holds(t, "RandomID") => Once(t)) /\ (MaxLength + 1) + Len(Domain(rendered(t, w))) <= MaxHost
      BY <2>7 DEF HasRoom, Once
    <2>13. H(branch, id) = splitHost(t, rendered(t, w))
      BY <2>7 DEF GetHostnameFromTemplate, t, d
    <2>. HIDE DEF v, w, H
    <2>14. OtherwiseSame(v, w)
      BY <2>10, <2>11 DEF OtherwiseSame, ValueNames
    <2>15. t \in Seq(Spelled)
      <3>1. rendered(t, v) \in Seq(Dotted)
        BY <2>8 DEF IsHostOf
      <3>. QED
        BY <2>2, <2>9, <3>1, SpelledTypes, SpelledIn
    <2>16. Word(v["BranchName"]) /\ Len(v["BranchName"]) = 1 /\ Word(w["BranchName"])
      BY <2>4, <2>5, <2>10, <2>11
    <2>17. splitHost(t, rendered(t, w)) # NoName
      BY <2>8, <2>9, <2>12, <2>14, <2>15, <2>16, LongHost
    <2>18. H(branch, id) # NoName
      BY <2>13, <2>17
    <2>. QED
      BY <2>18 DEF H
  <1>. QED
    BY <1>1, AlwaysTyped, PTL

-----------------------------------------------------------------------------
(* Why deployments may have no space in their names.                       *)

LEMMA LowerSpaced ==
    ASSUME NEW s \in Seq(Spaced)
    PROVE  lower(s) = s
  <1>1. s \in Seq(Character)
    BY Texts
  <1>. DEFINE l == lower(s)
  <1>2. /\ l \in Seq(Character) /\ Len(l) = Len(s)
        /\ \A i \in 1..Len(s) : l[i] = IF s[i] \in Upper THEN lowercase[s[i]] ELSE s[i]
    BY <1>1, LowerIs
  <1>. HIDE DEF l
  <1>3. ASSUME NEW i \in 1..Len(l) PROVE l[i] = s[i]
    <2>1. s[i] \in Spaced
      BY <1>2, ElementOfSeq
    <2>2. Spaced \subseteq Kept
      BY DEF Spaced, Dashed, Kept, Separator
    <2>3. s[i] \notin Upper
      BY <2>1, <2>2, Alphabets
    <2>. QED
      BY <1>2, <2>3
  <1>4. l = s
    BY <1>1, <1>2, <1>3, SeqEqual
  <1>. QED
    BY <1>4 DEF l

(* Spaces inside of a name stay: what conforms to the restrictions but for  *)
(* its spaces is normalized to itself, and so is neither a name of Services *)
(* and Deployments nor the value of a label (normalize).  This is why       *)
(* NoSpaces is a hypothesis of the theorems about names.                    *)
THEOREM SpacesAreKept ==
    ASSUME NEW s \in Seq(Spaced), NoDoubleDash(s), s # <<>>, Len(s) <= MaxLength,
           s[1] \in Letter, Last(s) \in Alphanumeric
    PROVE  /\ normalize(s) = s
           /\ (\E i \in DOMAIN s : s[i] = " ") => ~IsLabel(normalize(s))
  <1>1. s \in Seq(Character) /\ s \in Seq(Kept)
    BY Texts
  <1>2. {s[1], Last(s)} \subseteq Character \ {" "}
    BY Alphabets DEF Solid, Dashed
  <1>3. TrimSpace(s) = s
    <2>1. From(s, Character \ {" "}) = s
      BY <1>1, <1>2, FromSame
    <2>2. UpTo(s, Character \ {" "}) = s
      BY <1>1, <1>2, UpToSame
    <2>. QED
      BY <2>1, <2>2 DEF TrimSpace
  <1>4. lower(s) = s /\ allowed(s) = s /\ collapsed(s) = s
    BY <1>1, LowerSpaced, AllowedSame, CollapsedSame
  <1>5. stripped(s) = s
    <2>1. From(s, Letter) = s
      BY FromSame
    <2>2. UpTo(s, Alphanumeric) = s
      BY UpToSame
    <2>. QED
      BY <2>1, <2>2 DEF stripped
  <1>6. once(s) = s
    BY <1>3, <1>4, <1>5 DEF once
  <1>7. ~(Len(s) > MaxLength)
    BY Lengths
  <1>8. normalize(s) = s
    BY <1>6, <1>7 DEF normalize, cut
  <1>9. ASSUME NEW i \in DOMAIN s, s[i] = " ", IsLabel(s) PROVE FALSE
    <2>1. s[i] \in Dashed
      BY <1>9 DEF IsLabel, Dashed
    <2>. QED
      BY <1>9, <2>1, Alphabets
  <1>. QED
    BY <1>8, <1>9

=============================================================================
