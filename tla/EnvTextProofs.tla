--------------------------- MODULE EnvTextProofs ---------------------------
(***************************************************************************)
(* Proofs about EnvText: an exported file, arranged by hand or not, is     *)
(* imported as it was, whatever the length of its values and the number of *)
(* its keys.                                                               *)
(***************************************************************************)
EXTENDS EnvText, FiniteSetTheorems, SequenceTheorems, WellFoundedInduction,
        TLAPS

-----------------------------------------------------------------------------
(* Induction, over sets of numbers.                                        *)

\* Every set of natural numbers that is not empty has a least element.
LEMMA LeastElement ==
    ASSUME NEW C \in SUBSET Nat, C # {}
    PROVE  \E m \in C : \A c \in C : m <= c
<1> DEFINE S == {1..c : c \in C}
<1>1. S \subseteq FiniteSubsetsOf(Nat)
  <2> SUFFICES ASSUME NEW c \in C PROVE 1..c \in FiniteSubsetsOf(Nat)
    OBVIOUS
  <2>1. IsFiniteSet(1..c)
    BY FS_Interval
  <2> QED BY <2>1 DEF FiniteSubsetsOf
<1>2. S # {}
  OBVIOUS
<1>3. \E x \in S : \A y \in S : ~ (<<y, x>> \in StrictSubsetOrdering(Nat))
  BY <1>1, <1>2, FS_StrictSubsetOrderingWellFounded, WFMin
<1>4. PICK m \in C : \A c \in C : ~ (<<1..c, 1..m>> \in StrictSubsetOrdering(Nat))
  BY <1>3
<1>5. ASSUME NEW c \in C, ~(m <= c) PROVE FALSE
  <2>1. c \in Nat /\ m \in Nat /\ c < m
    BY <1>5
  <2>2. 1..c \subseteq 1..m /\ m \in 1..m /\ m \notin 1..c
    BY <2>1
  <2>3. 1..c # 1..m
    BY <2>2
  <2>4. 1..c \in SUBSET Nat /\ 1..m \in SUBSET Nat
    BY <2>1
  <2>5. <<1..c, 1..m>> \in StrictSubsetOrdering(Nat)
    BY <2>2, <2>3, <2>4 DEF StrictSubsetOrdering
  <2> QED BY <2>5, <1>4
<1> QED BY <1>5

\* A set that holds 0 and the successor of each of its numbers holds them all.
LEMMA Induction ==
    ASSUME NEW T, 0 \in T, \A n \in Nat : n \in T => n + 1 \in T
    PROVE  \A n \in Nat : n \in T
<1> SUFFICES ASSUME NEW n \in Nat, n \notin T PROVE FALSE
  OBVIOUS
<1> DEFINE C == {c \in Nat : c \notin T}
<1>1. PICK m \in C : \A c \in C : m <= c
  BY LeastElement
<1>2. m \in Nat /\ m # 0
  OBVIOUS
<1>3. m - 1 \in Nat /\ m - 1 \notin C
  BY <1>1, <1>2
<1>4. (m - 1) + 1 \in T
  BY <1>3
<1> QED BY <1>2, <1>4

-----------------------------------------------------------------------------
(* What a sequence of texts is as one text.                                *)

\* The texts that FlattenSeq goes through: each is the former and one more.
LEMMA FlattenSteps ==
    ASSUME NEW S, NEW L \in Seq(Seq(S))
    PROVE  \E F \in [0..Len(L) -> Seq(S)] :
              /\ F[0] = <<>>
              /\ \A i \in 1..Len(L) : F[i] = F[i - 1] \o L[i]
              /\ FlattenSeq(L) = F[Len(L)]
<1> DEFINE N == Len(L)
           Body(f, i) == IF i = 1 THEN L[i] ELSE f[i - 1] \o L[i]
           Fold(m, f) == f = [i \in 1..m |-> Body(f, i)]
<1>0. N \in Nat /\ DOMAIN L = 1..N /\ \A i \in 1..N : L[i] \in Seq(S)
  BY LenProperties, ElementOfSeq
<1>1. CASE N = 0
  <2>1. L = <<>>
    BY <1>1, EmptySeq
  <2>2. FlattenSeq(L) = <<>>
    BY <1>1, <2>1 DEF FlattenSeq
  <2>3. <<>> \in Seq(S)
    BY EmptySeq
  <2> DEFINE F == [i \in 0..0 |-> <<>>]
  <2>4. F \in [0..N -> Seq(S)] /\ F[0] = <<>> /\ F[N] = <<>> /\ 1..N = {}
    BY <1>1, <2>3
  <2> HIDE DEF F
  <2> QED BY <2>2, <2>4
<1>2. CASE N # 0
  <2> DEFINE T == {m \in Nat : m <= N => \E f : Fold(m, f)}
  <2>1. Fold(0, [i \in 1..0 |-> 0])
    <3>1. \A i : i \notin 1..0
      OBVIOUS
    <3> QED BY <3>1, Zenon
  <2>2. ASSUME NEW m \in Nat, NEW f, Fold(m, f)
        PROVE  \E g : Fold(m + 1, g)
    <3> DEFINE g == [i \in 1..(m + 1) |->
                        IF i = m + 1 THEN Body(f, i) ELSE f[i]]
    <3>1. ASSUME NEW i \in 1..m PROVE f[i] = Body(f, i)
      BY <2>2
    <3>2. ASSUME NEW i \in 1..(m + 1) PROVE g[i] = Body(f, i)
      <4>1. CASE i = m + 1
        BY <4>1, Zenon
      <4>2. CASE i # m + 1
        <5>1. i \in 1..m
          BY <4>2
        <5> HIDE DEF Body
        <5> QED BY <5>1, <3>1, <4>2
      <4> QED BY <4>1, <4>2
    <3>3. ASSUME NEW i \in 1..(m + 1) PROVE g[i] = Body(g, i)
      <4>1. CASE i = 1
        BY <4>1, <3>2
      <4>2. CASE i # 1
        <5>1. i - 1 \in 1..(m + 1) /\ i - 1 # m + 1 /\ i - 1 \in 1..m
          BY <4>2
        <5>2. g[i - 1] = f[i - 1]
          BY <5>1, Zenon
        <5>3. g[i] = Body(f, i)
          BY <3>2
        <5> HIDE DEF g
        <5> QED BY <5>2, <5>3
      <4> QED BY <4>1, <4>2
    <3>4. g = [i \in 1..(m + 1) |-> g[i]]
      OBVIOUS
    <3> HIDE DEF g
    <3>5. Fold(m + 1, g)
      BY <3>3, <3>4
    <3> QED BY <3>5
  <2>3. \E f : Fold(N, f)
    <3> HIDE DEF Fold
    <3>1. 0 \in T
      BY <2>1
    <3>2. \A m \in Nat : m \in T => m + 1 \in T
      BY <2>2, <1>0
    <3> HIDE DEF T
    <3>3. N \in T
      BY <3>1, <3>2, <1>0, Induction
    <3> QED BY <3>3, <1>0 DEF T
  <2> DEFINE f == CHOOSE f : Fold(N, f)
  <2>4. Fold(N, f)
    <3> HIDE DEF Fold
    <3> QED BY <2>3
  <2>5. FlattenSeq(L) = f[N]
    BY <1>0, <1>2 DEF FlattenSeq
  <2> HIDE DEF f
  <2>6. \A i \in 1..N : f[i] = Body(f, i)
    BY <2>4
  <2> DEFINE F == [i \in 0..N |-> IF i = 0 THEN <<>> ELSE f[i]]
             U == {m \in Nat : m <= N => F[m] \in Seq(S)}
  <2>7. ASSUME NEW i \in 1..N PROVE F[i] = F[i - 1] \o L[i]
    <3>1. CASE i = 1
      <4>1. F[1] = L[1] /\ F[0] = <<>>
        BY <3>1, <2>6, <1>0
      <4> QED BY <4>1, <3>1, <1>0, ConcatEmptySeq
    <3>2. CASE i # 1
      <4>1. i - 1 \in 1..N /\ i \in 0..N /\ i - 1 \in 0..N /\ i # 0 /\ i - 1 # 0
        BY <3>2, <1>0
      <4>2. F[i] = f[i] /\ F[i - 1] = f[i - 1]
        BY <4>1
      <4> QED BY <4>2, <2>6, <3>2
    <3> QED BY <3>1, <3>2
  <2>8. 0 \in U
    BY EmptySeq
  <2>9. ASSUME NEW m \in Nat, m \in U PROVE m + 1 \in U
    <3> SUFFICES ASSUME m + 1 <= N PROVE F[m + 1] \in Seq(S)
      BY <2>9
    <3>1. m + 1 \in 1..N /\ (m + 1) - 1 = m /\ m <= N
      BY <1>0
    <3>2. F[m + 1] = F[m] \o L[m + 1]
      BY <3>1, <2>7
    <3>3. F[m] \in Seq(S) /\ L[m + 1] \in Seq(S)
      BY <2>9, <3>1, <1>0
    <3> HIDE DEF F
    <3> QED BY <3>2, <3>3, ConcatProperties
  <2>10. \A m \in Nat : m \in U
    <3> HIDE DEF U
    <3> QED BY <2>8, <2>9, Induction
  <2>11. F \in [0..N -> Seq(S)]
    <3>1. F = [i \in 0..N |-> F[i]]
      OBVIOUS
    <3> HIDE DEF F
    <3>2. \A m \in 0..N : F[m] \in Seq(S)
      BY <2>10, <1>0
    <3> QED BY <3>1, <3>2
  <2>12. FlattenSeq(L) = F[N] /\ F[0] = <<>>
    BY <2>5, <1>0, <1>2
  <2> HIDE DEF F
  <2> QED BY <2>7, <2>11, <2>12
<1> QED BY <1>1, <1>2

\* A text and another one after it.
LEMMA ConcatPlaces ==
    ASSUME NEW S, NEW s \in Seq(S), NEW t \in Seq(S)
    PROVE  /\ s \o t \in Seq(S)
           /\ Len(s) \in Nat /\ Len(t) \in Nat
           /\ Len(s \o t) = Len(s) + Len(t)
           /\ \A q \in 1..Len(s) : (s \o t)[q] = s[q]
           /\ \A j \in 1..Len(t) : (s \o t)[Len(s) + j] = t[j]
<1> DEFINE c == s \o t
           m == Len(s)
           n == Len(t)
<1>1. /\ c \in Seq(S) /\ Len(c) = m + n
      /\ \A i \in 1..(m + n) : c[i] = IF i <= m THEN s[i] ELSE t[i - m]
  BY ConcatProperties
<1>2. m \in Nat /\ n \in Nat
  BY LenProperties
<1> HIDE DEF c, m, n
<1>3. \A q \in 1..m : q \in 1..(m + n) /\ q <= m
  BY <1>2
<1>4. \A j \in 1..n : m + j \in 1..(m + n) /\ ~(m + j <= m) /\ (m + j) - m = j
  BY <1>2
<1>5. \A q \in 1..m : c[q] = s[q]
  BY <1>1, <1>3
<1>6. \A j \in 1..n : c[m + j] = t[j]
  BY <1>1, <1>4
<1> QED BY <1>1, <1>2, <1>5, <1>6 DEF c, m, n

\* Where the members of L are in the text t they make: member i fills the places
\* after off[i - 1] up to off[i].
Places(off, L, t) ==
    /\ off \in [0..Len(L) -> Nat]
    /\ off[0] = 0
    /\ off[Len(L)] = Len(t)
    /\ \A i \in 1..Len(L) : off[i] = off[i - 1] + Len(L[i])
    /\ \A i \in 1..Len(L) : \A j \in 1..Len(L[i]) : t[off[i - 1] + j] = L[i][j]
    /\ \A q \in 1..Len(t) : \E i \in 1..Len(L) : q \in (off[i - 1] + 1)..off[i]
    /\ \A i, j \in 0..Len(L) : i <= j => off[i] <= off[j]

\* The members of a flattened sequence are found one after the other.
LEMMA FlattenPlaces ==
    ASSUME NEW S, NEW L \in Seq(Seq(S))
    PROVE  /\ FlattenSeq(L) \in Seq(S)
           /\ \E off : Places(off, L, FlattenSeq(L))
<1> DEFINE N == Len(L)
<1>0. N \in Nat /\ \A i \in 1..N : L[i] \in Seq(S)
  BY LenProperties, ElementOfSeq
<1>1. PICK F \in [0..N -> Seq(S)] :
          /\ F[0] = <<>>
          /\ \A i \in 1..N : F[i] = F[i - 1] \o L[i]
          /\ FlattenSeq(L) = F[N]
  BY FlattenSteps
<1> DEFINE off == [i \in 0..N |-> Len(F[i])]
           Kept(m) == \A i \in 1..m : \A j \in 1..Len(L[i]) :
                          F[m][off[i - 1] + j] = L[i][j]
           Covered(m) == \A q \in 1..off[m] :
                          \E i \in 1..m : q \in (off[i - 1] + 1)..off[i]
           Grown(m) == \A i \in 0..m : off[i] <= off[m]
           Good(m) == Kept(m) /\ Covered(m) /\ Grown(m)
<1>2. off \in [0..N -> Nat]
  BY <1>1, LenProperties
<1>3. ASSUME NEW i \in 1..N
      PROVE  /\ off[i] = off[i - 1] + Len(L[i])
             /\ \A q \in 1..off[i - 1] : F[i][q] = F[i - 1][q]
             /\ \A j \in 1..Len(L[i]) : F[i][off[i - 1] + j] = L[i][j]
             /\ Len(L[i]) \in Nat /\ off[i] \in Nat /\ off[i - 1] \in Nat
  <2>1. i - 1 \in 0..N /\ i \in 0..N
    BY <1>0
  <2>2. F[i - 1] \in Seq(S) /\ L[i] \in Seq(S) /\ F[i] = F[i - 1] \o L[i]
    BY <1>0, <1>1, <2>1
  <2>3. off[i] = Len(F[i]) /\ off[i - 1] = Len(F[i - 1])
    BY <2>1
  <2>4. Len(L[i]) \in Nat /\ off[i - 1] \in Nat
    BY <2>2, <2>3, LenProperties
  <2> HIDE DEF off
  <2> DEFINE s == F[i - 1]
             t == L[i]
  <2>a. /\ Len(s \o t) = Len(s) + Len(t)
        /\ \A q \in 1..Len(s) : (s \o t)[q] = s[q]
        /\ \A j \in 1..Len(t) : (s \o t)[Len(s) + j] = t[j]
    <3>1. s \in Seq(S) /\ t \in Seq(S)
      BY <2>2
    <3> HIDE DEF s, t
    <3> QED BY <3>1, ConcatPlaces
  <2>b. F[i] = s \o t
    BY <2>2
  <2> HIDE DEF s, t
  <2>5. off[i] = off[i - 1] + Len(L[i])
    BY <2>a, <2>b, <2>3 DEF s, t
  <2>6. ASSUME NEW q \in 1..off[i - 1] PROVE F[i][q] = F[i - 1][q]
    BY <2>a, <2>b, <2>3 DEF s
  <2>7. ASSUME NEW j \in 1..Len(L[i]) PROVE F[i][off[i - 1] + j] = L[i][j]
    BY <2>a, <2>b, <2>3 DEF s, t
  <2> QED BY <2>4, <2>5, <2>6, <2>7
<1>4. off[0] = 0 /\ off[N] = Len(F[N])
  BY <1>0, <1>1, EmptySeq
<1> HIDE DEF off
<1>5. Good(0)
  BY <1>4
<1>6. ASSUME NEW m \in Nat, m + 1 <= N, Good(m) PROVE Good(m + 1)
  <2>0. m + 1 \in 1..N /\ (m + 1) - 1 = m /\ m \in 0..N
    BY <1>0, <1>6
  <2>1. /\ off[m + 1] = off[m] + Len(L[m + 1])
        /\ \A q \in 1..off[m] : F[m + 1][q] = F[m][q]
        /\ \A j \in 1..Len(L[m + 1]) : F[m + 1][off[m] + j] = L[m + 1][j]
        /\ Len(L[m + 1]) \in Nat /\ off[m + 1] \in Nat /\ off[m] \in Nat
    BY <2>0, <1>3
  <2>2. ASSUME NEW i \in 1..(m + 1), NEW j \in 1..Len(L[i])
        PROVE  F[m + 1][off[i - 1] + j] = L[i][j]
    <3>1. CASE i = m + 1
      BY <3>1, <2>0, <2>1
    <3>2. CASE i # m + 1
      <4>1. i \in 1..m /\ i \in 0..m /\ i \in 1..N
        BY <3>2, <2>0
      <4>2. /\ off[i] <= off[m] /\ off[i] = off[i - 1] + Len(L[i])
            /\ off[i - 1] \in Nat /\ Len(L[i]) \in Nat
        BY <4>1, <1>6, <1>3
      <4>3. off[i - 1] + j \in 1..off[m]
        <5> DEFINE n == Len(L[i])
        <5>1. j \in 1..n /\ n \in Nat /\ off[i - 1] + n <= off[m]
          BY <4>2
        <5>2. off[i - 1] \in Nat /\ off[m] \in Nat
          BY <4>2, <2>1
        <5> HIDE DEF n
        <5> QED BY <5>1, <5>2
      <4>4. F[m][off[i - 1] + j] = L[i][j]
        BY <4>1, <1>6
      <4> QED BY <4>3, <4>4, <2>1
    <3> QED BY <3>1, <3>2
  <2>3. ASSUME NEW q \in 1..off[m + 1]
        PROVE  \E i \in 1..(m + 1) : q \in (off[i - 1] + 1)..off[i]
    <3>1. CASE q <= off[m]
      <4>1. q \in 1..off[m]
        BY <3>1, <2>1
      <4>2. PICK i \in 1..m : q \in (off[i - 1] + 1)..off[i]
        BY <4>1, <1>6
      <4> QED BY <4>2
    <3>2. CASE ~(q <= off[m])
      <4>1. q \in (off[(m + 1) - 1] + 1)..off[m + 1]
        BY <3>2, <2>0, <2>1
      <4> QED BY <4>1, <2>0
    <3> QED BY <3>1, <3>2
  <2>4. ASSUME NEW i \in 0..(m + 1) PROVE off[i] <= off[m + 1]
    <3>1. CASE i = m + 1
      BY <3>1, <2>1
    <3>2. CASE i # m + 1
      <4>1. i \in 0..m /\ i \in 0..N
        BY <3>2, <2>0
      <4>2. off[i] <= off[m] /\ off[i] \in Nat
        BY <4>1, <1>6, <1>2
      <4> QED BY <4>2, <2>1
    <3> QED BY <3>1, <3>2
  <2> QED BY <2>2, <2>3, <2>4
<1>7. \A m \in Nat : m <= N => Good(m)
  <2> DEFINE T == {m \in Nat : m <= N => Good(m)}
  <2> HIDE DEF Good
  <2>1. 0 \in T
    BY <1>5
  <2>2. \A m \in Nat : m \in T => m + 1 \in T
    BY <1>6, <1>0
  <2> HIDE DEF T
  <2>3. \A m \in Nat : m \in T
    BY <2>1, <2>2, Induction
  <2> QED BY <2>3 DEF T
<1>8. Good(N)
  <2> HIDE DEF Good
  <2> QED BY <1>7, <1>0
<1>9. ASSUME NEW i \in 0..N, NEW j \in 0..N, i <= j PROVE off[i] <= off[j]
  <2>1. Grown(j)
    BY <1>7, <1>0
  <2>2. i \in 0..j
    BY <1>9
  <2> QED BY <2>1, <2>2
<1>10. FlattenSeq(L) \in Seq(S) /\ FlattenSeq(L) = F[N] /\ off[N] = Len(FlattenSeq(L))
  BY <1>0, <1>1, <1>4
<1>11. Places(off, L, FlattenSeq(L))
  <2>1. \A i \in 1..N : off[i] = off[i - 1] + Len(L[i])
    BY <1>3
  <2>2. \A i \in 1..N : \A j \in 1..Len(L[i]) :
            FlattenSeq(L)[off[i - 1] + j] = L[i][j]
    BY <1>8, <1>10
  <2>3. \A q \in 1..Len(FlattenSeq(L)) :
            \E i \in 1..N : q \in (off[i - 1] + 1)..off[i]
    BY <1>8, <1>10
  <2> QED BY <1>2, <1>4, <1>9, <1>10, <2>1, <2>2, <2>3 DEF Places
<1> QED BY <1>10, <1>11

-----------------------------------------------------------------------------
(* Pieces of a text.                                                       *)

\* The piece after place a that agrees with l is l.
LEMMA PieceIs ==
    ASSUME NEW S, NEW s \in Seq(S), NEW l \in Seq(S), NEW a \in Nat,
           a + Len(l) <= Len(s), \A j \in 1..Len(l) : s[a + j] = l[j]
    PROVE  SubSeq(s, a + 1, a + Len(l)) = l
<1> DEFINE n == Len(l)
           m == Len(s)
           p == SubSeq(s, a + 1, a + n)
<1>1. m \in Nat /\ n \in Nat /\ a + n <= m
  BY LenProperties
<1>2. \A i \in 1..m : s[i] \in S
  BY ElementOfSeq
<1> HIDE DEF n, m
<1>3. \A i \in (a + 1)..(a + n) : s[i] \in S
  BY <1>1, <1>2
<1>4. (a + 1) \in Int /\ (a + n) \in Int
  BY <1>1
<1>5. /\ p \in Seq(S)
      /\ Len(p) = IF a + 1 <= a + n THEN (a + n) - (a + 1) + 1 ELSE 0
      /\ \A i \in 1..((a + n) - (a + 1) + 1) : p[i] = s[(a + 1) + i - 1]
  BY <1>3, <1>4, SubSeqProperties
<1> HIDE DEF p
<1>6. Len(p) = n
  BY <1>1, <1>5
<1>7. ASSUME NEW i \in 1..n PROVE p[i] = l[i]
  <2>1. i \in 1..((a + n) - (a + 1) + 1) /\ (a + 1) + i - 1 = a + i
    BY <1>1
  <2>2. p[i] = s[a + i]
    BY <2>1, <1>5
  <2>3. s[a + i] = l[i]
    BY DEF n
  <2> QED BY <2>2, <2>3
<1>8. p = l
  BY <1>5, <1>6, <1>7, SeqEqual DEF n
<1> QED BY <1>8 DEF p, n

\* A bound that a set of numbers holds is what Min or Max chooses.
LEMMA MinIs ==
    ASSUME NEW C \in SUBSET Nat, NEW m \in C, \A c \in C : m <= c
    PROVE  Min(C) = m
<1>1. \A x \in C : (\A y \in C : x <= y) => x = m
  <2> SUFFICES ASSUME NEW x \in C, \A y \in C : x <= y PROVE x = m
    OBVIOUS
  <2>1. x <= m /\ m <= x /\ x \in Nat /\ m \in Nat
    OBVIOUS
  <2> QED BY <2>1
<1>2. Min(C) \in C /\ \A y \in C : Min(C) <= y
  BY DEF Min
<1> QED BY <1>1, <1>2

LEMMA MaxIs ==
    ASSUME NEW C \in SUBSET Nat, NEW m \in C, \A c \in C : c <= m
    PROVE  Max(C) = m
<1>1. \A x \in C : (\A y \in C : x >= y) => x = m
  <2> SUFFICES ASSUME NEW x \in C, \A y \in C : x >= y PROVE x = m
    OBVIOUS
  <2>1. x <= m /\ m <= x /\ x \in Nat /\ m \in Nat
    OBVIOUS
  <2> QED BY <2>1
<1>2. \A y \in C : m >= y
  <2> SUFFICES ASSUME NEW y \in C PROVE m >= y
    OBVIOUS
  <2>1. y <= m /\ y \in Nat /\ m \in Nat
    OBVIOUS
  <2> QED BY <2>1
<1>3. Max(C) \in C /\ \A y \in C : Max(C) >= y
  BY <1>2 DEF Max
<1> QED BY <1>1, <1>3

\* A set of places in a text has a last one.
LEMMA LastPlace ==
    ASSUME NEW n \in Nat, NEW C \in SUBSET (1..n), C # {}
    PROVE  \E m \in C : \A c \in C : c <= m
<1> DEFINE D == {n - c : c \in C}
<1>1. D \in SUBSET Nat /\ D # {}
  <2>1. ASSUME NEW c \in C PROVE n - c \in Nat
    BY c \in 1..n
  <2> QED BY <2>1
<1>2. PICK d \in D : \A e \in D : d <= e
  <2> HIDE DEF D
  <2> QED BY <1>1, LeastElement
<1>3. PICK m \in C : d = n - m
  OBVIOUS
<1>4. ASSUME NEW c \in C PROVE c <= m
  <2>1. n - m <= n - c
    BY <1>2, <1>3
  <2> QED BY <2>1, c \in 1..n, m \in 1..n
<1> QED BY <1>4

-----------------------------------------------------------------------------
(* Trim.                                                                   *)

\* The places of the characters that are not blank.
Inked(s) == {i \in DOMAIN s : s[i] \notin Blanks}

\* A text between blanks that neither begins nor ends with a blank is what Trim
\* leaves.
LEMMA TrimTo ==
    ASSUME NEW S, NEW s \in Seq(S), NEW l \in Seq(S), NEW a \in Nat,
           a + Len(l) <= Len(s), \A j \in 1..Len(l) : s[a + j] = l[j],
           l # <<>>, l[1] \notin Blanks, l[Len(l)] \notin Blanks,
           \A i \in 1..Len(s) : s[i] \notin Blanks => i \in (a + 1)..(a + Len(l))
    PROVE  Trim(s) = l
<1> DEFINE n == Len(l)
           m == Len(s)
           C == Inked(s)
<1>1. m \in Nat /\ n \in Nat /\ n # 0 /\ a + n <= m /\ DOMAIN s = 1..m
  BY LenProperties, EmptySeq
<1>2. s[a + 1] \notin Blanks /\ s[a + n] \notin Blanks
  <2>1. 1 \in 1..n /\ n \in 1..n
    BY <1>1
  <2> QED BY <2>1
<1>3. SubSeq(s, a + 1, a + n) = l
  BY PieceIs
<1>4. \A i \in 1..m : s[i] \notin Blanks => i \in (a + 1)..(a + n)
  OBVIOUS
<1> HIDE DEF n, m
<1>5. a + 1 \in 1..m /\ a + n \in 1..m
  BY <1>1
<1>6. a + 1 \in C /\ a + n \in C /\ C \in SUBSET (1..m)
  BY <1>1, <1>2, <1>5 DEF Inked
<1>7. \A c \in C : a + 1 <= c /\ c <= a + n
  <2> SUFFICES ASSUME NEW c \in C PROVE a + 1 <= c /\ c <= a + n
    OBVIOUS
  <2>1. c \in (a + 1)..(a + n)
    BY <1>1, <1>4 DEF Inked
  <2> QED BY <2>1, <1>1
<1>8. C \in SUBSET Nat
  BY <1>1, <1>6
<1> HIDE DEF C
<1>9. Min(C) = a + 1 /\ Max(C) = a + n
  BY <1>6, <1>7, <1>8, MinIs, MaxIs
<1>10. Trim(s) = SubSeq(s, Min(C), Max(C))
  BY <1>6 DEF Trim, Inked, C
<1> QED BY <1>3, <1>9, <1>10

LEMMA TrimNothing ==
    ASSUME NEW S, NEW l \in Seq(S),
           l # <<>>, l[1] \notin Blanks, l[Len(l)] \notin Blanks
    PROVE  Trim(l) = l
<1> DEFINE n == Len(l)
<1>1. n \in Nat
  BY LenProperties
<1> HIDE DEF n
<1>2. 0 + n <= n /\ \A j \in 1..n : l[0 + j] = l[j] /\ j \in (0 + 1)..(0 + n)
  BY <1>1
<1> QED BY <1>2, TrimTo DEF n

\* What Trim leaves as it is does not end with a blank.
LEMMA TrimmedEnd ==
    ASSUME NEW S, NEW l \in Seq(S), l # <<>>, Trim(l) = l
    PROVE  l[Len(l)] \notin Blanks
<1> DEFINE n == Len(l)
           C == Inked(l)
<1>1. n \in Nat /\ n # 0 /\ DOMAIN l = 1..n /\ \A i \in 1..n : l[i] \in S
  BY LenProperties, EmptySeq, ElementOfSeq
<1>2. C # {} /\ C \in SUBSET (1..n)
  BY <1>1 DEF Trim, Inked
<1>3. PICK b \in C : \A c \in C : c <= b
  BY <1>1, <1>2, LastPlace
<1>4. PICK a \in C : \A c \in C : a <= c
  BY <1>1, <1>2, LeastElement
<1>5. Min(C) = a /\ Max(C) = b
  BY <1>1, <1>2, <1>3, <1>4, MinIs, MaxIs
<1>6. SubSeq(l, a, b) = l
  BY <1>2, <1>5 DEF Trim, Inked
<1>7. a \in 1..n /\ b \in 1..n /\ a <= b
  BY <1>2, <1>3
<1>8. \A i \in a..b : l[i] \in S
  BY <1>1, <1>7
<1>9. Len(SubSeq(l, a, b)) = IF a <= b THEN b - a + 1 ELSE 0
  BY <1>7, <1>8, SubSeqProperties
<1>10. n = b - a + 1
  BY <1>6, <1>7, <1>9
<1> HIDE DEF n
<1>11. b = n
  BY <1>1, <1>7, <1>10
<1>12. l[n] \notin Blanks
  BY <1>3, <1>11 DEF Inked
<1> QED BY <1>12 DEF n

-----------------------------------------------------------------------------
(* A value comes back from its escaped form.                               *)

\* What Unescaped makes of s from place i on, given what f is further on.
Rest(s, f, i) ==
    IF i > Len(s) THEN <<>>
    ELSE IF s[i] # "\\" \/ i = Len(s) THEN <<s[i]>> \o f[i + 1]
    ELSE IF s[i + 1] = "u" /\ i + 5 <= Len(s)
            /\ \A j \in (i + 2)..(i + 5) : s[j] \in Hex
    THEN <<CharacterOf(SubSeq(s, i + 2, i + 5))>> \o f[i + 6]
    ELSE EscapeOf(s[i + 1]) \o f[i + 2]

\* It looks at later places only.
LEMMA RestLooksAhead ==
    ASSUME NEW S, NEW s \in Seq(S), NEW f, NEW g, NEW i \in Nat,
           \A j \in (i + 1)..(Len(s) + 1) : f[j] = g[j]
    PROVE  Rest(s, f, i) = Rest(s, g, i)
<1> DEFINE n == Len(s)
<1>1. n \in Nat
  BY LenProperties
<1>2. \A j \in (i + 1)..(n + 1) : f[j] = g[j]
  OBVIOUS
<1>3. CASE i > n
  BY <1>3 DEF Rest
<1>4. CASE ~(i > n) /\ (s[i] # "\\" \/ i = n)
  <2> HIDE DEF n
  <2>1. i + 1 \in (i + 1)..(n + 1)
    BY <1>1, <1>4
  <2>2. f[i + 1] = g[i + 1]
    BY <2>1, <1>2
  <2> QED BY <1>4, <2>2 DEF Rest, n
<1>5. CASE ~(i > n) /\ ~(s[i] # "\\" \/ i = n)
  <2> DEFINE U == s[i + 1] = "u" /\ i + 5 <= n
                  /\ \A j \in (i + 2)..(i + 5) : s[j] \in Hex
  <2>1. CASE U
    <3>1. i + 5 <= n
      BY <2>1
    <3> HIDE DEF n
    <3>2. i + 6 \in (i + 1)..(n + 1)
      BY <1>1, <3>1
    <3>3. f[i + 6] = g[i + 6]
      BY <3>2, <1>2
    <3> QED BY <1>5, <2>1, <3>3 DEF Rest, n
  <2>2. CASE ~U
    <3> HIDE DEF n, U
    <3>2. i + 2 \in (i + 1)..(n + 1)
      BY <1>1, <1>5
    <3>3. f[i + 2] = g[i + 2]
      BY <3>2, <1>2
    <3> QED BY <1>5, <2>2, <3>3 DEF Rest, n, U
  <2> QED BY <2>1, <2>2
<1> QED BY <1>3, <1>4, <1>5

\* There is a function that Unescaped computes from the right.
LEMMA UnescapedSteps ==
    ASSUME NEW S, NEW s \in Seq(S)
    PROVE  \E f : /\ \A i \in 1..(Len(s) + 1) : f[i] = Rest(s, f, i)
                  /\ Unescaped(s) = f[1]
<1> DEFINE n == Len(s)
           From(m, f) == f = [i \in m..(n + 1) |-> Rest(s, f, i)]
<1>0. n \in Nat
  BY LenProperties
<1>1. \E f : From(n + 1, f)
  <2> DEFINE f == [i \in (n + 1)..(n + 1) |-> <<>>]
  <2>1. ASSUME NEW i \in (n + 1)..(n + 1) PROVE f[i] = Rest(s, f, i)
    <3>1. i > Len(s)
      BY <1>0
    <3>2. Rest(s, f, i) = <<>>
      BY <3>1 DEF Rest
    <3> QED BY <3>2
  <2>2. f = [i \in (n + 1)..(n + 1) |-> f[i]]
    OBVIOUS
  <2> HIDE DEF f
  <2>3. From(n + 1, f)
    BY <2>1, <2>2
  <2> QED BY <2>3
<1>2. ASSUME NEW m \in 1..n, NEW f, From(m + 1, f)
      PROVE  \E g : From(m, g)
  <2> DEFINE g == [i \in m..(n + 1) |-> IF i = m THEN Rest(s, f, i) ELSE f[i]]
  <2>1. \A i \in (m + 1)..(n + 1) : f[i] = Rest(s, f, i)
    BY <1>2
  <2>2. \A i \in (m + 1)..(n + 1) : g[i] = f[i]
    <3>1. \A i \in (m + 1)..(n + 1) : i \in m..(n + 1) /\ i # m
      BY <1>0
    <3> QED BY <3>1
  <2>3. g[m] = Rest(s, f, m)
    BY <1>0
  <2>4. g = [i \in m..(n + 1) |-> g[i]]
    OBVIOUS
  <2> HIDE DEF g
  <2>5. ASSUME NEW i \in m..(n + 1) PROVE g[i] = Rest(s, g, i)
    <3>1. i \in Nat /\ \A j \in (i + 1)..(n + 1) : j \in (m + 1)..(n + 1)
      BY <1>0
    <3>2. Rest(s, f, i) = Rest(s, g, i)
      BY <2>2, <3>1, RestLooksAhead
    <3>3. CASE i = m
      BY <2>3, <3>2, <3>3
    <3>4. CASE i # m
      <4>1. i \in (m + 1)..(n + 1)
        BY <3>4, <1>0
      <4> QED BY <4>1, <2>1, <2>2, <3>2
    <3> QED BY <3>3, <3>4
  <2>6. From(m, g)
    BY <2>4, <2>5
  <2> QED BY <2>6
<1>3. \E f : From(1, f)
  <2> DEFINE T == {k \in Nat : k <= n => \E f : From(n + 1 - k, f)}
  <2> HIDE DEF From
  <2>1. 0 \in T
    <3>1. n + 1 - 0 = n + 1
      BY <1>0
    <3> QED BY <1>1, <3>1
  <2>2. ASSUME NEW k \in Nat, k \in T PROVE k + 1 \in T
    <3> SUFFICES ASSUME k + 1 <= n PROVE \E f : From(n + 1 - (k + 1), f)
      OBVIOUS
    <3> DEFINE m == n + 1 - (k + 1)
    <3>1. k <= n /\ m \in 1..n /\ m + 1 = n + 1 - k
      BY <1>0
    <3>2. PICK f : From(n + 1 - k, f)
      BY <2>2, <3>1
    <3> HIDE DEF m
    <3>3. From(m + 1, f)
      BY <3>1, <3>2
    <3>4. \E g : From(m, g)
      BY <3>1, <3>3, <1>2
    <3> QED BY <3>4 DEF m
  <2> HIDE DEF T
  <2>3. n \in T
    BY <2>1, <2>2, <1>0, Induction
  <2>4. n + 1 - n = 1
    BY <1>0
  <2>5. \E f : From(n + 1 - n, f)
    BY <2>3, <1>0 DEF T
  <2> QED BY <2>4, <2>5
<1> DEFINE f == CHOOSE f : From(1, f)
<1>4. From(1, f)
  <2> HIDE DEF From
  <2> QED BY <1>3
<1>5. Unescaped(s) = f[1]
  BY DEF Unescaped, Rest
<1> HIDE DEF f
<1>6. \A i \in 1..(n + 1) : f[i] = Rest(s, f, i)
  BY <1>4
<1> QED BY <1>5, <1>6

\* The characters of a value, each escaped.
EscapedChars(v) == [i \in DOMAIN v |-> Escaped(v[i])]

\* Each character becomes a few, none of which ends a line.
LEMMA EscapedIsText ==
    ASSUME NEW c \in Known
    PROVE  /\ Escaped(c) \in Seq(Known)
           /\ Len(Escaped(c)) \in Nat \ {0}
           /\ \A i \in 1..Len(Escaped(c)) : Escaped(c)[i] \notin LineEnds
<1> DEFINE Fine(e) == /\ e \in Seq(Known)
                      /\ Len(e) \in Nat \ {0}
                      /\ \A i \in 1..Len(e) : e[i] \notin LineEnds
<1>0. ASSUME NEW d \in Known, d \notin LineEnds PROVE Fine(<<"\\", d>>)
  <2>1. "\\" \in Known /\ "\\" \notin LineEnds
    BY DEF Known, LineEnds
  <2>2. <<"\\", d>> \in Seq(Known) /\ Len(<<"\\", d>>) = 2
    BY <2>1
  <2>3. \A i \in 1..2 : i = 1 \/ i = 2
    OBVIOUS
  <2> QED BY <1>0, <2>1, <2>2, <2>3
<1>1. CASE c = "\\"
  <2>1. Escaped(c) = <<"\\", "\\">>
    BY <1>1 DEF Escaped
  <2>2. "\\" \in Known /\ "\\" \notin LineEnds
    BY DEF Known, LineEnds
  <2> QED BY <2>1, <2>2, <1>0
<1>2. CASE c = "\""
  <2>1. Escaped(c) = <<"\\", "\"">>
    BY <1>2 DEF Escaped
  <2>2. "\"" \in Known /\ "\"" \notin LineEnds
    BY DEF Known, LineEnds
  <2> QED BY <2>1, <2>2, <1>0
<1>3. CASE c = "LF"
  <2>1. Escaped(c) = <<"\\", "n">>
    BY <1>3 DEF Escaped
  <2>2. "n" \in Known /\ "n" \notin LineEnds
    BY DEF Known, LineEnds
  <2> QED BY <2>1, <2>2, <1>0
<1>4. CASE c = "CR"
  <2>1. Escaped(c) = <<"\\", "r">>
    BY <1>4 DEF Escaped
  <2>2. "r" \in Known /\ "r" \notin LineEnds
    BY DEF Known, LineEnds
  <2> QED BY <2>1, <2>2, <1>0
<1>5. CASE c = "tab"
  <2>1. Escaped(c) = <<"\\", "t">>
    BY <1>5 DEF Escaped
  <2>2. "t" \in Known /\ "t" \notin LineEnds
    BY DEF Known, LineEnds
  <2> QED BY <2>1, <2>2, <1>0
<1>6. CASE c = "control"
  <2>1. Escaped(c) = <<"\\", "u", "0", "0", "0", "1">>
    BY <1>6 DEF Escaped
  <2> DEFINE e == <<"\\", "u", "0", "0", "0", "1">>
  <2>2. {"\\", "u", "0", "1"} \subseteq Known
        /\ {"\\", "u", "0", "1"} \cap LineEnds = {}
    BY DEF Known, LineEnds
  <2>3. e \in Seq({"\\", "u", "0", "1"}) /\ Len(e) = 6
    OBVIOUS
  <2> HIDE DEF e
  <2>4. e \in Seq(Known)
    BY <2>2, <2>3, SeqMonotonic
  <2>5. \A i \in 1..Len(e) : e[i] \in {"\\", "u", "0", "1"}
    BY <2>3, ElementOfSeq
  <2>6. Fine(e)
    BY <2>2, <2>3, <2>4, <2>5
  <2> QED BY <2>1, <2>6 DEF e
<1>7. CASE c \notin {"\\", "\"", "LF", "CR", "tab", "control"}
  <2>1. Escaped(c) = <<c>>
    BY <1>7 DEF Escaped
  <2>2. <<c>> \in Seq(Known) /\ Len(<<c>>) = 1 /\ <<c>>[1] = c
    OBVIOUS
  <2>3. c \notin LineEnds
    BY <1>7 DEF LineEnds
  <2>4. \A i \in 1..1 : i = 1
    OBVIOUS
  <2> QED BY <2>1, <2>2, <2>3, <2>4
<1> QED BY <1>1, <1>2, <1>3, <1>4, <1>5, <1>6, <1>7

\* Where an escaped character stands, the import reads that character.
LEMMA EscapeIsRead ==
    ASSUME NEW S, NEW s \in Seq(S), NEW f, NEW c \in Known, NEW a \in Nat,
           a + Len(Escaped(c)) <= Len(s),
           \A j \in 1..Len(Escaped(c)) : s[a + j] = Escaped(c)[j]
    PROVE  Rest(s, f, a + 1) = <<c>> \o f[a + Len(Escaped(c)) + 1]
<1> DEFINE n == Len(s)
<1>0. n \in Nat
  BY LenProperties
<1>1. CASE c \notin {"\\", "\"", "LF", "CR", "tab", "control"}
  <2>1. Escaped(c) = <<c>> /\ Len(Escaped(c)) = 1
    BY <1>1 DEF Escaped
  <2>2. s[a + 1] = c /\ a + 1 <= n
    BY <2>1
  <2> HIDE DEF n
  <2>3. ~(a + 1 > n)
    BY <1>0, <2>2
  <2>4. s[a + 1] # "\\"
    BY <1>1, <2>2
  <2> QED BY <2>1, <2>2, <2>3, <2>4 DEF Rest, n
<1>2. ASSUME NEW d, Escaped(c) = <<"\\", d>>, d # "u", EscapeOf(d) = <<c>>
      PROVE  Rest(s, f, a + 1) = <<c>> \o f[a + Len(Escaped(c)) + 1]
  <2>1. Len(Escaped(c)) = 2 /\ Escaped(c)[1] = "\\" /\ Escaped(c)[2] = d
    BY <1>2
  <2>2. s[a + 1] = "\\" /\ s[a + 2] = d /\ a + 2 <= n
    BY <2>1
  <2>3. ~(a + 1 > n) /\ a + 1 # n /\ (a + 1) + 1 = a + 2 /\ (a + 1) + 2 = a + 2 + 1
    BY <1>0, <2>2
  <2>4. Rest(s, f, a + 1) = EscapeOf(d) \o f[a + 2 + 1]
    BY <1>2, <2>2, <2>3 DEF Rest
  <2> QED BY <1>2, <2>1, <2>4
<1>3. CASE c = "\\"
  <2>1. Escaped(c) = <<"\\", "\\">> /\ EscapeOf("\\") = <<c>>
    BY <1>3 DEF Escaped, EscapeOf
  <2> QED BY <2>1, <1>2
<1>4. CASE c = "\""
  <2>1. Escaped(c) = <<"\\", "\"">> /\ EscapeOf("\"") = <<c>>
    BY <1>4 DEF Escaped, EscapeOf
  <2> QED BY <2>1, <1>2
<1>5. CASE c = "LF"
  <2>1. Escaped(c) = <<"\\", "n">> /\ EscapeOf("n") = <<c>>
    BY <1>5 DEF Escaped, EscapeOf
  <2> QED BY <2>1, <1>2
<1>6. CASE c = "CR"
  <2>1. Escaped(c) = <<"\\", "r">> /\ EscapeOf("r") = <<c>>
    BY <1>6 DEF Escaped, EscapeOf
  <2> QED BY <2>1, <1>2
<1>7. CASE c = "tab"
  <2>1. Escaped(c) = <<"\\", "t">> /\ EscapeOf("t") = <<c>>
    BY <1>7 DEF Escaped, EscapeOf
  <2> QED BY <2>1, <1>2
<1>8. CASE c = "control"
  <2> DEFINE h == <<"0", "0", "0", "1">>
  <2>1. Escaped(c) = <<"\\", "u", "0", "0", "0", "1">> /\ Len(Escaped(c)) = 6
    BY <1>8 DEF Escaped
  <2>2. /\ s[a + 1] = "\\" /\ s[a + 2] = "u" /\ a + 6 <= n
        /\ s[a + 3] = "0" /\ s[a + 4] = "0" /\ s[a + 5] = "0" /\ s[a + 6] = "1"
    BY <2>1
  <2>3. /\ ~(a + 1 > n) /\ a + 1 # n /\ (a + 1) + 1 = a + 2 /\ (a + 1) + 5 <= n
        /\ (a + 1) + 2 = a + 3 /\ (a + 1) + 5 = a + 6 /\ (a + 1) + 6 = a + 6 + 1
    BY <1>0, <2>2
  <2>4. \A j \in (a + 3)..(a + 6) : s[j] \in Hex
    <3>1. \A j \in (a + 3)..(a + 6) : j \in {a + 3, a + 4, a + 5, a + 6}
      OBVIOUS
    <3> QED BY <3>1, <2>2 DEF Hex
  <2>5. SubSeq(s, a + 3, a + 6) = h
    <3>1. h \in Seq({"0", "1"}) /\ Len(h) = 4
      OBVIOUS
    <3>2. h \in Seq(S \cup {"0", "1"}) /\ s \in Seq(S \cup {"0", "1"})
      BY <3>1, SeqMonotonic
    <3>3. a + 2 \in Nat /\ (a + 2) + 4 <= n /\ (a + 2) + 1 = a + 3 /\ (a + 2) + 4 = a + 6
      BY <1>0, <2>2
    <3>4. \A j \in 1..4 : s[(a + 2) + j] = h[j]
      <4>1. \A j \in 1..4 : j \in {1, 2, 3, 4}
        OBVIOUS
      <4>2. (a + 2) + 1 = a + 3 /\ (a + 2) + 2 = a + 4 /\ (a + 2) + 3 = a + 5
            /\ (a + 2) + 4 = a + 6
        OBVIOUS
      <4> QED BY <4>1, <4>2, <2>2
    <3> HIDE DEF h
    <3>5. SubSeq(s, (a + 2) + 1, (a + 2) + 4) = h
      BY <3>1, <3>2, <3>3, <3>4, PieceIs
    <3> QED BY <3>3, <3>5
  <2>6. CharacterOf(h) = "control"
    BY DEF CharacterOf
  <2> HIDE DEF h
  <2>7. Rest(s, f, a + 1) = <<CharacterOf(SubSeq(s, a + 3, a + 6))>> \o f[a + 6 + 1]
    BY <2>2, <2>3, <2>4 DEF Rest
  <2> QED BY <1>8, <2>1, <2>5, <2>6, <2>7
<1> QED BY <1>1, <1>3, <1>4, <1>5, <1>6, <1>7, <1>8

\* The escaped characters of a value are a text without line ends, and in one pass
\* the value comes back from it.
THEOREM EscapesComeBack ==
    ASSUME NEW v \in Seq(Known)
    PROVE  LET b == FlattenSeq(EscapedChars(v)) IN
              /\ b \in Seq(Known)
              /\ \A q \in 1..Len(b) : b[q] \notin LineEnds
              /\ Unescaped(b) = v
<1> DEFINE L == EscapedChars(v)
           b == FlattenSeq(L)
           n == Len(v)
<1>0. n \in Nat /\ DOMAIN v = 1..n /\ \A i \in 1..n : v[i] \in Known
  BY LenProperties, ElementOfSeq
<1>1. \A i \in 1..n : L[i] = Escaped(v[i]) /\ L[i] \in Seq(Known)
  BY <1>0, EscapedIsText DEF EscapedChars
<1>2. L \in Seq(Seq(Known)) /\ Len(L) = n
  <2>1. L \in [1..n -> Seq(Known)]
    BY <1>0, EscapedIsText DEF EscapedChars
  <2>2. L \in Seq(Seq(Known))
    BY <2>1, <1>0, SeqDef
  <2>3. DOMAIN L = 1..n /\ DOMAIN L = 1..Len(L) /\ Len(L) \in Nat
    BY <2>1, <2>2, LenProperties
  <2> HIDE DEF L, n
  <2> QED BY <2>2, <2>3, <1>0
<1> HIDE DEF L
<1>3. b \in Seq(Known) /\ \E off : Places(off, L, b)
  BY <1>2, FlattenPlaces
<1>4. PICK off : Places(off, L, b)
  BY <1>3
<1>5. PICK f : /\ \A i \in 1..(Len(b) + 1) : f[i] = Rest(b, f, i)
               /\ Unescaped(b) = f[1]
  BY <1>3, UnescapedSteps
<1> HIDE DEF b
<1>6. Len(b) \in Nat
  BY <1>3, LenProperties
<1> HIDE DEF n
<1>7. /\ off \in [0..n -> Nat] /\ off[0] = 0 /\ off[n] = Len(b)
      /\ \A i \in 1..n : off[i] = off[i - 1] + Len(L[i])
      /\ \A i \in 1..n : \A j \in 1..Len(L[i]) : b[off[i - 1] + j] = L[i][j]
      /\ \A q \in 1..Len(b) : \E i \in 1..n : q \in (off[i - 1] + 1)..off[i]
      /\ \A i, j \in 0..n : i <= j => off[i] <= off[j]
  BY <1>2, <1>4 DEF Places
<1>8. ASSUME NEW i \in 1..n
      PROVE  /\ off[i] \in Nat /\ off[i - 1] \in Nat /\ Len(L[i]) \in Nat
             /\ off[i] = off[i - 1] + Len(L[i]) /\ off[i] <= Len(b)
  <2>1. i \in 0..n /\ i - 1 \in 0..n /\ n \in 0..n /\ i <= n
    BY <1>0
  <2>2. Len(L[i]) \in Nat
    BY <1>1, LenProperties
  <2> QED BY <2>1, <2>2, <1>7
<1>9. ASSUME NEW q \in 1..Len(b) PROVE b[q] \notin LineEnds
  <2>1. PICK i \in 1..n : q \in (off[i - 1] + 1)..off[i]
    BY <1>7
  <2>2. q - off[i - 1] \in 1..Len(L[i]) /\ off[i - 1] + (q - off[i - 1]) = q
    BY <2>1, <1>8
  <2>3. b[q] = L[i][q - off[i - 1]]
    BY <2>2, <1>7
  <2>4. L[i] = Escaped(v[i]) /\ v[i] \in Known
    BY <1>0, <1>1
  <2> QED BY <2>2, <2>3, <2>4, EscapedIsText
<1>10. ASSUME NEW i \in 1..n
       PROVE  f[off[i - 1] + 1] = <<v[i]>> \o f[off[i] + 1]
  <2> DEFINE a == off[i - 1]
             c == v[i]
  <2>1. L[i] = Escaped(c) /\ c \in Known
    BY <1>0, <1>1
  <2>2. a \in Nat /\ a + Len(Escaped(c)) = off[i] /\ off[i] <= Len(b)
        /\ Len(Escaped(c)) \in Nat \ {0}
    BY <1>8, <2>1, EscapedIsText
  <2>3. \A j \in 1..Len(Escaped(c)) : b[a + j] = Escaped(c)[j]
    BY <1>7, <2>1
  <2> HIDE DEF a, c
  <2>4. Rest(b, f, a + 1) = <<c>> \o f[a + Len(Escaped(c)) + 1]
    <3>1. b \in Seq(Known) /\ c \in Known /\ a \in Nat
          /\ a + Len(Escaped(c)) <= Len(b)
      BY <1>3, <2>1, <2>2
    <3> QED BY <3>1, <2>3, EscapeIsRead, Zenon
  <2>5. a + 1 \in 1..(Len(b) + 1)
    BY <1>6, <2>2
  <2>6. f[a + 1] = <<c>> \o f[off[i] + 1]
    BY <2>2, <2>4, <2>5, <1>5
  <2> QED BY <2>6 DEF a, c
<1>11. f[off[n] + 1] = <<>>
  <2>1. Len(b) + 1 \in 1..(Len(b) + 1) /\ Len(b) + 1 > Len(b)
    BY <1>6
  <2>2. f[Len(b) + 1] = Rest(b, f, Len(b) + 1)
    BY <2>1, <1>5
  <2>3. Rest(b, f, Len(b) + 1) = <<>>
    BY <2>1 DEF Rest
  <2> QED BY <2>2, <2>3, <1>7
<1>12. f[off[0] + 1] = SubSeq(v, 0 + 1, n)
  <2> DEFINE Back(m) == f[off[m] + 1] = SubSeq(v, m + 1, n)
             T == {k \in Nat : k <= n => Back(n - k)}
  <2>1. Back(n)
    <3>1. n < n + 1 /\ n \in Int /\ n + 1 \in Int
      BY <1>0
    <3> QED BY <3>1, <1>11, SubSeqEmpty
  <2>2. ASSUME NEW m \in 1..n, Back(m) PROVE Back(m - 1)
    <3>1. m \in 1..Len(v) /\ n \in m..Len(v) /\ (m - 1) + 1 = m
      BY <1>0 DEF n
    <3>2. SubSeq(v, m, n) = <<v[m]>> \o SubSeq(v, m + 1, n)
      BY <3>1, SubSeqRecursiveFirst
    <3>3. f[off[m - 1] + 1] = <<v[m]>> \o f[off[m] + 1]
      BY <1>10
    <3> QED BY <2>2, <3>1, <3>2, <3>3
  <2> HIDE DEF Back
  <2>3. 0 \in T
    <3>1. n - 0 = n
      BY <1>0
    <3> QED BY <2>1, <3>1
  <2>4. ASSUME NEW k \in Nat, k \in T PROVE k + 1 \in T
    <3> SUFFICES ASSUME k + 1 <= n PROVE Back(n - (k + 1))
      OBVIOUS
    <3>1. k <= n /\ n - k \in 1..n /\ (n - k) - 1 = n - (k + 1)
      BY <1>0
    <3>2. Back(n - k)
      BY <2>4, <3>1
    <3>3. Back((n - k) - 1)
      BY <2>2, <3>1, <3>2
    <3> QED BY <3>1, <3>3
  <2> HIDE DEF T
  <2>5. n \in T
    BY <2>3, <2>4, <1>0, Induction
  <2>6. n <= n /\ n - n = 0
    BY <1>0
  <2>7. Back(n - n)
    BY <2>5, <2>6, <1>0 DEF T
  <2>8. Back(0)
    BY <2>6, <2>7
  <2> QED BY <2>8 DEF Back
<1>13. Unescaped(b) = v
  <2>1. SubSeq(v, 1, n) = v
    BY SubSeqFull DEF n
  <2>2. f[1] = f[off[0] + 1]
    BY <1>7
  <2> QED BY <1>5, <1>12, <2>1, <2>2
<1> QED BY <1>3, <1>9, <1>13 DEF b, L

-----------------------------------------------------------------------------
(* A line of an exported file.                                             *)

\* What a file consists of.
Letters == Keys \cup Known \cup {Export}

OneLine(l) == l \in Seq(Letters) /\ \A i \in 1..Len(l) : l[i] \notin LineEnds

\* A text between two characters.
LEMMA Enclosed ==
    ASSUME NEW S, NEW x \in S, NEW y \in S, NEW b \in Seq(S)
    PROVE  LET w == <<x>> \o b \o <<y>> IN
              /\ w \in Seq(S) /\ Len(b) \in Nat /\ Len(w) = Len(b) + 2
              /\ w[1] = x /\ w[Len(b) + 2] = y
              /\ \A j \in 1..Len(b) : w[1 + j] = b[j]
<1> DEFINE p == <<x>>
           q == <<y>>
           h == p \o b
           n == Len(b)
<1>1. p \in Seq(S) /\ Len(p) = 1 /\ p[1] = x /\ q \in Seq(S) /\ Len(q) = 1 /\ q[1] = y
  OBVIOUS
<1> HIDE DEF p, q
<1>2. /\ h \in Seq(S) /\ n \in Nat /\ Len(h) = 1 + n
      /\ \A i \in 1..1 : h[i] = p[i]
      /\ \A j \in 1..n : h[1 + j] = b[j]
  <2>1. /\ p \o b \in Seq(S) /\ Len(b) \in Nat
        /\ Len(p \o b) = Len(p) + Len(b)
        /\ \A i \in 1..Len(p) : (p \o b)[i] = p[i]
        /\ \A j \in 1..Len(b) : (p \o b)[Len(p) + j] = b[j]
    <3>1. p \in Seq(S) /\ b \in Seq(S)
      BY <1>1
    <3> QED BY <3>1, ConcatPlaces
  <2> QED BY <1>1, <2>1
<1> HIDE DEF h, n
<1>3. /\ h \o q \in Seq(S) /\ Len(h \o q) = (1 + n) + 1
      /\ \A i \in 1..(1 + n) : (h \o q)[i] = h[i]
      /\ \A j \in 1..1 : (h \o q)[(1 + n) + j] = q[j]
  <2>1. /\ h \o q \in Seq(S) /\ Len(q) \in Nat
        /\ Len(h \o q) = Len(h) + Len(q)
        /\ \A i \in 1..Len(h) : (h \o q)[i] = h[i]
        /\ \A j \in 1..Len(q) : (h \o q)[Len(h) + j] = q[j]
    <3>1. h \in Seq(S) /\ q \in Seq(S)
      BY <1>1, <1>2
    <3> QED BY <3>1, ConcatPlaces
  <2> QED BY <1>1, <1>2, <2>1
<1>4. 1 \in 1..1 /\ 1 \in 1..(1 + n) /\ (1 + n) + 1 = n + 2
  BY <1>2
<1>5. \A j \in 1..n : 1 + j \in 1..(1 + n)
  BY <1>2
<1>6. (h \o q)[1] = x /\ (h \o q)[n + 2] = y
  BY <1>1, <1>2, <1>3, <1>4
<1>7. \A j \in 1..n : (h \o q)[1 + j] = b[j]
  BY <1>2, <1>3, <1>5
<1> QED BY <1>2, <1>3, <1>4, <1>6, <1>7 DEF h, p, q, n

\* A text after two characters.
LEMMA Headed ==
    ASSUME NEW S, NEW x \in S, NEW y \in S, NEW b \in Seq(S)
    PROVE  LET w == <<x, y>> \o b IN
              /\ w \in Seq(S) /\ Len(b) \in Nat /\ Len(w) = 2 + Len(b)
              /\ w[1] = x /\ w[2] = y
              /\ \A j \in 1..Len(b) : w[2 + j] = b[j]
<1> DEFINE p == <<x, y>>
<1>1. p \in Seq(S) /\ Len(p) = 2 /\ p[1] = x /\ p[2] = y
  OBVIOUS
<1> HIDE DEF p
<1>2. /\ p \o b \in Seq(S) /\ Len(b) \in Nat /\ Len(p \o b) = 2 + Len(b)
      /\ \A i \in 1..2 : (p \o b)[i] = p[i]
      /\ \A j \in 1..Len(b) : (p \o b)[2 + j] = b[j]
  <2>1. /\ p \o b \in Seq(S) /\ Len(b) \in Nat
        /\ Len(p \o b) = Len(p) + Len(b)
        /\ \A i \in 1..Len(p) : (p \o b)[i] = p[i]
        /\ \A j \in 1..Len(b) : (p \o b)[Len(p) + j] = b[j]
    <3>1. p \in Seq(S) /\ b \in Seq(S)
      BY <1>1
    <3> QED BY <3>1, ConcatPlaces
  <2> QED BY <1>1, <2>1
<1>3. 1 \in 1..2 /\ 2 \in 1..2
  OBVIOUS
<1> QED BY <1>1, <1>2, <1>3 DEF p

\* The exported form of a value is one line without blanks at its ends, and the
\* import makes the value of it.
LEMMA ValueIsRead ==
    ASSUME NEW v \in Seq(Chars), ~LosesBlanks(v)
    PROVE  LET w == EscapedValue(v) IN
              /\ w \in Seq(Known) /\ w # <<>>
              /\ \A i \in 1..Len(w) : w[i] \notin LineEnds
              /\ w[Len(w)] \notin Blanks
              /\ Trim(w) = w
              /\ Unquoted(w) = v
<1> DEFINE w == EscapedValue(v)
<1>0. v \in Seq(Known) /\ DOMAIN v = 1..Len(v) /\ Len(v) \in Nat
  BY CharsAreKnown, SeqMonotonic, LenProperties
<1>1. CASE NeedsQuoting(v)
  <2> DEFINE b == FlattenSeq(EscapedChars(v))
             q == "\""
             n == Len(b)
  <2>1. b \in Seq(Known) /\ (\A i \in 1..n : b[i] \notin LineEnds)
        /\ Unescaped(b) = v
    BY <1>0, EscapesComeBack
  <2>2. w = <<q>> \o b \o <<q>>
    BY <1>1 DEF EscapedValue, EscapedChars
  <2>3. q \in Known /\ q \notin LineEnds /\ q \notin Blanks /\ q # "'"
    BY DEF Known, LineEnds, Blanks
  <2> HIDE DEF w, b, q
  <2>4. /\ w \in Seq(Known) /\ n \in Nat /\ Len(w) = n + 2
        /\ w[1] = q /\ w[n + 2] = q
        /\ \A j \in 1..n : w[1 + j] = b[j]
    BY <2>1, <2>2, <2>3, Enclosed
  <2> HIDE DEF n
  <2>5. w # <<>> /\ w[Len(w)] \notin Blanks /\ w[1] \notin Blanks
    <3>1. Len(w) # 0
      BY <2>4
    <3> QED BY <3>1, <2>3, <2>4, EmptySeq
  <2>6. ASSUME NEW i \in 1..Len(w) PROVE w[i] \notin LineEnds
    <3>1. i = 1 \/ i = n + 2 \/ (i - 1 \in 1..n /\ 1 + (i - 1) = i)
      BY <2>4
    <3>2. CASE i = 1 \/ i = n + 2
      BY <3>2, <2>3, <2>4
    <3>3. CASE i - 1 \in 1..n /\ 1 + (i - 1) = i
      <4>1. w[i] = b[i - 1]
        BY <3>3, <2>4
      <4> QED BY <4>1, <3>3, <2>1 DEF n
    <3> QED BY <3>1, <3>2, <3>3
  <2>7. Trim(w) = w
    BY <2>4, <2>5, TrimNothing
  <2>8. SubSeq(w, 2, Len(w) - 1) = b
    <3>1. 1 \in Nat /\ 1 + n <= Len(w) /\ 1 + 1 = 2 /\ 1 + n = Len(w) - 1
      BY <2>4
    <3>2. SubSeq(w, 1 + 1, 1 + n) = b
      BY <2>1, <2>4, <3>1, PieceIs DEF n
    <3> QED BY <3>1, <3>2
  <2>9. ~Within(w, "'") /\ Within(w, "\"")
    <3>1. Len(w) >= 2
      BY <2>4
    <3>2. w[1] = "\"" /\ w[Len(w)] = "\""
      BY <2>4 DEF q
    <3> QED BY <3>1, <3>2 DEF Within
  <2>10. Unquoted(w) = v
    BY <2>1, <2>8, <2>9 DEF Unquoted
  <2> QED BY <2>4, <2>5, <2>6, <2>7, <2>10 DEF w
<1>2. CASE ~NeedsQuoting(v)
  <2>1. w = v /\ v # <<>> /\ \A i \in 1..Len(v) : v[i] \notin Special
    BY <1>0, <1>2 DEF EscapedValue, NeedsQuoting
  <2>2. Trim(v) = v
    BY <1>2 DEF LosesBlanks
  <2>3. v[Len(v)] \notin Blanks
    BY <1>0, <2>1, <2>2, TrimmedEnd
  <2>4. \A i \in 1..Len(v) : v[i] \notin LineEnds
    BY <2>1 DEF Special, Controls, LineEnds
  <2>5. v[1] \notin {"'", "\""}
    <3>1. 1 \in 1..Len(v)
      BY <1>0, <2>1, EmptySeq
    <3> QED BY <3>1, <2>1 DEF Special
  <2>6. Unquoted(v) = v
    BY <2>5 DEF Unquoted, Within
  <2> HIDE DEF w
  <2> QED BY <1>0, <2>1, <2>2, <2>3, <2>4, <2>6 DEF w
<1> QED BY <1>1, <1>2

\* Line l of a file gives key k the value v; line l gives nothing.
Reads(l, k, v) ==
    LET t == Trim(l)
        u == Unexported(t)
    IN  /\ t # <<>> /\ t[1] # "#"
        /\ IsAssignment(u) /\ KeyOf(u) = <<k>> /\ ValueOf(u) = v

Skipped(l) == Trim(l) = <<>> \/ Trim(l)[1] = "#"

\* A key is a word of its own.
LEMMA KeysAreApart ==
    ASSUME NEW k \in EnvSafe
    PROVE  /\ k \in Letters /\ k \in Keys /\ k \notin Blanks /\ k \notin LineEnds
           /\ k \notin {"=", "#", "'", "\""} /\ k # Export
<1>1. k \in Keys /\ k \notin Known /\ k # Export
  BY KeysAreWords, CharsAreKnown
<1>2. Blanks \cup LineEnds \cup {"=", "#", "'", "\""} \subseteq Known
  BY DEF Blanks, LineEnds, Known
<1> QED BY <1>1, <1>2 DEF Letters

LEMMA LettersAreApart ==
    /\ Known \subseteq Letters /\ Export \in Letters
    /\ Export \notin Blanks /\ Export # "#" /\ Export \notin LineEnds
    /\ "=" \in Known /\ "=" \notin Blanks /\ "=" \notin LineEnds
    /\ "tab" \in Known /\ "space" \in Known
    /\ "tab" \in Blanks /\ "space" \in Blanks
    /\ "tab" \notin LineEnds /\ "space" \notin LineEnds
  BY DEF Known, Letters, Export, Blanks, LineEnds

\* What is written after the key, if it is one line that is not empty and has no
\* blanks at its ends.
Written(w) ==
    /\ w \in Seq(Known) /\ w # <<>>
    /\ \A i \in 1..Len(w) : w[i] \notin LineEnds
    /\ w[Len(w)] \notin Blanks
    /\ Trim(w) = w

\* A line is divided at the sign after its key.
LEMMA AssignmentIsRead ==
    ASSUME NEW k \in EnvSafe, NEW w, Written(w)
    PROVE  LET u == <<k, "=">> \o w IN
              /\ OneLine(u) /\ u # <<>> /\ u[1] = k
              /\ u[Len(u)] \notin Blanks
              /\ Trim(u) = u
              /\ IsAssignment(u) /\ KeyOf(u) = <<k>> /\ ValueOf(u) = Unquoted(w)
<1> DEFINE u == <<k, "=">> \o w
           n == Len(w)
<1>1. /\ k \in Letters /\ k \notin Blanks /\ k \notin LineEnds /\ k # "="
      /\ "=" \in Letters /\ "=" \notin LineEnds
  BY KeysAreApart, LettersAreApart
<1>2. w \in Seq(Letters) /\ n \in Nat /\ n # 0
  BY LettersAreApart, SeqMonotonic, LenProperties, EmptySeq DEF Written
<1>3. /\ u \in Seq(Letters) /\ Len(u) = 2 + n /\ u[1] = k /\ u[2] = "="
      /\ \A j \in 1..n : u[2 + j] = w[j]
  BY <1>1, <1>2, Headed
<1> HIDE DEF u, n
<1>4. Len(u) # 0 /\ DOMAIN u = 1..(2 + n) /\ u # <<>>
  BY <1>2, <1>3, LenProperties, EmptySeq
<1>5. u[Len(u)] \notin Blanks
  <2>1. n \in 1..n /\ w[n] \notin Blanks
    BY <1>2 DEF Written, n
  <2> QED BY <1>3, <2>1
<1>6. Trim(u) = u
  BY <1>1, <1>3, <1>4, <1>5, TrimNothing
<1>7. ASSUME NEW i \in 1..Len(u) PROVE u[i] \notin LineEnds
  <2>1. i = 1 \/ i = 2 \/ (i - 2 \in 1..n /\ 2 + (i - 2) = i)
    BY <1>2, <1>3
  <2>2. CASE i = 1 \/ i = 2
    BY <2>2, <1>1, <1>3
  <2>3. CASE i - 2 \in 1..n /\ 2 + (i - 2) = i
    <3>1. u[i] = w[i - 2]
      BY <2>3, <1>3
    <3> QED BY <3>1, <2>3 DEF Written, n
  <2> QED BY <2>1, <2>2, <2>3
<1>8. Min(Signs(u)) = 2 /\ Signs(u) # {}
  <2>1. Signs(u) \in SUBSET Nat /\ 2 \in Signs(u)
    BY <1>2, <1>3, <1>4 DEF Signs
  <2>2. \A c \in Signs(u) : 2 <= c
    <3>1. ASSUME NEW c \in 1..(2 + n), u[c] = "=" PROVE 2 <= c
      <4>1. c # 1
        BY <3>1, <1>1, <1>3
      <4> QED BY <4>1, <1>2
    <3> QED BY <3>1, <1>4 DEF Signs
  <2> QED BY <2>1, <2>2, MinIs
<1>9. KeyOf(u) = <<k>>
  <2> DEFINE p == <<k>>
  <2>1. p \in Seq(Letters) /\ Len(p) = 1 /\ p # <<>> /\ p[1] = k
    BY <1>1
  <2>2. 0 \in Nat /\ 0 + 1 <= Len(u) /\ 0 + 1 = 1 /\ 2 - 1 = 0 + 1
        /\ \A j \in 1..1 : u[0 + j] = p[j]
    BY <1>2, <1>3, <2>1
  <2> HIDE DEF p
  <2>3. SubSeq(u, 0 + 1, 0 + 1) = p
    BY <1>3, <2>1, <2>2, PieceIs
  <2>4. Trim(p) = p
    BY <1>1, <2>1, TrimNothing
  <2>5. KeyOf(u) = p
    BY <1>8, <2>2, <2>3, <2>4 DEF KeyOf
  <2> QED BY <2>5 DEF p
<1>10. ValueOf(u) = Unquoted(w)
  <2>1. 2 \in Nat /\ 2 + n <= Len(u) /\ 2 + 1 = Min(Signs(u)) + 1 /\ 2 + n = Len(u)
    BY <1>2, <1>3, <1>8
  <2>2. SubSeq(u, 2 + 1, 2 + n) = w
    BY <1>2, <1>3, <2>1, PieceIs DEF n
  <2> QED BY <2>1, <2>2 DEF ValueOf, Written
<1>11. IsAssignment(u)
  BY <1>8, <1>9 DEF IsAssignment
<1> QED BY <1>3, <1>4, <1>5, <1>6, <1>7, <1>9, <1>10, <1>11 DEF u, OneLine

\* As it was exported,
LEMMA PlainIsRead ==
    ASSUME NEW k \in EnvSafe, NEW w, Written(w)
    PROVE  /\ OneLine(<<k, "=">> \o w)
           /\ Reads(<<k, "=">> \o w, k, Unquoted(w))
<1> DEFINE u == <<k, "=">> \o w
<1>1. /\ OneLine(u) /\ u # <<>> /\ u[1] = k /\ Trim(u) = u
      /\ IsAssignment(u) /\ KeyOf(u) = <<k>> /\ ValueOf(u) = Unquoted(w)
  BY AssignmentIsRead
<1>2. k # "#" /\ k # Export
  BY KeysAreApart
<1> HIDE DEF u
<1>3. Unexported(u) = u
  BY <1>1, <1>2 DEF Unexported
<1> QED BY <1>1, <1>2, <1>3 DEF Reads, u

\* after the word export,
LEMMA PrefixedIsRead ==
    ASSUME NEW k \in EnvSafe, NEW w, Written(w)
    PROVE  LET l == <<Export, "space">> \o (<<k, "=">> \o w)
           IN  OneLine(l) /\ Reads(l, k, Unquoted(w))
<1> DEFINE u == <<k, "=">> \o w
           l == <<Export, "space">> \o u
           n == Len(u)
<1>1. /\ OneLine(u) /\ u # <<>> /\ u[1] = k /\ Trim(u) = u /\ u[n] \notin Blanks
      /\ IsAssignment(u) /\ KeyOf(u) = <<k>> /\ ValueOf(u) = Unquoted(w)
  BY AssignmentIsRead
<1>2. /\ Export \in Letters /\ "space" \in Letters /\ "space" \notin LineEnds
      /\ Export \notin LineEnds /\ Export \notin Blanks /\ Export # "#"
  BY LettersAreApart
<1> HIDE DEF u
<1>3. u \in Seq(Letters) /\ n # 0
  BY <1>1, EmptySeq DEF OneLine
<1>4. /\ l \in Seq(Letters) /\ n \in Nat /\ Len(l) = 2 + n
      /\ l[1] = Export /\ l[2] = "space"
      /\ \A j \in 1..n : l[2 + j] = u[j]
  BY <1>2, <1>3, Headed
<1>n. \A i \in 1..n : u[i] \notin LineEnds
  BY <1>1 DEF OneLine
<1> HIDE DEF l, n
<1>5. Len(l) # 0 /\ l # <<>> /\ Len(l) >= 2 /\ Len(l) \in Nat
  BY <1>4, EmptySeq
<1>6. l[Len(l)] \notin Blanks
  <2>1. n \in 1..n
    BY <1>3, <1>4
  <2> QED BY <2>1, <1>1, <1>4
<1>7. Trim(l) = l
  BY <1>2, <1>4, <1>5, <1>6, TrimNothing
<1>8. ASSUME NEW i \in 1..Len(l) PROVE l[i] \notin LineEnds
  <2>1. i = 1 \/ i = 2 \/ (i - 2 \in 1..n /\ 2 + (i - 2) = i)
    BY <1>4
  <2>2. CASE i = 1 \/ i = 2
    BY <2>2, <1>2, <1>4
  <2>3. CASE i - 2 \in 1..n /\ 2 + (i - 2) = i
    <3>1. l[i] = u[i - 2]
      BY <2>3, <1>4
    <3> QED BY <3>1, <2>3, <1>n
  <2> QED BY <2>1, <2>2, <2>3
<1>9. SubSeq(l, 3, Len(l)) = u
  <2>1. 2 \in Nat /\ 2 + n <= Len(l) /\ 2 + 1 = 3 /\ 2 + n = Len(l)
    BY <1>4
  <2>2. SubSeq(l, 2 + 1, 2 + n) = u
    BY <1>3, <1>4, <2>1, PieceIs DEF n
  <2> QED BY <2>1, <2>2
<1>10. Unexported(l) = u
  BY <1>1, <1>4, <1>5, <1>9 DEF Unexported
<1>11. Reads(l, k, Unquoted(w))
  BY <1>1, <1>2, <1>4, <1>5, <1>7, <1>10 DEF Reads
<1>12. OneLine(l)
  BY <1>4, <1>8 DEF OneLine
<1> QED BY <1>11, <1>12 DEF l, u

\* or with blanks at both ends.
LEMMA IndentedIsRead ==
    ASSUME NEW k \in EnvSafe, NEW w, Written(w)
    PROVE  LET l == <<"tab">> \o (<<k, "=">> \o w) \o <<"space">>
           IN  OneLine(l) /\ Reads(l, k, Unquoted(w))
<1> DEFINE u == <<k, "=">> \o w
           x == "tab"
           y == "space"
           l == <<x>> \o u \o <<y>>
           n == Len(u)
<1>1. /\ OneLine(u) /\ u # <<>> /\ u[1] = k /\ u[n] \notin Blanks
      /\ Trim(u) = u
      /\ IsAssignment(u) /\ KeyOf(u) = <<k>> /\ ValueOf(u) = Unquoted(w)
  BY AssignmentIsRead
<1>2. /\ x \in Letters /\ x \in Blanks /\ x \notin LineEnds
      /\ y \in Letters /\ y \in Blanks /\ y \notin LineEnds
  BY LettersAreApart
<1>3. k \notin Blanks /\ k # "#" /\ k # Export
  BY KeysAreApart
<1> HIDE DEF u, x, y
<1>4. u \in Seq(Letters) /\ n # 0 /\ \A i \in 1..n : u[i] \notin LineEnds
  BY <1>1, EmptySeq DEF OneLine
<1>5. /\ l \in Seq(Letters) /\ n \in Nat /\ Len(l) = n + 2
      /\ l[1] = x /\ l[n + 2] = y
      /\ \A j \in 1..n : l[1 + j] = u[j]
  BY <1>2, <1>4, Enclosed
<1> HIDE DEF l, n
<1>6. ASSUME NEW i \in 1..Len(l)
      PROVE  l[i] \notin LineEnds /\ (l[i] \notin Blanks => i \in (1 + 1)..(1 + n))
  <2>1. i = 1 \/ i = n + 2 \/ (i - 1 \in 1..n /\ 1 + (i - 1) = i)
    BY <1>5
  <2>2. CASE i = 1 \/ i = n + 2
    BY <2>2, <1>2, <1>5
  <2>3. CASE i - 1 \in 1..n /\ 1 + (i - 1) = i
    <3>1. l[i] = u[i - 1]
      BY <2>3, <1>5
    <3>2. i \in (1 + 1)..(1 + n)
      BY <2>3, <1>5
    <3> QED BY <3>1, <3>2, <2>3, <1>4
  <2> QED BY <2>1, <2>2, <2>3
<1>7. Trim(l) = u
  <2>1. 1 \in Nat /\ 1 + n <= Len(l)
    BY <1>5
  <2>2. \A i \in 1..Len(l) : l[i] \notin Blanks => i \in (1 + 1)..(1 + n)
    BY <1>6
  <2> QED BY <1>1, <1>3, <1>4, <1>5, <2>1, <2>2, TrimTo DEF n
<1>8. Unexported(u) = u
  BY <1>1, <1>3 DEF Unexported
<1>9. Reads(l, k, Unquoted(w))
  BY <1>1, <1>3, <1>7, <1>8 DEF Reads
<1>10. OneLine(l)
  BY <1>5, <1>6 DEF OneLine
<1> QED BY <1>9, <1>10 DEF l, u, x, y

-----------------------------------------------------------------------------
(* A file is its lines.                                                    *)

\* The lines of L begin in the text t at the places at, in their order; what begins
\* elsewhere is empty.
LinesOf(t, L, at) ==
    /\ at \in [1..Len(L) -> Nat]
    /\ \A i, j \in 1..Len(L) : i < j => at[i] < at[j]
    /\ \A i \in 1..Len(L) : at[i] \in Starts(t) /\ LineAt(t, at[i]) = L[i]
    /\ \A p \in Starts(t) : LineAt(t, p) = <<>> \/ \E i \in 1..Len(L) : p = at[i]

\* A line goes on to the first line end, or to the end of the text.
LEMMA LineGoesTo ==
    ASSUME NEW S, NEW t \in Seq(S), NEW p \in 1..(Len(t) + 1),
           NEW e \in p..(Len(t) + 1),
           e = Len(t) + 1 \/ t[e] \in LineEnds,
           \A q \in p..(e - 1) : t[q] \notin LineEnds
    PROVE  LineAt(t, p) = SubSeq(t, p, e - 1)
<1> DEFINE n == Len(t)
           C == {q \in p..n : t[q] \in LineEnds} \cup {n + 1}
<1>1. n \in Nat
  BY LenProperties
<1>2. p \in 1..(n + 1) /\ e \in p..(n + 1) /\ (e = n + 1 \/ t[e] \in LineEnds)
  OBVIOUS
<1>3. LineAt(t, p) = SubSeq(t, p, Min(C) - 1)
  BY DEF LineAt
<1> HIDE DEF n
<1>4. C \in SUBSET Nat /\ e \in C
  BY <1>1, <1>2
<1>5. ASSUME NEW c \in C PROVE e <= c
  <2>1. CASE c = n + 1
    BY <2>1, <1>1, <1>2
  <2>2. CASE c \in p..n /\ t[c] \in LineEnds
    <3>1. c \notin p..(e - 1)
      BY <2>2
    <3> QED BY <2>2, <3>1, <1>1, <1>2
  <2> QED BY <2>1, <2>2
<1> HIDE DEF C
<1>6. Min(C) = e
  BY <1>4, <1>5, MinIs
<1> QED BY <1>3, <1>6

\* With a line end after each of them, the lines of a text are found again.
LEMMA LinesAreFound ==
    ASSUME NEW L \in Seq(Seq(Letters)), \A i \in 1..Len(L) : OneLine(L[i]),
           NEW e \in {<<"LF">>, <<"CR", "LF">>}
    PROVE  \E at : LinesOf(FlattenSeq([i \in DOMAIN L |-> L[i] \o e]), L, at)
<1> DEFINE N == Len(L)
           M == [i \in DOMAIN L |-> L[i] \o e]
           t == FlattenSeq(M)
           m == Len(e)
<1>1. N \in Nat /\ DOMAIN L = 1..N /\ \A i \in 1..N : L[i] \in Seq(Letters)
  BY LenProperties, ElementOfSeq
<1>2. /\ e \in Seq(Letters) /\ m \in {1, 2} /\ \A j \in 1..m : e[j] \in LineEnds
  <2>1. "LF" \in Letters /\ "CR" \in Letters /\ LineEnds = {"LF", "CR"}
    BY DEF Letters, Known, LineEnds
  <2>2. CASE e = <<"LF">>
    <3>1. e \in Seq(Letters) /\ m = 1 /\ e[1] = "LF" /\ \A j \in 1..1 : j = 1
      BY <2>1, <2>2
    <3> QED BY <3>1, <2>1
  <2>3. CASE e = <<"CR", "LF">>
    <3>1. e \in Seq(Letters) /\ m = 2 /\ e[1] = "CR" /\ e[2] = "LF"
          /\ \A j \in 1..2 : j = 1 \/ j = 2
      BY <2>1, <2>3
    <3> QED BY <3>1, <2>1
  <2> QED BY <2>2, <2>3
<1> HIDE DEF m, N
<1>3. ASSUME NEW i \in 1..N
      PROVE  /\ M[i] \in Seq(Letters) /\ Len(L[i]) \in Nat
             /\ Len(M[i]) = Len(L[i]) + m
             /\ \A q \in 1..Len(L[i]) : M[i][q] = L[i][q] /\ M[i][q] \notin LineEnds
             /\ \A j \in 1..m : M[i][Len(L[i]) + j] \in LineEnds
  <2> DEFINE l == L[i]
  <2>1. l \in Seq(Letters) /\ M[i] = l \o e
    BY <1>1
  <2>2. \A q \in 1..Len(l) : l[q] \notin LineEnds
    BY DEF N, OneLine
  <2> HIDE DEF l, M
  <2>3. /\ l \o e \in Seq(Letters) /\ Len(l) \in Nat
        /\ Len(l \o e) = Len(l) + Len(e)
        /\ \A q \in 1..Len(l) : (l \o e)[q] = l[q]
        /\ \A j \in 1..Len(e) : (l \o e)[Len(l) + j] = e[j]
    <3>1. l \in Seq(Letters) /\ e \in Seq(Letters)
      BY <2>1, <1>2
    <3> QED BY <3>1, ConcatPlaces
  <2>4. \A j \in 1..m : M[i][Len(l) + j] \in LineEnds
    BY <2>1, <2>3, <1>2 DEF m
  <2>5. \A q \in 1..Len(l) : M[i][q] = l[q] /\ M[i][q] \notin LineEnds
    BY <2>1, <2>2, <2>3
  <2> QED BY <2>1, <2>3, <2>4, <2>5 DEF l, m
<1>4. M \in Seq(Seq(Letters)) /\ Len(M) = N
  <2>1. M \in [1..N -> Seq(Letters)]
    <3>1. M = [i \in 1..N |-> M[i]]
      BY <1>1
    <3>2. \A i \in 1..N : M[i] \in Seq(Letters)
      BY <1>3
    <3> HIDE DEF M
    <3> QED BY <3>1, <3>2
  <2> HIDE DEF M
  <2>2. M \in Seq(Seq(Letters))
    BY <2>1, <1>1, SeqDef
  <2>3. DOMAIN M = 1..N /\ DOMAIN M = 1..Len(M) /\ Len(M) \in Nat
    BY <2>1, <2>2, LenProperties
  <2> QED BY <2>2, <2>3, <1>1
<1> HIDE DEF M
<1>5. t \in Seq(Letters) /\ \E off : Places(off, M, t)
  BY <1>4, FlattenPlaces
<1>6. PICK off : Places(off, M, t)
  BY <1>5
<1> HIDE DEF t
<1>7. /\ off \in [0..N -> Nat] /\ off[0] = 0 /\ off[N] = Len(t)
      /\ \A i \in 1..N : off[i] = off[i - 1] + Len(M[i])
      /\ \A i \in 1..N : \A j \in 1..Len(M[i]) : t[off[i - 1] + j] = M[i][j]
      /\ \A q \in 1..Len(t) : \E i \in 1..N : q \in (off[i - 1] + 1)..off[i]
      /\ \A i, j \in 0..N : i <= j => off[i] <= off[j]
  BY <1>4, <1>6 DEF Places
<1>8. ASSUME NEW i \in 1..N
      PROVE  LET a == off[i - 1]
                 l == Len(L[i])
             IN  /\ a \in Nat /\ l \in Nat /\ Len(t) \in Nat
                 /\ off[i] = a + l + m /\ off[i] <= Len(t)
                 /\ \A q \in 1..l : t[a + q] = L[i][q] /\ t[a + q] \notin LineEnds
                 /\ \A j \in 1..m : t[a + l + j] \in LineEnds
  <2> DEFINE a == off[i - 1]
             l == Len(L[i])
  <2>1. i \in 0..N /\ i - 1 \in 0..N /\ N \in 0..N /\ i <= N
    BY <1>1
  <2>2. a \in Nat /\ Len(t) \in Nat /\ off[i] <= Len(t)
    BY <2>1, <1>7
  <2>3. /\ l \in Nat /\ Len(M[i]) = l + m
        /\ \A q \in 1..l : M[i][q] = L[i][q] /\ M[i][q] \notin LineEnds
        /\ \A j \in 1..m : M[i][l + j] \in LineEnds
    BY <1>3
  <2>4. off[i] = a + (l + m) /\ \A j \in 1..(l + m) : t[a + j] = M[i][j]
    BY <2>3, <1>7
  <2> HIDE DEF a, l
  <2>5. ASSUME NEW q \in 1..l
        PROVE  t[a + q] = L[i][q] /\ t[a + q] \notin LineEnds
    <3>1. q \in 1..(l + m)
      BY <2>3, <1>2
    <3> QED BY <3>1, <2>3, <2>4
  <2>6. ASSUME NEW j \in 1..m PROVE t[a + l + j] \in LineEnds
    <3>1. l + j \in 1..(l + m) /\ a + (l + j) = a + l + j
      BY <2>2, <2>3, <1>2
    <3> QED BY <3>1, <2>3, <2>4
  <2>7. off[i] = a + l + m
    BY <2>2, <2>3, <2>4, <1>2
  <2> QED BY <2>2, <2>3, <2>5, <2>6, <2>7 DEF a, l
<1> DEFINE at == [i \in 1..N |-> off[i - 1] + 1]
<1>9. ASSUME NEW i \in 1..N
      PROVE  at[i] \in Starts(t) /\ LineAt(t, at[i]) = L[i]
  <2> DEFINE a == off[i - 1]
             l == Len(L[i])
             n == Len(t)
  <2>1. /\ a \in Nat /\ l \in Nat /\ n \in Nat
        /\ off[i] = a + l + m /\ off[i] <= n
        /\ \A q \in 1..l : t[a + q] = L[i][q] /\ t[a + q] \notin LineEnds
        /\ \A j \in 1..m : t[a + l + j] \in LineEnds
    BY <1>8
  <2>2. at[i] = a + 1
    OBVIOUS
  <2>3. a = 0 \/ t[a] \in LineEnds
    <3>1. CASE i = 1
      BY <3>1, <1>7
    <3>2. CASE i # 1
      <4> DEFINE h == i - 1
                 b == off[h - 1]
                 g == Len(L[h])
      <4>1. h \in 1..N
        BY <3>2, <1>1
      <4>2. /\ b \in Nat /\ g \in Nat /\ off[h] = b + g + m
            /\ \A j \in 1..m : t[b + g + j] \in LineEnds
        BY <4>1, <1>8
      <4>3. m \in 1..m
        BY <1>2
      <4> QED BY <4>2, <4>3
    <3> QED BY <3>1, <3>2
  <2> HIDE DEF a, l, n, at
  <2>4. a + 1 \in 1..(n + 1) /\ (a + 1) - 1 = a
    BY <2>1, <1>2
  <2>5. at[i] \in Starts(t)
    <3>1. a + 1 = 1 \/ t[(a + 1) - 1] \in LineEnds
      BY <2>3, <2>4
    <3> QED BY <2>2, <2>4, <3>1 DEF Starts, n
  <2> DEFINE z == a + l + 1
  <2>6. z \in (a + 1)..(n + 1) /\ t[z] \in LineEnds /\ z - 1 = a + l
    <3>1. 1 \in 1..m
      BY <1>2
    <3>2. t[a + l + 1] \in LineEnds
      BY <3>1, <2>1
    <3> QED BY <2>1, <1>2, <3>2
  <2>7. ASSUME NEW q \in (a + 1)..(z - 1) PROVE t[q] \notin LineEnds
    <3>1. q - a \in 1..l /\ a + (q - a) = q
      BY <2>1
    <3>2. t[a + (q - a)] \notin LineEnds
      BY <3>1, <2>1
    <3> QED BY <3>1, <3>2
  <2> HIDE DEF z
  <2>8. LineAt(t, a + 1) = SubSeq(t, a + 1, z - 1)
    BY <1>5, <2>4, <2>6, <2>7, LineGoesTo DEF n
  <2>9. SubSeq(t, a + 1, a + l) = L[i]
    <3>1. L[i] \in Seq(Letters) /\ a + l <= n /\ \A q \in 1..l : t[a + q] = L[i][q]
      BY <1>1, <2>1, <1>2
    <3> QED BY <3>1, <1>5, <2>1, PieceIs DEF l, n
  <2> QED BY <2>2, <2>5, <2>6, <2>8, <2>9
<1>10. ASSUME NEW p \in Starts(t)
       PROVE  LineAt(t, p) = <<>> \/ \E i \in 1..N : p = at[i]
  <2> DEFINE n == Len(t)
  <2>1. n \in Nat /\ p \in 1..(n + 1) /\ (p = 1 \/ t[p - 1] \in LineEnds)
    BY <1>5, LenProperties DEF Starts
  <2>2. ASSUME p = n + 1 \/ t[p] \in LineEnds PROVE LineAt(t, p) = <<>>
    <3> HIDE DEF n
    <3>1. p \in p..(n + 1) /\ \A q \in p..(p - 1) : t[q] \notin LineEnds
      BY <2>1
    <3>2. LineAt(t, p) = SubSeq(t, p, p - 1)
      BY <1>5, <2>1, <2>2, <3>1, LineGoesTo DEF n
    <3>3. p - 1 < p /\ p \in Int /\ p - 1 \in Int
      BY <2>1
    <3> QED BY <3>2, <3>3, SubSeqEmpty
  <2>3. CASE p = 1
    <3>1. CASE N = 0
      <4>1. n = 0
        BY <3>1, <1>7
      <4> QED BY <4>1, <2>2, <2>3
    <3>2. CASE N # 0
      <4>1. 1 \in 1..N /\ 1 - 1 = 0
        BY <3>2, <1>1
      <4>2. at[1] = 1
        BY <4>1, <1>7
      <4> QED BY <4>1, <4>2, <2>3
    <3> QED BY <3>1, <3>2
  <2>4. CASE p # 1
    <3>1. p - 1 \in 1..n /\ t[p - 1] \in LineEnds
      BY <2>1, <2>4
    <3>2. PICK i \in 1..N : p - 1 \in (off[i - 1] + 1)..off[i]
      BY <3>1, <1>7
    <3> DEFINE a == off[i - 1]
               l == Len(L[i])
    <3>3. /\ a \in Nat /\ l \in Nat
          /\ off[i] = a + l + m /\ off[i] <= n
          /\ \A q \in 1..l : t[a + q] \notin LineEnds
          /\ \A j \in 1..m : t[a + l + j] \in LineEnds
      BY <1>8
    <3>4. p - 1 \in (a + 1)..(a + l + m)
      BY <3>2, <3>3
    <3> HIDE DEF a, l, n, at
    <3>5. ~(p - 1 <= a + l)
      <4> SUFFICES ASSUME p - 1 <= a + l PROVE FALSE
        OBVIOUS
      <4>1. (p - 1) - a \in 1..l /\ a + ((p - 1) - a) = p - 1
        BY <2>1, <3>3, <3>4
      <4>2. t[a + ((p - 1) - a)] \notin LineEnds
        BY <4>1, <3>3
      <4> QED BY <4>1, <4>2, <3>1
    <3>6. p = a + l + 2 \/ p = a + l + 3
      BY <2>1, <3>3, <3>4, <3>5, <1>2
    <3>7. CASE p = off[i] + 1
      <4>1. CASE i = N
        <5>1. p = n + 1
          BY <3>7, <4>1, <1>7 DEF n
        <5> QED BY <5>1, <2>2
      <4>2. CASE i # N
        <5>1. i + 1 \in 1..N /\ (i + 1) - 1 = i
          BY <4>2, <1>1
        <5>2. at[i + 1] = off[i] + 1
          BY <5>1 DEF at
        <5> QED BY <3>7, <5>1, <5>2
      <4> QED BY <4>1, <4>2
    <3>8. CASE p # off[i] + 1
      <4>m. m \in {1, 2} /\ a \in Nat /\ l \in Nat /\ off[i] = a + l + m
        BY <1>2, <3>3
      <4>1. p = a + l + 2 /\ 2 \in 1..m
        <5>1. CASE m = 1
          <6>1. p <= a + l + 2 /\ p # a + l + 2
            BY <4>m, <5>1, <3>4, <3>8, <2>1
          <6> QED BY <6>1, <4>m, <3>6
        <5>2. CASE m = 2
          <6>1. p # a + l + 3
            BY <4>m, <5>2, <3>8
          <6> QED BY <6>1, <5>2, <3>6
        <5> QED BY <4>m, <5>1, <5>2
      <4>2. t[a + l + 2] \in LineEnds
        BY <4>1, <3>3
      <4> QED BY <4>1, <4>2, <2>2
    <3> QED BY <3>7, <3>8
  <2> QED BY <2>3, <2>4
<1>11. ASSUME NEW i \in 1..N, NEW j \in 1..N, i < j PROVE at[i] < at[j]
  <2>1. i \in 0..N /\ j - 1 \in 0..N /\ i <= j - 1
    BY <1>1, <1>11
  <2>2. off[i] <= off[j - 1] /\ off[i] \in Nat /\ off[j - 1] \in Nat
    BY <2>1, <1>7
  <2>3. /\ off[i - 1] \in Nat /\ Len(L[i]) \in Nat
        /\ off[i] = off[i - 1] + Len(L[i]) + m
    BY <1>8
  <2>4. at[i] = off[i - 1] + 1 /\ at[j] = off[j - 1] + 1
    OBVIOUS
  <2> DEFINE l == Len(L[i])
  <2>5. l \in Nat /\ off[i] = off[i - 1] + l + m /\ off[i - 1] \in Nat
    BY <2>3
  <2> HIDE DEF l, at
  <2>6. m \in Nat
    BY <1>2
  <2>7. off[i - 1] + 1 < off[j - 1] + 1
    <3>1. m >= 1
      BY <1>2
    <3>2. off[i - 1] < off[i]
      BY <2>5, <2>6, <3>1
    <3> QED BY <3>2, <2>2, <2>5
  <2> QED BY <2>4, <2>7
<1>12. at \in [1..N -> Nat]
  <2>1. \A i \in 1..N : off[i - 1] + 1 \in Nat
    <3> SUFFICES ASSUME NEW i \in 1..N PROVE off[i - 1] + 1 \in Nat
      OBVIOUS
    <3>1. off[i - 1] \in Nat
      BY <1>8
    <3> QED BY <3>1
  <2> QED BY <2>1
<1> HIDE DEF at
<1>13. LinesOf(t, L, at)
  BY <1>9, <1>10, <1>11, <1>12 DEF LinesOf, N
<1> QED BY <1>13 DEF t, M

-----------------------------------------------------------------------------
(* What is imported.                                                       *)

\* Every line of L is passed over or gives a key of d some value, and for each key
\* of d there is a line after which it is no longer mentioned, with its value in d.
Restores(L, d) ==
    /\ \A i \in 1..Len(L) : Skipped(L[i]) \/ \E k \in DOMAIN d : \E v : Reads(L[i], k, v)
    /\ \A k \in DOMAIN d : \E i \in 1..Len(L) :
           /\ Reads(L[i], k, d[k])
           /\ \A j \in (i + 1)..Len(L) :
                  \E h \in (DOMAIN d) \ {k} : \E v : Reads(L[j], h, v)

\* Nothing is read in an empty line.
LEMMA EmptyIsSkipped == Skipped(<<>>)
<1>1. Inked(<<>>) = {}
  BY DEF Inked
<1> QED BY <1>1 DEF Skipped, Trim, Inked

\* The import of a file with such lines is d.
LEMMA ImportIs ==
    ASSUME NEW t, NEW L, NEW at, NEW d, Len(L) \in Nat, LinesOf(t, L, at),
           Restores(L, d), d = [k \in DOMAIN d |-> d[k]]
    PROVE  Imported(t) = IF DOMAIN d = {} THEN Refused ELSE d
<1> DEFINE N == Len(L)
           line == [p \in Starts(t) |-> Trim(LineAt(t, p))]
           kept == {p \in Starts(t) : line[p] # <<>> /\ line[p][1] # "#"}
           all == [p \in kept |-> Unexported(line[p])]
           Is(k, p) == KeyOf(all[p]) = <<k>> /\ LastWins(all, p)
           last(k) == CHOOSE p \in kept : Is(k, p)
           keys == {KeyOf(all[p])[1] : p \in kept}
<1>1. Imported(t) = IF kept = {} \/ \E p \in kept : ~IsAssignment(all[p]) THEN Refused
                    ELSE [k \in keys |-> ValueOf(all[last(k)])]
  BY DEF Imported
<1>2. /\ N \in Nat
      /\ \A i, j \in 1..N : i < j => at[i] < at[j]
      /\ \A i \in 1..N : at[i] \in Nat /\ at[i] \in Starts(t) /\ LineAt(t, at[i]) = L[i]
      /\ \A p \in Starts(t) : LineAt(t, p) = <<>> \/ \E i \in 1..N : p = at[i]
  BY DEF LinesOf
<1>3. ASSUME NEW p \in kept
      PROVE  \E i \in 1..N : p = at[i] /\ \E k \in DOMAIN d : \E v : Reads(L[i], k, v)
  <2>1. p \in Starts(t) /\ ~Skipped(LineAt(t, p))
    BY DEF Skipped
  <2>2. PICK i \in 1..N : p = at[i]
    BY <2>1, <1>2, EmptyIsSkipped
  <2>3. ~Skipped(L[i])
    BY <2>1, <2>2, <1>2
  <2> QED BY <2>2, <2>3 DEF Restores
<1>4. ASSUME NEW i \in 1..N, NEW k, NEW v, Reads(L[i], k, v)
      PROVE  /\ at[i] \in kept /\ IsAssignment(all[at[i]])
             /\ KeyOf(all[at[i]]) = <<k>> /\ ValueOf(all[at[i]]) = v
  <2>1. at[i] \in Starts(t) /\ LineAt(t, at[i]) = L[i]
    BY <1>2
  <2>2. line[at[i]] = Trim(L[i])
    BY <2>1
  <2>3. at[i] \in kept
    BY <2>1, <2>2, <1>4 DEF Reads
  <2>4. all[at[i]] = Unexported(Trim(L[i]))
    BY <2>2, <2>3
  <2> QED BY <2>3, <2>4, <1>4 DEF Reads
<1>5. DOMAIN all = kept
  OBVIOUS
<1>6. \A p \in kept : p \in Nat
  BY <1>2, <1>3
<1> HIDE DEF line, kept, all, N
<1>7. CASE DOMAIN d = {}
  <2>1. kept = {}
    BY <1>3, <1>7
  <2> QED BY <1>1, <1>7, <2>1
<1>8. CASE DOMAIN d # {}
  <2>1. ASSUME NEW k \in DOMAIN d
        PROVE  \E p \in kept : Is(k, p) /\ ValueOf(all[p]) = d[k]
    <3>1. PICK i \in 1..N :
              /\ Reads(L[i], k, d[k])
              /\ \A j \in (i + 1)..N :
                     \E h \in (DOMAIN d) \ {k} : \E v : Reads(L[j], h, v)
      BY DEF Restores, N
    <3>2. /\ at[i] \in kept /\ KeyOf(all[at[i]]) = <<k>>
          /\ ValueOf(all[at[i]]) = d[k]
      BY <3>1, <1>4
    <3>3. ASSUME NEW q \in kept, q > at[i] PROVE KeyOf(all[q]) # KeyOf(all[at[i]])
      <4>1. PICK j \in 1..N : q = at[j]
        BY <1>3
      <4>2. ~(j < i) /\ j # i
        <5>1. at[i] \in Nat /\ at[j] \in Nat
          BY <1>2
        <5>2. ~(at[j] < at[i]) /\ at[j] # at[i]
          BY <5>1, <4>1, <3>3
        <5> QED BY <5>2, <1>2
      <4>3. j \in (i + 1)..N
        BY <4>2, <1>2
      <4>4. PICK h \in (DOMAIN d) \ {k} : \E v : Reads(L[j], h, v)
        BY <4>3, <3>1
      <4>5. KeyOf(all[q]) = <<h>>
        BY <4>1, <4>4, <1>4
      <4>6. <<h>>[1] # <<k>>[1]
        BY <4>4
      <4> QED BY <4>5, <4>6, <3>2
    <3>4. LastWins(all, at[i])
      BY <3>3, <1>5 DEF LastWins
    <3> QED BY <3>2, <3>4
  <2>2. ASSUME NEW k, NEW p \in kept, NEW q \in kept, Is(k, p), Is(k, q)
        PROVE  p = q
    <3>1. ~(q > p) /\ ~(p > q)
      BY <2>2, <1>5 DEF LastWins
    <3> QED BY <3>1, <1>6
  <2>3. ASSUME NEW k \in DOMAIN d PROVE ValueOf(all[last(k)]) = d[k]
    <3>1. PICK p \in kept : Is(k, p) /\ ValueOf(all[p]) = d[k]
      BY <2>1
    <3> HIDE DEF Is
    <3>2. last(k) \in kept /\ Is(k, last(k))
      BY <3>1
    <3>3. last(k) = p
      BY <3>1, <3>2, <2>2
    <3> QED BY <3>1, <3>3
  <2>4. ASSUME NEW p \in kept
        PROVE  IsAssignment(all[p]) /\ KeyOf(all[p])[1] \in DOMAIN d
    <3>1. PICK i \in 1..N : p = at[i] /\ \E k \in DOMAIN d : \E v : Reads(L[i], k, v)
      BY <1>3
    <3>2. PICK k \in DOMAIN d : \E v : Reads(L[i], k, v)
      BY <3>1
    <3>3. IsAssignment(all[p]) /\ KeyOf(all[p]) = <<k>>
      BY <3>1, <3>2, <1>4
    <3>4. <<k>>[1] = k
      OBVIOUS
    <3> QED BY <3>3, <3>4
  <2>5. keys = DOMAIN d
    <3>1. keys \subseteq DOMAIN d
      BY <2>4
    <3>2. ASSUME NEW k \in DOMAIN d PROVE k \in keys
      <4>1. PICK p \in kept : KeyOf(all[p]) = <<k>>
        BY <2>1
      <4>2. KeyOf(all[p])[1] = k
        BY <4>1
      <4> QED BY <4>2
    <3> QED BY <3>1, <3>2
  <2>6. kept # {} /\ ~\E p \in kept : ~IsAssignment(all[p])
    BY <1>8, <2>1, <2>4
  <2> HIDE DEF last, keys
  <2>7. Imported(t) = [k \in keys |-> ValueOf(all[last(k)])]
    BY <1>1, <2>6
  <2>8. Imported(t) = [k \in DOMAIN d |-> d[k]]
    BY <2>3, <2>5, <2>7
  <2> QED BY <1>8, <2>8
<1> QED BY <1>7, <1>8

-----------------------------------------------------------------------------
(* The file of a secret.                                                   *)

\* SetToSeq lists the members of a finite set, each at one place.
LEMMA SetIsListed ==
    ASSUME NEW K, IsFiniteSet(K)
    PROVE  /\ Cardinality(K) \in Nat
           /\ \A i \in 1..Cardinality(K) : SetToSeq(K)[i] \in K
           /\ \A i, j \in 1..Cardinality(K) : SetToSeq(K)[i] = SetToSeq(K)[j] => i = j
           /\ \A k \in K : \E i \in 1..Cardinality(K) : SetToSeq(K)[i] = k
<1> DEFINE n == Cardinality(K)
           f == SetToSeq(K)
<1>1. n \in Nat /\ ExistsBijection(1..n, K)
  BY FS_CardinalityType
<1>2. \E g \in [1..n -> K] : IsInjective(g)
  BY <1>1 DEF ExistsBijection, Bijection, Injection
<1>3. f = CHOOSE g \in [1..n -> K] : IsInjective(g)
  BY DEF SetToSeq
<1> HIDE DEF f
<1>4. f \in [1..n -> K] /\ IsInjective(f)
  BY <1>2, <1>3
<1>5. IsFiniteSet(1..n) /\ Cardinality(1..n) = n
  BY <1>1, FS_Interval
<1>6. f \in Injection(1..n, K)
  BY <1>4 DEF Injection
<1>7. f \in Surjection(1..n, K)
  BY <1>5, <1>6, FS_Injection
<1>8. \A k \in K : \E i \in 1..n : f[i] = k
  BY <1>7 DEF Surjection
<1>9. \A i, j \in 1..n : f[i] = f[j] => i = j
  BY <1>4 DEF IsInjective
<1> QED BY <1>1, <1>4, <1>8, <1>9 DEF f

\* A secret that is exported, none of whose values loses blanks.
Exportable(d) ==
    /\ d \in Secrets /\ DOMAIN d \subseteq EnvSafe
    /\ \A k \in DOMAIN d : ~LosesBlanks(d[k])

\* What there is to know of the lines of its file.
LinesOfKeys(X, d, key) ==
    /\ X \in Seq(Seq(Letters)) /\ Len(X) = Cardinality(DOMAIN d)
    /\ key \in [1..Len(X) -> DOMAIN d]
    /\ \A i, j \in 1..Len(X) : i # j => key[i] # key[j]
    /\ \A k \in DOMAIN d : \E i \in 1..Len(X) : key[i] = k
    /\ \A i \in 1..Len(X) :
           LET w == EscapedValue(d[key[i]]) IN
              /\ X[i] = <<key[i], "=">> \o w
              /\ Written(w) /\ Unquoted(w) = d[key[i]]

LEMMA ExportedLines ==
    ASSUME NEW d, Exportable(d)
    PROVE  \E key : LinesOfKeys(EnvLines(d), d, key)
<1> DEFINE X == EnvLines(d)
           n == Cardinality(DOMAIN d)
           key == [i \in 1..n |-> SetToSeq(DOMAIN d)[i]]
<1>1. PICK K \in SUBSET Keys : IsFiniteSet(K) /\ d \in [K -> Seq(Chars)]
  BY SecretsAreData DEF Exportable
<1>2. IsFiniteSet(DOMAIN d) /\ \A k \in DOMAIN d : d[k] \in Seq(Chars)
  BY <1>1
<1>3. /\ n \in Nat
      /\ \A i \in 1..n : key[i] \in DOMAIN d
      /\ \A i, j \in 1..n : key[i] = key[j] => i = j
      /\ \A k \in DOMAIN d : \E i \in 1..n : key[i] = k
  BY <1>2, SetIsListed
<1>4. key \in [1..n -> DOMAIN d]
  BY <1>3
<1>5. X = [i \in 1..n |-> <<key[i], "=">> \o EscapedValue(d[key[i]])]
  BY DEF EnvLines
<1> HIDE DEF X, key, n
<1>6. ASSUME NEW i \in 1..n
      PROVE  /\ X[i] = <<key[i], "=">> \o EscapedValue(d[key[i]])
             /\ Written(EscapedValue(d[key[i]]))
             /\ Unquoted(EscapedValue(d[key[i]])) = d[key[i]]
             /\ X[i] \in Seq(Letters)
  <2>1. key[i] \in DOMAIN d /\ key[i] \in EnvSafe
    BY <1>3 DEF Exportable
  <2>2. d[key[i]] \in Seq(Chars) /\ ~LosesBlanks(d[key[i]])
    BY <2>1, <1>2 DEF Exportable
  <2> DEFINE w == EscapedValue(d[key[i]])
  <2>3. /\ w \in Seq(Known) /\ w # <<>>
        /\ \A j \in 1..Len(w) : w[j] \notin LineEnds
        /\ w[Len(w)] \notin Blanks
        /\ Trim(w) = w
        /\ Unquoted(w) = d[key[i]]
    BY <2>2, ValueIsRead
  <2> HIDE DEF w
  <2>4. Written(w) /\ Unquoted(w) = d[key[i]]
    BY <2>3 DEF Written
  <2>5. OneLine(<<key[i], "=">> \o w)
    BY <2>1, <2>4, PlainIsRead
  <2>6. X[i] = <<key[i], "=">> \o w
    BY <1>5 DEF w
  <2> QED BY <2>4, <2>5, <2>6 DEF w, OneLine
<1>7. X \in [1..n -> Seq(Letters)]
  BY <1>5, <1>6
<1>8. X \in Seq(Seq(Letters)) /\ Len(X) = n
  BY <1>3, <1>7, SeqDef, LenProperties
<1>9. LinesOfKeys(X, d, key)
  BY <1>3, <1>4, <1>6, <1>8 DEF LinesOfKeys, n
<1> QED BY <1>9 DEF X

\* What a text is whose lines end with e.
Ending(L, e) == FlattenSeq([i \in DOMAIN L |-> L[i] \o e])

LEMMA JoinedIs == \A L : Joined(L) = Ending(L, <<"LF">>)
  BY DEF Joined, Ending

LEMMA LineEndsAre ==
    <<"LF">> \in {<<"LF">>, <<"CR", "LF">>} /\ <<"CR", "LF">> \in {<<"LF">>, <<"CR", "LF">>}
  OBVIOUS

\* The lines of a file: after h lines that are passed over, or give keys of d some
\* values, one with the value of each key, as there are in X.
FileOf(L, h, X, d, key) ==
    /\ h \in Nat /\ L \in Seq(Seq(Letters)) /\ Len(L) = h + Len(X)
    /\ \A i \in 1..Len(L) : OneLine(L[i])
    /\ \A i \in 1..h : Skipped(L[i]) \/ \E k \in DOMAIN d : \E v : Reads(L[i], k, v)
    /\ \A i \in 1..Len(X) : Reads(L[h + i], key[i], d[key[i]])

\* It is imported as d.
LEMMA FileIsRead ==
    ASSUME NEW d, Exportable(d), NEW X, NEW key, LinesOfKeys(X, d, key),
           NEW h, NEW L, FileOf(L, h, X, d, key),
           NEW e \in {<<"LF">>, <<"CR", "LF">>}
    PROVE  Imported(Ending(L, e)) = IF DOMAIN d = {} THEN Refused ELSE d
<1> DEFINE n == Len(X)
           N == Len(L)
           t == Ending(L, e)
<1>1. PICK at : LinesOf(t, L, at)
  <2>1. L \in Seq(Seq(Letters)) /\ \A i \in 1..Len(L) : OneLine(L[i])
    BY DEF FileOf
  <2> QED BY <2>1, LinesAreFound DEF Ending
<1>2. n \in Nat /\ N = h + n /\ N \in Nat /\ h \in Nat
  BY LenProperties DEF LinesOfKeys, FileOf
<1>3. /\ \A i \in 1..n : key[i] \in DOMAIN d /\ Reads(L[h + i], key[i], d[key[i]])
      /\ \A i, j \in 1..n : i # j => key[i] # key[j]
      /\ \A k \in DOMAIN d : \E i \in 1..n : key[i] = k
  BY DEF LinesOfKeys, FileOf
<1> HIDE DEF n, t
<1>4. \A i \in 1..N : i \in 1..h \/ (i - h \in 1..n /\ h + (i - h) = i)
  BY <1>2
<1>5. ASSUME NEW i \in 1..N
      PROVE  Skipped(L[i]) \/ \E k \in DOMAIN d : \E v : Reads(L[i], k, v)
  <2>1. CASE i \in 1..h
    BY <2>1 DEF FileOf
  <2>2. CASE i - h \in 1..n /\ h + (i - h) = i
    <3>1. key[i - h] \in DOMAIN d /\ Reads(L[i], key[i - h], d[key[i - h]])
      BY <2>2, <1>3
    <3> QED BY <3>1
  <2> QED BY <2>1, <2>2, <1>4
<1>6. ASSUME NEW k \in DOMAIN d
      PROVE  \E i \in 1..N :
                /\ Reads(L[i], k, d[k])
                /\ \A j \in (i + 1)..N :
                      \E g \in (DOMAIN d) \ {k} : \E v : Reads(L[j], g, v)
  <2>1. PICK i \in 1..n : key[i] = k
    BY <1>3
  <2>2. Reads(L[h + i], k, d[k]) /\ h + i \in 1..N
    BY <2>1, <1>2, <1>3
  <2>3. ASSUME NEW j \in ((h + i) + 1)..N
        PROVE  \E g \in (DOMAIN d) \ {k} : \E v : Reads(L[j], g, v)
    <3>1. j - h \in 1..n /\ j - h # i /\ h + (j - h) = j
      BY <1>2
    <3>2. key[j - h] \in DOMAIN d /\ key[j - h] # k
      BY <2>1, <3>1, <1>3
    <3>3. Reads(L[j], key[j - h], d[key[j - h]])
      BY <3>1, <1>3
    <3> QED BY <3>2, <3>3
  <2> QED BY <2>2, <2>3
<1>7. Restores(L, d)
  BY <1>5, <1>6 DEF Restores
<1>8. d = [k \in DOMAIN d |-> d[k]]
  <2>1. PICK K \in SUBSET Keys : d \in [K -> Seq(Chars)]
    BY SecretsAreData DEF Exportable
  <2> QED BY <2>1
<1>9. Imported(t) = IF DOMAIN d = {} THEN Refused ELSE d
  BY <1>1, <1>2, <1>7, <1>8, ImportIs
<1> QED BY <1>9 DEF t

\* Without lines before them,
LEMMA LinesAreFile ==
    ASSUME NEW d, NEW X, NEW key, LinesOfKeys(X, d, key),
           NEW L \in [1..Len(X) -> Seq(Letters)],
           \A i \in 1..Len(X) : OneLine(L[i]) /\ Reads(L[i], key[i], d[key[i]])
    PROVE  FileOf(L, 0, X, d, key)
<1> DEFINE n == Len(X)
<1>1. n \in Nat
  BY LenProperties DEF LinesOfKeys
<1>2. L \in Seq(Seq(Letters)) /\ Len(L) = n
  BY <1>1, SeqDef, LenProperties
<1>3. 0 \in Nat /\ n = 0 + n /\ \A i \in 1..n : 0 + i = i
  BY <1>1
<1>4. \A i \in 1..0 : Skipped(L[i]) \/ \E k \in DOMAIN d : \E v : Reads(L[i], k, v)
  OBVIOUS
<1>5. \A i \in 1..n : Reads(L[0 + i], key[i], d[key[i]])
  BY <1>3
<1>6. \A i \in 1..Len(L) : OneLine(L[i])
  BY <1>2
<1>7. Len(L) = 0 + n
  BY <1>2, <1>3
<1> QED BY <1>2, <1>3, <1>4, <1>5, <1>6, <1>7 DEF FileOf

\* and with lines before them.
LEMMA LinesAfterAreFile ==
    ASSUME NEW d, NEW X, NEW key, LinesOfKeys(X, d, key),
           \A i \in 1..Len(X) : OneLine(X[i]) /\ Reads(X[i], key[i], d[key[i]]),
           NEW H \in Seq(Seq(Letters)),
           \A i \in 1..Len(H) :
              OneLine(H[i]) /\ (Skipped(H[i]) \/ \E k \in DOMAIN d : \E v : Reads(H[i], k, v))
    PROVE  FileOf(H \o X, Len(H), X, d, key)
<1> DEFINE L == H \o X
           h == Len(H)
           n == Len(X)
<1>1. X \in Seq(Seq(Letters))
  BY DEF LinesOfKeys
<1>2. /\ L \in Seq(Seq(Letters)) /\ h \in Nat /\ n \in Nat /\ Len(L) = h + n
      /\ \A q \in 1..h : L[q] = H[q]
      /\ \A j \in 1..n : L[h + j] = X[j]
  BY <1>1, ConcatPlaces
<1> HIDE DEF L, h, n
<1>3. \A i \in 1..(h + n) : i \in 1..h \/ (i - h \in 1..n /\ h + (i - h) = i)
  BY <1>2
<1>4. ASSUME NEW i \in 1..Len(L) PROVE OneLine(L[i])
  <2>1. CASE i \in 1..h
    BY <2>1, <1>2 DEF h
  <2>2. CASE i - h \in 1..n /\ h + (i - h) = i
    <3>1. L[i] = X[i - h]
      BY <2>2, <1>2
    <3> QED BY <3>1, <2>2 DEF n
  <2> QED BY <2>1, <2>2, <1>2, <1>3
<1>5. ASSUME NEW i \in 1..h
      PROVE  Skipped(L[i]) \/ \E k \in DOMAIN d : \E v : Reads(L[i], k, v)
  BY <1>2 DEF h
<1>6. ASSUME NEW i \in 1..n PROVE Reads(L[h + i], key[i], d[key[i]])
  BY <1>2 DEF n
<1>7. FileOf(L, h, X, d, key)
  BY <1>2, <1>4, <1>5, <1>6 DEF FileOf, n
<1> QED BY <1>7 DEF L, h

-----------------------------------------------------------------------------
(* What the import makes of the file of a secret, in each form.            *)

\* The lines of a file, each with its key.
LEMMA LinesAreRead ==
    ASSUME NEW d, Exportable(d), NEW X, NEW key, LinesOfKeys(X, d, key),
           NEW i \in 1..Len(X)
    PROVE  /\ X[i] \in Seq(Letters) /\ X[i][1] = key[i] /\ key[i] \in EnvSafe
           /\ OneLine(X[i]) /\ Reads(X[i], key[i], d[key[i]])
           /\ LET l == <<Export, "space">> \o X[i]
              IN  OneLine(l) /\ Reads(l, key[i], d[key[i]])
           /\ LET l == <<"tab">> \o X[i] \o <<"space">>
              IN  OneLine(l) /\ Reads(l, key[i], d[key[i]])
<1> DEFINE k == key[i]
           w == EscapedValue(d[k])
<1>1. /\ X[i] = <<k, "=">> \o w /\ Written(w) /\ Unquoted(w) = d[k]
      /\ k \in DOMAIN d
  BY DEF LinesOfKeys
<1>2. k \in EnvSafe
  BY <1>1 DEF Exportable
<1> HIDE DEF k, w
<1>3. /\ OneLine(<<k, "=">> \o w) /\ Reads(<<k, "=">> \o w, k, Unquoted(w))
  BY <1>1, <1>2, PlainIsRead
<1>4. (<<k, "=">> \o w)[1] = k
  BY <1>1, <1>2, AssignmentIsRead
<1>5. /\ OneLine(<<Export, "space">> \o (<<k, "=">> \o w))
      /\ Reads(<<Export, "space">> \o (<<k, "=">> \o w), k, Unquoted(w))
  BY <1>1, <1>2, PrefixedIsRead
<1>6. /\ OneLine(<<"tab">> \o (<<k, "=">> \o w) \o <<"space">>)
      /\ Reads(<<"tab">> \o (<<k, "=">> \o w) \o <<"space">>, k, Unquoted(w))
  BY <1>1, <1>2, IndentedIsRead
<1>7. X[i] \in Seq(Letters)
  BY <1>1, <1>3 DEF OneLine
<1> QED BY <1>1, <1>2, <1>3, <1>4, <1>5, <1>6, <1>7 DEF k

\* As it was exported, or with its lines exported to the shell or indented.
LEMMA PlainRestores ==
    ASSUME NEW d, Exportable(d), NEW X, NEW key, LinesOfKeys(X, d, key)
    PROVE  \A lines \in {X, Prefixed(X), Indented(X)} :
              Imported(Joined(lines)) = IF DOMAIN d = {} THEN Refused ELSE d
<1> SUFFICES ASSUME NEW L \in {X, Prefixed(X), Indented(X)}
             PROVE  Imported(Joined(L)) = IF DOMAIN d = {} THEN Refused ELSE d
  OBVIOUS
<1>1. DOMAIN X = 1..Len(X) /\ X = [i \in DOMAIN X |-> X[i]]
  BY LenProperties, SeqDef DEF LinesOfKeys
<1>2. \A i \in 1..Len(X) :
          /\ OneLine(X[i]) /\ Reads(X[i], key[i], d[key[i]])
          /\ LET l == <<Export, "space">> \o X[i]
             IN  OneLine(l) /\ Reads(l, key[i], d[key[i]])
          /\ LET l == <<"tab">> \o X[i] \o <<"space">>
             IN  OneLine(l) /\ Reads(l, key[i], d[key[i]])
  BY LinesAreRead
<1>3. /\ DOMAIN L = 1..Len(X) /\ L = [i \in DOMAIN L |-> L[i]]
      /\ \A i \in 1..Len(X) : OneLine(L[i]) /\ Reads(L[i], key[i], d[key[i]])
  <2>1. CASE L = X
    BY <2>1, <1>1, <1>2
  <2>2. CASE L = Prefixed(X)
    <3>1. L = [i \in 1..Len(X) |-> <<Export, "space">> \o X[i]]
      BY <2>2, <1>1 DEF Prefixed
    <3> QED BY <3>1, <1>2
  <2>3. CASE L = Indented(X)
    <3>1. L = [i \in 1..Len(X) |-> <<"tab">> \o X[i] \o <<"space">>]
      BY <2>3, <1>1 DEF Indented
    <3> QED BY <3>1, <1>2
  <2> QED BY <2>1, <2>2, <2>3
<1>4. L \in [1..Len(X) -> Seq(Letters)]
  BY <1>3 DEF OneLine
<1>5. FileOf(L, 0, X, d, key)
  BY <1>3, <1>4, LinesAreFile
<1>7. Imported(Joined(L)) = IF DOMAIN d = {} THEN Refused ELSE d
  BY <1>5, JoinedIs, LineEndsAre, FileIsRead
<1> QED BY <1>7

\* A text of two characters is made of two.
LEMMA PairIs == \A x, y : <<x>> \o <<y>> = <<x, y>>
<1> SUFFICES ASSUME NEW x, NEW y PROVE <<x>> \o <<y>> = <<x, y>>
  OBVIOUS
<1> DEFINE S == {x, y}
           p == <<x>>
           q == <<y>>
           r == <<x, y>>
<1>1. /\ p \in Seq(S) /\ q \in Seq(S) /\ r \in Seq(S)
      /\ Len(p) = 1 /\ Len(q) = 1 /\ Len(r) = 2
      /\ p[1] = x /\ q[1] = y /\ r[1] = x /\ r[2] = y
  OBVIOUS
<1> HIDE DEF p, q, r
<1>2. /\ p \o q \in Seq(S) /\ Len(p \o q) = Len(p) + Len(q)
      /\ \A i \in 1..Len(p) : (p \o q)[i] = p[i]
      /\ \A j \in 1..Len(q) : (p \o q)[Len(p) + j] = q[j]
  <2>1. p \in Seq(S) /\ q \in Seq(S)
    BY <1>1
  <2> QED BY <2>1, ConcatPlaces
<1>3. Len(p \o q) = 2 /\ (p \o q)[1] = x /\ (p \o q)[2] = y
  BY <1>1, <1>2
<1>4. p \o q = r
  BY <1>1, <1>2, <1>3, SeqEqual
<1> QED BY <1>4 DEF p, q, r

\* The file of a secret whose lines end as on Windows.
LEMMA WindowsRestores ==
    ASSUME NEW d, Exportable(d), NEW X, NEW key, LinesOfKeys(X, d, key)
    PROVE  Imported(Joined(Windows(X))) = IF DOMAIN d = {} THEN Refused ELSE d
<1> DEFINE e == <<"CR", "LF">>
           c == <<"CR">>
           f == <<"LF">>
<1>1. /\ X \in Seq(Seq(Letters)) /\ DOMAIN X = 1..Len(X)
      /\ X = [i \in DOMAIN X |-> X[i]]
  BY LenProperties, SeqDef DEF LinesOfKeys
<1>2. \A i \in 1..Len(X) :
          X[i] \in Seq(Letters) /\ OneLine(X[i]) /\ Reads(X[i], key[i], d[key[i]])
  BY LinesAreRead
<1>3. c \in Seq(Letters) /\ f \in Seq(Letters) /\ c \o f = e
  <2>1. "CR" \in Letters /\ "LF" \in Letters
    BY DEF Letters, Known
  <2>2. c \in Seq(Letters) /\ f \in Seq(Letters)
    BY <2>1
  <2> QED BY <2>2, PairIs
<1> HIDE DEF c, f
<1>5. ASSUME NEW i \in DOMAIN X PROVE (X[i] \o c) \o f = X[i] \o e
  <2>1. X[i] \in Seq(Letters)
    BY <1>1, <1>2
  <2>2. (X[i] \o c) \o f = X[i] \o (c \o f)
    <3>1. X[i] \in Seq(Letters) /\ c \in Seq(Letters) /\ f \in Seq(Letters)
      BY <2>1, <1>3
    <3> QED BY <3>1, ConcatAssociative
  <2> QED BY <2>2, <1>3
<1> HIDE DEF e
<1>6. DOMAIN Windows(X) = DOMAIN X /\ \A i \in DOMAIN X : Windows(X)[i] = X[i] \o c
  BY DEF Windows, c
<1>7. [i \in DOMAIN Windows(X) |-> Windows(X)[i] \o f] = [i \in DOMAIN X |-> X[i] \o e]
  BY <1>5, <1>6
<1>8. X \in [1..Len(X) -> Seq(Letters)]
  BY <1>1, <1>2
<1>9. FileOf(X, 0, X, d, key)
  BY <1>2, <1>8, LinesAreFile
<1>10. Imported(Ending(X, e)) = IF DOMAIN d = {} THEN Refused ELSE d
  BY <1>9, LineEndsAre, FileIsRead DEF e
<1>11. Joined(Windows(X)) = Ending(X, e)
  BY <1>7 DEF Joined, Ending, f
<1> QED BY <1>10, <1>11

\* After a comment and an empty line.
LEMMA CommentedRestores ==
    ASSUME NEW d, Exportable(d), NEW X, NEW key, LinesOfKeys(X, d, key)
    PROVE  Imported(Joined(Commented(X))) = IF DOMAIN d = {} THEN Refused ELSE d
<1> DEFINE c == <<"#", "a", "=">>
           H == <<c, <<>> >>
<1>1. \A i \in 1..Len(X) : OneLine(X[i]) /\ Reads(X[i], key[i], d[key[i]])
  BY LinesAreRead
<1>2. /\ c \in Seq(Letters) /\ Len(c) = 3 /\ c # <<>> /\ c[1] = "#" /\ c[2] = "a" /\ c[3] = "="
      /\ \A i \in 1..3 : i = 1 \/ i = 2 \/ i = 3
  <2>1. "#" \in Letters /\ "a" \in Letters /\ "=" \in Letters
    BY DEF Letters, Known
  <2> QED BY <2>1
<1> HIDE DEF c
<1>3. OneLine(c)
  BY <1>2 DEF OneLine, LineEnds
<1>4. Trim(c) = c
  <2>1. c[1] \notin Blanks /\ c[Len(c)] \notin Blanks
    BY <1>2 DEF Blanks
  <2> QED BY <2>1, <1>2, TrimNothing
<1>5. Skipped(c)
  BY <1>2, <1>4 DEF Skipped
<1>6. OneLine(<<>>) /\ <<>> \in Seq(Letters)
  BY DEF OneLine
<1>7. H \in Seq(Seq(Letters)) /\ Len(H) = 2 /\ \A i \in 1..2 : H[i] = c \/ H[i] = <<>>
  BY <1>2, <1>6
<1> HIDE DEF H
<1>8. \A i \in 1..Len(H) :
          OneLine(H[i]) /\ (Skipped(H[i]) \/ \E k \in DOMAIN d : \E v : Reads(H[i], k, v))
  BY <1>3, <1>5, <1>6, <1>7, EmptyIsSkipped
<1>9. FileOf(H \o X, Len(H), X, d, key)
  BY <1>1, <1>7, <1>8, LinesAfterAreFile
<1> DEFINE L == H \o X
<1>11. FileOf(L, Len(H), X, d, key)
  BY <1>9
<1> HIDE DEF L
<1>12. Imported(Joined(L)) = IF DOMAIN d = {} THEN Refused ELSE d
  BY <1>11, JoinedIs, LineEndsAre, FileIsRead
<1>13. Commented(X) = L
  BY DEF Commented, L, H, c
<1> QED BY <1>12, <1>13

\* A text of three characters is made of two and one.
LEMMA TripleIs == \A x, y, z : <<x, y>> \o <<z>> = <<x, y, z>>
<1> SUFFICES ASSUME NEW x, NEW y, NEW z PROVE <<x, y>> \o <<z>> = <<x, y, z>>
  OBVIOUS
<1> DEFINE S == {x, y, z}
           q == <<z>>
           r == <<x, y, z>>
           u == <<x, y>> \o q
<1>1. /\ x \in S /\ y \in S /\ q \in Seq(S) /\ r \in Seq(S)
      /\ Len(q) = 1 /\ Len(r) = 3
      /\ q[1] = z /\ r[1] = x /\ r[2] = y /\ r[3] = z
  OBVIOUS
<1> HIDE DEF q, r, S
<1>2. /\ u \in Seq(S) /\ Len(u) = 2 + Len(q) /\ u[1] = x /\ u[2] = y
      /\ \A j \in 1..Len(q) : u[2 + j] = q[j]
  <2>1. x \in S /\ y \in S /\ q \in Seq(S)
    BY <1>1
  <2> QED BY <2>1, Headed
<1> HIDE DEF u
<1>3. Len(u) = 3 /\ u[1] = x /\ u[2] = y /\ u[3] = z
  BY <1>1, <1>2
<1>4. u = r
  BY <1>1, <1>2, <1>3, SeqEqual
<1> QED BY <1>4 DEF u, q, r

\* The file of a secret after lines of other values of its keys.
LEMMA RepeatedRestores ==
    ASSUME NEW d, Exportable(d), NEW X, NEW key, LinesOfKeys(X, d, key)
    PROVE  Imported(Joined(Repeated(X))) = IF DOMAIN d = {} THEN Refused ELSE d
<1> DEFINE w == <<"a">>
           H == [i \in DOMAIN X |-> <<X[i][1], "=", "a">>]
           n == Len(X)
<1>1. \A i \in 1..n :
          /\ X[i][1] = key[i] /\ key[i] \in EnvSafe /\ key[i] \in DOMAIN d
          /\ OneLine(X[i]) /\ Reads(X[i], key[i], d[key[i]])
  <2>1. \A i \in 1..n : key[i] \in DOMAIN d
    BY DEF LinesOfKeys
  <2> QED BY <2>1, LinesAreRead
<1>2. n \in Nat /\ DOMAIN X = 1..n
  BY LenProperties DEF LinesOfKeys
<1>3. Written(w)
  <2>1. "a" \in Known /\ "a" \notin LineEnds /\ "a" \notin Blanks
    BY DEF Known, LineEnds, Blanks
  <2>2. w \in Seq(Known) /\ w # <<>> /\ Len(w) = 1 /\ w[1] = "a" /\ \A i \in 1..1 : i = 1
    BY <2>1
  <2> HIDE DEF w
  <2>3. Trim(w) = w
    BY <2>1, <2>2, TrimNothing
  <2> QED BY <2>1, <2>2, <2>3 DEF Written
<1>4. ASSUME NEW i \in 1..n
      PROVE  OneLine(H[i]) /\ \E v : Reads(H[i], key[i], v)
  <2>1. H[i] = <<key[i], "=">> \o w
    <3>1. H[i] = <<key[i], "=", "a">>
      BY <1>1, <1>2
    <3> QED BY <3>1, TripleIs
  <2> HIDE DEF w, H
  <2>2. key[i] \in EnvSafe
    BY <1>1
  <2>3. OneLine(<<key[i], "=">> \o w) /\ Reads(<<key[i], "=">> \o w, key[i], Unquoted(w))
    BY <2>2, <1>3, PlainIsRead
  <2> QED BY <2>1, <2>3
<1>5. H \in Seq(Seq(Letters)) /\ Len(H) = n
  <2>1. DOMAIN H = 1..n /\ H = [i \in DOMAIN H |-> H[i]]
    BY <1>2
  <2> HIDE DEF H, n
  <2>2. H \in [1..n -> Seq(Letters)]
    BY <2>1, <1>4 DEF OneLine
  <2> QED BY <2>2, <1>2, SeqDef, LenProperties
<1> HIDE DEF H
<1>6. \A i \in 1..Len(H) :
          OneLine(H[i]) /\ (Skipped(H[i]) \/ \E k \in DOMAIN d : \E v : Reads(H[i], k, v))
  BY <1>1, <1>4, <1>5
<1>7. FileOf(H \o X, Len(H), X, d, key)
  BY <1>1, <1>5, <1>6, LinesAfterAreFile
<1> DEFINE L == H \o X
<1>9. FileOf(L, Len(H), X, d, key)
  BY <1>7
<1> HIDE DEF L
<1>10. Imported(Joined(L)) = IF DOMAIN d = {} THEN Refused ELSE d
  BY <1>9, JoinedIs, LineEndsAre, FileIsRead
<1>11. Repeated(X) = L
  BY DEF Repeated, L, H
<1> QED BY <1>10, <1>11

-----------------------------------------------------------------------------
(* The specification.                                                      *)

\* The texts that the file of a secret can be.
Files(d) == {Joined(lines) : lines \in {EnvLines(d)} \cup Arrangements(EnvLines(d))}

\* Each of them is imported as the data that was exported.
LEMMA FilesAreRead ==
    ASSUME NEW d, Exportable(d), NEW t \in Files(d)
    PROVE  Imported(t) = IF DOMAIN d = {} THEN Refused ELSE d
<1> DEFINE X == EnvLines(d)
           Whole == IF DOMAIN d = {} THEN Refused ELSE d
<1>1. PICK key : LinesOfKeys(X, d, key)
  BY ExportedLines
<1>2. PICK lines \in {X} \cup Arrangements(X) : t = Joined(lines)
  BY DEF Files
<1> HIDE DEF X
<1>3. \A l \in {X, Prefixed(X), Indented(X)} : Imported(Joined(l)) = Whole
  BY <1>1, PlainRestores
<1>4. Imported(Joined(Windows(X))) = Whole
  BY <1>1, WindowsRestores
<1>5. Imported(Joined(Commented(X))) = Whole
  BY <1>1, CommentedRestores
<1>6. Imported(Joined(Repeated(X))) = Whole
  BY <1>1, RepeatedRestores
<1> HIDE DEF Whole
<1>7. Imported(t) = Whole
  BY <1>2, <1>3, <1>4, <1>5, <1>6 DEF Arrangements
<1> QED BY <1>7 DEF Whole

\* What is copied is a form of the file of the secret, and what the editor has
\* was read in it.
FileInv ==
    /\ data \in Secrets
    /\ text \notin {None, Refused} => DOMAIN data \subseteq EnvSafe /\ text \in Files(data)
    /\ rows # None => text \notin {None, Refused} /\ rows = Imported(text)

LEMMA FileInvHolds == Spec => []FileInv
<1>1. Init => FileInv
  BY DEF Init, FileInv
<1>2. FileInv /\ [Next]_vars => FileInv'
  <2> SUFFICES ASSUME FileInv, [Next]_vars PROVE FileInv'
    OBVIOUS
  <2>1. CASE ExportSecret
    <3>1. data' = data /\ rows' = rows /\ text = None /\ text' = EnvContent(data)
      BY <2>1 DEF ExportSecret
    <3>2. rows = None
      BY <3>1 DEF FileInv
    <3>3. ASSUME text' # Refused
          PROVE  DOMAIN data \subseteq EnvSafe /\ text' \in Files(data)
      <4>1. DOMAIN data \subseteq EnvSafe /\ text' = Joined(EnvLines(data))
        BY <3>1, <3>3 DEF EnvContent
      <4> QED BY <4>1 DEF Files
    <3> QED BY <3>1, <3>2, <3>3 DEF FileInv
  <2>2. CASE Arrange
    <3>1. data' = data /\ rows' = rows /\ rows = None
      BY <2>2 DEF Arrange, Exported
    <3>2. DOMAIN data \subseteq EnvSafe
      BY <2>2 DEF Arrange, Exported, FileInv
    <3>3. text' \in Files(data)
      BY <2>2 DEF Arrange, Files
    <3> QED BY <3>1, <3>2, <3>3 DEF FileInv
  <2>3. CASE ImportText
    <3>1. /\ data' = data /\ text' = text /\ rows' = Imported(text)
          /\ text \notin {None, Refused}
      BY <2>3 DEF ImportText, Exported
    <3> QED BY <3>1 DEF FileInv
  <2>4. CASE UNCHANGED vars
    BY <2>4 DEF vars, FileInv
  <2> QED BY <2>1, <2>2, <2>3, <2>4 DEF Next
<1> QED BY <1>1, <1>2, PTL DEF Spec

\* The data of a secret that is exported as .env and pasted into the editor is
\* what it was, for values of any length and any number of keys, in each of the
\* forms in which such a file is written by hand.
THEOREM ExportsComeBack == Spec => []ImportRestores
<1>1. FileInv => ImportRestores
  <2> SUFFICES ASSUME FileInv, rows # None,
                      \A k \in DOMAIN data : ~LosesBlanks(data[k])
               PROVE  rows = IF DOMAIN data = {} THEN Refused ELSE data
    BY DEF ImportRestores
  <2>1. Exportable(data) /\ text \in Files(data) /\ rows = Imported(text)
    BY DEF FileInv, Exportable
  <2> QED BY <2>1, FilesAreRead
<1> QED BY <1>1, FileInvHolds, PTL

=============================================================================
