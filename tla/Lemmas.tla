------------------------------- MODULE Lemmas -------------------------------
(***************************************************************************)
(* Facts about numbers and sequences that several proofs need.             *)
(***************************************************************************)
EXTENDS Integers, Sequences, WellFoundedInduction, TLAPS

\* Every set of natural numbers has a least element: this is how the loops of
\* the code that stop at the first match are known to find one, and what
\* inductions over natural numbers are made of.
LEMMA LeastNatural ==
    ASSUME NEW S \in SUBSET Nat, S # {}
    PROVE  \E m \in S : \A n \in S : m <= n
<1> DEFINE Less == {p \in Nat \X Nat : p[1] < p[2]}
<1>1. IsWellFoundedOn(Less, Nat)
  BY NatLessThanWellFounded DEF OpToRel
<1>2. PICK m \in S : \A n \in S : <<n, m>> \notin Less
  <2> HIDE DEF Less
  <2> QED
    BY <1>1, WFMin
<1>3. \A n \in S : ~(n < m)
  BY <1>2
<1> QED
  BY <1>3

\* What holds at 0 and goes on holding up to n holds at n: good is the set of the
\* numbers at which it holds.
LEMMA UpTo ==
    ASSUME NEW n \in Nat, NEW good, 0 \in good,
           \A k \in 1 .. n : k - 1 \in good => k \in good
    PROVE  n \in good
<1> DEFINE Bad == {k \in 0 .. n : k \notin good}
<1>1. Bad = {}
  <2> SUFFICES ASSUME Bad # {} PROVE FALSE
    OBVIOUS
  <2>1. Bad \in SUBSET Nat
    OBVIOUS
  <2>2. PICK m \in Bad : \A k \in Bad : m <= k
    <3> HIDE DEF Bad
    <3> QED
      BY <2>1, LeastNatural
  <2>3. m \in 0 .. n /\ m \notin good
    OBVIOUS
  <2>4. m \in 1 .. n /\ m - 1 \in 0 .. n /\ ~ (m <= m - 1)
    BY <2>3
  <2>5. m - 1 \in good
    BY <2>2, <2>4
  <2> QED
    BY <2>3, <2>4, <2>5
<1> QED
  BY <1>1

-----------------------------------------------------------------------------
(* Sequences of numbers in order.                                          *)

\* Each element is greater than the ones before it.
Increasing(s) == \A i, j \in DOMAIN s : i < j => s[i] < s[j]

\* Each element of the one is smaller than each of the other.
Before(s, u) == \A i \in DOMAIN s, j \in DOMAIN u : s[i] < u[j]

\* What comes before two sequences comes before their concatenation, and the
\* other way round.
LEMMA BeforeConcat ==
    ASSUME NEW s \in Seq(Nat), NEW u \in Seq(Nat), NEW v \in Seq(Nat)
    PROVE  /\ Before(s, u) /\ Before(s, v) => Before(s, u \o v)
           /\ Before(s, v) /\ Before(u, v) => Before(s \o u, v)
<1>1. /\ DOMAIN (s \o u) = 1 .. Len(s) + Len(u)
      /\ \A i \in DOMAIN (s \o u) :
            (s \o u)[i] = IF i <= Len(s) THEN s[i] ELSE u[i - Len(s)]
  OBVIOUS
<1>2. /\ DOMAIN (u \o v) = 1 .. Len(u) + Len(v)
      /\ \A i \in DOMAIN (u \o v) :
            (u \o v)[i] = IF i <= Len(u) THEN u[i] ELSE v[i - Len(u)]
  OBVIOUS
<1>3. ASSUME Before(s, u), Before(s, v) PROVE Before(s, u \o v)
  <2> SUFFICES ASSUME NEW i \in DOMAIN s, NEW j \in DOMAIN (u \o v)
               PROVE  s[i] < (u \o v)[j]
    BY DEF Before
  <2>1. CASE j <= Len(u)
    <3>1. j \in DOMAIN u
      BY <1>2, <2>1
    <3> QED
      BY <1>2, <1>3, <2>1, <3>1 DEF Before
  <2>2. CASE j > Len(u)
    <3>1. j - Len(u) \in DOMAIN v
      BY <1>2, <2>2
    <3>2. (u \o v)[j] = v[j - Len(u)]
      BY <1>2, <2>2
    <3> QED
      BY <1>3, <3>1, <3>2 DEF Before
  <2> QED
    BY <1>2, <2>1, <2>2
<1>4. ASSUME Before(s, v), Before(u, v) PROVE Before(s \o u, v)
  BY <1>1, <1>4 DEF Before
<1> QED
  BY <1>3, <1>4

\* Sequences in order, one before the other, make a sequence in order.
LEMMA IncreasingConcat ==
    ASSUME NEW s \in Seq(Nat), NEW u \in Seq(Nat),
           Increasing(s), Increasing(u), Before(s, u)
    PROVE  Increasing(s \o u)
<1>1. /\ DOMAIN (s \o u) = 1 .. Len(s) + Len(u)
      /\ \A i \in DOMAIN (s \o u) :
            (s \o u)[i] = IF i <= Len(s) THEN s[i] ELSE u[i - Len(s)]
  OBVIOUS
<1> QED
  BY <1>1 DEF Increasing, Before

\* A sequence in order is cut into two in order, the first before the second.
LEMMA IncreasingCut ==
    ASSUME NEW s \in Seq(Nat), NEW n \in 0 .. Len(s)
    PROVE  LET a == SubSeq(s, 1, n)
               b == SubSeq(s, n + 1, Len(s))
           IN /\ a \in Seq(Nat) /\ b \in Seq(Nat)
              /\ Len(a) = n /\ Len(b) = Len(s) - n
              /\ Increasing(s) => Increasing(a) /\ Increasing(b) /\ Before(a, b)
              /\ \A u \in Seq(Nat) : Before(u, s) => Before(u, a) /\ Before(u, b)
              /\ \A u \in Seq(Nat) : Before(s, u) => Before(a, u) /\ Before(b, u)
<1> DEFINE a == SubSeq(s, 1, n)
           b == SubSeq(s, n + 1, Len(s))
<1>1. /\ a \in Seq(Nat) /\ Len(a) = n /\ DOMAIN a = 1 .. n
      /\ \A i \in 1 .. n : a[i] = s[i]
  OBVIOUS
<1>2. /\ b \in Seq(Nat) /\ Len(b) = Len(s) - n /\ DOMAIN b = 1 .. Len(s) - n
      /\ \A i \in 1 .. Len(s) - n : b[i] = s[n + i]
  OBVIOUS
<1>3. DOMAIN s = 1 .. Len(s) /\ Len(s) \in Nat /\ n \in Nat /\ n <= Len(s)
  OBVIOUS
<1> HIDE DEF a, b
<1>b. ASSUME NEW i \in DOMAIN b
      PROVE  /\ i \in Nat /\ 1 <= i /\ n + i \in DOMAIN s /\ b[i] = s[n + i]
  <2>1. i \in 1 .. Len(s) - n
    BY <1>2
  <2>2. b[i] = s[n + i]
    BY <1>2, <2>1
  <2>3. i \in Nat /\ 1 <= i /\ n + i \in 1 .. Len(s)
    BY <1>3, <2>1
  <2> QED
    BY <1>3, <2>2, <2>3
<1>4. ASSUME Increasing(s) PROVE Increasing(a) /\ Increasing(b) /\ Before(a, b)
  <2>1. Increasing(a)
    BY <1>1, <1>3, <1>4 DEF Increasing
  <2>2. ASSUME NEW i \in DOMAIN b, NEW j \in DOMAIN b, i < j
        PROVE  b[i] < b[j]
    <3>1. /\ n + i \in DOMAIN s /\ n + j \in DOMAIN s /\ n + i < n + j
          /\ b[i] = s[n + i] /\ b[j] = s[n + j]
      BY <1>b, <1>3, <2>2
    <3> QED
      BY <1>4, <3>1 DEF Increasing
  <2>3. ASSUME NEW i \in DOMAIN a, NEW j \in DOMAIN b
        PROVE  a[i] < b[j]
    <3>1. /\ i \in DOMAIN s /\ n + j \in DOMAIN s /\ i < n + j
          /\ a[i] = s[i] /\ b[j] = s[n + j]
      BY <1>1, <1>b, <1>3
    <3> QED
      BY <1>4, <3>1 DEF Increasing
  <2> QED
    BY <2>1, <2>2, <2>3 DEF Increasing, Before
<1>5. ASSUME NEW u \in Seq(Nat)
      PROVE  /\ Before(u, s) => Before(u, a) /\ Before(u, b)
             /\ Before(s, u) => Before(a, u) /\ Before(b, u)
  <2>1. \A i \in DOMAIN a : i \in DOMAIN s /\ a[i] = s[i]
    BY <1>1, <1>3
  <2>2. \A i \in DOMAIN b : n + i \in DOMAIN s /\ b[i] = s[n + i]
    BY <1>b
  <2> QED
    BY <2>1, <2>2 DEF Before
<1> QED
  BY <1>1, <1>2, <1>4, <1>5 DEF a, b

\* What is left of a sequence after a position.
LEMMA RestOfSequence ==
    ASSUME NEW s \in Seq(Nat), NEW p \in Nat, SubSeq(s, p + 1, Len(s)) # <<>>
    PROVE  LET r == SubSeq(s, p + 1, Len(s))
           IN /\ r \in Seq(Nat) /\ p + Len(r) = Len(s)
              /\ \A k \in DOMAIN r : /\ k \in Nat /\ k > 0
                                     /\ p + k \in DOMAIN s /\ r[k] = s[p + k]
<1> DEFINE r == SubSeq(s, p + 1, Len(s))
<1>1. Len(s) \in Nat /\ DOMAIN s = 1 .. Len(s)
  OBVIOUS
<1>2. p < Len(s)
  OBVIOUS
<1>3. r \in Seq(Nat) /\ Len(r) = Len(s) - p
  <2>1. r \in Seq(Nat)
    OBVIOUS
  <2>2. Len(r) = Len(s) - p
    BY <1>2
  <2> QED
    BY <2>1, <2>2
<1>4. ASSUME NEW k \in DOMAIN r
      PROVE  k \in Nat /\ k > 0 /\ p + k \in DOMAIN s /\ r[k] = s[p + k]
  <2>1. k \in 1 .. Len(r)
    BY <1>3
  <2>2. k \in Nat /\ k > 0 /\ p + k \in 1 .. Len(s)
    <3> HIDE DEF r
    <3> QED
      BY <1>1, <1>2, <1>3, <2>1
  <2>3. r[k] = s[p + k]
    BY <1>1, <1>2, <2>2
  <2> QED
    BY <1>1, <2>2, <2>3
<1>5. p + Len(r) = Len(s)
  <2> HIDE DEF r
  <2> QED
    BY <1>1, <1>3
<1> QED
  BY <1>3, <1>4, <1>5

-----------------------------------------------------------------------------
(* What sequences hold.                                                    *)

Elements(s) == {s[i] : i \in DOMAIN s}

\* A concatenation holds what its parts hold, and nothing else.
LEMMA ElementsOfConcat ==
    ASSUME NEW S, NEW s \in Seq(S), NEW u \in Seq(S)
    PROVE  Elements(s \o u) = Elements(s) \cup Elements(u)
<1>1. /\ DOMAIN (s \o u) = 1 .. Len(s) + Len(u)
      /\ \A i \in DOMAIN (s \o u) :
            (s \o u)[i] = IF i <= Len(s) THEN s[i] ELSE u[i - Len(s)]
  OBVIOUS
<1>2. DOMAIN s = 1 .. Len(s) /\ DOMAIN u = 1 .. Len(u) /\ Len(s) \in Nat /\ Len(u) \in Nat
  OBVIOUS
<1>3. ASSUME NEW e \in Elements(s \o u) PROVE e \in Elements(s) \cup Elements(u)
  <2>1. PICK i \in DOMAIN (s \o u) : e = (s \o u)[i]
    BY <1>3 DEF Elements
  <2>2. CASE i <= Len(s)
    BY <1>1, <1>2, <2>1, <2>2 DEF Elements
  <2>3. CASE ~(i <= Len(s))
    <3>1. i - Len(s) \in DOMAIN u /\ e = u[i - Len(s)]
      BY <1>1, <1>2, <2>1, <2>3
    <3> QED
      BY <3>1 DEF Elements
  <2> QED
    BY <2>2, <2>3
<1>4. ASSUME NEW i \in DOMAIN s PROVE s[i] \in Elements(s \o u)
  BY <1>1, <1>2 DEF Elements
<1>5. ASSUME NEW i \in DOMAIN u PROVE u[i] \in Elements(s \o u)
  <2>1. i + Len(s) \in DOMAIN (s \o u) /\ (s \o u)[i + Len(s)] = u[i]
    BY <1>1, <1>2
  <2> QED
    BY <2>1 DEF Elements
<1> QED
  BY <1>3, <1>4, <1>5 DEF Elements

\* A sequence with one element more.
LEMMA ElementsOfAppend ==
    ASSUME NEW S, NEW s \in Seq(S), NEW e
    PROVE  Elements(Append(s, e)) = Elements(s) \cup {e}
<1> DEFINE longer == Append(s, e)
<1>1. /\ Len(s) \in Nat /\ DOMAIN s = 1 .. Len(s)
      /\ DOMAIN longer = 1 .. Len(s) + 1
      /\ \A i \in 1 .. Len(s) : longer[i] = s[i]
      /\ longer[Len(s) + 1] = e
      /\ longer \in Seq(S \cup {e})
  OBVIOUS
<1> HIDE DEF longer
<1>2. \A i \in DOMAIN longer : (i \in DOMAIN s /\ longer[i] = s[i]) \/ (i = Len(s) + 1 /\ longer[i] = e)
  BY <1>1
<1>3. Elements(longer) = Elements(s) \cup {e}
  <2>1. \A x \in Elements(longer) : x \in Elements(s) \cup {e}
    BY <1>2 DEF Elements
  <2>2. \A i \in DOMAIN s : i \in DOMAIN longer /\ longer[i] = s[i]
    BY <1>1
  <2>3. Len(s) + 1 \in DOMAIN longer
    BY <1>1
  <2> QED
    BY <1>1, <2>1, <2>2, <2>3 DEF Elements
<1> QED
  BY <1>3 DEF longer

-----------------------------------------------------------------------------
(* Loops over sequences: the folds of the community modules.               *)

\* A set of numbers up to n has a greatest element.
LEMMA GreatestOfRange ==
    ASSUME NEW n \in Nat, NEW s \in SUBSET (1 .. n), s # {}
    PROVE  \E m \in s : \A i \in s : i <= m
<1> DEFINE distances == {d \in Nat : \E i \in s : d = n - i}
<1>1. distances \in SUBSET Nat /\ distances # {}
  <2>1. PICK i \in s : TRUE
    OBVIOUS
  <2>2. n - i \in Nat
    OBVIOUS
  <2> QED
    BY <2>1, <2>2
<1>2. PICK d \in distances : \A e \in distances : d <= e
  <2> HIDE DEF distances
  <2> QED
    BY <1>1, LeastNatural
<1>3. PICK m \in s : d = n - m
  OBVIOUS
<1>4. ASSUME NEW i \in s PROVE i <= m
  <2>1. n - i \in distances
    OBVIOUS
  <2>2. d <= n - i
    BY <1>2, <2>1
  <2> QED
    BY <1>3, <2>2
<1> QED
  BY <1>4

\* Of each set of numbers up to n, C takes the greatest.
TakesLast(C, n) ==
    \A s \in SUBSET (1 .. n) : s # {} => C[s] \in s /\ \A i \in s : i <= C[s]

\* What a fold computes: base for the empty set, and for another one a step from
\* what it computes for the set without its last element.
FoldsUpTo(g, n, base, F, C) ==
    \A s \in SUBSET (1 .. n) :
        g[s] = IF s = {} THEN base ELSE F[<<g[s \ {C[s]}], C[s]>>]

\* There is such a function, if the steps stay within a set D.
LEMMA FoldExists ==
    ASSUME NEW n \in Nat, NEW D, NEW base \in D, NEW F \in [D \X (1 .. n) -> D], NEW C,
           TakesLast(C, n)
    PROVE  \E g \in [SUBSET (1 .. n) -> D] : FoldsUpTo(g, n, base, F, C)
<1> USE DEF TakesLast
<1> DEFINE Folds(g, k) ==
              \A s \in SUBSET (1 .. k) :
                g[s] = IF s = {} THEN base ELSE F[<<g[s \ {C[s]}], C[s]>>]
           Good(k) == \E g \in [SUBSET (1 .. k) -> D] : Folds(g, k)
<1>1. Good(0)
  <2> DEFINE g == [s \in SUBSET (1 .. 0) |-> base]
  <2>1. g \in [SUBSET (1 .. 0) -> D] /\ \A s \in SUBSET (1 .. 0) : s = {}
    OBVIOUS
  <2>2. Folds(g, 0)
    BY <2>1
  <2> QED
    BY <2>1, <2>2
<1>2. ASSUME NEW k \in 0 .. n - 1, Good(k) PROVE Good(k + 1)
  <2>1. PICK g \in [SUBSET (1 .. k) -> D] : Folds(g, k)
    BY <1>2
  <2> DEFINE h == [s \in SUBSET (1 .. k + 1) |->
                    IF s = {} THEN base ELSE F[<<g[s \ {C[s]}], C[s]>>]]
  <2>2. ASSUME NEW s \in SUBSET (1 .. k + 1), s # {}
        PROVE  C[s] \in 1 .. n /\ s \ {C[s]} \in SUBSET (1 .. k)
    <3>1. s \in SUBSET (1 .. n)
      BY <1>2
    <3>2. C[s] \in s /\ \A i \in s : i <= C[s]
      BY <2>2, <3>1
    <3> DEFINE m == C[s]
    <3>3. m \in 1 .. k + 1 /\ m \in 1 .. n
      BY <3>1, <3>2
    <3>4. \A i \in s : i <= m
      BY <3>2
    <3> HIDE DEF m
    <3>5. ASSUME NEW i \in s, i # m PROVE i \in 1 .. k
      BY <1>2, <3>3, <3>4, <3>5
    <3> QED
      BY <3>3, <3>5 DEF m
  <2>3. ASSUME NEW s \in SUBSET (1 .. k + 1), s # {}
        PROVE  F[<<g[s \ {C[s]}], C[s]>>] \in D
    <3>1. g[s \ {C[s]}] \in D /\ C[s] \in 1 .. n
      BY <2>1, <2>2, <2>3
    <3> QED
      BY <3>1
  <2>4. h \in [SUBSET (1 .. k + 1) -> D]
    BY <2>3
  <2>5. \A s \in SUBSET (1 .. k) : h[s] = g[s]
    <3> SUFFICES ASSUME NEW s \in SUBSET (1 .. k) PROVE h[s] = g[s]
      OBVIOUS
    <3>1. s \in SUBSET (1 .. k + 1)
      BY <1>2
    <3>2. h[s] = IF s = {} THEN base ELSE F[<<g[s \ {C[s]}], C[s]>>]
      BY <3>1
    <3> HIDE DEF h
    <3> QED
      BY <2>1, <3>2
  <2>6. \A s \in SUBSET (1 .. k + 1) :
            h[s] = IF s = {} THEN base ELSE F[<<g[s \ {C[s]}], C[s]>>]
    OBVIOUS
  <2> HIDE DEF h
  <2>7. Folds(h, k + 1)
    BY <2>2, <2>5, <2>6
  <2> HIDE DEF Folds
  <2> QED
    BY <2>4, <2>7
<1> HIDE DEF Good
<1>3. Good(n)
  <2> DEFINE good == {k \in 0 .. n : Good(k)}
  <2>1. 0 \in good
    BY <1>1
  <2>2. ASSUME NEW k \in 1 .. n, k - 1 \in good PROVE k \in good
    <3>1. k - 1 \in 0 .. n - 1 /\ k - 1 + 1 = k /\ k \in 0 .. n /\ Good(k - 1)
      BY <2>2
    <3>2. Good(k - 1 + 1)
      BY <1>2, <3>1
    <3> QED
      BY <3>1, <3>2
  <2>3. n \in good
    <3> HIDE DEF good
    <3> QED
      BY <2>1, <2>2, UpTo
  <2> QED
    BY <2>3
<1> QED
  BY <1>3 DEF Good, Folds, FoldsUpTo
\* What it is enough to know of a fold: how it goes on from the values in D.
GoesOn(iter, n, base, D, F, C) ==
    /\ iter[{}] = base
    /\ \A s \in SUBSET (1 .. n) : s # {} /\ iter[s \ {C[s]}] \in D
        => iter[s] = F[<<iter[s \ {C[s]}], C[s]>>]

\* The stages of a loop, from base to what iter computes for all numbers up to n.
AreStages(h, iter, n, base, D, F) ==
    /\ h[0] = base /\ h[n] = iter[1 .. n]
    /\ \A k \in 1 .. n : h[k - 1] \in D /\ h[k] = F[<<h[k - 1], k>>]

\* A fold that starts in D goes through values in D only, one step for each number.
LEMMA FoldStages ==
    ASSUME NEW n \in Nat, NEW D, NEW base \in D, NEW F \in [D \X (1 .. n) -> D], NEW C,
           TakesLast(C, n), NEW iter, GoesOn(iter, n, base, D, F, C)
    PROVE  \E h \in [0 .. n -> D] : AreStages(h, iter, n, base, D, F)
<1>0. iter[{}] = base
  BY DEF GoesOn
<1>1. ASSUME NEW k \in 1 .. n
      PROVE  /\ 1 .. k \in SUBSET (1 .. n) /\ 1 .. k # {}
             /\ C[1 .. k] = k /\ (1 .. k) \ {k} = 1 .. k - 1
  <2>1. k \in 1 .. k /\ 1 .. k \in SUBSET (1 .. n)
    OBVIOUS
  <2>2. C[1 .. k] \in 1 .. k /\ \A i \in 1 .. k : i <= C[1 .. k]
    BY <2>1 DEF TakesLast
  <2>3. C[1 .. k] = k
    BY <2>1, <2>2
  <2>4. (1 .. k) \ {k} = 1 .. k - 1
    OBVIOUS
  <2> QED
    BY <2>1, <2>3, <2>4
<1>2. ASSUME NEW k \in 1 .. n, iter[1 .. k - 1] \in D
      PROVE  iter[1 .. k] = F[<<iter[1 .. k - 1], k>>] /\ iter[1 .. k] \in D
  <2>1. iter[1 .. k] = F[<<iter[1 .. k - 1], k>>]
    BY <1>1, <1>2 DEF GoesOn
  <2> QED
    BY <1>2, <2>1
<1>3. 1 .. 0 = {} /\ iter[{}] = base
  BY <1>0
<1>4. ASSUME NEW m \in 0 .. n PROVE iter[1 .. m] \in D
  <2> DEFINE good == {k \in 0 .. n : iter[1 .. k] \in D}
  <2>1. 0 \in good
    BY <1>3
  <2>2. ASSUME NEW k \in 1 .. m, k - 1 \in good PROVE k \in good
    <3>1. k \in 1 .. n /\ k \in 0 .. n /\ iter[1 .. k - 1] \in D
      BY <2>2
    <3> QED
      BY <1>2, <3>1
  <2>3. m \in good
    <3> HIDE DEF good
    <3> QED
      BY <2>1, <2>2, UpTo
  <2> QED
    BY <2>3
<1> DEFINE h == [k \in 0 .. n |-> iter[1 .. k]]
<1>5. h \in [0 .. n -> D]
  BY <1>4
<1>6. h[0] = base /\ h[n] = iter[1 .. n]
  BY <1>3
<1>7. ASSUME NEW k \in 1 .. n PROVE h[k - 1] \in D /\ h[k] = F[<<h[k - 1], k>>]
  <2>1. k \in 0 .. n /\ k - 1 \in 0 .. n
    OBVIOUS
  <2>2. h[k] = iter[1 .. k] /\ h[k - 1] = iter[1 .. k - 1] /\ h[k - 1] \in D
    BY <1>5, <2>1
  <2> HIDE DEF h
  <2> QED
    BY <1>2, <2>2
<1> HIDE DEF h
<1>8. AreStages(h, iter, n, base, D, F)
  BY <1>6, <1>7 DEF AreStages
<1> QED
  BY <1>5, <1>8
=============================================================================
