----------------------------- MODULE SumProofs -----------------------------
(***************************************************************************)
(* Induction over the natural numbers, and what it says about sums and     *)
(* about sequences that are taken apart at their head.  The induction      *)
(* theorems of the library are about operators; that every non-empty set   *)
(* of natural numbers has a least element is the form the provers can use. *)
(***************************************************************************)
EXTENDS Sums, TLAPS, WellFoundedInduction, SequenceTheorems

(***************************************************************************)
(* Induction.                                                              *)
(***************************************************************************)

LEMMA LeastNatural ==
  ASSUME NEW S \in SUBSET Nat, S # {}
  PROVE  \E n \in S : \A m \in S : n <= m
<1> DEFINE R == OpToRel(<, Nat)
<1>1. IsWellFoundedOn(R, Nat)
  BY NatLessThanWellFounded
<1>2. \A x, y \in Nat : <<y, x>> \in R <=> y < x
  BY DEF OpToRel
<1> HIDE DEF R
<1>3. PICK x \in S : \A y \in S : ~ (<<y, x>> \in R)
  BY <1>1, WFMin
<1>4. ASSUME NEW y \in S PROVE x <= y
  <2>1. x \in Nat /\ y \in Nat
    OBVIOUS
  <2>2. ~ (y < x)
    BY <1>2, <1>3, <2>1
  <2>3. QED
    BY <2>1, <2>2
<1>5. QED
  BY <1>4

LEMMA SetInduction ==
  ASSUME NEW S, 0 \in S, \A n \in Nat : n \in S => n + 1 \in S
  PROVE  Nat \subseteq S
<1>1. SUFFICES ASSUME {n \in Nat : n \notin S} # {} PROVE FALSE
  OBVIOUS
<1>2. PICK n \in {n \in Nat : n \notin S} : \A m \in {k \in Nat : k \notin S} : n <= m
  BY <1>1, LeastNatural
<1>3. n # 0 /\ n - 1 \in Nat
  OBVIOUS
<1>4. n - 1 \in S
  BY <1>2, <1>3
<1>5. QED
  BY <1>2, <1>3, <1>4


IsSum(f, s, k) ==
    /\ f \in [0..k -> Int]
    /\ f = [n \in 0..k |-> IF n = 0 THEN 0 ELSE f[n - 1] + s[Len(s) + 1 - n]]

LEMMA SumSteps ==
  ASSUME NEW f, NEW s, NEW k \in Nat, IsSum(f, s, k)
  PROVE  /\ f \in [0..k -> Int]
         /\ f[0] = 0
         /\ \A n \in 0..(k - 1) : f[n + 1] = f[n] + s[Len(s) - n]
<1>1. f \in [0..k -> Int] /\ f[0] = 0
  BY DEF IsSum
<1>2. ASSUME NEW n \in 0..(k - 1) PROVE f[n + 1] = f[n] + s[Len(s) - n]
  <2>1. n + 1 \in 0..k /\ n + 1 # 0 /\ (n + 1) - 1 = n
    OBVIOUS
  <2>2. f[n + 1] = f[n] + s[Len(s) + 1 - (n + 1)]
    BY <2>1 DEF IsSum
  <2>3. QED
    BY <2>2
<1>3. QED
  BY <1>1, <1>2

LEMMA SumExists ==
  ASSUME NEW s \in Seq(Int)
  PROVE  \E f : IsSum(f, s, Len(s))
<1> DEFINE S == {k \in Nat : k <= Len(s) => \E f : IsSum(f, s, k)}
<1>1. 0 \in S
  <2>1. IsSum([n \in 0..0 |-> 0], s, 0)
    BY DEF IsSum
  <2>2. QED
    BY <2>1
<1>2. ASSUME NEW k \in Nat, k \in S PROVE k + 1 \in S
  <2>1. SUFFICES ASSUME k + 1 <= Len(s) PROVE \E f : IsSum(f, s, k + 1)
    OBVIOUS
  <2>2. PICK f : IsSum(f, s, k)
    BY <1>2, <2>1
  <2> DEFINE e(n) == s[Len(s) + 1 - n]
             g == [n \in 0..(k + 1) |-> IF n = k + 1 THEN f[k] + e(k + 1) ELSE f[n]]
  <2>3. \A n \in 1..(k + 1) : e(n) \in Int
    BY <2>1
  <2> HIDE DEF e
  <2>4. f \in [0..k -> Int] /\ \A n \in 0..k : f[n] = IF n = 0 THEN 0 ELSE f[n - 1] + e(n)
    BY <2>2 DEF IsSum, e
  <2>5. g \in [0..(k + 1) -> Int]
    BY <2>3, <2>4
  <2>6. ASSUME NEW n \in 0..(k + 1) PROVE g[n] = IF n = 0 THEN 0 ELSE g[n - 1] + e(n)
    <3>1. CASE n = k + 1
      BY <3>1
    <3>2. CASE n # k + 1
      <4>1. n \in 0..k /\ (n # 0 => n - 1 \in 0..k)
        BY <3>2
      <4>2. g[n] = f[n] /\ (n # 0 => g[n - 1] = f[n - 1])
        BY <4>1
      <4>3. QED
        BY <4>1, <4>2, <2>4
    <3>3. QED
      BY <3>1, <3>2
  <2>7. g = [n \in 0..(k + 1) |-> IF n = 0 THEN 0 ELSE g[n - 1] + e(n)]
    BY <2>5, <2>6
  <2> HIDE DEF g
  <2>8. IsSum(g, s, k + 1)
    BY <2>5, <2>7 DEF IsSum, e
  <2>9. QED
    BY <2>8
<1>3. Len(s) \in S
  <2> HIDE DEF S
  <2>1. Nat \subseteq S
    BY <1>1, <1>2, SetInduction
  <2>2. QED
    BY <2>1
<1>4. QED
  BY <1>3

LEMMA SumIs ==
  ASSUME NEW s \in Seq(Int)
  PROVE  \E f : IsSum(f, s, Len(s)) /\ Sum(s) = f[Len(s)]
<1> DEFINE g == CHOOSE f : f = [n \in 0..Len(s) |-> IF n = 0 THEN 0 ELSE f[n - 1] + s[Len(s) + 1 - n]]
<1>1. PICK f : IsSum(f, s, Len(s))
  BY SumExists
<1>2. g = [n \in 0..Len(s) |-> IF n = 0 THEN 0 ELSE g[n - 1] + s[Len(s) + 1 - n]]
  BY <1>1 DEF IsSum
<1>3. Sum(s) = g[Len(s)]
  BY DEF Sum
<1> HIDE DEF g
<1>4. \A n \in 1..Len(s) : s[Len(s) + 1 - n] \in Int
  OBVIOUS
<1> DEFINE S == {n \in Nat : n <= Len(s) => g[n] \in Int}
<1>5. 0 \in S
  BY <1>2
<1>6. ASSUME NEW n \in Nat, n \in S PROVE n + 1 \in S
  BY <1>2, <1>4, <1>6
<1>7. \A n \in 0..Len(s) : g[n] \in Int
  <2> HIDE DEF S
  <2>1. Nat \subseteq S
    BY <1>5, <1>6, SetInduction
  <2>2. QED
    BY <2>1 DEF S
<1>8. g \in [0..Len(s) -> Int]
  BY <1>2, <1>7
<1>9. QED
  BY <1>2, <1>3, <1>8 DEF IsSum

LEMMA SumUnique ==
  ASSUME NEW f, NEW g, NEW s, NEW t, NEW k \in Nat, NEW m \in Nat, k <= m,
         IsSum(f, s, k), IsSum(g, t, m),
         \A n \in 0..(k - 1) : s[Len(s) - n] = t[Len(t) - n]
  PROVE  \A n \in 0..k : f[n] = g[n]
<1> DEFINE S == {n \in Nat : n <= k => f[n] = g[n]}
<1>1. 0 \in S
  BY SumSteps
<1>2. ASSUME NEW n \in Nat, n \in S PROVE n + 1 \in S
  <2>1. SUFFICES ASSUME n + 1 <= k PROVE f[n + 1] = g[n + 1]
    OBVIOUS
  <2>2. n \in 0..(k - 1) /\ n \in 0..(m - 1)
    BY <2>1
  <2>3. f[n + 1] = f[n] + s[Len(s) - n] /\ g[n + 1] = g[n] + t[Len(t) - n]
    BY <2>2, SumSteps
  <2>4. QED
    BY <1>2, <2>1, <2>2, <2>3
<1>3. Nat \subseteq S
  <2> HIDE DEF S
  <2>1. QED
    BY <1>1, <1>2, SetInduction
<1>4. QED
  BY <1>3

LEMMA SumEmpty == Sum(<<>>) = 0
<1>1. <<>> \in Seq(Int)
  OBVIOUS
<1>2. PICK f : IsSum(f, <<>>, Len(<<>>)) /\ Sum(<<>>) = f[Len(<<>>)]
  BY <1>1, SumIs
<1>3. QED
  BY <1>2 DEF IsSum

LEMMA SumCons ==
  ASSUME NEW a \in Int, NEW s \in Seq(Int)
  PROVE  Sum(<<a>> \o s) = a + Sum(s)
<1> DEFINE t == <<a>> \o s
<1>1. t \in Seq(Int) /\ Len(t) = Len(s) + 1 /\ t[1] = a /\ \A n \in 1..Len(s) : t[n + 1] = s[n]
  OBVIOUS
<1> HIDE DEF t
<1>2. PICK f : IsSum(f, t, Len(t)) /\ Sum(t) = f[Len(t)]
  BY <1>1, SumIs
<1>3. PICK g : IsSum(g, s, Len(s)) /\ Sum(s) = g[Len(s)]
  BY SumIs
<1>4. \A n \in 0..(Len(s) - 1) : s[Len(s) - n] = t[Len(t) - n]
  <2> TAKE n \in 0..(Len(s) - 1)
  <2>1. Len(s) - n \in 1..Len(s) /\ Len(t) - n = (Len(s) - n) + 1
    BY <1>1
  <2>2. QED
    BY <1>1, <2>1
<1>5. Len(s) \in Nat /\ Len(t) \in Nat /\ Len(s) <= Len(t)
  BY <1>1
<1>6. \A n \in 0..Len(s) : g[n] = f[n]
  BY <1>2, <1>3, <1>4, <1>5, SumUnique
<1>7. f[Len(s) + 1] = f[Len(s)] + t[Len(t) - Len(s)] /\ g \in [0..Len(s) -> Int]
  <2>1. \A n \in 0..(Len(t) - 1) : f[n + 1] = f[n] + t[Len(t) - n]
    BY <1>2, <1>5, SumSteps
  <2>2. g \in [0..Len(s) -> Int]
    BY <1>3, <1>5, SumSteps
  <2>3. Len(s) \in 0..(Len(t) - 1)
    BY <1>1, <1>5
  <2>4. QED
    BY <2>1, <2>2, <2>3
<1>8. Sum(t) = a + Sum(s)
  BY <1>1, <1>2, <1>3, <1>5, <1>6, <1>7
<1>9. QED
  BY <1>8 DEF t

LEMMA SumType ==
  ASSUME NEW s \in Seq(Nat)
  PROVE  Sum(s) \in Nat /\ \A k \in 1..Len(s) : s[k] <= Sum(s)
<1>1. s \in Seq(Int) /\ \A n \in 1..Len(s) : s[Len(s) + 1 - n] \in Nat
  OBVIOUS
<1>2. PICK f : IsSum(f, s, Len(s)) /\ Sum(s) = f[Len(s)]
  BY <1>1, SumIs
<1> DEFINE P(n) == f[n] \in Nat /\ \A k \in 1..n : s[Len(s) + 1 - k] <= f[n]
           S == {n \in Nat : n <= Len(s) => P(n)}
<1>3. 0 \in S
  BY <1>2 DEF IsSum
<1>4. ASSUME NEW n \in Nat, n \in S PROVE n + 1 \in S
  <2>1. SUFFICES ASSUME n + 1 <= Len(s) PROVE P(n + 1)
    OBVIOUS
  <2>2. P(n)
    BY <1>4, <2>1
  <2> DEFINE e == s[Len(s) + 1 - (n + 1)]
  <2>3. e \in Nat
    BY <1>1, <2>1
  <2>4. f[n + 1] = f[n] + e
    BY <1>2, <2>1 DEF IsSum
  <2>5. \A k \in 1..n : s[Len(s) + 1 - k] \in Nat
    BY <1>1, <2>1
  <2>6. \A k \in 1..(n + 1) : k \in 1..n \/ k = n + 1
    OBVIOUS
  <2> HIDE DEF e
  <2>7. f[n + 1] \in Nat /\ f[n] <= f[n + 1] /\ e <= f[n + 1]
    BY <2>2, <2>3, <2>4
  <2>8. \A k \in 1..n : s[Len(s) + 1 - k] <= f[n + 1]
    BY <2>2, <2>5, <2>7
  <2>9. QED
    BY <2>6, <2>7, <2>8 DEF e
<1>5. P(Len(s))
  <2>1. Nat \subseteq S
    <3> HIDE DEF S
    <3>1. QED
      BY <1>3, <1>4, SetInduction
  <2>2. QED
    BY <2>1
<1>6. ASSUME NEW k \in 1..Len(s) PROVE s[k] <= f[Len(s)]
  <2>1. Len(s) + 1 - k \in 1..Len(s) /\ Len(s) + 1 - (Len(s) + 1 - k) = k
    OBVIOUS
  <2>2. QED
    BY <1>5, <2>1
<1>7. QED
  BY <1>2, <1>5, <1>6

-----------------------------------------------------------------------------
(* Sequences of anything, and how they are built from the head.             *)

IsSeq(s) == s \in Seq({s[k] : k \in DOMAIN s})

LEMMA SeqOfAny ==
  ASSUME NEW S, NEW s \in Seq(S)
  PROVE  IsSeq(s)
<1>1. DOMAIN s = 1..Len(s) /\ Len(s) \in Nat /\ s \in [1..Len(s) -> S]
  OBVIOUS
<1> DEFINE R == {s[k] : k \in DOMAIN s}
<1>2. s \in [1..Len(s) -> R]
  BY <1>1
<1>3. s \in Seq(R)
  BY <1>1, <1>2, SeqDef
<1>4. QED
  BY <1>3 DEF IsSeq

LEMMA EmptyIsSeq == IsSeq(<<>>)
<1>1. <<>> \in Seq({})
  OBVIOUS
<1>2. QED
  BY <1>1, SeqOfAny

LEMMA SeqParts ==
  ASSUME NEW s, IsSeq(s)
  PROVE  /\ Len(s) \in Nat
         /\ DOMAIN s = 1..Len(s)
         /\ s # <<>> <=> Len(s) > 0
BY DEF IsSeq

LEMMA ConsParts ==
  ASSUME NEW f, NEW t, IsSeq(t)
  PROVE  /\ IsSeq(<<f>> \o t)
         /\ <<f>> \o t # <<>>
         /\ Head(<<f>> \o t) = f
         /\ (<<f>> \o t)[1] = f
         /\ Tail(<<f>> \o t) = t
         /\ Len(<<f>> \o t) = Len(t) + 1
         /\ \A k \in 1..Len(t) : (<<f>> \o t)[k + 1] = t[k]
<1> DEFINE S == {f} \union {t[k] : k \in DOMAIN t}
           s == <<f>> \o t
<1>1. t \in Seq(S) /\ <<f>> \in Seq(S)
  <2>1. {t[k] : k \in DOMAIN t} \subseteq S
    OBVIOUS
  <2>2. t \in Seq(S)
    BY <2>1, SeqMonotonic DEF IsSeq
  <2>3. QED
    BY <2>2
<1>2. s \in Seq(S)
  BY <1>1
<1>3. /\ s # <<>> /\ Head(s) = f /\ s[1] = f /\ Len(s) = Len(t) + 1
      /\ \A k \in 1..Len(t) : s[k + 1] = t[k]
  BY <1>1
<1>4. Tail(s) = t
  <2>1. Tail(s) \in Seq(S) /\ Len(Tail(s)) = Len(t)
    BY <1>2, <1>3
  <2>2. \A k \in 1..Len(t) : Tail(s)[k] = s[k + 1]
    BY <1>2, <1>3
  <2>3. QED
    BY <1>1, <1>3, <2>1, <2>2, SeqEqual
<1>5. IsSeq(s)
  BY <1>2, SeqOfAny
<1>6. QED
  BY <1>3, <1>4, <1>5

LEMMA SeqSplit ==
  ASSUME NEW s, IsSeq(s), s # <<>>
  PROVE  /\ s = <<Head(s)>> \o Tail(s)
         /\ IsSeq(Tail(s))
         /\ Head(s) = s[1]
         /\ Len(Tail(s)) = Len(s) - 1
<1> DEFINE S == {s[k] : k \in DOMAIN s}
<1>1. s \in Seq(S)
  BY DEF IsSeq
<1>2. Tail(s) \in Seq(S) /\ Len(Tail(s)) = Len(s) - 1 /\ Head(s) = s[1] /\ Head(s) \in S
  BY <1>1
<1>3. \A k \in 1..(Len(s) - 1) : Tail(s)[k] = s[k + 1]
  BY <1>1
<1> DEFINE t == <<Head(s)>> \o Tail(s)
<1>4. IsSeq(Tail(s))
  BY <1>2, SeqOfAny
<1>5. /\ t \in Seq(S) /\ Len(t) = Len(s) /\ t[1] = s[1]
      /\ \A k \in 1..(Len(s) - 1) : t[k + 1] = s[k + 1]
  BY <1>1, <1>2, <1>3
<1>6. \A k \in 1..Len(s) : t[k] = s[k]
  <2> TAKE k \in 1..Len(s)
  <2> HIDE DEF t
  <2>1. CASE k = 1
    BY <2>1, <1>5
  <2>2. CASE k # 1
    <3>1. k - 1 \in 1..(Len(s) - 1) /\ (k - 1) + 1 = k
      BY <1>1, <2>2
    <3>2. QED
      BY <1>5, <3>1
  <2>3. QED
    BY <2>1, <2>2
<1>7. t = s
  BY <1>1, <1>5, <1>6, SeqEqual
<1>8. QED
  BY <1>2, <1>4, <1>7

\* Other ways to write what is built from the head.
LEMMA TwoOnTop ==
  ASSUME NEW f, NEW g, NEW t, IsSeq(t)
  PROVE  <<f, g>> \o t = <<f>> \o (<<g>> \o t)
<1> DEFINE S == {f, g} \union {t[k] : k \in DOMAIN t}
<1>1. {t[k] : k \in DOMAIN t} \subseteq S
  OBVIOUS
<1>2. t \in Seq(S)
  BY <1>1, SeqMonotonic DEF IsSeq
<1>3. f \in S /\ g \in S
  OBVIOUS
<1> HIDE DEF S
<1>4. <<f>> \in Seq(S) /\ <<g>> \in Seq(S) /\ <<f, g>> \in Seq(S)
  BY <1>3
<1>5. <<f>> \o <<g>> = <<f, g>>
  <2>1. /\ <<f>> \o <<g>> \in Seq(S) /\ Len(<<f>> \o <<g>>) = 2 /\ Len(<<f, g>>) = 2
        /\ (<<f>> \o <<g>>)[1] = f /\ (<<f>> \o <<g>>)[2] = g
    BY <1>4
  <2>2. <<f, g>>[1] = f /\ <<f, g>>[2] = g
    OBVIOUS
  <2>3. \A k \in 1..2 : (<<f>> \o <<g>>)[k] = <<f, g>>[k]
    <3>1. \A k \in 1..2 : k = 1 \/ k = 2
      OBVIOUS
    <3>2. QED
      BY <2>1, <2>2, <3>1
  <2>4. QED
    BY <1>4, <2>1, <2>3, SeqEqual
<1>6. (<<f>> \o <<g>>) \o t = <<f>> \o (<<g>> \o t)
  BY <1>2, <1>4, ConcatAssociative
<1>7. QED
  BY <1>5, <1>6

LEMMA NewHead ==
  ASSUME NEW h, NEW s, IsSeq(s), s # <<>>
  PROVE  [s EXCEPT ![1] = h] = <<h>> \o Tail(s)
<1> DEFINE S == {h} \union {s[k] : k \in DOMAIN s}
           t == <<h>> \o Tail(s)
           u == [s EXCEPT ![1] = h]
<1>1. {s[k] : k \in DOMAIN s} \subseteq S
  OBVIOUS
<1>2. s \in Seq(S) /\ h \in S
  BY <1>1, SeqMonotonic DEF IsSeq
<1> HIDE DEF S
<1>3. Len(s) \in Nat \ {0} /\ 1 \in 1..Len(s)
  BY <1>2
<1>4. u \in Seq(S) /\ Len(u) = Len(s) /\ \A j \in 1..Len(s) : u[j] = IF j = 1 THEN h ELSE s[j]
  BY <1>2, <1>3, ExceptSeq
<1>5. Tail(s) \in Seq(S) /\ Len(Tail(s)) = Len(s) - 1 /\ \A k \in 1..(Len(s) - 1) : Tail(s)[k] = s[k + 1]
  BY <1>2, <1>3
<1>6. t \in Seq(S) /\ Len(t) = Len(s) /\ t[1] = h /\ \A k \in 1..(Len(s) - 1) : t[k + 1] = s[k + 1]
  BY <1>2, <1>3, <1>5
<1> HIDE DEF t, u
<1>7. \A k \in 1..Len(s) : t[k] = u[k]
  <2> TAKE k \in 1..Len(s)
  <2>1. CASE k = 1
    BY <2>1, <1>4, <1>6
  <2>2. CASE k # 1
    <3>1. k - 1 \in 1..(Len(s) - 1) /\ (k - 1) + 1 = k
      BY <1>3, <2>2
    <3>2. QED
      BY <1>4, <1>6, <2>2, <3>1
  <2>3. QED
    BY <2>1, <2>2
<1>8. t = u
  BY <1>4, <1>6, <1>7, SeqEqual
<1>9. QED
  BY <1>8 DEF t, u

LEMMA PairsAreSeqs == ASSUME NEW f, NEW g PROVE IsSeq(<<f>>) /\ IsSeq(<<f, g>>)
<1>1. <<f>> \in Seq({f, g}) /\ <<f, g>> \in Seq({f, g})
  OBVIOUS
<1>2. QED
  BY <1>1, SeqOfAny

LEMMA OnTop ==
  ASSUME NEW p, NEW q, NEW t, IsSeq(p), IsSeq(q), IsSeq(t)
  PROVE  (p \o q) \o t = p \o (q \o t)
<1> DEFINE P == {p[k] : k \in DOMAIN p}
           Q == {q[k] : k \in DOMAIN q}
           R == {t[k] : k \in DOMAIN t}
           S == P \union (Q \union R)
<1>1. p \in Seq(P) /\ q \in Seq(Q) /\ t \in Seq(R)
  BY DEF IsSeq
<1> HIDE DEF P, Q, R
<1>2. P \subseteq S /\ Q \subseteq S /\ R \subseteq S
  OBVIOUS
<1>3. p \in Seq(S) /\ q \in Seq(S) /\ t \in Seq(S)
  BY <1>1, <1>2, SeqMonotonic
<1>4. QED
  BY <1>3, ConcatAssociative

-----------------------------------------------------------------------------
(* The non-empty suffixes of a sequence: what lies on a stack from each of  *)
(* its elements downwards.                                                  *)

Suffixes(s) == {SubSeq(s, k, Len(s)) : k \in DOMAIN s}

LEMMA SuffixesEmpty == Suffixes(<<>>) = {}
BY DEF Suffixes

LEMMA SuffixesCons ==
  ASSUME NEW f, NEW t, IsSeq(t)
  PROVE  Suffixes(<<f>> \o t) = {<<f>> \o t} \union Suffixes(t)
<1> DEFINE s == <<f>> \o t
           S == {f} \union {t[k] : k \in DOMAIN t}
<1>1. {t[k] : k \in DOMAIN t} \subseteq S
  OBVIOUS
<1>2. t \in Seq(S) /\ f \in S
  BY <1>1, SeqMonotonic DEF IsSeq
<1> HIDE DEF S
<1>3. /\ s \in Seq(S) /\ Len(t) \in Nat /\ Len(s) = Len(t) + 1
      /\ DOMAIN s = 1..Len(s) /\ DOMAIN t = 1..Len(t)
      /\ \A k \in 1..Len(t) : s[k + 1] = t[k]
  BY <1>2
<1> HIDE DEF s
<1>4. SubSeq(s, 1, Len(s)) = s
  BY <1>3, SubSeqFull
<1>5. ASSUME NEW k \in 1..Len(t) PROVE SubSeq(s, k + 1, Len(s)) = SubSeq(t, k, Len(t))
  <2> DEFINE a == SubSeq(s, k + 1, Len(s))
             b == SubSeq(t, k, Len(t))
  <2>1. (\A i \in (k + 1)..Len(s) : s[i] \in S) /\ \A i \in k..Len(t) : t[i] \in S
    BY <1>2, <1>3
  <2>2. /\ a \in Seq(S) /\ Len(a) = Len(t) - k + 1
        /\ \A i \in 1..(Len(t) - k + 1) : a[i] = s[(k + 1) + i - 1]
    BY <1>3, <2>1, SubSeqProperties
  <2>3. /\ b \in Seq(S) /\ Len(b) = Len(t) - k + 1
        /\ \A i \in 1..(Len(t) - k + 1) : b[i] = t[k + i - 1]
    BY <1>3, <2>1, SubSeqProperties
  <2> HIDE DEF a, b
  <2>4. \A i \in 1..(Len(t) - k + 1) : k + i - 1 \in 1..Len(t) /\ (k + 1) + i - 1 = (k + i - 1) + 1
    BY <1>3
  <2>5. \A i \in 1..(Len(t) - k + 1) : a[i] = b[i]
    BY <1>3, <2>2, <2>3, <2>4
  <2>6. a = b
    BY <2>2, <2>3, <2>5, SeqEqual
  <2>7. QED
    BY <2>6 DEF a, b
<1>6. Suffixes(s) = {s} \union Suffixes(t)
  <2>1. ASSUME NEW u \in Suffixes(s) PROVE u \in {s} \union Suffixes(t)
    <3>1. PICK k \in 1..Len(s) : u = SubSeq(s, k, Len(s))
      BY <1>3 DEF Suffixes
    <3>2. CASE k = 1
      BY <1>4, <3>1, <3>2
    <3>3. CASE k # 1
      <4>1. k - 1 \in 1..Len(t) /\ (k - 1) + 1 = k
        BY <1>3, <3>3
      <4>2. u = SubSeq(t, k - 1, Len(t))
        BY <1>5, <3>1, <4>1
      <4>3. QED
        BY <1>3, <4>1, <4>2 DEF Suffixes
    <3>4. QED
      BY <3>2, <3>3
  <2>2. s \in Suffixes(s)
    <3>1. 1 \in DOMAIN s
      BY <1>3
    <3>2. QED
      BY <1>4, <3>1, Zenon DEF Suffixes
  <2>3. ASSUME NEW u \in Suffixes(t) PROVE u \in Suffixes(s)
    <3>1. PICK k \in 1..Len(t) : u = SubSeq(t, k, Len(t))
      BY <1>3 DEF Suffixes
    <3>2. k + 1 \in 1..Len(s)
      BY <1>3
    <3>3. QED
      BY <1>3, <1>5, <3>1, <3>2 DEF Suffixes
  <2>4. QED
    BY <2>1, <2>2, <2>3
<1>7. QED
  BY <1>6 DEF s

\* Every element is the head of a suffix, and every suffix is no empty sequence.
LEMMA SuffixParts ==
  ASSUME NEW s, IsSeq(s)
  PROVE  /\ \A k \in DOMAIN s : \E u \in Suffixes(s) : Head(u) = s[k]
         /\ \A u \in Suffixes(s) : /\ IsSeq(u) /\ u # <<>> /\ \E k \in DOMAIN s : Head(u) = s[k]
         /\ \A u \in Suffixes(s) : Len(u) <= Len(s)
<1> DEFINE S == {s[k] : k \in DOMAIN s}
<1>1. s \in Seq(S) /\ DOMAIN s = 1..Len(s) /\ Len(s) \in Nat
  BY DEF IsSeq
<1> HIDE DEF S
<1>2. ASSUME NEW k \in 1..Len(s)
      PROVE  /\ SubSeq(s, k, Len(s)) \in Seq(S) /\ SubSeq(s, k, Len(s)) # <<>>
             /\ Head(SubSeq(s, k, Len(s))) = s[k]
             /\ Len(SubSeq(s, k, Len(s))) <= Len(s)
  <2>1. /\ SubSeq(s, k, Len(s)) \in Seq(S)
        /\ Len(SubSeq(s, k, Len(s))) = IF k <= Len(s) THEN Len(s) - k + 1 ELSE 0
    BY <1>1, SubSeqProperties
  <2>2. Len(s) \in k..Len(s)
    BY <1>1
  <2>3. Head(SubSeq(s, k, Len(s))) = s[k]
    BY <1>1, <2>2, HeadTailOfSubSeq
  <2> DEFINE u == SubSeq(s, k, Len(s))
  <2> HIDE DEF u
  <2>4. u \in Seq(S) /\ Len(u) = Len(s) - k + 1
    BY <1>1, <2>1 DEF u
  <2>5. u # <<>> /\ Len(u) <= Len(s)
    BY <1>1, <2>4
  <2>6. QED
    BY <2>3, <2>4, <2>5 DEF u
<1>3. QED
  BY <1>1, <1>2, SeqOfAny DEF Suffixes

\* Two sequences of numbers, the second being the first without its head.
LEMMA SumShift ==
  ASSUME NEW m \in Seq(Nat), NEW n \in Seq(Nat), Len(m) = Len(n) + 1,
         \A k \in 1..Len(n) : m[k + 1] = n[k]
  PROVE  Sum(m) = m[1] + Sum(n) /\ Sum(n) \in Nat /\ m[1] \in Nat
<1>1. m[1] \in Nat /\ m # <<>> /\ n \in Seq(Int)
  OBVIOUS
<1>2. Tail(m) \in Seq(Nat) /\ Len(Tail(m)) = Len(n) /\ \A k \in 1..Len(n) : Tail(m)[k] = m[k + 1]
  OBVIOUS
<1>3. Tail(m) = n
  BY <1>2, SeqEqual
<1>4. IsSeq(m)
  BY SeqOfAny
<1>5. m = <<m[1]>> \o n
  BY <1>1, <1>3, <1>4, SeqSplit
<1>6. Sum(<<m[1]>> \o n) = m[1] + Sum(n)
  BY <1>1, SumCons
<1>7. Sum(n) \in Nat
  BY SumType
<1>8. QED
  BY <1>1, <1>5, <1>6, <1>7, Zenon
=============================================================================
