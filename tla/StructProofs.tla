---------------------------- MODULE StructProofs ----------------------------
(***************************************************************************)
(* For every table of sizes and alignments, and structures of any number   *)
(* of members nested in any depth.                                         *)
(***************************************************************************)
EXTENDS Packing, SumProofs, FiniteSetTheorems, FunctionTheorems

(***************************************************************************)
(* Recursion over 1..n.                                                    *)
(***************************************************************************)

LEMMA StrongInduction ==
  ASSUME NEW n \in Nat, NEW S,
         \A s \in 1..n : (\A j \in 1..(s - 1) : j \in S) => s \in S
  PROVE  1..n \subseteq S
<1> DEFINE T == {k \in Nat : \A s \in 1..n : s <= k => s \in S}
<1>1. 0 \in T
  OBVIOUS
<1>2. ASSUME NEW k \in Nat, k \in T PROVE k + 1 \in T
  <2>1. SUFFICES ASSUME NEW s \in 1..n, s <= k + 1 PROVE s \in S
    OBVIOUS
  <2>2. \A j \in 1..(s - 1) : j \in S
    <3> TAKE j \in 1..(s - 1)
    <3>1. j \in 1..n /\ j <= k
      BY <2>1
    <3>2. QED
      BY <1>2, <3>1
  <2>3. QED
    BY <2>2
<1>3. n \in T
  <2> HIDE DEF T
  <2>1. Nat \subseteq T
    BY <1>1, <1>2, SetInduction
  <2>2. QED
    BY <2>1
<1>4. QED
  BY <1>3

\* G[s] makes the value for s of those for less than s.
LooksBack(G, n, D) ==
    /\ \A s \in 1..n : \A f \in [1..n -> D] : G[s][f] \in D
    /\ \A s \in 1..n : \A f, g \in [1..n -> D] :
          (\A j \in 1..(s - 1) : f[j] = g[j]) => G[s][f] = G[s][g]

Follows(f, G, n, D) == f \in [1..n -> D] /\ \A s \in 1..n : f[s] = G[s][f]

LEMMA Recursion ==
  ASSUME NEW n \in Nat, NEW D, D # {}, NEW G, LooksBack(G, n, D)
  PROVE  \E f : Follows(f, G, n, D)
<1> USE DEF LooksBack
<1> DEFINE F == [1..n -> D]
           Fits(f, k) == \A s \in 1..k : f[s] = G[s][f]
           T == {k \in Nat : k <= n => \E f \in F : Fits(f, k)}
<1>1. 0 \in T
  <2>1. PICK d \in D : TRUE
    OBVIOUS
  <2>2. [s \in 1..n |-> d] \in F
    OBVIOUS
  <2>3. Fits([s \in 1..n |-> d], 0)
    OBVIOUS
  <2> HIDE DEF F, Fits
  <2>4. QED
    BY <2>2, <2>3
<1>2. ASSUME NEW k \in Nat, k \in T PROVE k + 1 \in T
  <2> HIDE DEF F, Fits
  <2>1. SUFFICES ASSUME k + 1 <= n
                 PROVE  \E f \in F : Fits(f, k + 1)
    OBVIOUS
  <2>2. PICK f \in F : Fits(f, k)
    BY <1>2, <2>1
  <2> DEFINE g == [f EXCEPT ![k + 1] = G[k + 1][f]]
  <2>3. k + 1 \in 1..n /\ G[k + 1][f] \in D
    BY <2>1 DEF F
  <2>4. g \in F /\ g[k + 1] = G[k + 1][f] /\ \A j \in 1..k : g[j] = f[j]
    BY <2>3 DEF F
  <2> HIDE DEF g
  <2>5. ASSUME NEW s \in 1..(k + 1) PROVE g[s] = G[s][g]
    <3>1. s \in 1..n /\ \A j \in 1..(s - 1) : f[j] = g[j]
      BY <2>1, <2>4
    <3>2. G[s][f] = G[s][g]
      BY <2>4, <3>1 DEF F
    <3>3. CASE s = k + 1
      BY <2>4, <3>2, <3>3
    <3>4. CASE s # k + 1
      <4>1. s \in 1..k
        BY <3>4
      <4>2. QED
        BY <2>2, <2>4, <3>2, <4>1 DEF Fits
    <3>5. QED
      BY <3>3, <3>4
  <2>6. QED
    BY <2>4, <2>5 DEF Fits
<1>3. n \in T
  <2> HIDE DEF T
  <2>1. Nat \subseteq T
    BY <1>1, <1>2, SetInduction
  <2>2. QED
    BY <2>1
<1>4. PICK f \in F : Fits(f, n)
  <2> HIDE DEF F, Fits
  <2>1. QED
    BY <1>3
<1>5. QED
  BY <1>4 DEF Follows

(***************************************************************************)
(* Rounding, and the greatest of some numbers.                             *)
(***************************************************************************)

LEMMA Division ==
  ASSUME NEW x \in Nat, NEW a \in Nat, a > 0
  PROVE  /\ x \div a \in Nat /\ x % a \in 0..(a - 1)
         /\ x = (x \div a) * a + (x % a)
<1>1. x = (x \div a) * a + (x % a)
  OBVIOUS
<1>2. x \div a \in Nat /\ x % a \in 0..(a - 1)
  OBVIOUS
<1>3. QED
  BY <1>1, <1>2

LEMMA QuotientIs ==
  ASSUME NEW x \in Int, NEW a \in Nat, a > 0, NEW q \in Int, NEW r \in 0..(a - 1), x = q * a + r
  PROVE  x \div a = q /\ x % a = r
OBVIOUS

LEMMA Rounded ==
  ASSUME NEW n \in Nat, NEW a \in Nat, a > 0
  PROVE  /\ RoundUp(n, a) \in Nat /\ n <= RoundUp(n, a)
         /\ RoundUp(n, a) = n <=> n % a = 0
         /\ RoundUp(n, a) % a = 0
<1> DEFINE x == n + a - 1
           q == x \div a
           r == x % a
<1>1. x \in Nat /\ q \in Nat /\ r \in 0..(a - 1) /\ x = q * a + r
  BY Division
<1>2. RoundUp(n, a) = q * a
  BY <1>1 DEF RoundUp
<1> HIDE DEF q, r
<1>3. q * a \in Nat /\ n <= q * a
  BY <1>1
<1>4. (q * a) % a = 0
  <2>1. q * a \in Int /\ q \in Int /\ 0 \in 0..(a - 1) /\ q * a = q * a + 0
    BY <1>1
  <2>2. QED
    BY <2>1, QuotientIs
<1>5. ASSUME n % a = 0 PROVE q * a = n
  <2>1. n \div a \in Nat /\ n = (n \div a) * a
    BY <1>5, Division
  <2>2. x = (n \div a) * a + (a - 1)
    BY <2>1
  <2>3. x \div a = n \div a
    <3>1. x \in Int /\ n \div a \in Int /\ a - 1 \in 0..(a - 1)
      BY <1>1, <2>1
    <3>2. QED
      BY <2>2, <3>1, QuotientIs
  <2>4. QED
    BY <2>1, <2>3 DEF q
<1>6. QED
  BY <1>2, <1>3, <1>4, <1>5

LEMMA Greatest ==
  ASSUME NEW S \in SUBSET Nat, S # {}, NEW b \in Nat, \A x \in S : x <= b
  PROVE  Max(S) \in S /\ \A x \in S : x <= Max(S)
<1> DEFINE R == {b - x : x \in S}
<1>1. R \in SUBSET Nat
  <2>1. \A x \in S : b - x \in Nat
    OBVIOUS
  <2>2. QED
    BY <2>1
<1>2. PICK m \in R : \A y \in R : m <= y
  <2>1. R # {}
    OBVIOUS
  <2> HIDE DEF R
  <2>2. QED
    BY <1>1, <2>1, LeastNatural
<1>3. PICK g \in S : m = b - g
  BY <1>2
<1>4. \A x \in S : g >= x
  <2> TAKE x \in S
  <2>1. b - x \in R /\ x \in Nat /\ g \in Nat
    OBVIOUS
  <2>2. b - g <= b - x
    BY <1>2, <1>3, <2>1
  <2>3. QED
    BY <2>1, <2>2
<1>5. QED
  BY <1>3, <1>4 DEF Max

LEMMA GreatestOf ==
  ASSUME NEW S \in SUBSET Nat, NEW x \in S, \A y \in S : y <= x
  PROVE  Max(S) = x
<1>1. x \in Nat
  OBVIOUS
<1>2. Max(S) \in S /\ \A y \in S : y <= Max(S)
  BY <1>1, Greatest
<1>3. x <= Max(S) /\ Max(S) <= x /\ Max(S) \in Nat
  BY <1>2
<1>4. QED
  BY <1>1, <1>3

(***************************************************************************)
(* The two layouts: by LLVM, and for the host.                             *)
(***************************************************************************)

Lists(size, align) ==
    /\ size \in Seq(Nat) /\ align \in Seq(Nat \ {0})
    /\ Len(size) = Len(align) /\ Len(size) > 0

AreOffsets(o, size, align) ==
    /\ o \in [1..Len(size) -> Nat]
    /\ o[1] = 0
    /\ \A i \in 1..(Len(size) - 1) : o[i + 1] = RoundUp(o[i] + size[i], align[i + 1])

LEMMA ListParts ==
  ASSUME NEW size, NEW align, Lists(size, align)
  PROVE  /\ Len(size) \in Nat /\ Len(size) > 0
         /\ \A i \in 1..Len(size) : size[i] \in Nat
         /\ \A i \in 1..Len(size) : align[i] \in Nat /\ align[i] > 0
BY DEF Lists

LEMMA LayOffsets ==
  ASSUME NEW size, NEW align, Lists(size, align)
  PROVE  AreOffsets(Lay(size, align).offsets, size, align)
<1> DEFINE n == Len(size)
           Body(f, i) == IF i = 1 THEN 0 ELSE RoundUp(f[i - 1] + size[i - 1], align[i])
           G == [i \in 1..n |-> [f \in [1..n -> Nat] |-> Body(f, i)]]
           g == CHOOSE f : f = [i \in 1..n |-> Body(f, i)]
<1>1. n \in Nat /\ \A i \in 1..n : size[i] \in Nat /\ align[i] \in Nat /\ align[i] > 0
  BY DEF Lists
<1>2. ASSUME NEW i \in 1..n, NEW f, i # 1 => f[i - 1] \in Nat PROVE Body(f, i) \in Nat
  <2>1. CASE i = 1
    BY <2>1
  <2>2. CASE i # 1
    <3>1. i - 1 \in 1..n
      BY <2>2
    <3>2. f[i - 1] + size[i - 1] \in Nat /\ align[i] \in Nat /\ align[i] > 0
      BY <1>1, <1>2, <2>2, <3>1
    <3>3. RoundUp(f[i - 1] + size[i - 1], align[i]) \in Nat
      BY <3>2, Rounded
    <3>4. QED
      BY <2>2, <3>3
  <2>3. QED
    BY <2>1, <2>2
<1>3. ASSUME NEW i \in 1..n, NEW f, NEW h, \A j \in 1..(i - 1) : f[j] = h[j]
      PROVE  Body(f, i) = Body(h, i)
  <2>1. i # 1 => i - 1 \in 1..(i - 1)
    OBVIOUS
  <2>2. QED
    BY <1>3, <2>1
<1> HIDE DEF Body
<1>4. \A i \in 1..n : \A f \in [1..n -> Nat] : G[i][f] = Body(f, i)
  OBVIOUS
<1>5. \A i \in 1..n : \A f \in [1..n -> Nat] : i # 1 => f[i - 1] \in Nat
  OBVIOUS
<1> HIDE DEF G
<1>6. PICK f \in [1..n -> Nat] : \A i \in 1..n : f[i] = G[i][f]
  <2>1. \A i \in 1..n : \A h \in [1..n -> Nat] : G[i][h] \in Nat
    BY <1>2, <1>4, <1>5
  <2>2. \A i \in 1..n : \A h, k \in [1..n -> Nat] :
            (\A j \in 1..(i - 1) : h[j] = k[j]) => G[i][h] = G[i][k]
    BY <1>3, <1>4
  <2> DEFINE D == Nat
  <2>3. n \in Nat /\ D # {} /\ LooksBack(G, n, D)
    BY <1>1, <2>1, <2>2 DEF LooksBack
  <2> HIDE DEF n, D, g
  <2>4. PICK f : Follows(f, G, n, D)
    BY <2>3, Recursion
  <2>5. f \in [1..n -> D] /\ \A i \in 1..n : f[i] = G[i][f]
    BY <2>4 DEF Follows
  <2>6. QED
    BY <2>5 DEF D
<1>7. f = [i \in 1..n |-> Body(f, i)]
  BY <1>4, <1>6
<1>8. g = [i \in 1..n |-> Body(g, i)]
  BY <1>7
<1>9. Lay(size, align).offsets = g
  BY DEF Lay, Body
<1> HIDE DEF g
<1>10. 1..n \subseteq {i \in 1..n : g[i] \in Nat}
  <2> DEFINE S == {i \in 1..n : g[i] \in Nat}
  <2>1. ASSUME NEW i \in 1..n, \A j \in 1..(i - 1) : j \in S PROVE i \in S
    <3>1. i # 1 => g[i - 1] \in Nat
      BY <2>1
    <3>2. Body(g, i) \in Nat
      BY <1>2, <3>1
    <3>3. QED
      BY <1>8, <3>2
  <2> HIDE DEF S, n
  <2>2. 1..n \subseteq S
    BY <1>1, <2>1, StrongInduction
  <2>3. QED
    BY <2>2 DEF S
<1>11. g \in [1..n -> Nat]
  BY <1>8, <1>10
<1>12. g[1] = 0
  <2>1. 1 \in 1..n
    BY DEF Lists
  <2>2. QED
    BY <1>8, <2>1 DEF Body
<1>13. ASSUME NEW i \in 1..(n - 1) PROVE g[i + 1] = RoundUp(g[i] + size[i], align[i + 1])
  <2>1. i + 1 \in 1..n /\ i + 1 # 1 /\ (i + 1) - 1 = i
    BY <1>1
  <2>2. g[i + 1] = Body(g, i + 1)
    BY <1>8, <2>1
  <2>3. QED
    BY <2>1, <2>2 DEF Body
<1>14. QED
  BY <1>9, <1>11, <1>12, <1>13 DEF AreOffsets

LEMMA FiniteIsBounded ==
  ASSUME NEW n \in Nat, NEW f, \A i \in 1..n : f[i] \in Nat
  PROVE  \E b \in Nat : \A i \in 1..n : f[i] <= b
<1> DEFINE Bounds(k, b) == \A i \in 1..n : i <= k => f[i] <= b
           T == {k \in Nat : \E b \in Nat : Bounds(k, b)}
<1>1. 0 \in T
  <2>1. Bounds(0, 0)
    OBVIOUS
  <2> HIDE DEF Bounds
  <2>2. QED
    BY <2>1
<1>2. ASSUME NEW k \in Nat, k \in T PROVE k + 1 \in T
  <2>1. PICK b \in Nat : Bounds(k, b)
    BY <1>2
  <2>2. CASE k + 1 \in 1..n
    <3> DEFINE c == IF f[k + 1] <= b THEN b ELSE f[k + 1]
    <3>1. c \in Nat /\ b <= c /\ f[k + 1] <= c
      BY <2>2
    <3> HIDE DEF c
    <3>2. ASSUME NEW i \in 1..n, i <= k + 1 PROVE f[i] <= c
      <4>1. CASE i = k + 1
        BY <3>1, <4>1
      <4>2. CASE i # k + 1
        <5>1. i <= k /\ f[i] \in Nat
          BY <3>2, <4>2
        <5>2. f[i] <= b
          BY <2>1, <5>1
        <5>3. QED
          BY <3>1, <5>1, <5>2
      <4>3. QED
        BY <4>1, <4>2
    <3>3. Bounds(k + 1, c)
      BY <3>2
    <3> HIDE DEF Bounds
    <3>4. QED
      BY <3>1, <3>3
  <2>3. CASE k + 1 \notin 1..n
    <3>1. Bounds(k + 1, b)
      BY <2>1, <2>3
    <3> HIDE DEF Bounds
    <3>2. QED
      BY <3>1
  <2>4. QED
    BY <2>2, <2>3
<1>3. n \in T
  <2> HIDE DEF T
  <2>1. Nat \subseteq T
    BY <1>1, <1>2, SetInduction
  <2>2. QED
    BY <2>1
<1>4. PICK b \in Nat : Bounds(n, b)
  BY <1>3
<1>5. QED
  BY <1>4

LEMMA LayIs ==
  ASSUME NEW size, NEW align, Lists(size, align)
  PROVE  LET l == Lay(size, align)
             n == Len(size)
         IN  /\ l.align \in Nat \ {0} /\ l.align \in {align[i] : i \in 1..n}
             /\ l.size \in Nat /\ l.size % l.align = 0
             /\ l.offsets[n] + size[n] <= l.size
             /\ l.size = RoundUp(l.offsets[n] + size[n], l.align)
<1> DEFINE l == Lay(size, align)
           n == Len(size)
           o == l.offsets
           S == {align[i] : i \in 1..n}
<1>1. n \in Nat /\ n > 0 /\ \A i \in 1..n : size[i] \in Nat /\ align[i] \in Nat /\ align[i] > 0
  BY DEF Lists
<1>2. o \in [1..n -> Nat]
  BY LayOffsets DEF AreOffsets
<1>3. l.align = Max(S) /\ l.size = RoundUp(o[n] + size[n], Max(S))
  BY DEF Lay
<1>4. Max(S) \in S
  <2>1. S \in SUBSET Nat
    BY <1>1
  <2>2. align[1] \in S
    BY <1>1
  <2>3. PICK b \in Nat : \A i \in 1..n : align[i] <= b
    BY <1>1, FiniteIsBounded
  <2>4. \A x \in S : x <= b
    BY <2>3
  <2> HIDE DEF S
  <2>5. QED
    BY <2>1, <2>2, <2>4, Greatest
<1>5. Max(S) \in Nat /\ Max(S) > 0
  BY <1>1, <1>4
<1>6. o[n] + size[n] \in Nat
  BY <1>1, <1>2
<1> HIDE DEF l, o, S
<1>7. l.size \in Nat /\ l.size % l.align = 0 /\ o[n] + size[n] <= l.size
  BY <1>3, <1>5, <1>6, Rounded
<1>8. l.align \in Nat \ {0} /\ l.align \in S
  BY <1>3, <1>4, <1>5
<1>9. l.size = RoundUp(o[n] + size[n], l.align)
  BY <1>3
<1>10. QED
  BY <1>7, <1>8, <1>9 DEF l, o, S

AreTold(told, sizes) ==
    /\ \A i \in 1..Len(sizes) : told[i] \in Nat
    /\ Len(sizes) > 0 => told[1] = 0
    /\ \A i \in 1..(Len(sizes) - 1) : told[i + 1] = told[i] + sizes[i]

LEMMA MemberOffsetIs ==
  ASSUME NEW sizes \in Seq(Nat)
  PROVE  AreTold([i \in 1..Len(sizes) |-> MemberOffset(sizes, i)], sizes)
<1> DEFINE n == Len(sizes)
           Body(f, i) == IF i = 1 THEN 0 ELSE f[i - 1] + sizes[i - 1]
           G == [i \in 1..n |-> [f \in [1..n -> Nat] |-> Body(f, i)]]
           g == CHOOSE f : f = [i \in 1..n |-> Body(f, i)]
<1>1. n \in Nat /\ \A i \in 1..n : sizes[i] \in Nat
  OBVIOUS
<1>2. ASSUME NEW i \in 1..n, NEW f, i # 1 => f[i - 1] \in Nat PROVE Body(f, i) \in Nat
  <2>1. i # 1 => i - 1 \in 1..n
    OBVIOUS
  <2>2. QED
    BY <1>1, <1>2, <2>1
<1>3. ASSUME NEW i \in 1..n, NEW f, NEW h, \A j \in 1..(i - 1) : f[j] = h[j]
      PROVE  Body(f, i) = Body(h, i)
  <2>1. i # 1 => i - 1 \in 1..(i - 1)
    OBVIOUS
  <2>2. QED
    BY <1>3, <2>1
<1> HIDE DEF Body
<1>4. \A i \in 1..n : \A f \in [1..n -> Nat] : G[i][f] = Body(f, i)
  OBVIOUS
<1>5. \A i \in 1..n : \A f \in [1..n -> Nat] : i # 1 => f[i - 1] \in Nat
  OBVIOUS
<1> HIDE DEF G, g
<1>6. PICK f : f \in [1..n -> Nat] /\ \A i \in 1..n : f[i] = G[i][f]
  <2>1. \A i \in 1..n : \A h \in [1..n -> Nat] : G[i][h] \in Nat
    BY <1>2, <1>4, <1>5
  <2>2. \A i \in 1..n : \A h, k \in [1..n -> Nat] :
            (\A j \in 1..(i - 1) : h[j] = k[j]) => G[i][h] = G[i][k]
    <3> TAKE i \in 1..n
    <3> TAKE h, k \in [1..n -> Nat]
    <3> HAVE \A j \in 1..(i - 1) : h[j] = k[j]
    <3>1. G[i][h] = Body(h, i) /\ G[i][k] = Body(k, i)
      BY <1>4
    <3>2. Body(h, i) = Body(k, i)
      BY <1>3
    <3>3. QED
      BY <3>1, <3>2
  <2> DEFINE D == Nat
  <2>3. n \in Nat /\ D # {} /\ LooksBack(G, n, D)
    BY <1>1, <2>1, <2>2 DEF LooksBack
  <2> HIDE DEF n, D
  <2>4. PICK f : Follows(f, G, n, D)
    BY <2>3, Recursion
  <2>5. QED
    BY <2>4 DEF Follows, D
<1>7. f = [i \in 1..n |-> Body(f, i)]
  BY <1>4, <1>6
<1>8. g = [i \in 1..n |-> Body(g, i)]
  BY <1>7 DEF g
<1>9. \A i \in 1..n : MemberOffset(sizes, i) = g[i]
  BY DEF MemberOffset, Body, g
<1>10. 1..n \subseteq {i \in 1..n : g[i] \in Nat}
  <2> DEFINE S == {i \in 1..n : g[i] \in Nat}
  <2>1. ASSUME NEW i \in 1..n, \A j \in 1..(i - 1) : j \in S PROVE i \in S
    <3>1. i # 1 => g[i - 1] \in Nat
      BY <2>1
    <3>2. Body(g, i) \in Nat
      BY <1>2, <3>1
    <3>3. QED
      BY <1>8, <3>2
  <2> HIDE DEF S, n
  <2>2. 1..n \subseteq S
    BY <1>1, <2>1, StrongInduction
  <2>3. QED
    BY <2>2 DEF S
<1>11. n > 0 => g[1] = 0
  <2>1. n > 0 => 1 \in 1..n
    BY <1>1
  <2>2. QED
    BY <1>8, <2>1 DEF Body
<1>12. ASSUME NEW i \in 1..(n - 1) PROVE g[i + 1] = g[i] + sizes[i]
  <2>1. i + 1 \in 1..n /\ i + 1 # 1 /\ (i + 1) - 1 = i
    BY <1>1
  <2>2. g[i + 1] = Body(g, i + 1)
    BY <1>8, <2>1
  <2>3. QED
    BY <2>1, <2>2 DEF Body
<1> DEFINE told == [i \in 1..Len(sizes) |-> MemberOffset(sizes, i)]
<1>13. \A i \in 1..n : told[i] = g[i]
  BY <1>9
<1> HIDE DEF told
<1>14. AreTold(told, sizes)
  <2>1. n > 0 => 1 \in 1..n
    BY <1>1
  <2>2. \A i \in 1..(n - 1) : i \in 1..n /\ i + 1 \in 1..n
    BY <1>1
  <2>3. QED
    BY <1>10, <1>11, <1>12, <1>13, <2>1, <2>2 DEF AreTold
<1>15. QED
  BY <1>14 DEF told

\* A member's elements, one after the other.
Elems(sizes, arrs) == [i \in DOMAIN sizes |-> sizes[i] * (IF arrs[i] > 0 THEN arrs[i] ELSE 1)]

LEMMA ElemsAre ==
  ASSUME NEW s \in Nat, NEW a \in Nat, s > 0
  PROVE  LET e == s * (IF a > 0 THEN a ELSE 1)
         IN  e \in Nat /\ s <= e /\ (s = e <=> a <= 1)
<1>1. CASE a <= 1
  BY <1>1
<1>2. CASE a > 1
  <2>1. s * a = s + s * (a - 1)
    OBVIOUS
  <2>2. a - 1 \in Nat /\ a - 1 > 0
    BY <1>2
  <2>3. s * (a - 1) > 0 /\ s * (a - 1) \in Nat
    BY <2>2
  <2>4. QED
    BY <1>2, <2>1, <2>3
<1>3. QED
  BY <1>1, <1>2

\* An offset of the host is the member's unless there is padding or an array in front.
Exact(told, o, arrs, align, i) ==
    /\ told[i] <= o[i]
    /\ told[i] = o[i] <=> /\ \A j \in 1..(i - 1) : arrs[j] <= 1
                          /\ \A j \in 1..i : told[j] % align[j] = 0

LEMMA OffsetsCompared ==
  ASSUME NEW sizes \in Seq(Nat), \A i \in 1..Len(sizes) : sizes[i] > 0,
         NEW arrs, \A i \in 1..Len(sizes) : arrs[i] \in Nat,
         NEW align, Lists(Elems(sizes, arrs), align),
         NEW o, AreOffsets(o, Elems(sizes, arrs), align),
         NEW told, AreTold(told, sizes)
  PROVE  \A i \in 1..Len(sizes) : Exact(told, o, arrs, align, i)
<1> DEFINE n == Len(sizes)
           e == Elems(sizes, arrs)
           T == {i \in Nat : i + 1 \in 1..n => Exact(told, o, arrs, align, i + 1)}
<1>1. n \in Nat /\ Len(e) = n /\ n > 0
  BY DEF Elems, Lists
<1>2. \A i \in 1..n : /\ sizes[i] \in Nat /\ e[i] \in Nat /\ sizes[i] <= e[i]
                      /\ sizes[i] = e[i] <=> arrs[i] <= 1
  <2> TAKE i \in 1..n
  <2>1. sizes[i] \in Nat /\ arrs[i] \in Nat /\ sizes[i] > 0
    OBVIOUS
  <2>2. e[i] = sizes[i] * (IF arrs[i] > 0 THEN arrs[i] ELSE 1)
    BY DEF Elems
  <2> HIDE DEF e
  <2>3. QED
    BY <2>1, <2>2, ElemsAre
<1> HIDE DEF e
<1>3. \A i \in 1..n : align[i] \in Nat /\ align[i] > 0
  BY <1>1, ListParts DEF e
<1>4. \A i \in 1..n : o[i] \in Nat /\ told[i] \in Nat
  BY <1>1 DEF AreOffsets, AreTold, e
<1>5. \A i \in 1..(n - 1) : /\ o[i + 1] = RoundUp(o[i] + e[i], align[i + 1])
                            /\ told[i + 1] = told[i] + sizes[i]
  BY <1>1 DEF AreOffsets, AreTold, e
<1>6. o[1] = 0 /\ told[1] = 0
  BY <1>1 DEF AreOffsets, AreTold, e
<1>7. 0 \in T
  <2>1. 0 % align[1] = 0
    <3>1. align[1] \in Nat /\ align[1] > 0
      BY <1>1, <1>3
    <3>2. 0 = 0 * align[1] + 0 /\ 0 \in 0..(align[1] - 1)
      BY <3>1
    <3>3. QED
      BY <3>1, <3>2, QuotientIs
  <2>2. Exact(told, o, arrs, align, 1)
    BY <1>6, <2>1 DEF Exact
  <2>3. QED
    BY <2>2
<1>8. ASSUME NEW k \in Nat, k \in T PROVE k + 1 \in T
  <2>1. SUFFICES ASSUME k + 2 \in 1..n PROVE Exact(told, o, arrs, align, k + 2)
    <3>1. (k + 1) + 1 = k + 2
      OBVIOUS
    <3>2. QED
      BY <3>1
  <2> DEFINE i == k + 1
             m == k + 2
  <2>2. i \in 1..n /\ i \in 1..(n - 1) /\ i + 1 = m /\ m \in 1..n
    BY <1>1, <2>1
  <2>3. Exact(told, o, arrs, align, i)
    BY <1>8, <2>2
  <2>4. \A j : j \in 1..(m - 1) <=> (j \in 1..(i - 1) \/ j = i)
    OBVIOUS
  <2>5. \A j : j \in 1..m <=> (j \in 1..i \/ j = m)
    OBVIOUS
  <2> HIDE DEF T, i, m
  <2>6. o[m] = RoundUp(o[i] + e[i], align[m]) /\ told[m] = told[i] + sizes[i]
    BY <1>5, <2>2
  <2>7. /\ sizes[i] \in Nat /\ e[i] \in Nat /\ sizes[i] <= e[i] /\ (sizes[i] = e[i] <=> arrs[i] <= 1)
        /\ o[i] \in Nat /\ told[i] \in Nat /\ align[m] \in Nat /\ align[m] > 0
        /\ o[m] \in Nat /\ told[m] \in Nat
    BY <1>2, <1>3, <1>4, <2>2
  <2>8. o[i] + e[i] <= o[m] /\ (o[m] = o[i] + e[i] <=> (o[i] + e[i]) % align[m] = 0)
    <3>1. o[i] + e[i] \in Nat
      BY <2>7
    <3>2. QED
      BY <2>6, <2>7, <3>1, Rounded
  <2>9. told[i] <= o[i]
    BY <2>3 DEF Exact
  <2>10. told[m] <= o[m] /\ (told[m] = o[m] <=> told[i] = o[i] /\ arrs[i] <= 1 /\ told[m] % align[m] = 0)
    <3>1. told[m] <= o[i] + e[i]
      BY <2>6, <2>7, <2>9
    <3>2. told[m] = o[i] + e[i] <=> told[i] = o[i] /\ arrs[i] <= 1
      BY <2>6, <2>7, <2>9
    <3>3. QED
      BY <2>7, <2>8, <3>1, <3>2
  <2>11. told[i] = o[i] <=> /\ \A j \in 1..(i - 1) : arrs[j] <= 1
                          /\ \A j \in 1..i : told[j] % align[j] = 0
    BY <2>3 DEF Exact
  <2>12. Exact(told, o, arrs, align, m)
    BY <2>4, <2>5, <2>10, <2>11 DEF Exact
  <2>13. QED
    BY <2>12 DEF m
<1>9. Nat \subseteq T
  <2> HIDE DEF T
  <2>1. QED
    BY <1>7, <1>8, SetInduction
<1>10. ASSUME NEW i \in 1..n PROVE Exact(told, o, arrs, align, i)
  <2>1. i - 1 \in Nat /\ (i - 1) + 1 = i
    OBVIOUS
  <2>2. QED
    BY <1>9, <2>1
<1>11. QED
  BY <1>10

\* A member ends in front of the ones behind it.
LEMMA OffsetsGrow ==
  ASSUME NEW size, NEW align, Lists(size, align), NEW o, AreOffsets(o, size, align),
         NEW i \in 1..Len(size), NEW j \in 1..Len(size), i < j
  PROVE  o[i] + size[i] <= o[j]
<1> DEFINE n == Len(size)
           T == {d \in Nat : i + 1 + d <= n => o[i] + size[i] <= o[i + 1 + d]}
<1>1. n \in Nat /\ \A k \in 1..n : size[k] \in Nat /\ align[k] \in Nat /\ align[k] > 0 /\ o[k] \in Nat
  <2>1. \A k \in 1..n : o[k] \in Nat
    BY DEF AreOffsets
  <2>2. QED
    BY <2>1, ListParts
<1>2. ASSUME NEW k \in 1..(n - 1) PROVE o[k] + size[k] <= o[k + 1]
  <2>1. k \in 1..n /\ k + 1 \in 1..n
    BY <1>1
  <2>2. o[k + 1] = RoundUp(o[k] + size[k], align[k + 1])
    BY DEF AreOffsets
  <2>3. o[k] + size[k] \in Nat /\ align[k + 1] \in Nat /\ align[k + 1] > 0
    BY <1>1, <2>1
  <2>4. QED
    BY <2>2, <2>3, Rounded
<1>3. 0 \in T
  <2>1. SUFFICES ASSUME i + 1 <= n PROVE o[i] + size[i] <= o[i + 1]
    OBVIOUS
  <2>2. QED
    BY <1>1, <1>2, <2>1
<1>4. ASSUME NEW d \in Nat, d \in T PROVE d + 1 \in T
  <2>1. SUFFICES ASSUME i + 1 + (d + 1) <= n PROVE o[i] + size[i] <= o[i + 1 + (d + 1)]
    OBVIOUS
  <2> DEFINE k == i + 1 + d
  <2>2. k \in 1..(n - 1) /\ k \in 1..n /\ i + 1 + (d + 1) = k + 1 /\ k + 1 \in 1..n /\ k <= n
    BY <1>1, <2>1
  <2>3. o[i] + size[i] <= o[k]
    BY <1>4, <2>2
  <2> HIDE DEF k
  <2>4. o[i] + size[i] \in Nat /\ o[k] \in Nat /\ size[k] \in Nat /\ o[k + 1] \in Nat
    BY <1>1, <2>2
  <2>5. o[k] + size[k] <= o[k + 1]
    BY <1>2, <2>2
  <2>6. o[i] + size[i] <= o[k + 1]
    BY <2>3, <2>4, <2>5
  <2>7. QED
    BY <2>2, <2>6
<1>5. Nat \subseteq T
  <2> HIDE DEF T
  <2>1. QED
    BY <1>3, <1>4, SetInduction
<1>6. j - i - 1 \in Nat /\ i + 1 + (j - i - 1) = j /\ j <= n
  BY <1>1
<1>7. QED
  BY <1>5, <1>6

(***************************************************************************)
(* Structures and their descriptions.                                      *)
(***************************************************************************)

AnyMember == [type : MemberTypes \cup {kStructure}, str : Nat, arr : Nat]

\* The structures as the parser leaves them, whatever it has read so far.
SourceInv ==
  /\ structs \in Seq(Seq(AnyMember)) /\ names \in Seq(Seq(Nat)) /\ Len(names) = Len(structs)
  /\ Len(structs) <= MaxStructs
  /\ \A s \in 1..Len(structs) :
        /\ Len(structs[s]) > 0 /\ Len(names[s]) = Len(structs[s])
        /\ \A i \in 1..Len(structs[s]) : structs[s][i] \in MembersOver(s - 1) /\ names[s][i] \in 1..i

\* What is known of the layout of a structure of n elements.
TypeGood(t, n) ==
  /\ t.size \in Nat /\ t.size > 0 /\ t.align \in Nat /\ t.align > 0
  /\ t.offsets \in [1..n -> Nat]

\* The layout and the description of these members, over these structures.
SizeIn(ts, m)  == IF m.type = kStructure THEN ts[m.str].size  ELSE SizeOf[m.type]
AlignIn(ts, m) == IF m.type = kStructure THEN ts[m.str].align ELSE AlignOf[m.type]
PrefIn(ts, m)  == IF m.type = kStructure THEN PrefAlignment(ts[m.str]) ELSE AlignOf[m.type]

SizesIn(ts, ms)  == [i \in DOMAIN ms |-> SizeIn(ts, ms[i])]
AlignsIn(ts, ms) == [i \in DOMAIN ms |-> AlignIn(ts, ms[i])]
ArrsOf(ms)       == [i \in DOMAIN ms |-> ms[i].arr]
ElemsIn(ts, ms)  == Elems(SizesIn(ts, ms), ArrsOf(ms))

TypeIn(ts, ms) == Lay(ElemsIn(ts, ms), AlignsIn(ts, ms))

DescIn(ts, ms, called, type) ==
    [members |-> [i \in 1..Len(ms) |->
        [name |-> called[i], type |-> ms[i].type, arraySize |-> ms[i].arr, hStruct |-> ms[i].str,
         size |-> SizeIn(ts, ms[i]), alignment |-> PrefIn(ts, ms[i]),
         offset |-> MemberOffset(SizesIn(ts, ms), i)]],
     size |-> type.size, alignment |-> PrefAlignment(type)]

\* Each structure is laid out and described once, and stays as it was described.
Described(s) ==
  /\ TypeGood(types[s], Len(Elements(s)))
  /\ types[s] = TypeIn(types, Elements(s))
  /\ descs[s] = DescIn(types, Elements(s), names[s], types[s])

DescsInv ==
  /\ IsSeq(types) /\ IsSeq(descs)
  /\ Len(types) <= Len(structs) /\ Len(descs) = Len(types)
  /\ \A s \in 1..Len(types) : Described(s)

\* The i-th element is the last one that has this name.
LastNamed(s, i, name) ==
  /\ i \in 1..Len(Elements(s)) /\ names[s][i] = name
  /\ \A j \in 1..Len(Elements(s)) : names[s][j] = name => j <= i

\* What the host has set is a member, from where it was told, and no more of it.
MemoryInv ==
  /\ memory \in 0..Len(descs) /\ (memory # 0 => Compiled)
  /\ write.member \in 0..MaxMembers /\ write.first \in Nat /\ write.bytes \in Nat
  /\ write # NoWrite =>
        /\ memory # 0
        /\ \E i \in 1..Len(descs[memory].members) :
              /\ LastNamed(memory, i, write.member)
              /\ write.first = descs[memory].members[i].offset
              /\ write.bytes <= descs[memory].members[i].size

LayoutInv == SourceInv /\ DescsInv /\ MemoryInv

LEMMA AppendParts ==
  ASSUME NEW s, IsSeq(s), NEW x
  PROVE  /\ IsSeq(Append(s, x)) /\ Len(Append(s, x)) = Len(s) + 1
         /\ \A i \in 1..Len(s) : Append(s, x)[i] = s[i]
         /\ Append(s, x)[Len(s) + 1] = x
<1> DEFINE S == {s[k] : k \in DOMAIN s} \cup {x}
<1>1. s \in Seq(S) /\ x \in S
  BY DEF IsSeq
<1> HIDE DEF S
<1>2. Append(s, x) \in Seq(S)
  BY <1>1
<1>3. IsSeq(Append(s, x))
  BY <1>2, SeqOfAny
<1>4. QED
  BY <1>1, <1>3

LEMMA NoStructureIsSimple == kStructure \notin MemberTypes /\ kVoid \notin MemberTypes
BY LayoutAssumption DEF ValueTypes, FloatTypes, IntegerTypes, BooleanTypes, kStructure, kVoid, kExternType,
   kFloat, kFloat2, kFloat3, kFloat4, kFloat8, kInt, kInt2, kInt3, kInt4, kInt8,
   kBoolean, kBoolean2, kBoolean3, kBoolean4, kBoolean8

LEMMA MembersAre ==
  ASSUME NEW k \in Nat, NEW m \in MembersOver(k)
  PROVE  /\ m \in AnyMember
         /\ m.type = kStructure => m.str \in 1..k
         /\ m.type # kStructure => m.type \in MemberTypes /\ m.str = 0
<1>1. ArraySizes \subseteq Nat
  BY LayoutAssumption
<1>2. CASE m \in {Member(t, 0, a) : t \in MemberTypes, a \in ArraySizes}
  <2>1. PICK t \in MemberTypes, a \in ArraySizes : m = [type |-> t, str |-> 0, arr |-> a]
    BY <1>2 DEF Member
  <2>2. QED
    BY <1>1, <2>1, NoStructureIsSimple DEF AnyMember
<1>3. CASE m \in {Member(kStructure, s, a) : s \in 1..k, a \in ArraySizes}
  <2>1. PICK s \in 1..k, a \in ArraySizes : m = [type |-> kStructure, str |-> s, arr |-> a]
    BY <1>3 DEF Member
  <2>2. QED
    BY <1>1, <2>1 DEF AnyMember
<1>4. QED
  BY <1>2, <1>3 DEF MembersOver

LEMMA CountIs ==
  ASSUME NEW f \in Seq(Nat)
  PROVE  /\ Cardinality(Range(f)) \in 0..Len(f)
         /\ Len(f) > 0 => Cardinality(Range(f)) > 0
         /\ Cardinality(Range(f)) = Len(f) <=> IsInjective(f)
<1> DEFINE n == Len(f)
           T == Range(f)
<1>1. n \in Nat /\ DOMAIN f = 1..n
  OBVIOUS
<1>2. f \in [1..n -> Nat]
  OBVIOUS
<1>3. f \in Surjection(1..n, T)
  BY <1>2, Fun_RangeProperties
<1>4. IsFiniteSet(1..n) /\ Cardinality(1..n) = n
  <2>1. 1 \in Int /\ n \in Int /\ (1 > n => n = 0) /\ n - 1 + 1 = n
    BY <1>1
  <2> HIDE DEF n
  <2>2. QED
    BY <2>1, FS_Interval
<1>5. f \in Injection(1..n, T) <=> IsInjective(f)
  <2>1. f \in [1..n -> T]
    BY <1>3, Fun_SurjectionProperties
  <2>2. QED
    BY <1>1, <2>1 DEF Injection, IsInjective
<1> HIDE DEF n, T
<1>6. IsFiniteSet(T) /\ Cardinality(T) <= n /\ (Cardinality(T) = n <=> f \in Injection(1..n, T))
  BY <1>3, <1>4, FS_Surjection
<1>7. Cardinality(T) \in Nat
  BY <1>6, FS_CardinalityType
<1>8. n > 0 => Cardinality(T) # 0
  <2>1. n > 0 => f[1] \in T
    BY <1>1 DEF T, Range
  <2>2. n > 0 => T # {}
    BY <2>1
  <2>3. QED
    BY <1>6, <2>2, FS_EmptySet
<1>9. QED
  BY <1>1, <1>5, <1>6, <1>7, <1>8 DEF n, T

LEMMA ElementsAre ==
  ASSUME SourceInv, NEW s \in 1..Len(structs)
  PROVE  /\ Elements(s) \in Seq(AnyMember)
         /\ Len(Elements(s)) \in Nat /\ Len(Elements(s)) > 0
         /\ Len(Elements(s)) <= Len(structs[s]) /\ Len(Elements(s)) = GetElementCount(s)
         /\ \A i \in 1..Len(Elements(s)) :
               /\ Elements(s)[i] = structs[s][i] /\ Elements(s)[i] \in MembersOver(s - 1)
               /\ names[s][i] \in Nat
<1>1. structs[s] \in Seq(AnyMember) /\ names[s] \in Seq(Nat) /\ Len(names[s]) = Len(structs[s])
      /\ Len(structs[s]) > 0
  BY DEF SourceInv
<1> DEFINE c == GetElementCount(s)
<1>2. c \in 0..Len(structs[s]) /\ c > 0
  BY <1>1, CountIs DEF GetElementCount
<1> HIDE DEF c
<1>3. /\ SubSeq(structs[s], 1, c) \in Seq(AnyMember) /\ Len(SubSeq(structs[s], 1, c)) = c
      /\ \A i \in 1..c : SubSeq(structs[s], 1, c)[i] = structs[s][i]
  BY <1>1, <1>2
<1>4. Elements(s) = SubSeq(structs[s], 1, c)
  BY DEF Elements, c
<1>5. \A i \in 1..c : structs[s][i] \in MembersOver(s - 1) /\ names[s][i] \in Nat
  <2>1. \A i \in 1..c : i \in 1..Len(structs[s])
    BY <1>1, <1>2
  <2>2. QED
    BY <1>1, <2>1 DEF SourceInv
<1>6. QED
  BY <1>2, <1>3, <1>4, <1>5 DEF c

LEMMA OperatorsAre ==
  ASSUME NEW ms, NEW called, NEW type
  PROVE  /\ NewStructType(ms) = TypeIn(types, ms)
         /\ ConvertToDescription(ms, called, type) = DescIn(types, ms, called, type)
<1>1. \A m : /\ ElemSize(m) = SizeIn(types, m) /\ ElemAlign(m) = AlignIn(types, m)
             /\ ElemPrefAlign(m) = PrefIn(types, m)
  BY DEF ElemSize, ElemAlign, ElemPrefAlign, SizeIn, AlignIn, PrefIn
<1>2. [i \in DOMAIN ms |-> ElemSize(ms[i])] = SizesIn(types, ms)
  BY <1>1 DEF SizesIn
<1>3. [i \in DOMAIN ms |-> ElemAlign(ms[i])] = AlignsIn(types, ms)
  BY <1>1 DEF AlignsIn
<1>4. [i \in DOMAIN ms |-> ElemSize(ms[i]) * (IF ms[i].arr > 0 THEN ms[i].arr ELSE 1)] = ElemsIn(types, ms)
  BY <1>1 DEF ElemsIn, Elems, SizesIn, ArrsOf
<1>5. NewStructType(ms) = TypeIn(types, ms)
  BY <1>3, <1>4 DEF NewStructType, TypeIn
<1>6. ConvertToDescription(ms, called, type) = DescIn(types, ms, called, type)
  BY <1>1, <1>2 DEF ConvertToDescription, DescIn
<1>7. QED
  BY <1>5, <1>6

\* Members made of complete structures.
MadeOver(ms, k, ts) ==
  /\ k \in Nat /\ ms \in Seq(AnyMember) /\ Len(ms) > 0
  /\ \A i \in 1..Len(ms) : ms[i] \in MembersOver(k)
  /\ \A s \in 1..k : /\ ts[s].size \in Nat /\ ts[s].size > 0
                     /\ ts[s].align \in Nat /\ ts[s].align > 0

LEMMA MemberSizes ==
  ASSUME NEW ms, NEW k, NEW ts, MadeOver(ms, k, ts), NEW i \in 1..Len(ms)
  PROVE  /\ SizeIn(ts, ms[i]) \in Nat /\ SizeIn(ts, ms[i]) > 0
         /\ AlignIn(ts, ms[i]) \in Nat /\ AlignIn(ts, ms[i]) > 0
         /\ ms[i].arr \in Nat
<1> DEFINE m == ms[i]
<1>1. k \in Nat /\ m \in MembersOver(k)
  BY DEF MadeOver
<1> HIDE DEF m
<1>2. /\ m \in AnyMember
      /\ m.type = kStructure => m.str \in 1..k
      /\ m.type # kStructure => m.type \in MemberTypes
  BY <1>1, MembersAre
<1>3. CASE m.type = kStructure
  <2>1. m.str \in 1..k
    BY <1>2, <1>3
  <2>2. /\ ts[m.str].size \in Nat /\ ts[m.str].size > 0
        /\ ts[m.str].align \in Nat /\ ts[m.str].align > 0
    BY <2>1 DEF MadeOver
  <2>3. QED
    BY <1>2, <1>3, <2>2 DEF SizeIn, AlignIn, AnyMember, m
<1>4. CASE m.type # kStructure
  <2>1. SizeOf[m.type] \in Nat \ {0} /\ AlignOf[m.type] \in Nat \ {0}
    BY <1>2, <1>4, LayoutAssumption
  <2>2. QED
    BY <1>2, <1>4, <2>1 DEF SizeIn, AlignIn, AnyMember, m
<1>5. QED
  BY <1>3, <1>4

LEMMA SizesAre ==
  ASSUME NEW ms, NEW k, NEW ts, MadeOver(ms, k, ts)
  PROVE  /\ SizesIn(ts, ms) \in Seq(Nat) /\ Len(SizesIn(ts, ms)) = Len(ms)
         /\ Len(ArrsOf(ms)) = Len(ms) /\ Len(ElemsIn(ts, ms)) = Len(ms)
         /\ \A i \in 1..Len(ms) : /\ SizesIn(ts, ms)[i] = SizeIn(ts, ms[i]) /\ SizeIn(ts, ms[i]) > 0
                                  /\ AlignsIn(ts, ms)[i] = AlignIn(ts, ms[i])
                                  /\ ArrsOf(ms)[i] = ms[i].arr /\ ms[i].arr \in Nat
                                  /\ ElemsIn(ts, ms)[i] \in Nat
                                  /\ SizeIn(ts, ms[i]) <= ElemsIn(ts, ms)[i]
         /\ Lists(ElemsIn(ts, ms), AlignsIn(ts, ms))
<1> DEFINE n == Len(ms)
<1>1. n \in Nat /\ n > 0 /\ DOMAIN ms = 1..n
  BY DEF MadeOver
<1> HIDE DEF n
<1>2. \A i \in 1..n : /\ SizeIn(ts, ms[i]) \in Nat /\ SizeIn(ts, ms[i]) > 0
                      /\ AlignIn(ts, ms[i]) \in Nat /\ AlignIn(ts, ms[i]) > 0
                      /\ ms[i].arr \in Nat
  BY MemberSizes DEF n
<1>3. /\ SizesIn(ts, ms) = [i \in 1..n |-> SizeIn(ts, ms[i])]
      /\ AlignsIn(ts, ms) = [i \in 1..n |-> AlignIn(ts, ms[i])]
      /\ ArrsOf(ms) = [i \in 1..n |-> ms[i].arr]
  BY <1>1 DEF SizesIn, AlignsIn, ArrsOf
<1>4. /\ SizesIn(ts, ms) \in Seq(Nat) /\ Len(SizesIn(ts, ms)) = n /\ Len(ArrsOf(ms)) = n
      /\ AlignsIn(ts, ms) \in Seq(Nat \ {0}) /\ Len(AlignsIn(ts, ms)) = n
  BY <1>1, <1>2, <1>3
<1> DEFINE e == ElemsIn(ts, ms)
           sz == SizesIn(ts, ms)
           ar == ArrsOf(ms)
<1>5. e = [i \in 1..n |-> sz[i] * (IF ar[i] > 0 THEN ar[i] ELSE 1)]
  BY <1>3 DEF ElemsIn, Elems
<1>6. \A i \in 1..n : e[i] \in Nat /\ sz[i] <= e[i]
  <2> TAKE i \in 1..n
  <2>1. sz[i] \in Nat /\ sz[i] > 0 /\ ar[i] \in Nat
    BY <1>2, <1>3
  <2>2. e[i] = sz[i] * (IF ar[i] > 0 THEN ar[i] ELSE 1)
    BY <1>5
  <2> HIDE DEF e, sz, ar
  <2>3. QED
    BY <2>1, <2>2, ElemsAre
<1>7. e \in Seq(Nat) /\ Len(e) = n
  BY <1>1, <1>5, <1>6
<1>8. Lists(e, AlignsIn(ts, ms))
  BY <1>1, <1>4, <1>7 DEF Lists
<1>9. \A i \in 1..n : sz[i] = SizeIn(ts, ms[i]) /\ ar[i] = ms[i].arr /\ AlignsIn(ts, ms)[i] = AlignIn(ts, ms[i])
  BY <1>3
<1> HIDE DEF e, sz, ar
<1>10. QED
  BY <1>2, <1>4, <1>6, <1>7, <1>8, <1>9 DEF n, e, sz, ar

LEMMA TypeIs ==
  ASSUME NEW ms, NEW k, NEW ts, MadeOver(ms, k, ts)
  PROVE  LET t == TypeIn(ts, ms)
             n == Len(ms)
         IN  /\ TypeGood(t, n)
             /\ AreOffsets(t.offsets, ElemsIn(ts, ms), AlignsIn(ts, ms))
             /\ t.offsets[n] + ElemsIn(ts, ms)[n] <= t.size
             /\ t.size = RoundUp(t.offsets[n] + ElemsIn(ts, ms)[n], t.align)
<1> DEFINE e == ElemsIn(ts, ms)
           a == AlignsIn(ts, ms)
           t == Lay(e, a)
           n == Len(ms)
<1>1. Lists(e, a) /\ Len(e) = n
  BY SizesAre
<1>2. n \in Nat /\ n > 0
  BY DEF MadeOver
<1>3. n \in 1..n
  BY <1>2
<1>4. SizeIn(ts, ms[n]) > 0 /\ SizeIn(ts, ms[n]) <= e[n] /\ e[n] \in Nat /\ SizeIn(ts, ms[n]) \in Nat
  <2>1. SizeIn(ts, ms[n]) \in Nat
    BY <1>3, MemberSizes
  <2>2. QED
    BY <1>3, <2>1, SizesAre
<1> HIDE DEF e, a, n
<1>5. AreOffsets(t.offsets, e, a)
  BY <1>1, LayOffsets
<1>6. /\ t.align \in Nat \ {0} /\ t.size \in Nat /\ t.offsets[n] + e[n] <= t.size
      /\ t.size = RoundUp(t.offsets[n] + e[n], t.align)
  BY <1>1, LayIs
<1>7. t.offsets \in [1..n -> Nat]
  BY <1>1, <1>5 DEF AreOffsets
<1> HIDE DEF t
<1>8. t.offsets[n] \in Nat
  BY <1>3, <1>7
<1>9. t.size > 0
  BY <1>4, <1>6, <1>8
<1>10. TypeGood(t, n)
  BY <1>6, <1>7, <1>9 DEF TypeGood
<1>11. QED
  BY <1>5, <1>6, <1>10 DEF TypeIn, e, a, t, n

SameUpTo(k, ts, us) == \A s \in 1..k : us[s] = ts[s]

SameMade(ms, ts, us) ==
  /\ TypeIn(us, ms) = TypeIn(ts, ms)
  /\ \A called, type : DescIn(us, ms, called, type) = DescIn(ts, ms, called, type)

\* A structure stays as it is when more are generated.
LEMMA SameBelow ==
  ASSUME NEW ms, NEW k, NEW ts, NEW us, MadeOver(ms, k, ts), SameUpTo(k, ts, us)
  PROVE  SameMade(ms, ts, us)
<1> USE DEF SameUpTo, SameMade
<1>2. DOMAIN ms = 1..Len(ms) /\ k \in Nat
  BY DEF MadeOver
<1>3. \A i \in DOMAIN ms : /\ SizeIn(us, ms[i]) = SizeIn(ts, ms[i])
                           /\ AlignIn(us, ms[i]) = AlignIn(ts, ms[i])
                           /\ PrefIn(us, ms[i]) = PrefIn(ts, ms[i])
  <2> TAKE i \in DOMAIN ms
  <2>1. ms[i] \in MembersOver(k)
    BY <1>2 DEF MadeOver
  <2>2. ms[i].type = kStructure => ms[i].str \in 1..k
    BY <1>2, <2>1, MembersAre
  <2>3. QED
    BY <2>2 DEF SizeIn, AlignIn, PrefIn
<1>4. SizesIn(us, ms) = SizesIn(ts, ms) /\ AlignsIn(us, ms) = AlignsIn(ts, ms)
  BY <1>3 DEF SizesIn, AlignsIn
<1>5. QED
  BY <1>2, <1>3, <1>4 DEF TypeIn, ElemsIn, DescIn

LEMMA MadeOfComplete ==
  ASSUME SourceInv, DescsInv, NEW s \in 1..Len(structs), s <= Len(types) + 1
  PROVE  MadeOver(Elements(s), s - 1, types)
<1>1. Len(types) \in Nat
  BY SeqParts DEF DescsInv
<1>2. s - 1 \in Nat /\ \A j \in 1..(s - 1) : j \in 1..Len(types)
  BY <1>1
<1>3. \A j \in 1..(s - 1) : TypeGood(types[j], Len(Elements(j)))
  BY <1>2 DEF DescsInv, Described
<1>4. QED
  BY <1>2, <1>3, ElementsAre DEF MadeOver, TypeGood

\* What the host is told of a structure's elements.
LEMMA DescriptionIs ==
  ASSUME SourceInv, DescsInv, NEW s \in 1..Len(descs)
  PROVE  LET es == Elements(s)
             d  == descs[s]
         IN  /\ s \in 1..Len(structs) /\ s \in 1..Len(types) /\ MadeOver(es, s - 1, types)
             /\ Len(d.members) = Len(es) /\ DOMAIN d.members = 1..Len(es)
             /\ d.size = types[s].size
             /\ \A i \in 1..Len(es) :
                   /\ d.members[i].name = names[s][i] /\ d.members[i].type = es[i].type
                   /\ d.members[i].arraySize = es[i].arr /\ d.members[i].hStruct = es[i].str
                   /\ d.members[i].size = SizeIn(types, es[i]) /\ d.members[i].offset \in Nat
             /\ AreTold([i \in 1..Len(es) |-> d.members[i].offset], SizesIn(types, es))
<1> DEFINE es == Elements(s)
           d  == descs[s]
<1>1. Len(types) \in Nat /\ Len(descs) = Len(types) /\ Len(types) <= Len(structs) /\ Len(structs) \in Nat
  <2>1. IsSeq(types) /\ Len(descs) = Len(types) /\ Len(types) <= Len(structs)
    BY DEF DescsInv
  <2>2. Len(structs) \in Nat
    BY DEF SourceInv
  <2>3. QED
    BY <2>1, <2>2, SeqParts
<1>2. s \in 1..Len(structs) /\ s \in 1..Len(types) /\ s <= Len(types) + 1
  BY <1>1
<1>3. MadeOver(es, s - 1, types)
  BY <1>2, MadeOfComplete
<1>4. d = DescIn(types, es, names[s], types[s])
  BY <1>2 DEF DescsInv, Described
<1>5. Len(es) \in Nat
  BY <1>2, ElementsAre
<1>6. /\ d.size = types[s].size
      /\ d.members = [i \in 1..Len(es) |->
            [name |-> names[s][i], type |-> es[i].type, arraySize |-> es[i].arr, hStruct |-> es[i].str,
             size |-> SizeIn(types, es[i]), alignment |-> PrefIn(types, es[i]),
             offset |-> MemberOffset(SizesIn(types, es), i)]]
  BY <1>4 DEF DescIn
<1> HIDE DEF es, d
<1>7. /\ Len(d.members) = Len(es) /\ DOMAIN d.members = 1..Len(es)
      /\ \A i \in 1..Len(es) :
            /\ d.members[i].name = names[s][i] /\ d.members[i].type = es[i].type
            /\ d.members[i].arraySize = es[i].arr /\ d.members[i].hStruct = es[i].str
            /\ d.members[i].size = SizeIn(types, es[i])
            /\ d.members[i].offset = MemberOffset(SizesIn(types, es), i)
  BY <1>5, <1>6
<1>8. SizesIn(types, es) \in Seq(Nat) /\ Len(SizesIn(types, es)) = Len(es)
  BY <1>3, SizesAre
<1>9. AreTold([i \in 1..Len(es) |-> MemberOffset(SizesIn(types, es), i)], SizesIn(types, es))
  BY <1>8, MemberOffsetIs
<1>10. [i \in 1..Len(es) |-> d.members[i].offset] = [i \in 1..Len(es) |-> MemberOffset(SizesIn(types, es), i)]
  BY <1>7
<1>11. \A i \in 1..Len(es) : d.members[i].offset \in Nat
  BY <1>7, <1>8, <1>9 DEF AreTold
<1>12. QED
  BY <1>2, <1>3, <1>6, <1>7, <1>9, <1>10, <1>11 DEF es, d

LEMMA FoundIs ==
  ASSUME SourceInv, DescsInv, NEW h \in 1..Len(descs), NEW name, NEW x, name = <<x>>
  PROVE  \/ Find(h, name) = {} /\ \A i \in 1..Len(Elements(h)) : names[h][i] # x
         \/ \E i : /\ LastNamed(h, i, x) /\ Find(h, name) = {i}
                  /\ MemberNamed(h, name) = descs[h].members[i]
<1> DEFINE n == Len(Elements(h))
           S == {i \in 1..n : names[h][i] = x}
           C == {i \in DOMAIN descs[h].members : name = <<descs[h].members[i].name>>}
<1>1. n \in Nat
  BY DescriptionIs, ElementsAre
<1>2. DOMAIN descs[h].members = 1..n /\ \A i \in 1..n : descs[h].members[i].name = names[h][i]
  BY DescriptionIs
<1>3. C = S
  BY <1>2
<1>4. Find(h, name) = IF C = {} THEN {} ELSE {Max(C)}
  BY DEF Find
<1> HIDE DEF n, C
<1>5. CASE S = {}
  <2>1. Find(h, name) = {} /\ \A i \in 1..n : names[h][i] # x
    BY <1>3, <1>4, <1>5
  <2>2. QED
    BY <2>1 DEF n
<1>6. CASE S # {}
  <2>1. S \in SUBSET Nat /\ \A y \in S : y <= n
    BY <1>1
  <2> HIDE DEF S
  <2>2. Max(S) \in S /\ \A y \in S : y <= Max(S)
    BY <1>1, <1>6, <2>1, Greatest
  <2>3. Find(h, name) = {Max(S)}
    BY <1>3, <1>4, <1>6
  <2>4. MemberNamed(h, name) = descs[h].members[Max(S)]
    BY <2>3 DEF MemberNamed
  <2>5. LastNamed(h, Max(S), x)
    BY <2>2 DEF LastNamed, S, n
  <2>6. QED
    BY <2>3, <2>4, <2>5
<1>7. QED
  BY <1>5, <1>6

LEMMA FoundOnlyAlone ==
  ASSUME NEW h, NEW name, Len(name) # 1
  PROVE  Find(h, name) = {}
<1>1. \A x : name # <<x>>
  OBVIOUS
<1>2. {i \in DOMAIN descs[h].members : name = <<descs[h].members[i].name>>} = {}
  BY <1>1
<1>3. QED
  BY <1>2 DEF Find

LEMMA LayoutStarts == LayoutInit => LayoutInv
<1> SUFFICES ASSUME LayoutInit PROVE LayoutInv
  OBVIOUS
<1> USE DEF LayoutInit
<1>1. SourceInv
  BY LayoutAssumption DEF SourceInv
<1>2. DescsInv
  BY EmptyIsSeq DEF DescsInv
<1>3. MemoryInv
  BY LayoutAssumption DEF MemoryInv, NoWrite
<1>4. QED
  BY <1>1, <1>2, <1>3 DEF LayoutInv

\* Nothing is allocated, and nothing set, before all structures are generated.
LEMMA NothingYet ==
  ASSUME LayoutInv, ~Compiled
  PROVE  memory = 0 /\ write = NoWrite
BY DEF LayoutInv, MemoryInv

LEMMA MembersStep ==
  ASSUME LayoutInv, AddVarDefExpression
  PROVE  LayoutInv'
<1>1. types = <<>> /\ ~Compiled /\ memory = 0 /\ write = NoWrite
  BY NothingYet DEF AddVarDefExpression, Compiled
<1>2. types' = types /\ descs' = descs /\ memory' = memory /\ write' = write
  BY DEF AddVarDefExpression
<1> DEFINE n == Len(structs)
<1>3. /\ structs \in Seq(Seq(AnyMember)) /\ names \in Seq(Seq(Nat)) /\ Len(names) = n /\ n \in Nat
      /\ n <= MaxStructs
      /\ \A s \in 1..n : /\ Len(structs[s]) > 0 /\ Len(names[s]) = Len(structs[s])
                         /\ structs[s] \in Seq(AnyMember) /\ names[s] \in Seq(Nat)
                         /\ \A i \in 1..Len(structs[s]) : /\ structs[s][i] \in MembersOver(s - 1)
                                                         /\ names[s][i] \in 1..i
  BY DEF LayoutInv, SourceInv
<1>4. SourceInv'
  <2>1. CASE /\ Len(structs) < MaxStructs
             /\ \E m \in MembersOver(Len(structs)) : structs' = Append(structs, <<m>>)
             /\ names' = Append(names, <<1>>)
    <3>1. PICK m \in MembersOver(n) : structs' = Append(structs, <<m>>)
      BY <2>1
    <3>2. m \in AnyMember
      BY <1>3, MembersAre
    <3>3. <<m>> \in Seq(AnyMember) /\ <<1>> \in Seq(Nat) /\ Len(<<m>>) = 1 /\ Len(<<1>>) = 1
      BY <3>2
    <3>4. /\ structs' \in Seq(Seq(AnyMember)) /\ Len(structs') = n + 1
          /\ structs'[n + 1] = <<m>> /\ \A s \in 1..n : structs'[s] = structs[s]
      BY <1>3, <3>1, <3>3
    <3>5. /\ names' \in Seq(Seq(Nat)) /\ Len(names') = n + 1
          /\ names'[n + 1] = <<1>> /\ \A s \in 1..n : names'[s] = names[s]
      BY <1>3, <2>1, <3>3
    <3>6. n + 1 <= MaxStructs
      BY <1>3, <2>1, LayoutAssumption
    <3> HIDE DEF n
    <3>7. ASSUME NEW s \in 1..(n + 1)
          PROVE  /\ Len(structs'[s]) > 0 /\ Len(names'[s]) = Len(structs'[s])
                 /\ \A i \in 1..Len(structs'[s]) : /\ structs'[s][i] \in MembersOver(s - 1)
                                                 /\ names'[s][i] \in 1..i
      <4>1. CASE s = n + 1
        <5>1. structs'[s] = <<m>> /\ names'[s] = <<1>> /\ s - 1 = n
          BY <1>3, <3>4, <3>5, <4>1
        <5>2. \A i \in 1..1 : <<m>>[i] \in MembersOver(n) /\ <<1>>[i] \in 1..i
          OBVIOUS
        <5>3. QED
          BY <3>3, <5>1, <5>2
      <4>2. CASE s # n + 1
        <5>1. s \in 1..n
          BY <1>3, <4>2
        <5>2. QED
          BY <1>3, <3>4, <3>5, <5>1
      <4>3. QED
        BY <4>1, <4>2
    <3>8. QED
      BY <3>4, <3>5, <3>6, <3>7 DEF SourceInv
  <2>2. CASE /\ structs # <<>>
             /\ \E m \in MembersOfLast : \E k \in NamesFor(structs[Len(structs)], m) :
                   /\ structs' = [structs EXCEPT ![Len(structs)] = Append(@, m)]
                   /\ names'   = [names   EXCEPT ![Len(structs)] = Append(@, k)]
    <3>1. n \in 1..n
      BY <1>3, <2>2
    <3>2. PICK m \in MembersOver(n - 1) : \E k \in NamesFor(structs[n], m) :
                   /\ structs' = [structs EXCEPT ![n] = Append(@, m)]
                   /\ names'   = [names   EXCEPT ![n] = Append(@, k)]
      BY <2>2 DEF MembersOfLast
    <3>3. PICK k \in NamesFor(structs[n], m) :
                   /\ structs' = [structs EXCEPT ![n] = Append(@, m)]
                   /\ names'   = [names   EXCEPT ![n] = Append(@, k)]
      BY <3>2
    <3>4. m \in AnyMember
      BY <3>1, MembersAre
    <3> DEFINE ms == structs[n]
               ns == names[n]
    <3>5. /\ ms \in Seq(AnyMember) /\ ns \in Seq(Nat) /\ Len(ns) = Len(ms) /\ Len(ms) \in Nat
          /\ \A i \in 1..Len(ms) : ms[i] \in MembersOver(n - 1) /\ ns[i] \in 1..i
      BY <1>3, <3>1
    <3>6. k \in 1..(Len(ms) + 1)
      BY <3>5 DEF NamesFor
    <3>7. /\ Append(ms, m) \in Seq(AnyMember) /\ Len(Append(ms, m)) = Len(ms) + 1
          /\ Append(ms, m)[Len(ms) + 1] = m /\ \A i \in 1..Len(ms) : Append(ms, m)[i] = ms[i]
      BY <3>4, <3>5
    <3>8. /\ Append(ns, k) \in Seq(Nat) /\ Len(Append(ns, k)) = Len(ms) + 1
          /\ Append(ns, k)[Len(ms) + 1] = k /\ \A i \in 1..Len(ms) : Append(ns, k)[i] = ns[i]
      BY <3>5, <3>6
    <3>9. /\ structs' \in Seq(Seq(AnyMember)) /\ Len(structs') = n
          /\ structs'[n] = Append(ms, m) /\ \A s \in 1..n : s # n => structs'[s] = structs[s]
      BY <1>3, <3>1, <3>3, <3>7
    <3>10. /\ names' \in Seq(Seq(Nat)) /\ Len(names') = n
           /\ names'[n] = Append(ns, k) /\ \A s \in 1..n : s # n => names'[s] = names[s]
      BY <1>3, <3>1, <3>3, <3>8
    <3> HIDE DEF n, ms, ns
    <3>11. ASSUME NEW s \in 1..n
           PROVE  /\ Len(structs'[s]) > 0 /\ Len(names'[s]) = Len(structs'[s])
                  /\ \A i \in 1..Len(structs'[s]) : /\ structs'[s][i] \in MembersOver(s - 1)
                                                  /\ names'[s][i] \in 1..i
      <4>1. CASE s = n
        <5>1. ASSUME NEW i \in 1..(Len(ms) + 1)
              PROVE  structs'[n][i] \in MembersOver(n - 1) /\ names'[n][i] \in 1..i
          <6>1. CASE i = Len(ms) + 1
            BY <3>6, <3>7, <3>8, <3>9, <3>10, <6>1
          <6>2. CASE i # Len(ms) + 1
            <7>1. i \in 1..Len(ms)
              BY <3>5, <6>2
            <7>2. QED
              BY <3>5, <3>7, <3>8, <3>9, <3>10, <7>1
          <6>3. QED
            BY <6>1, <6>2
        <5>2. Len(structs'[n]) = Len(ms) + 1 /\ Len(names'[n]) = Len(ms) + 1 /\ Len(ms) + 1 > 0
          BY <3>5, <3>7, <3>8, <3>9, <3>10
        <5>3. QED
          BY <4>1, <5>1, <5>2
      <4>2. CASE s # n
        BY <1>3, <3>9, <3>10, <4>2
      <4>3. QED
        BY <4>1, <4>2
    <3>12. QED
      BY <1>3, <3>9, <3>10, <3>11 DEF SourceInv
  <2>3. QED
    BY <2>1, <2>2 DEF AddVarDefExpression
<1>5. DescsInv'
  <2>1. Len(types) = 0 /\ IsSeq(types) /\ IsSeq(descs) /\ Len(descs) = Len(types)
    BY <1>1 DEF LayoutInv, DescsInv
  <2>2. Len(structs') \in Nat
    BY <1>4 DEF SourceInv
  <2>3. \A s : s \notin 1..Len(types')
    BY <1>2, <2>1
  <2>4. IsSeq(types') /\ IsSeq(descs') /\ Len(types') <= Len(structs') /\ Len(descs') = Len(types')
    BY <1>2, <2>1, <2>2
  <2>5. IsSeq(types)' /\ IsSeq(descs)'
    BY <1>2, <2>1 DEF IsSeq
  <2>6. QED
    BY <2>3, <2>4, <2>5 DEF DescsInv
<1>6. MemoryInv'
  <2>1. Len(descs) = 0
    BY <1>1 DEF LayoutInv, DescsInv
  <2>2. QED
    BY <1>1, <1>2, <2>1, LayoutAssumption DEF MemoryInv, NoWrite
<1>7. QED
  BY <1>4, <1>5, <1>6 DEF LayoutInv

LEMMA SameSource ==
  ASSUME structs' = structs, names' = names
  PROVE  /\ SourceInv => SourceInv'
         /\ AllElements' = AllElements
         /\ \A s : Elements(s)' = Elements(s)
BY DEF SourceInv, AllElements, Elements, GetElementCount

LEMMA StructStep ==
  ASSUME LayoutInv, GenerateStruct
  PROVE  LayoutInv'
<1> DEFINE s == Len(types) + 1
           t == TypeIn(types, Elements(s))
           d == DescIn(types, Elements(s), names[s], t)
<1>1. SourceInv /\ DescsInv
  BY DEF LayoutInv
<1>2. /\ IsSeq(types) /\ IsSeq(descs) /\ Len(types) \in Nat /\ Len(structs) \in Nat
      /\ Len(descs) = Len(types) /\ Len(types) < Len(structs)
  <2>1. IsSeq(types) /\ IsSeq(descs) /\ Len(descs) = Len(types) /\ Len(structs) \in Nat
    BY <1>1 DEF DescsInv, SourceInv
  <2>2. QED
    BY <2>1, SeqParts DEF GenerateStruct
<1>3. types' = Append(types, t) /\ descs' = Append(descs, d)
  BY OperatorsAre DEF GenerateStruct
<1>4. structs' = structs /\ names' = names /\ memory' = memory /\ write' = write
  BY DEF GenerateStruct
<1>5. memory = 0 /\ write = NoWrite
  BY <1>2, NothingYet DEF Compiled
<1>6. SourceInv' /\ \A j : Elements(j)' = Elements(j)
  BY <1>1, <1>4, SameSource
<1> HIDE DEF t, d
<1>7. /\ IsSeq(Append(types, t)) /\ Len(types') = s /\ types'[s] = t
      /\ \A j \in 1..Len(types) : types'[j] = types[j]
  BY <1>2, <1>3, AppendParts
<1>8. /\ IsSeq(Append(descs, d)) /\ Len(descs') = s /\ descs'[s] = d
      /\ \A j \in 1..Len(types) : descs'[j] = descs[j]
  BY <1>2, <1>3, AppendParts
<1>9. ASSUME NEW j \in 1..s
      PROVE  /\ TypeGood(types'[j], Len(Elements(j)))
             /\ types'[j] = TypeIn(types', Elements(j))
             /\ descs'[j] = DescIn(types', Elements(j), names[j], types'[j])
  <2>1. j \in 1..Len(structs) /\ j <= Len(types) + 1
    BY <1>2
  <2>2. MadeOver(Elements(j), j - 1, types)
    BY <1>1, <2>1, MadeOfComplete
  <2>3. \A k \in 1..(j - 1) : types'[k] = types[k]
    BY <1>2, <1>7
  <2>4. /\ TypeIn(types', Elements(j)) = TypeIn(types, Elements(j))
        /\ \A called, type : DescIn(types', Elements(j), called, type) = DescIn(types, Elements(j), called, type)
    <3> DEFINE es == Elements(j)
               us == types'
               k  == j - 1
    <3>1. MadeOver(es, k, types) /\ SameUpTo(k, types, us)
      BY <2>2, <2>3 DEF SameUpTo
    <3> HIDE DEF es, us, k
    <3>2. SameMade(es, types, us)
      BY <3>1, SameBelow
    <3>3. QED
      BY <3>2 DEF es, us, SameMade
  <2>5. CASE j = s
    <3>1. types'[j] = TypeIn(types, Elements(j)) /\ descs'[j] = DescIn(types, Elements(j), names[j], types'[j])
      BY <1>7, <1>8, <2>5 DEF t, d
    <3>2. TypeGood(TypeIn(types, Elements(j)), Len(Elements(j)))
      BY <2>2, TypeIs
    <3>3. QED
      BY <2>4, <3>1, <3>2
  <2>6. CASE j # s
    <3>1. j \in 1..Len(types)
      BY <1>2, <2>6
    <3>2. Described(j)
      BY <1>1, <3>1 DEF DescsInv
    <3>3. types'[j] = types[j] /\ descs'[j] = descs[j]
      BY <1>7, <1>8, <3>1
    <3>4. QED
      BY <2>4, <3>2, <3>3 DEF Described
  <2>7. QED
    BY <2>5, <2>6
<1>10. DescsInv'
  <2>1. \A j \in 1..s : Described(j)'
    BY <1>4, <1>6, <1>9 DEF Described
  <2>2. IsSeq(types') /\ IsSeq(descs')
    BY <1>3, <1>7, <1>8
  <2>3. IsSeq(types)' /\ IsSeq(descs)'
    BY <2>2 DEF IsSeq
  <2>4. Len(types') <= Len(structs') /\ Len(descs') = Len(types')
    BY <1>2, <1>4, <1>7, <1>8
  <2>5. QED
    BY <1>7, <2>1, <2>3, <2>4 DEF DescsInv
<1>11. MemoryInv'
  <2>1. Len(descs') \in Nat
    BY <1>2, <1>8
  <2>2. QED
    BY <1>4, <1>5, <2>1, LayoutAssumption DEF MemoryInv, NoWrite
<1>12. QED
  BY <1>6, <1>10, <1>11 DEF LayoutInv

LEMMA SameLayout ==
  ASSUME structs' = structs, names' = names, types' = types, descs' = descs, SourceInv, DescsInv
  PROVE  SourceInv' /\ DescsInv' /\ (Compiled => Compiled')
<1>1. SourceInv' /\ \A s : Elements(s)' = Elements(s)
  BY SameSource
<1>2. \A s : Described(s) => Described(s)'
  BY <1>1 DEF Described
<1>3. IsSeq(types)' /\ IsSeq(descs)'
  BY DEF DescsInv, IsSeq
<1>4. DescsInv'
  BY <1>2, <1>3 DEF DescsInv
<1>5. QED
  BY <1>1, <1>4 DEF Compiled

LEMMA AllocStep ==
  ASSUME LayoutInv, KSC_AllocMemForType
  PROVE  LayoutInv'
<1>1. /\ structs' = structs /\ names' = names /\ types' = types /\ descs' = descs /\ write' = write
      /\ Compiled /\ memory = 0 /\ memory' \in DOMAIN descs
  BY DEF KSC_AllocMemForType
<1>2. SourceInv /\ DescsInv
  BY DEF LayoutInv
<1>3. SourceInv' /\ DescsInv' /\ Compiled'
  BY <1>1, <1>2, SameLayout
<1>4. memory' \in 1..Len(descs)
  BY <1>1, <1>2, SeqParts DEF DescsInv
<1>5. Len(descs) \in Nat
  BY <1>2, SeqParts DEF DescsInv
<1>6. write = NoWrite
  BY <1>1 DEF LayoutInv, MemoryInv
<1>7. memory' \in 0..Len(descs')
  BY <1>1, <1>4, <1>5
<1>8. write' = NoWrite
  BY <1>1, <1>6
<1>9. MemoryInv'
  BY <1>3, <1>7, <1>8, LayoutAssumption DEF MemoryInv, NoWrite
<1>10. QED
  BY <1>3, <1>9 DEF LayoutInv

LEMMA SetStep ==
  ASSUME LayoutInv, KSC_SetStructMemberData
  PROVE  LayoutInv'
<1>1. /\ structs' = structs /\ names' = names /\ types' = types /\ descs' = descs /\ memory' = memory
      /\ memory # 0
  BY DEF KSC_SetStructMemberData
<1>2. PICK x \in 1..MaxMembers, size \in DataSizes : \E m \in MemberAt(memory, <<x>>) :
        write' = [member |-> x, first |-> m.offset, bytes |-> BytesSet(size, m.size)]
  BY DEF KSC_SetStructMemberData
<1>0. PICK m \in MemberAt(memory, <<x>>) :
        write' = [member |-> x, first |-> m.offset, bytes |-> BytesSet(size, m.size)]
  BY <1>2
<1>3. SourceInv /\ DescsInv /\ Compiled /\ memory \in 0..Len(descs)
  BY <1>1 DEF LayoutInv, MemoryInv
<1>4. SourceInv' /\ DescsInv' /\ Compiled'
  BY <1>1, <1>3, SameLayout
<1>5. memory \in 1..Len(descs)
  <2>1. Len(descs) \in Nat
    BY <1>3, SeqParts DEF DescsInv
  <2>2. QED
    BY <1>1, <1>3, <2>1
<1>6. PICK i : LastNamed(memory, i, x) /\ m = descs[memory].members[i]
  <2>1. Find(memory, <<x>>) # {} /\ m = MemberNamed(memory, <<x>>)
    BY <1>2 DEF MemberAt
  <2>2. QED
    BY <1>3, <1>5, <2>1, FoundIs
<1>7. i \in 1..Len(Elements(memory))
  BY <1>6 DEF LastNamed
<1>8. m.offset \in Nat /\ m.size \in Nat
  <2>1. m.offset \in Nat /\ m.size = SizeIn(types, Elements(memory)[i])
    BY <1>3, <1>5, <1>6, <1>7, DescriptionIs
  <2>2. MadeOver(Elements(memory), memory - 1, types)
    BY <1>3, <1>5, DescriptionIs
  <2>3. QED
    BY <1>7, <2>1, <2>2, MemberSizes
<1>9. BytesSet(size, m.size) \in Nat /\ BytesSet(size, m.size) <= m.size
  <2>1. size \in Nat
    BY LayoutAssumption
  <2>2. QED
    BY <1>8, <2>1 DEF BytesSet
<1>10. i \in 1..Len(descs[memory].members)
  BY <1>3, <1>5, <1>7, DescriptionIs
<1>11. LastNamed(memory, i, x)'
  <2>1. Elements(memory)' = Elements(memory)
    BY <1>1 DEF Elements, GetElementCount
  <2>2. QED
    BY <1>1, <1>6, <2>1 DEF LastNamed
<1>12. /\ write'.member = x /\ write'.first = m.offset /\ write'.bytes = BytesSet(size, m.size)
  BY <1>0
<1>13. x \in 0..MaxMembers
  BY LayoutAssumption
<1>14. MemoryInv'
  <2>1. LastNamed(memory, i, write.member)'
    BY <1>11, <1>12 DEF LastNamed
  <2>2. QED
    BY <1>1, <1>3, <1>4, <1>6, <1>8, <1>9, <1>10, <1>12, <1>13, <2>1 DEF MemoryInv
<1>15. QED
  BY <1>4, <1>14 DEF LayoutInv

LEMMA LayoutStays ==
  ASSUME LayoutInv, UNCHANGED layoutVars
  PROVE  LayoutInv'
<1> USE DEF layoutVars
<1>1. SourceInv /\ DescsInv /\ MemoryInv
  BY DEF LayoutInv
<1>2. SourceInv' /\ DescsInv' /\ (Compiled => Compiled') /\ \A s : Elements(s)' = Elements(s)
  BY <1>1, SameLayout, SameSource
<1>3. MemoryInv'
  BY <1>1, <1>2 DEF MemoryInv, LastNamed
<1>4. QED
  BY <1>2, <1>3 DEF LayoutInv

LEMMA LayoutKept == LayoutInv /\ [Next]_vars => LayoutInv'
<1> SUFFICES ASSUME LayoutInv, [Next]_vars PROVE LayoutInv'
  OBVIOUS
<1>1. CASE LayoutNext
  BY <1>1, MembersStep, StructStep, AllocStep, SetStep DEF LayoutNext
<1>2. CASE UNCHANGED layoutVars
  BY <1>2, LayoutStays
<1>3. QED
  BY <1>1, <1>2 DEF Next, vars

(***************************************************************************)
(* What the layouts agree and disagree about.                              *)
(***************************************************************************)

LEMMA LayoutOf ==
  ASSUME SourceInv, DescsInv, NEW s \in 1..Len(descs)
  PROVE  LET es == Elements(s)
             o  == types[s].offsets
         IN  /\ MadeOver(es, s - 1, types) /\ Len(es) \in Nat /\ Len(es) > 0
             /\ AreOffsets(o, ElemsIn(types, es), AlignsIn(types, es))
             /\ o \in [1..Len(es) -> Nat] /\ Len(o) = Len(es)
             /\ o[Len(es)] + ElemsIn(types, es)[Len(es)] <= types[s].size
             /\ types[s].size \in Nat
<1>1. MadeOver(Elements(s), s - 1, types) /\ s \in 1..Len(types) /\ s \in 1..Len(structs)
  BY DescriptionIs
<1>2. types[s] = TypeIn(types, Elements(s)) /\ TypeGood(types[s], Len(Elements(s)))
  BY <1>1 DEF DescsInv, Described
<1>3. Len(Elements(s)) \in Nat /\ Len(Elements(s)) > 0
  BY <1>1, ElementsAre
<1> DEFINE n == Len(Elements(s))
           o == types[s].offsets
<1>4. o \in [1..n -> Nat] /\ types[s].size \in Nat
  BY <1>2 DEF TypeGood
<1>5. Len(o) = n
  <2> HIDE DEF n, o
  <2>1. n \in Nat
    BY <1>3 DEF n
  <2>2. QED
    BY <1>4, <2>1
<1>6. /\ AreOffsets(TypeIn(types, Elements(s)).offsets, ElemsIn(types, Elements(s)), AlignsIn(types, Elements(s)))
      /\ TypeIn(types, Elements(s)).offsets[n] + ElemsIn(types, Elements(s))[n] <= TypeIn(types, Elements(s)).size
  BY <1>1, TypeIs
<1> HIDE DEF n, o
<1>7. QED
  BY <1>1, <1>2, <1>3, <1>4, <1>5, <1>6 DEF n, o

\* The host's offset is exact unless there is an array or padding in front.
LEMMA TheyAreExact == LayoutInv => OffsetsExact
<1> SUFFICES ASSUME LayoutInv, NEW s \in DOMAIN descs, NEW i \in DOMAIN descs[s].members
             PROVE  LET told(j) == descs[s].members[j].offset
                    IN  /\ told(i) <= types[s].offsets[i]
                        /\ told(i) = types[s].offsets[i] <=>
                             /\ \A j \in 1..(i - 1) : structs[s][j].arr <= 1
                             /\ \A j \in 1..i : told(j) % ElemAlign(structs[s][j]) = 0
  BY DEF OffsetsExact
<1>1. SourceInv /\ DescsInv
  BY DEF LayoutInv
<1>2. s \in 1..Len(descs)
  BY <1>1, SeqParts DEF DescsInv
<1> DEFINE es    == Elements(s)
           n     == Len(es)
           told  == [j \in 1..n |-> descs[s].members[j].offset]
           sizes == SizesIn(types, es)
           arrs  == ArrsOf(es)
           align == AlignsIn(types, es)
           o     == types[s].offsets
<1>3. i \in 1..n /\ s \in 1..Len(structs)
  BY <1>1, <1>2, DescriptionIs
<1>4. n \in Nat /\ \A j \in 1..n : es[j] = structs[s][j]
  BY <1>1, <1>3, ElementsAre
<1>5. AreTold(told, sizes)
  BY <1>1, <1>2, DescriptionIs
<1>6. MadeOver(es, s - 1, types) /\ AreOffsets(o, Elems(sizes, arrs), align)
  BY <1>1, <1>2, LayoutOf DEF ElemsIn
<1>7. /\ sizes \in Seq(Nat) /\ Len(sizes) = n /\ \A j \in 1..n : sizes[j] > 0 /\ arrs[j] \in Nat
      /\ Lists(Elems(sizes, arrs), align)
      /\ \A j \in 1..n : arrs[j] = es[j].arr /\ align[j] = AlignIn(types, es[j])
  BY <1>6, SizesAre DEF ElemsIn
<1> HIDE DEF es, n, told, sizes, arrs, align, o
<1>8. Exact(told, o, arrs, align, i)
  BY <1>3, <1>5, <1>6, <1>7, OffsetsCompared
<1>9. \A j \in 1..i : j \in 1..n
  BY <1>3, <1>4
<1>10. \A j \in 1..i : /\ told[j] = descs[s].members[j].offset
                       /\ arrs[j] = structs[s][j].arr
                       /\ align[j] = ElemAlign(structs[s][j])
  BY <1>4, <1>7, <1>9 DEF told, AlignIn, ElemAlign
<1>11. i \in 1..i /\ \A j \in 1..(i - 1) : j \in 1..i
  BY <1>3, <1>4
<1>12. QED
  BY <1>8, <1>10, <1>11 DEF Exact, o

\* What the host sets stays in the structure, and in front of the later members.
LEMMA WritesAreInside == LayoutInv => WritesStayInside
<1> SUFFICES ASSUME LayoutInv, write # NoWrite
             PROVE  /\ write.first + write.bytes <= descs[memory].size
                    /\ \A i \in Find(memory, <<write.member>>), j \in DOMAIN descs[memory].members :
                          j > i => write.first + write.bytes <= types[memory].offsets[j]
  BY DEF WritesStayInside
<1>1. SourceInv /\ DescsInv /\ MemoryInv
  BY DEF LayoutInv
<1>2. memory \in 1..Len(descs)
  <2>1. Len(descs) \in Nat
    BY <1>1, SeqParts DEF DescsInv
  <2>2. QED
    BY <1>1, <2>1 DEF MemoryInv
<1>3. PICK k : /\ LastNamed(memory, k, write.member)
               /\ write.first = descs[memory].members[k].offset
               /\ write.bytes <= descs[memory].members[k].size
               /\ write.first \in Nat /\ write.bytes \in Nat
  BY <1>1 DEF MemoryInv
<1> DEFINE s     == memory
           es    == Elements(s)
           n     == Len(es)
           o     == types[s].offsets
           e     == ElemsIn(types, es)
           align == AlignsIn(types, es)
<1>4. k \in 1..n /\ n \in Nat /\ s \in 1..Len(descs)
  BY <1>1, <1>2, <1>3, LayoutOf DEF LastNamed
<1>5. MadeOver(es, s - 1, types) /\ AreOffsets(o, e, align) /\ o[n] + e[n] <= types[s].size
      /\ types[s].size \in Nat /\ o \in [1..n -> Nat]
  BY <1>1, <1>2, LayoutOf
<1>6. Lists(e, align) /\ Len(e) = n /\ \A j \in 1..n : e[j] \in Nat /\ SizeIn(types, es[j]) <= e[j]
  BY <1>5, SizesAre
<1>7. /\ DOMAIN descs[s].members = 1..n /\ descs[s].size = types[s].size
      /\ descs[s].members[k].size = SizeIn(types, es[k])
  BY <1>1, <1>2, <1>4, DescriptionIs
<1>8. SizeIn(types, es[k]) \in Nat
  BY <1>4, <1>5, MemberSizes
<1>9. descs[s].members[k].offset <= o[k]
  <2>1. k \in DOMAIN descs[s].members /\ s \in DOMAIN descs
    BY <1>1, <1>2, <1>4, <1>7, SeqParts DEF DescsInv
  <2>2. QED
    BY <2>1, TheyAreExact DEF OffsetsExact
<1> HIDE DEF es, n, o, e, align
<1>10. write.first + write.bytes <= o[k] + e[k] /\ o[k] \in Nat /\ e[k] \in Nat
  <2>1. o[k] \in Nat /\ e[k] \in Nat /\ SizeIn(types, es[k]) <= e[k]
    BY <1>4, <1>5, <1>6
  <2>2. write.bytes <= SizeIn(types, es[k]) /\ write.first <= o[k]
    BY <1>3, <1>7, <1>9
  <2>3. QED
    BY <1>3, <1>8, <2>1, <2>2
<1>11. \A j \in 1..n : j > k => o[k] + e[k] <= o[j]
  BY <1>4, <1>5, <1>6, OffsetsGrow
<1>12. write.first + write.bytes <= descs[s].size
  <2>1. o[k] + e[k] <= types[s].size
    <3>1. CASE k = n
      BY <1>5, <3>1
    <3>2. CASE k # n
      <4>1. n \in 1..n /\ n > k
        BY <1>4, <3>2
      <4>2. o[k] + e[k] <= o[n] /\ o[n] \in Nat /\ e[n] \in Nat
        BY <1>5, <1>6, <1>11, <4>1
      <4>3. QED
        BY <1>5, <1>10, <4>2
    <3>3. QED
      BY <3>1, <3>2
  <2>2. QED
    BY <1>3, <1>5, <1>7, <1>10, <2>1
<1>13. ASSUME NEW i \in Find(memory, <<write.member>>), NEW j \in DOMAIN descs[memory].members, j > i
       PROVE  write.first + write.bytes <= o[j]
  <2>1. PICK l : LastNamed(s, l, write.member) /\ Find(s, <<write.member>>) = {l}
    BY <1>1, <1>2, FoundIs
  <2>2. l \in 1..n /\ l <= k /\ k <= l
    BY <1>3, <2>1 DEF LastNamed, es, n
  <2>3. i = k
    BY <1>4, <2>1, <2>2
  <2>4. j \in 1..n /\ j > k
    BY <1>7, <1>13, <2>3
  <2>5. o[k] + e[k] <= o[j] /\ o[j] \in Nat
    BY <1>5, <1>11, <2>4
  <2>6. QED
    BY <1>3, <1>10, <2>5
<1>14. QED
  BY <1>12, <1>13 DEF o

\* A member found by a name of one part is that structure's, and is described so.
LEMMA MemberFound ==
  ASSUME SourceInv, DescsInv, NEW h \in 1..Len(descs), NEW name, Find(h, name) # {}
  PROVE  LET m == MemberNamed(h, name)
         IN  /\ m.hStruct \in 0..(h - 1)
             /\ m.hStruct = 0 => m.type # kStructure
<1>1. PICK x : name = <<x>>
  BY DEF Find
<1>2. PICK i : LastNamed(h, i, x) /\ MemberNamed(h, name) = descs[h].members[i]
  BY <1>1, FoundIs
<1> DEFINE e == Elements(h)[i]
<1>3. i \in 1..Len(Elements(h)) /\ h \in 1..Len(structs) /\ h - 1 \in Nat
  <2>1. i \in 1..Len(Elements(h))
    BY <1>2 DEF LastNamed
  <2>2. h \in 1..Len(structs) /\ MadeOver(Elements(h), h - 1, types)
    BY DescriptionIs
  <2>3. QED
    BY <2>1, <2>2 DEF MadeOver
<1>4. MemberNamed(h, name).hStruct = e.str /\ MemberNamed(h, name).type = e.type
  BY <1>2, <1>3, DescriptionIs
<1>5. e \in MembersOver(h - 1)
  BY <1>3, ElementsAre
<1> HIDE DEF e
<1>6. /\ e.type = kStructure => e.str \in 1..(h - 1)
      /\ e.type # kStructure => e.str = 0
  BY <1>3, <1>5, MembersAre
<1>7. QED
  BY <1>3, <1>4, <1>6

LEMMA ReachedIs ==
  ASSUME SourceInv, DescsInv, NEW h \in 1..Len(descs), NEW name, NEW n \in Nat, n > 0,
         NEW S, name \in [1..n -> S]
  PROVE  Reached(h, name) \in 0..Len(descs) /\ (n = 1 => Reached(h, name) = h)
<1> DEFINE Body(f, i) == IF i = 1 THEN h
                         ELSE IF f[i - 1] = NotFound \/ Find(f[i - 1], <<name[i - 1]>>) = {} THEN NotFound
                         ELSE MemberNamed(f[i - 1], <<name[i - 1]>>).hStruct
           D == 0..Len(descs)
           G == [i \in 1..n |-> [f \in [1..n -> D] |-> Body(f, i)]]
           g == CHOOSE f : f = [i \in 1..n |-> Body(f, i)]
<1>1. Len(name) = n /\ Len(descs) \in Nat
  BY SeqParts DEF DescsInv
<1>2. ASSUME NEW i \in 1..n, NEW f, i # 1 => f[i - 1] \in D PROVE Body(f, i) \in D
  <2>1. CASE i = 1
    BY <1>1, <2>1
  <2>2. CASE i # 1 /\ f[i - 1] # NotFound /\ Find(f[i - 1], <<name[i - 1]>>) # {}
    <3>1. f[i - 1] \in 1..Len(descs)
      BY <1>1, <1>2, <2>2 DEF NotFound
    <3>2. MemberNamed(f[i - 1], <<name[i - 1]>>).hStruct \in 0..(f[i - 1] - 1)
      BY <2>2, <3>1, MemberFound
    <3>3. QED
      BY <1>1, <2>2, <3>1, <3>2
  <2>3. CASE i # 1 /\ ~(f[i - 1] # NotFound /\ Find(f[i - 1], <<name[i - 1]>>) # {})
    BY <1>1, <2>3 DEF NotFound
  <2>4. QED
    BY <2>1, <2>2, <2>3
<1>3. ASSUME NEW i \in 1..n, NEW f, NEW k, \A j \in 1..(i - 1) : f[j] = k[j]
      PROVE  Body(f, i) = Body(k, i)
  <2>1. i # 1 => i - 1 \in 1..(i - 1)
    OBVIOUS
  <2>2. QED
    BY <1>3, <2>1
<1>4. Reached(h, name) = g[n]
  BY <1>1 DEF Reached
<1>5. \A f : Body(f, 1) = h
  OBVIOUS
<1> HIDE DEF Body, D
<1>6. \A i \in 1..n : \A f \in [1..n -> D] : G[i][f] = Body(f, i) /\ (i # 1 => f[i - 1] \in D)
  OBVIOUS
<1> HIDE DEF G, g
<1>7. LooksBack(G, n, D)
  <2>1. \A i \in 1..n : \A f \in [1..n -> D] : G[i][f] \in D
    BY <1>2, <1>6
  <2>2. \A i \in 1..n : \A f, k \in [1..n -> D] :
            (\A j \in 1..(i - 1) : f[j] = k[j]) => G[i][f] = G[i][k]
    BY <1>3, <1>6
  <2>3. QED
    BY <2>1, <2>2 DEF LooksBack
<1>8. h \in D
  BY <1>1 DEF D
<1>9. PICK f : Follows(f, G, n, D)
  BY <1>7, <1>8, Recursion
<1>10. f = [i \in 1..n |-> Body(f, i)]
  BY <1>6, <1>9 DEF Follows
<1>11. g = [i \in 1..n |-> Body(g, i)]
  BY <1>10 DEF g
<1>12. 1..n \subseteq {i \in 1..n : g[i] \in D}
  <2> DEFINE T == {i \in 1..n : g[i] \in D}
  <2>1. ASSUME NEW i \in 1..n, \A j \in 1..(i - 1) : j \in T PROVE i \in T
    <3>1. i # 1 => g[i - 1] \in D
      BY <2>1
    <3>2. Body(g, i) \in D
      BY <1>2, <3>1
    <3>3. QED
      BY <1>11, <3>2
  <2> HIDE DEF T
  <2>2. 1..n \subseteq T
    BY <2>1, StrongInduction
  <2>3. QED
    BY <2>2 DEF T
<1>13. n \in 1..n
  OBVIOUS
<1>14. n = 1 => g[n] = h
  BY <1>5, <1>11, <1>13
<1>15. QED
  BY <1>4, <1>12, <1>13, <1>14 DEF D

LEMMA PathParts ==
  ASSUME NEW name \in Paths
  PROVE  \E n \in Nat : n > 0 /\ name \in [1..n -> 1..MaxMembers] /\ Len(name) = n
<1>1. PICK n \in 1..MaxParts : name \in [1..n -> 1..MaxMembers]
  BY DEF Paths
<1>2. n \in Nat /\ n > 0
  OBVIOUS
<1>3. Len(name) = n
  BY <1>1, <1>2
<1>4. QED
  BY <1>1, <1>2, <1>3

\* By a name the functions find the last element that has it, if there is any.
LEMMA NamesReach ==
  ASSUME SourceInv, DescsInv, NEW s \in 1..Len(descs)
  PROVE  LET reached(n) == GetElementIdxByName(s, n)
             given == Range(names[s])
         IN  /\ \A n \in given : Find(s, <<n>>) = {reached(n)} <=> reached(n) <= Len(types[s].offsets)
             /\ (\A n \in given : reached(n) <= Len(types[s].offsets)) <=> IsInjective(names[s])
<1> DEFINE ns == names[s]
           c  == Len(Elements(s))
           l  == Len(ns)
           last(n) == GetElementIdxByName(s, n)
<1>1. s \in 1..Len(structs)
  BY DescriptionIs
<1>2. ns \in Seq(Nat) /\ l \in Nat /\ l = Len(structs[s]) /\ l > 0
  BY <1>1 DEF SourceInv
<1>3. c \in Nat /\ c <= l /\ c = Cardinality(Range(ns))
  BY <1>1, <1>2, ElementsAre DEF GetElementCount
<1>4. Len(types[s].offsets) = c
  BY LayoutOf
<1>5. c = l <=> IsInjective(ns)
  BY <1>2, <1>3, CountIs
<1>6. ASSUME NEW n \in Range(ns)
      PROVE  /\ last(n) \in 1..l /\ ns[last(n)] = n
             /\ \A i \in 1..l : ns[i] = n => i <= last(n)
  <2> DEFINE S == {i \in DOMAIN ns : ns[i] = n}
  <2>1. S \in SUBSET Nat /\ S # {} /\ \A x \in S : x <= l
    BY <1>2, <1>6 DEF Range
  <2>2. last(n) = Max(S)
    BY DEF GetElementIdxByName
  <2>3. \A i : i \in S <=> i \in 1..l /\ ns[i] = n
    BY <1>2
  <2> HIDE DEF S
  <2>4. Max(S) \in S /\ \A x \in S : x <= Max(S)
    BY <1>2, <2>1, Greatest
  <2>5. QED
    BY <2>2, <2>3, <2>4
<1> HIDE DEF last
<1>7. ASSUME NEW n \in Range(ns)
      PROVE  Find(s, <<n>>) = {last(n)} <=> last(n) <= c
  <2>1. CASE last(n) <= c
    <3>1. last(n) \in 1..c
      BY <1>3, <1>6, <2>1
    <3>2. PICK i : LastNamed(s, i, n) /\ Find(s, <<n>>) = {i}
      BY <1>6, <3>1, FoundIs
    <3>3. i \in 1..c /\ ns[i] = n /\ last(n) <= i
      BY <1>6, <3>1, <3>2 DEF LastNamed
    <3>4. i <= last(n) /\ last(n) \in Nat
      BY <1>2, <1>3, <1>6, <3>3
    <3>5. QED
      BY <2>1, <3>2, <3>3, <3>4
  <2>2. CASE ~(last(n) <= c)
    <3>1. SUFFICES ASSUME Find(s, <<n>>) = {last(n)} PROVE FALSE
      BY <2>2
    <3>2. PICK i : LastNamed(s, i, n) /\ Find(s, <<n>>) = {i}
      BY <3>1, FoundIs
    <3>3. last(n) = i /\ i \in 1..c
      BY <3>1, <3>2 DEF LastNamed
    <3>4. QED
      BY <1>3, <2>2, <3>3
  <2>3. QED
    BY <2>1, <2>2
<1>8. (\A n \in Range(ns) : last(n) <= c) <=> c = l
  <2>1. ASSUME \A n \in Range(ns) : last(n) <= c PROVE c = l
    <3>1. ns[l] \in Range(ns) /\ l \in 1..l
      BY <1>2 DEF Range
    <3>2. l <= last(ns[l]) /\ last(ns[l]) <= c /\ last(ns[l]) \in Nat
      BY <1>2, <1>6, <2>1, <3>1
    <3>3. QED
      BY <1>2, <1>3, <3>2
  <2>2. ASSUME c = l, NEW n \in Range(ns) PROVE last(n) <= c
    BY <1>2, <1>6, <2>2
  <2>3. QED
    BY <2>1, <2>2
<1>9. QED
  BY <1>4, <1>5, <1>7, <1>8 DEF last, ns, c, l

LEMMA TheyAgree == LayoutInv => NamesAgree
<1> SUFFICES ASSUME LayoutInv, NEW s \in DOMAIN descs
             PROVE  /\ \A n \in Paths :
                        /\ KSC_GetStructMemberPtr(s, n) # {} <=> KSC_GetStructMemberType(s, n) # {} /\ Len(n) = 1
                        /\ \A m \in KSC_GetStructMemberType(s, n) : m.type # kStructure
                        /\ Len(n) = 1 => KSC_GetStructMemberPtr(s, n) =
                                            {m.offset : m \in KSC_GetStructMemberType(s, n)}
                    /\ LET reached(n) == GetElementIdxByName(s, n)
                           given == Range(names[s])
                       IN  /\ \A n \in given : Find(s, <<n>>) = {reached(n)} <=> reached(n) <= Len(types[s].offsets)
                           /\ (\A n \in given : reached(n) <= Len(types[s].offsets)) <=> IsInjective(names[s])
  BY DEF NamesAgree
<1>1. SourceInv /\ DescsInv /\ s \in 1..Len(descs) /\ Len(descs) \in Nat
  BY SeqParts DEF LayoutInv, DescsInv
<1>2. ASSUME NEW n \in Paths
      PROVE  /\ KSC_GetStructMemberPtr(s, n) # {} <=> KSC_GetStructMemberType(s, n) # {} /\ Len(n) = 1
             /\ \A m \in KSC_GetStructMemberType(s, n) : m.type # kStructure
             /\ Len(n) = 1 => KSC_GetStructMemberPtr(s, n) = {m.offset : m \in KSC_GetStructMemberType(s, n)}
  <2>1. PICK l \in Nat : l > 0 /\ n \in [1..l -> 1..MaxMembers] /\ Len(n) = l
    BY PathParts
  <2> DEFINE at   == Reached(s, n)
             last == <<n[Len(n)]>>
  <2>2. at \in 0..Len(descs) /\ (l = 1 => at = s)
    BY <1>1, <2>1, ReachedIs
  <2>3. l = 1 => n = last
    BY <2>1
  <2> HIDE DEF at, last
  <2>4. KSC_GetStructMemberType(s, n) = IF at # NotFound /\ Find(at, last) # {} /\ MemberNamed(at, last).hStruct = 0
                                        THEN {MemberNamed(at, last)} ELSE {}
    BY DEF KSC_GetStructMemberType, at, last
  <2>5. KSC_GetStructMemberPtr(s, n) = IF Find(s, n) = {} \/ MemberNamed(s, n).hStruct # 0 \/ Len(n) # 1
                                       THEN {} ELSE {MemberNamed(s, n).offset}
    BY DEF KSC_GetStructMemberPtr, MemberAt
  <2>6. \A m \in KSC_GetStructMemberType(s, n) : m.type # kStructure
    <3>1. SUFFICES ASSUME at # NotFound, Find(at, last) # {}, MemberNamed(at, last).hStruct = 0
                   PROVE  MemberNamed(at, last).type # kStructure
      BY <2>4
    <3>2. at \in 1..Len(descs)
      BY <1>1, <2>2, <3>1 DEF NotFound
    <3>3. QED
      BY <1>1, <3>1, <3>2, MemberFound
  <2>7. CASE l = 1
    <3>1. at = s /\ n = last /\ s # NotFound /\ Len(n) = 1
      BY <1>1, <2>1, <2>2, <2>3, <2>7 DEF NotFound
    <3>2. KSC_GetStructMemberPtr(s, n) = {m.offset : m \in KSC_GetStructMemberType(s, n)}
      BY <2>4, <2>5, <3>1
    <3>3. QED
      BY <2>6, <3>1, <3>2
  <2>8. CASE l # 1
    BY <2>1, <2>5, <2>6, <2>8
  <2>9. QED
    BY <2>7, <2>8
<1>3. QED
  BY <1>1, <1>2, NamesReach

(***************************************************************************)
(* The leaves of a type, and those with even numbers.                      *)
(***************************************************************************)

LeafSet == [path : Seq(Nat), type : MemberTypes]

\* A type over the first k structures.
FieldOver(f, k) ==
  /\ f.arr \in Nat
  /\ f.type \in MemberTypes \cup {kStructure, kVoid}
  /\ f.type = kStructure => f.str \in 1..k

\* Elements made of the structures in front.
ElementsGood(es) ==
  /\ IsSeq(es)
  /\ \A s \in 1..Len(es) : /\ Len(es[s]) \in Nat /\ Len(es[s]) > 0 /\ DOMAIN es[s] = 1..Len(es[s])
                           /\ \A i \in 1..Len(es[s]) : FieldOver(es[s][i], s - 1) /\ es[s][i].type # kVoid

EvenOf(leaves) == {l \in leaves : Even(l)}

LEMMA UnderIs ==
  ASSUME NEW i \in Nat, NEW L \in SUBSET LeafSet
  PROVE  /\ Under(i, L) \subseteq LeafSet
         /\ i % 2 = 0 => Under(i, EvenOf(L)) = EvenOf(Under(i, L))
         /\ i % 2 # 0 => EvenOf(Under(i, L)) = {}
<1> DEFINE U(l) == [path |-> <<i>> \o l.path, type |-> l.type]
<1>1. ASSUME NEW l \in LeafSet
      PROVE  U(l) \in LeafSet /\ (Even(U(l)) <=> i % 2 = 0 /\ Even(l))
  <2> DEFINE p == l.path
             q == <<i>> \o p
  <2>1. p \in Seq(Nat) /\ l.type \in MemberTypes
    BY DEF LeafSet
  <2> HIDE DEF p
  <2>2. q \in Seq(Nat) /\ Len(q) = Len(p) + 1 /\ Len(p) \in Nat /\ q[1] = i
        /\ \A j \in 1..Len(p) : q[j + 1] = p[j]
    BY <2>1
  <2>3. DOMAIN q = 1..(Len(p) + 1) /\ DOMAIN p = 1..Len(p)
    BY <2>1, <2>2
  <2> HIDE DEF q
  <2>4. (\A j \in 1..(Len(p) + 1) : q[j] % 2 = 0) <=> i % 2 = 0 /\ \A j \in 1..Len(p) : p[j] % 2 = 0
    <3>1. ASSUME \A j \in 1..(Len(p) + 1) : q[j] % 2 = 0
          PROVE  i % 2 = 0 /\ \A j \in 1..Len(p) : p[j] % 2 = 0
      <4>1. 1 \in 1..(Len(p) + 1) /\ \A j \in 1..Len(p) : j + 1 \in 1..(Len(p) + 1)
        BY <2>2
      <4>2. QED
        BY <2>2, <3>1, <4>1
    <3>2. ASSUME i % 2 = 0, \A j \in 1..Len(p) : p[j] % 2 = 0, NEW j \in 1..(Len(p) + 1)
          PROVE  q[j] % 2 = 0
      <4>1. CASE j = 1
        BY <2>2, <3>2, <4>1
      <4>2. CASE j # 1
        <5>1. j - 1 \in 1..Len(p) /\ (j - 1) + 1 = j
          BY <2>2, <4>2
        <5>2. q[j] = p[j - 1]
          BY <2>2, <5>1
        <5>3. QED
          BY <3>2, <5>1, <5>2
      <4>3. QED
        BY <4>1, <4>2
    <3>3. QED
      BY <3>1, <3>2
  <2>5. Even(U(l)) <=> \A j \in 1..(Len(p) + 1) : q[j] % 2 = 0
    BY <2>3 DEF Even, q, p
  <2>6. Even(l) <=> \A j \in 1..Len(p) : p[j] % 2 = 0
    BY <2>3 DEF Even, p
  <2>7. U(l) \in LeafSet
    BY <2>1, <2>2 DEF LeafSet, q, p
  <2>8. QED
    BY <2>4, <2>5, <2>6, <2>7
<1> HIDE DEF U
<1>2. \A M : Under(i, M) = {U(l) : l \in M}
  BY DEF Under, U
<1>3. Under(i, L) \subseteq LeafSet
  BY <1>1, <1>2
<1>4. ASSUME i % 2 = 0 PROVE Under(i, EvenOf(L)) = EvenOf(Under(i, L))
  BY <1>1, <1>2, <1>4 DEF EvenOf
<1>5. ASSUME i % 2 # 0 PROVE EvenOf(Under(i, L)) = {}
  BY <1>1, <1>2, <1>5 DEF EvenOf
<1>6. QED
  BY <1>3, <1>4, <1>5

LEMMA IndicesAre ==
  ASSUME NEW n \in Nat
  PROVE  /\ Indices(n, 1) = 0..(n - 1)
         /\ Indices(n, 2) = {i \in 0..(n - 1) : i % 2 = 0}
<1>1. \A i \in 0..(n - 1) : i % 1 = 0
  <2> TAKE i \in 0..(n - 1)
  <2>1. i \in Int /\ 1 \in Nat /\ 1 > 0 /\ 0 \in 0..(1 - 1) /\ i = i * 1 + 0
    OBVIOUS
  <2>2. QED
    BY <2>1, QuotientIs
<1>2. QED
  BY <1>1 DEF Indices

\* Every second of the parts, and of each every second: the even ones.
LEMMA EvenUnion ==
  ASSUME NEW n \in Nat, NEW L, \A i \in 0..(n - 1) : L[i] \in SUBSET LeafSet,
         NEW M, \A i \in 0..(n - 1) : M[i] = EvenOf(L[i])
  PROVE  /\ UNION {Under(i, L[i]) : i \in Indices(n, 1)} \subseteq LeafSet
         /\ UNION {Under(i, M[i]) : i \in Indices(n, 2)} =
              EvenOf(UNION {Under(i, L[i]) : i \in Indices(n, 1)})
<1> DEFINE A == UNION {Under(i, L[i]) : i \in 0..(n - 1)}
           B == UNION {Under(i, M[i]) : i \in {j \in 0..(n - 1) : j % 2 = 0}}
<1>1. ASSUME NEW i \in 0..(n - 1)
      PROVE  /\ Under(i, L[i]) \subseteq LeafSet
             /\ i % 2 = 0 => Under(i, M[i]) = EvenOf(Under(i, L[i]))
             /\ i % 2 # 0 => EvenOf(Under(i, L[i])) = {}
  <2>1. i \in Nat /\ L[i] \in SUBSET LeafSet /\ M[i] = EvenOf(L[i])
    OBVIOUS
  <2>2. QED
    BY <2>1, UnderIs
<1>2. A \subseteq LeafSet
  <2>1. ASSUME NEW l \in A PROVE l \in LeafSet
    <3>1. PICK i \in 0..(n - 1) : l \in Under(i, L[i])
      OBVIOUS
    <3>2. Under(i, L[i]) \subseteq LeafSet
      BY <1>1
    <3>3. QED
      BY <3>1, <3>2
  <2>2. QED
    BY <2>1
<1>3. ASSUME NEW l \in B PROVE l \in EvenOf(A)
  <2>1. PICK i \in 0..(n - 1) : i % 2 = 0 /\ l \in Under(i, M[i])
    OBVIOUS
  <2>2. Under(i, M[i]) = EvenOf(Under(i, L[i]))
    BY <1>1, <2>1
  <2>3. l \in Under(i, L[i]) /\ Even(l)
    BY <2>1, <2>2 DEF EvenOf
  <2>4. QED
    BY <2>3 DEF EvenOf
<1>4. ASSUME NEW l \in EvenOf(A) PROVE l \in B
  <2>1. PICK i \in 0..(n - 1) : l \in Under(i, L[i]) /\ Even(l)
    BY DEF EvenOf
  <2>2. l \in EvenOf(Under(i, L[i]))
    BY <2>1 DEF EvenOf
  <2>3. i % 2 = 0
    BY <1>1, <2>2
  <2>4. Under(i, M[i]) = EvenOf(Under(i, L[i]))
    BY <1>1, <2>3
  <2>5. QED
    BY <2>2, <2>3, <2>4
<1>5. B = EvenOf(A)
  BY <1>3, <1>4
<1>6. QED
  BY <1>2, <1>5, IndicesAre

\* One step of the recursion over the structures.
LEMMA EvenLeaves ==
  ASSUME NEW k \in Nat, NEW f, FieldOver(f, k),
         NEW all, \A s \in 1..k : all[s] \in SUBSET LeafSet,
         NEW even, \A s \in 1..k : even[s] = EvenOf(all[s])
  PROVE  /\ LeavesOver(f, all, 1) \in SUBSET LeafSet
         /\ LeavesOver(f, even, 2) = EvenOf(LeavesOver(f, all, 1))
<1> DEFINE One(ofStruct) == IF f.type = kStructure THEN ofStruct[f.str]
                            ELSE {[path |-> <<>>, type |-> t] : t \in {f.type} \ {kVoid}}
<1>1. One(all) \in SUBSET LeafSet /\ One(even) = EvenOf(One(all))
  <2>1. CASE f.type = kStructure
    <3>1. f.str \in 1..k
      BY <2>1 DEF FieldOver
    <3>2. QED
      BY <2>1, <3>1
  <2>2. CASE f.type # kStructure
    <3> DEFINE O == {[path |-> <<>>, type |-> t] : t \in {f.type} \ {kVoid}}
    <3>1. \A l \in O : l \in LeafSet /\ Even(l)
      <4>1. SUFFICES ASSUME f.type \in MemberTypes
                     PROVE  LET l == [path |-> <<>>, type |-> f.type] IN l \in LeafSet /\ Even(l)
        BY <2>2 DEF FieldOver
      <4>2. <<>> \in Seq(Nat) /\ DOMAIN <<>> = {}
        OBVIOUS
      <4>3. QED
        BY <4>1, <4>2 DEF LeafSet, Even
    <3>2. One(all) = O /\ One(even) = O
      BY <2>2
    <3> HIDE DEF O
    <3>3. O \in SUBSET LeafSet /\ O = EvenOf(O)
      BY <3>1 DEF EvenOf
    <3> HIDE DEF One
    <3>4. QED
      BY <3>2, <3>3
  <2>3. QED
    BY <2>1, <2>2
<1>2. /\ LeavesOver(f, all, 1) = IF f.arr > 0 THEN UNION {Under(i, One(all)) : i \in Indices(f.arr, 1)} ELSE One(all)
      /\ LeavesOver(f, even, 2) = IF f.arr > 0 THEN UNION {Under(i, One(even)) : i \in Indices(f.arr, 2)} ELSE One(even)
  BY DEF LeavesOver, IsArray
<1> HIDE DEF One
<1>3. CASE f.arr > 0
  <2> DEFINE n == f.arr
             L == [i \in 0..(n - 1) |-> One(all)]
             M == [i \in 0..(n - 1) |-> One(even)]
  <2>1. n \in Nat
    BY DEF FieldOver
  <2>2. /\ \A i \in 0..(n - 1) : L[i] \in SUBSET LeafSet
        /\ \A i \in 0..(n - 1) : M[i] = EvenOf(L[i])
    BY <1>1
  <2>3. /\ {Under(i, One(all)) : i \in Indices(n, 1)} = {Under(i, L[i]) : i \in Indices(n, 1)}
        /\ {Under(i, One(even)) : i \in Indices(n, 2)} = {Under(i, M[i]) : i \in Indices(n, 2)}
    BY DEF Indices
  <2> HIDE DEF n, L, M
  <2>4. /\ UNION {Under(i, L[i]) : i \in Indices(n, 1)} \subseteq LeafSet
        /\ UNION {Under(i, M[i]) : i \in Indices(n, 2)} =
             EvenOf(UNION {Under(i, L[i]) : i \in Indices(n, 1)})
    BY <2>1, <2>2, EvenUnion
  <2>5. QED
    BY <1>2, <1>3, <2>3, <2>4 DEF n
<1>4. CASE ~(f.arr > 0)
  BY <1>1, <1>2, <1>4
<1>5. QED
  BY <1>3, <1>4

LEMMA LeavesType ==
  ASSUME NEW k \in Nat, NEW f, FieldOver(f, k), NEW step,
         NEW g, \A s \in 1..k : g[s] \in SUBSET LeafSet
  PROVE  /\ LeavesOver(f, g, step) \in SUBSET LeafSet
         /\ \A h : (\A s \in 1..k : h[s] = g[s]) => LeavesOver(f, h, step) = LeavesOver(f, g, step)
<1> DEFINE One(ofStruct) == IF f.type = kStructure THEN ofStruct[f.str]
                            ELSE {[path |-> <<>>, type |-> t] : t \in {f.type} \ {kVoid}}
<1>1. One(g) \in SUBSET LeafSet
  <2>1. CASE f.type = kStructure
    BY <2>1 DEF FieldOver
  <2>2. CASE f.type # kStructure
    <3>1. <<>> \in Seq(Nat)
      OBVIOUS
    <3>2. ASSUME NEW l \in One(g) PROVE l \in LeafSet
      <4>1. l = [path |-> <<>>, type |-> f.type] /\ f.type # kVoid
        BY <2>2
      <4>2. f.type \in MemberTypes
        BY <2>2, <4>1 DEF FieldOver
      <4>3. QED
        BY <3>1, <4>1, <4>2 DEF LeafSet
    <3> HIDE DEF One
    <3>3. QED
      BY <3>2
  <2>3. QED
    BY <2>1, <2>2
<1>2. ASSUME NEW h, \A s \in 1..k : h[s] = g[s] PROVE One(h) = One(g)
  <2>1. CASE f.type = kStructure
    BY <1>2, <2>1 DEF FieldOver
  <2>2. CASE f.type # kStructure
    BY <2>2
  <2>3. QED
    BY <2>1, <2>2
<1>3. \A h : LeavesOver(f, h, step) =
                IF f.arr > 0 THEN UNION {Under(i, One(h)) : i \in Indices(f.arr, step)} ELSE One(h)
  BY DEF LeavesOver, IsArray
<1> HIDE DEF One
<1>4. \A i \in Indices(f.arr, step) : Under(i, One(g)) \subseteq LeafSet
  <2>1. \A i \in Indices(f.arr, step) : i \in Nat
    BY DEF Indices, FieldOver
  <2>2. QED
    BY <1>1, <2>1, UnderIs
<1>5. UNION {Under(i, One(g)) : i \in Indices(f.arr, step)} \in SUBSET LeafSet
  <2>1. ASSUME NEW l \in UNION {Under(i, One(g)) : i \in Indices(f.arr, step)} PROVE l \in LeafSet
    BY <1>4
  <2>2. QED
    BY <2>1
<1>6. LeavesOver(f, g, step) \in SUBSET LeafSet
  BY <1>1, <1>3, <1>5
<1>7. ASSUME NEW h, \A s \in 1..k : h[s] = g[s] PROVE LeavesOver(f, h, step) = LeavesOver(f, g, step)
  <2>1. One(h) = One(g)
    BY <1>2, <1>7
  <2>2. QED
    BY <1>3, <2>1
<1>8. QED
  BY <1>6, <1>7

AreLeaves(g, es, step) ==
  /\ g \in [1..Len(es) -> SUBSET LeafSet]
  /\ \A s \in 1..Len(es) :
        g[s] = UNION {Under(i, LeavesOver(es[s][i + 1], g, step)) : i \in Indices(Len(es[s]), step)}

LEMMA StructLeavesAre ==
  ASSUME NEW es, ElementsGood(es), NEW step
  PROVE  AreLeaves(StructLeaves(es, step), es, step)
<1> DEFINE n == Len(es)
           D == SUBSET LeafSet
           Body(f, s) == UNION {Under(i, LeavesOver(es[s][i + 1], f, step)) : i \in Indices(Len(es[s]), step)}
           G == [s \in 1..n |-> [f \in [1..n -> D] |-> Body(f, s)]]
           g == CHOOSE f : f = [s \in 1..n |-> Body(f, s)]
<1>1. n \in Nat
  BY SeqParts DEF ElementsGood
<1>2. ASSUME NEW s \in 1..n, NEW f, \A j \in 1..(s - 1) : f[j] \in D
      PROVE  /\ Body(f, s) \in D
             /\ \A h : (\A j \in 1..(s - 1) : h[j] = f[j]) => Body(h, s) = Body(f, s)
  <2> DEFINE I == Indices(Len(es[s]), step)
             L(h, i) == LeavesOver(es[s][i + 1], h, step)
  <2>1. ASSUME NEW i \in I
        PROVE  /\ L(f, i) \in D
               /\ \A h : (\A j \in 1..(s - 1) : h[j] = f[j]) => L(h, i) = L(f, i)
    <3>1. i + 1 \in 1..Len(es[s])
      BY DEF Indices, ElementsGood
    <3>2. FieldOver(es[s][i + 1], s - 1) /\ s - 1 \in Nat
      BY <3>1 DEF ElementsGood
    <3>3. QED
      BY <1>2, <3>2, LeavesType
  <2>2. ASSUME NEW i \in I PROVE i \in Nat
    BY DEF Indices, ElementsGood
  <2>3. \A h : Body(h, s) = UNION {Under(i, L(h, i)) : i \in I}
    OBVIOUS
  <2> HIDE DEF Body, L, I
  <2>4. \A i \in I : Under(i, L(f, i)) \subseteq LeafSet
    BY <2>1, <2>2, UnderIs
  <2>5. Body(f, s) \in D
    <3>1. ASSUME NEW l \in UNION {Under(i, L(f, i)) : i \in I} PROVE l \in LeafSet
      BY <2>4
    <3>2. QED
      BY <2>3, <3>1
  <2>6. ASSUME NEW h, \A j \in 1..(s - 1) : h[j] = f[j] PROVE Body(h, s) = Body(f, s)
    <3>1. \A i \in I : L(h, i) = L(f, i)
      BY <2>1, <2>6
    <3>2. {Under(i, L(h, i)) : i \in I} = {Under(i, L(f, i)) : i \in I}
      BY <3>1
    <3>3. QED
      BY <2>3, <3>2
  <2>7. QED
    BY <2>5, <2>6
<1>3. StructLeaves(es, step) = g
  BY DEF StructLeaves
<1> HIDE DEF Body, g
<1>4. \A s \in 1..n : \A f \in [1..n -> D] : /\ G[s][f] = Body(f, s)
                                            /\ \A j \in 1..(s - 1) : f[j] \in D
  OBVIOUS
<1> HIDE DEF G
<1>5. LooksBack(G, n, D)
  <2>1. \A s \in 1..n : \A f \in [1..n -> D] : G[s][f] \in D
    BY <1>2, <1>4
  <2>2. \A s \in 1..n : \A f, h \in [1..n -> D] :
            (\A j \in 1..(s - 1) : f[j] = h[j]) => G[s][f] = G[s][h]
    BY <1>2, <1>4
  <2>3. QED
    BY <2>1, <2>2 DEF LooksBack
<1>6. D # {}
  OBVIOUS
<1> HIDE DEF n, D
<1>7. PICK f : Follows(f, G, n, D)
  BY <1>1, <1>5, <1>6, Recursion
<1>8. f = [s \in 1..n |-> Body(f, s)]
  BY <1>4, <1>7 DEF Follows
<1>9. g = [s \in 1..n |-> Body(g, s)]
  BY <1>8 DEF g
<1>10. 1..n \subseteq {s \in 1..n : g[s] \in D}
  <2> DEFINE T == {s \in 1..n : g[s] \in D}
  <2>1. ASSUME NEW s \in 1..n, \A j \in 1..(s - 1) : j \in T PROVE s \in T
    <3>1. Body(g, s) \in D
      BY <1>2, <2>1
    <3>2. QED
      BY <1>9, <3>1
  <2> HIDE DEF T
  <2>2. 1..n \subseteq T
    BY <1>1, <2>1, StrongInduction
  <2>3. QED
    BY <2>2 DEF T
<1>11. g \in [1..n -> D] /\ \A s \in 1..n : g[s] = Body(g, s)
  BY <1>9, <1>10
<1>12. QED
  BY <1>3, <1>11 DEF AreLeaves, Body, n, D

\* The leaves stored are those with even numbers, of structures and of all types.
LEMMA StoredAreEven ==
  ASSUME NEW es, ElementsGood(es)
  PROVE  \A s \in 1..Len(es) : StructLeaves(es, 2)[s] = EvenOf(StructLeaves(es, 1)[s])
<1> DEFINE n == Len(es)
           all  == StructLeaves(es, 1)
           even == StructLeaves(es, 2)
           T == {s \in 1..n : even[s] = EvenOf(all[s])}
<1>1. n \in Nat
  BY SeqParts DEF ElementsGood
<1>2. AreLeaves(all, es, 1) /\ AreLeaves(even, es, 2)
  BY StructLeavesAre
<1>3. ASSUME NEW s \in 1..n, \A j \in 1..(s - 1) : j \in T PROVE s \in T
  <2> DEFINE m == Len(es[s])
             L == [i \in 0..(m - 1) |-> LeavesOver(es[s][i + 1], all, 1)]
             M == [i \in 0..(m - 1) |-> LeavesOver(es[s][i + 1], even, 2)]
  <2>1. m \in Nat
    BY DEF ElementsGood
  <2>2. ASSUME NEW i \in 0..(m - 1) PROVE L[i] \in SUBSET LeafSet /\ M[i] = EvenOf(L[i])
    <3> DEFINE f == es[s][i + 1]
               k == s - 1
    <3>1. i + 1 \in 1..m
      BY <2>1
    <3>2. FieldOver(f, k) /\ k \in Nat
      BY <3>1 DEF ElementsGood
    <3>3. (\A j \in 1..k : all[j] \in SUBSET LeafSet) /\ (\A j \in 1..k : even[j] = EvenOf(all[j]))
      <4>1. \A j \in 1..k : j \in 1..n
        BY <1>1
      <4>2. QED
        BY <1>2, <1>3, <4>1 DEF AreLeaves
    <3>4. L[i] = LeavesOver(f, all, 1) /\ M[i] = LeavesOver(f, even, 2)
      OBVIOUS
    <3> HIDE DEF f, k, all, even, L, M
    <3>5. LeavesOver(f, all, 1) \in SUBSET LeafSet /\ LeavesOver(f, even, 2) = EvenOf(LeavesOver(f, all, 1))
      BY <3>2, <3>3, EvenLeaves
    <3>6. QED
      BY <3>4, <3>5
  <2>3. /\ all[s] = UNION {Under(i, LeavesOver(es[s][i + 1], all, 1)) : i \in Indices(m, 1)}
        /\ even[s] = UNION {Under(i, LeavesOver(es[s][i + 1], even, 2)) : i \in Indices(m, 2)}
    BY <1>2 DEF AreLeaves
  <2>4. /\ {Under(i, LeavesOver(es[s][i + 1], all, 1)) : i \in Indices(m, 1)} = {Under(i, L[i]) : i \in Indices(m, 1)}
        /\ {Under(i, LeavesOver(es[s][i + 1], even, 2)) : i \in Indices(m, 2)} = {Under(i, M[i]) : i \in Indices(m, 2)}
    BY DEF Indices
  <2> HIDE DEF m, L, M, all, even
  <2>5. UNION {Under(i, M[i]) : i \in Indices(m, 2)} = EvenOf(UNION {Under(i, L[i]) : i \in Indices(m, 1)})
    BY <2>1, <2>2, EvenUnion
  <2>6. QED
    BY <2>3, <2>4, <2>5
<1> HIDE DEF n, T
<1>4. 1..n \subseteq T
  BY <1>1, <1>3, StrongInduction
<1>5. QED
  BY <1>4 DEF T, n

LEMMA AllElementsGood ==
  ASSUME SourceInv
  PROVE  ElementsGood(AllElements) /\ Len(AllElements) = Len(structs) /\ Len(structs) \in Nat
<1> DEFINE n == Len(structs)
           A == AllElements
<1>1. n \in Nat /\ DOMAIN structs = 1..n
  BY DEF SourceInv
<1>2. A = [s \in 1..n |-> Elements(s)]
  BY <1>1 DEF AllElements
<1> HIDE DEF n, A
<1>3. A \in Seq(Seq(AnyMember)) /\ Len(A) = n
  BY <1>1, <1>2, ElementsAre DEF n
<1>4. IsSeq(A)
  BY <1>3, SeqOfAny
<1>5. ASSUME NEW s \in 1..n, NEW i \in 1..Len(A[s]) PROVE FieldOver(A[s][i], s - 1) /\ A[s][i].type # kVoid
  <2>1. A[s] = Elements(s) /\ s - 1 \in Nat
    BY <1>1, <1>2
  <2>2. A[s][i] \in MembersOver(s - 1)
    BY <2>1, ElementsAre DEF n
  <2> DEFINE m == A[s][i]
  <2> HIDE DEF m
  <2>3. /\ m \in AnyMember
        /\ m.type = kStructure => m.str \in 1..(s - 1)
    BY <2>1, <2>2, MembersAre DEF m
  <2>4. FieldOver(m, s - 1)
    BY <2>3 DEF FieldOver, AnyMember
  <2>5. m.type # kVoid
    BY <2>3, NoStructureIsSimple DEF AnyMember, kVoid, kStructure
  <2>6. QED
    BY <2>4, <2>5 DEF m
<1>6. \A s \in 1..n : Len(A[s]) \in Nat /\ Len(A[s]) > 0 /\ DOMAIN A[s] = 1..Len(A[s])
  BY <1>2, ElementsAre DEF n
<1>7. ElementsGood(A)
  BY <1>3, <1>4, <1>5, <1>6 DEF ElementsGood
<1>8. QED
  BY <1>1, <1>3, <1>7 DEF n, A

LEMMA LeavesOfField ==
  ASSUME SourceInv, NEW f, FieldOver(f, Len(structs))
  PROVE  Leaves(f) \in SUBSET LeafSet /\ StoredToPacked(f) = EvenOf(Leaves(f))
<1> DEFINE es   == AllElements
           n    == Len(structs)
           all  == StructLeaves(es, 1)
           even == StructLeaves(es, 2)
<1>1. ElementsGood(es) /\ Len(es) = n /\ n \in Nat
  BY AllElementsGood
<1>2. AreLeaves(all, es, 1)
  BY <1>1, StructLeavesAre
<1>3. \A s \in 1..n : all[s] \in SUBSET LeafSet
  BY <1>1, <1>2 DEF AreLeaves
<1>4. \A s \in 1..n : even[s] = EvenOf(all[s])
  BY <1>1, StoredAreEven
<1> HIDE DEF all, even
<1>5. /\ LeavesOver(f, all, 1) \in SUBSET LeafSet
      /\ LeavesOver(f, even, 2) = EvenOf(LeavesOver(f, all, 1))
  BY <1>1, <1>3, <1>4, EvenLeaves
<1>6. QED
  BY <1>5 DEF Leaves, StoredToPacked, all, even

LEMMA SimpleLeaves ==
  ASSUME NEW f, f.arr = 0, f.type # kStructure
  PROVE  /\ Leaves(f) = {[path |-> <<>>, type |-> t] : t \in {f.type} \ {kVoid}}
         /\ StoredToPacked(f) = {[path |-> <<>>, type |-> t] : t \in {f.type} \ {kVoid}}
BY DEF Leaves, StoredToPacked, LeavesOver, IsArray

\* A function over the structures that there are.
FnFits(f) ==
  /\ f \in Functions
  /\ f.ret.str <= Len(structs)
  /\ \A k \in DOMAIN f.args : f.args[k].field.str <= Len(structs)

LEMMA FnParts ==
  ASSUME SourceInv, NEW f, FnFits(f)
  PROVE  /\ Len(f.args) \in Nat /\ DOMAIN f.args = 1..Len(f.args)
         /\ \A k \in DOMAIN f.args : /\ f.args[k].ref \in {"value", "%", "&"}
                                     /\ FieldOver(f.args[k].field, Len(structs))
         /\ FieldOver(f.ret, Len(structs)) /\ f.ret.arr = 0
<1> DEFINE A == [field : FieldTypes, ref : {"value", "%", "&"}]
           n == Len(structs)
<1>1. f.args \in Seq(A) /\ f.ret \in FieldTypes \cup {Member(kVoid, 0, 0)} /\ f.ret.arr = 0
  BY FunctionsAssumption DEF FnFits
<1>2. n \in Nat
  BY DEF SourceInv
<1>3. Len(f.args) \in Nat /\ DOMAIN f.args = 1..Len(f.args) /\ \A k \in DOMAIN f.args : f.args[k] \in A
  <2> HIDE DEF A
  <2>1. QED
    BY <1>1
<1> HIDE DEF n
<1>4. ASSUME NEW g \in FieldTypes, g.str <= n PROVE FieldOver(g, n)
  <2>1. CASE g \in [type : MemberTypes, str : {0}, arr : Nat]
    BY <1>2, <2>1, NoStructureIsSimple DEF FieldOver
  <2>2. CASE g \in [type : {kStructure}, str : 1..MaxStructs, arr : Nat]
    BY <1>2, <1>4, <2>2 DEF FieldOver
  <2>3. QED
    BY <2>1, <2>2 DEF FieldTypes
<1>5. FieldOver(f.ret, n)
  <2>1. CASE f.ret \in FieldTypes
    BY <1>4, <2>1 DEF FnFits, n
  <2>2. CASE f.ret = Member(kVoid, 0, 0)
    BY <2>2 DEF Member, FieldOver, kVoid, kStructure
  <2>3. QED
    BY <1>1, <2>1, <2>2
<1>6. ASSUME NEW k \in DOMAIN f.args PROVE f.args[k].ref \in {"value", "%", "&"} /\ FieldOver(f.args[k].field, n)
  <2>1. f.args[k] \in A
    BY <1>3
  <2>2. f.args[k].field \in FieldTypes /\ f.args[k].ref \in {"value", "%", "&"}
    BY <2>1
  <2>3. f.args[k].field.str <= n
    BY DEF FnFits, n
  <2>4. QED
    BY <1>4, <2>2, <2>3
<1>7. QED
  BY <1>1, <1>3, <1>5, <1>6 DEF n

(***************************************************************************)
(* A call through the wrapper.                                             *)
(***************************************************************************)

LeavesOf(k) == Leaves(fn.args[k].field)
ByRef       == NeedJITPacked(fn)
Calling     == pc \in {"convert", "function", "back", "done"}
Converted   == pc \in {"function", "back", "done"}

CallShape ==
  /\ pc \in {"idle", "address", "refused", "convert", "function", "back", "done"}
  /\ writes \in 0..MaxWrites
  /\ pc = "idle" => fn.args = <<>>
  /\ pc # "idle" => FnFits(fn) /\ (pc = "refused" <=> ~IsWellTyped(fn))
  /\ ~Calling => buffers = <<>>
  /\ IF pc \in {"back", "done"} THEN next \in 1..(Len(fn.args) + 1) ELSE next = 0
  /\ pc = "done" => next \notin Args

\* Arguments that share a buffer are declared alike, the one it is named by too.
Binding ==
  Calling => /\ bound \in [Args -> Args]
             /\ \A k \in Args : bound[bound[k]] = bound[k] /\ fn.args[bound[k]] = fn.args[k]

Table(t) ==
  /\ t = [k \in Args |-> t[k]]
  /\ \A k \in Args : t[k] \in [LeavesOf(k) -> Int]

Tables ==
  /\ Calling => Table(buffers) /\ Table(direct)
  /\ Converted => Table(copies)

\* Whether the function gets addresses of the wrapper's frame.
GetsAddresses == \E k \in ByRef : \E m \in LeavesOf(k) : m.path # <<>> /\ m.type = kExternType

\* An address of the wrapper's frame is in extern leaves only, and in a buffer only
\* where the function has put it.
PointerIs(k, l) ==
  /\ buffers[k][l] = OtherByte => fn.args[k].ref = "%" /\ l.type = kExternType /\ writes > 0 /\ GetsAddresses
  /\ Converted /\ copies[k][l] = OtherByte => l.type = kExternType /\ GetsAddresses

\* Nothing gets into the buffer of an & argument where the loop that stores skips.
BufferIs(k, l) ==
  k \in ByRef /\ (~Even(l) \/ next = 0) => buffers[bound[k]][l] = Host

\* The last of the arguments converted so far that share a buffer is what is there.
LastIs(k, l) ==
  k \in ByRef /\ k < next /\ (\A j \in Args : k < j /\ j < next => bound[j] # bound[k])
     => buffers[bound[k]][l] \in {Host, k}

\* Where the conversions agree on a leaf the copy is what a reference would see.
CopyIs(k, l) ==
  /\ pc = "convert" => direct[k][l] = Host
  /\ k \in ByRef /\ Even(l) /\ Converted => /\ copies[k][l] \in {Host, k}
                                            /\ Alone(k) => copies[k][l] = direct[k][l]

AloneIs(k, l) ==
  k \in ByRef /\ Alone(k) => buffers[k][l] = IF k < next /\ Even(l) THEN copies[k][l] ELSE Host

Contents ==
  Calling => \A k \in Args : \A l \in LeavesOf(k) :
                /\ PointerIs(k, l)
                /\ BufferIs(k, l) /\ LastIs(k, l) /\ CopyIs(k, l) /\ AloneIs(k, l)

ResultIs == pc = "done" => \A l \in DOMAIN result : result[l] = Undefined <=> ~Even(l)

CallInv == CallShape /\ Binding /\ Tables /\ Contents /\ ResultIs

LEMMA CallStarts == Init => CallInv
<1> SUFFICES ASSUME Init PROVE CallInv
  OBVIOUS
<1> USE DEF Init, CallInit
<1>1. 0 \in 0..MaxWrites
  BY FunctionsAssumption
<1>2. CallShape
  BY <1>1 DEF CallShape, Calling
<1>3. Binding /\ Tables /\ Contents /\ ResultIs
  BY DEF Binding, Tables, Contents, ResultIs, Calling, Converted
<1>4. QED
  BY <1>2, <1>3 DEF CallInv

LEMMA CallWaits ==
  ASSUME CallInv, LayoutNext, pc = "idle", UNCHANGED callVars
  PROVE  CallInv'
<1> USE DEF callVars
<1>1. CallShape'
  BY DEF CallInv, CallShape, Calling, Args
<1>2. (Binding /\ Tables /\ Contents /\ ResultIs)'
  BY DEF Binding, Tables, Contents, ResultIs, Calling, Converted
<1>3. QED
  BY <1>1, <1>2 DEF CallInv

\* The types of a call stay as they are.
LEMMA SameTypes ==
  ASSUME UNCHANGED layoutVars
  PROVE  /\ \A f : Leaves(f)' = Leaves(f) /\ StoredToPacked(f)' = StoredToPacked(f)
         /\ \A f : FnFits(f)' <=> FnFits(f)
         /\ \A f : IsWellTyped(f)' <=> IsWellTyped(f)
<1>1. AllElements' = AllElements /\ structs' = structs
  BY SameSource DEF layoutVars
<1>2. \A f : Leaves(f)' = Leaves(f) /\ StoredToPacked(f)' = StoredToPacked(f)
  BY <1>1 DEF Leaves, StoredToPacked
<1>3. \A f : (IllFromPacked(f)' <=> IllFromPacked(f)) /\ (IllToPacked(f)' <=> IllToPacked(f))
  BY <1>2 DEF IllFromPacked, IllToPacked
<1>4. \A f : IsWellTyped(f)' <=> IsWellTyped(f)
  BY <1>3 DEF IsWellTyped
<1>5. QED
  BY <1>1, <1>2, <1>4 DEF FnFits

LEMMA SameFunction ==
  ASSUME UNCHANGED layoutVars, fn' = fn
  PROVE  /\ \A k : LeavesOf(k)' = LeavesOf(k)
         /\ Args' = Args /\ ByRef' = ByRef /\ (GetsAddresses' <=> GetsAddresses)
         /\ FnFits(fn)' <=> FnFits(fn)
         /\ IsWellTyped(fn)' <=> IsWellTyped(fn)
<1>1. AllElements' = AllElements /\ structs' = structs
  BY SameSource DEF layoutVars
<1>2. \A k : LeavesOf(k)' = LeavesOf(k)
  BY <1>1 DEF LeavesOf, Leaves
<1>3. Args' = Args /\ ByRef' = ByRef
  BY DEF Args, ByRef, NeedJITPacked
<1>4. FnFits(fn)' <=> FnFits(fn)
  BY <1>1 DEF FnFits
<1>5. IsWellTyped(fn)' <=> IsWellTyped(fn)
  BY <1>1 DEF IsWellTyped, IllFromPacked, IllToPacked, Leaves, StoredToPacked, HasWrapper
<1>6. GetsAddresses' <=> GetsAddresses
  BY <1>2, <1>3 DEF GetsAddresses
<1>7. QED
  BY <1>2, <1>3, <1>4, <1>5, <1>6

LEMMA GetStep ==
  ASSUME SourceInv, CallInv, KSC_GetFunctionPtr, UNCHANGED layoutVars
  PROVE  CallInv'
<1>1. PICK f \in Functions :
          /\ f.ret.str <= Len(structs)
          /\ \A k \in DOMAIN f.args : f.args[k].field.str <= Len(structs)
          /\ fn' = f
          /\ pc' = IF IsWellTyped(f) THEN "address" ELSE "refused"
  BY DEF KSC_GetFunctionPtr
<1>2. pc = "idle" /\ UNCHANGED <<bound, buffers, copies, direct, writes, next, result>>
  BY DEF KSC_GetFunctionPtr
<1>3. FnFits(f)' /\ (IsWellTyped(f)' <=> IsWellTyped(f))
  BY <1>1, SameTypes DEF FnFits
<1>4. FnFits(fn)' /\ (IsWellTyped(fn)' <=> IsWellTyped(f))
  <2>1. FnFits(fn)'
    BY <1>1, <1>3 DEF FnFits
  <2>2. IsWellTyped(fn)' <=> IsWellTyped(f)'
    BY <1>1 DEF IsWellTyped, IllFromPacked, IllToPacked, Leaves, StoredToPacked, HasWrapper
  <2>3. QED
    BY <1>3, <2>1, <2>2
<1>5. CallShape'
  BY <1>1, <1>2, <1>4 DEF CallInv, CallShape, Calling
<1>6. (Binding /\ Tables /\ Contents /\ ResultIs)'
  BY <1>1 DEF Binding, Tables, Contents, ResultIs, Calling, Converted
<1>7. QED
  BY <1>5, <1>6 DEF CallInv

\* What is known of the arguments once there is a function.
LEMMA ArgsAre ==
  ASSUME SourceInv, CallShape, pc # "idle"
  PROVE  /\ Len(fn.args) \in Nat /\ Args = 1..Len(fn.args) /\ ByRef \subseteq Args
         /\ \A k \in Args : /\ fn.args[k].ref \in {"value", "%", "&"}
                            /\ k \in ByRef <=> fn.args[k].ref = "&"
                            /\ LeavesOf(k) \in SUBSET LeafSet
                            /\ StoredToPacked(fn.args[k].field) = EvenOf(LeavesOf(k))
         /\ Leaves(fn.ret) \in SUBSET LeafSet /\ StoredToPacked(fn.ret) = EvenOf(Leaves(fn.ret))
         /\ fn.ret.arr = 0
<1>1. FnFits(fn)
  BY DEF CallShape
<1>2. /\ Len(fn.args) \in Nat /\ DOMAIN fn.args = 1..Len(fn.args)
      /\ \A k \in DOMAIN fn.args : /\ fn.args[k].ref \in {"value", "%", "&"}
                                   /\ FieldOver(fn.args[k].field, Len(structs))
      /\ FieldOver(fn.ret, Len(structs)) /\ fn.ret.arr = 0
  BY <1>1, FnParts
<1>3. ASSUME NEW k \in Args
      PROVE  LeavesOf(k) \in SUBSET LeafSet /\ StoredToPacked(fn.args[k].field) = EvenOf(LeavesOf(k))
  <2> DEFINE f == fn.args[k].field
  <2>1. FieldOver(f, Len(structs))
    BY <1>2 DEF Args
  <2> HIDE DEF f
  <2>2. Leaves(f) \in SUBSET LeafSet /\ StoredToPacked(f) = EvenOf(Leaves(f))
    BY <2>1, LeavesOfField
  <2>3. QED
    BY <2>2 DEF LeavesOf, f
<1>4. Leaves(fn.ret) \in SUBSET LeafSet /\ StoredToPacked(fn.ret) = EvenOf(Leaves(fn.ret))
  <2> DEFINE f == fn.ret
  <2>1. FieldOver(f, Len(structs))
    BY <1>2
  <2> HIDE DEF f
  <2>2. Leaves(f) \in SUBSET LeafSet /\ StoredToPacked(f) = EvenOf(Leaves(f))
    BY <2>1, LeavesOfField
  <2>3. QED
    BY <2>2 DEF f
<1>5. ByRef \subseteq Args /\ \A k \in Args : k \in ByRef <=> fn.args[k].ref = "&"
  BY DEF ByRef, NeedJITPacked, Args
<1>6. QED
  BY <1>2, <1>3, <1>4, <1>5 DEF Args

LEMMA CallsStep ==
  ASSUME SourceInv, CallInv, HostCalls, UNCHANGED layoutVars
  PROVE  CallInv'
<1>1. /\ pc = "address" /\ pc' = "convert" /\ fn' = fn /\ writes' = writes /\ next' = next
      /\ bound' \in {b \in [Args -> Args] :
                       \A k \in Args :
                           /\ b[b[k]] = b[k] /\ b[k] <= k /\ fn.args[b[k]] = fn.args[k]
                           /\ fn.args[k].ref = "value" => b[k] = k}
      /\ buffers' = [k \in Args |-> [l \in LeavesOf(k) |-> Host]]
      /\ direct' = buffers'
  BY DEF HostCalls, LeavesOf
<1>2. CallShape
  BY DEF CallInv
<1>3. /\ \A k : LeavesOf(k)' = LeavesOf(k)
      /\ Args' = Args /\ ByRef' = ByRef /\ (GetsAddresses' <=> GetsAddresses)
      /\ FnFits(fn)' /\ IsWellTyped(fn)' /\ next = 0
  BY <1>1, <1>2, SameFunction DEF CallShape
<1>4. CallShape'
  BY <1>1, <1>2, <1>3 DEF CallShape, Calling
<1>5. Binding'
  BY <1>1, <1>3 DEF Binding
<1>6. Tables'
  <2>1. \A k \in Args : buffers'[k] \in [LeavesOf(k) -> Int]
    BY <1>1 DEF Host
  <2>2. buffers' = [k \in Args |-> buffers'[k]]
    BY <1>1
  <2>3. Table(buffers)' /\ Table(direct)'
    BY <1>1, <1>3, <2>1, <2>2 DEF Table
  <2>4. ~Converted'
    BY <1>1 DEF Converted
  <2>5. QED
    BY <2>3, <2>4 DEF Tables
<1>7. Contents'
  <2>1. SUFFICES ASSUME NEW k \in Args, NEW l \in LeavesOf(k)
                 PROVE  (PointerIs(k, l) /\ BufferIs(k, l) /\ LastIs(k, l) /\ CopyIs(k, l) /\ AloneIs(k, l))'
    BY <1>3 DEF Contents
  <2>2. buffers'[k][l] = Host
    BY <1>1
  <2>3. bound'[k] \in Args /\ l \in LeavesOf(bound'[k])
    BY <1>1 DEF LeavesOf
  <2>4. buffers'[bound'[k]][l] = Host
    BY <1>1, <2>3
  <2>5. PointerIs(k, l)' /\ BufferIs(k, l)'
    BY <1>1, <2>2, <2>4 DEF PointerIs, BufferIs, Host, OtherByte, Converted
  <2>6. LastIs(k, l)'
    BY <2>4 DEF LastIs
  <2>7. CopyIs(k, l)'
    BY <1>1, <2>2 DEF CopyIs, Converted
  <2>8. k \in Nat
    BY <1>1, <1>2, ArgsAre
  <2>9. AloneIs(k, l)'
    BY <1>1, <1>3, <2>2, <2>8 DEF AloneIs
  <2>10. QED
    BY <2>5, <2>6, <2>7, <2>9
<1>8. ResultIs'
  BY <1>1 DEF ResultIs
<1>9. QED
  BY <1>4, <1>5, <1>6, <1>7, <1>8 DEF CallInv

\* What the wrapper of a function that is not refused stores is no pointer.
LEMMA StoredIsPlain ==
  ASSUME SourceInv, CallShape, pc \notin {"idle", "refused"}, NEW k \in ByRef, NEW l \in LeavesOf(k), Even(l)
  PROVE  l.type # kExternType
<1>1. IsWellTyped(fn) /\ k \in Args
  BY ArgsAre DEF CallShape
<1>2. ~IllToPacked(fn.args[k].field)
  BY <1>1 DEF IsWellTyped, ByRef
<1>3. l \in StoredToPacked(fn.args[k].field)
  BY <1>1, ArgsAre DEF EvenOf
<1>4. QED
  BY <1>2, <1>3 DEF IllToPacked

LEMMA ConvertStep ==
  ASSUME SourceInv, CallInv, ConvertArguments, UNCHANGED layoutVars
  PROVE  CallInv'
<1>1. /\ pc = "convert" /\ pc' = "function" /\ fn' = fn /\ bound' = bound
      /\ buffers' = buffers /\ direct' = direct /\ writes' = writes /\ next' = next
      /\ copies' = [k \in Args |->
            IF k \in ByRef THEN ConvertValueFromPacked(fn.args[k].field, buffers[bound[k]])
                           ELSE buffers[bound[k]]]
  BY DEF ConvertArguments, ByRef
<1>2. CallShape /\ Binding /\ Tables /\ Contents /\ Calling
  BY <1>1 DEF CallInv, Calling
<1>3. /\ \A k : LeavesOf(k)' = LeavesOf(k)
      /\ Args' = Args /\ ByRef' = ByRef /\ (GetsAddresses' <=> GetsAddresses)
      /\ FnFits(fn)' /\ IsWellTyped(fn)' /\ next = 0
  BY <1>1, <1>2, SameFunction DEF CallShape
<1>4. CallShape'
  BY <1>1, <1>2, <1>3 DEF CallShape, Calling
<1>5. Binding'
  BY <1>1, <1>2, <1>3 DEF Binding
<1>6. \A k \in Args : bound[k] \in Args /\ LeavesOf(bound[k]) = LeavesOf(k)
  BY <1>2 DEF Binding, LeavesOf
<1>7. Table(buffers) /\ Table(direct)
  BY <1>2 DEF Tables
<1>8. ASSUME NEW k \in Args, NEW l \in LeavesOf(k)
      PROVE  /\ copies'[k][l] \in Int
             /\ copies'[k] = [i \in LeavesOf(k) |-> copies'[k][i]]
             /\ k \in ByRef /\ Even(l) => copies'[k][l] = Host
             /\ copies'[k][l] = OtherByte => l.type = kExternType /\ GetsAddresses
  <2>1. buffers[bound[k]] \in [LeavesOf(k) -> Int]
    BY <1>6, <1>7 DEF Table
  <2>1a. buffers[bound[k]][l] = OtherByte => l.type = kExternType /\ GetsAddresses
    BY <1>2, <1>6 DEF Contents, PointerIs
  <2>2. CASE k \in ByRef
    <3>1. copies'[k] = [i \in LeavesOf(k) |->
              IF i.path # <<>> /\ i.type = kExternType THEN OtherByte ELSE buffers[bound[k]][i]]
      BY <1>1, <2>2 DEF ConvertValueFromPacked, LeavesOf
    <3>2. Even(l) => l.type # kExternType
      BY <1>1, <1>2, <2>2, StoredIsPlain
    <3>3. buffers[bound[k]][l] = Host
      BY <1>2, <1>3, <2>2 DEF Contents, BufferIs
    <3>4. QED
      BY <2>1, <2>2, <2>1a, <3>1, <3>2, <3>3 DEF OtherByte, GetsAddresses
  <2>3. CASE k \notin ByRef
    BY <1>1, <2>1, <2>3, <2>1a
  <2>4. QED
    BY <2>2, <2>3
<1>9. Tables'
  <2>1. ASSUME NEW k \in Args PROVE copies'[k] \in [LeavesOf(k) -> Int]
    <3>1. CASE LeavesOf(k) = {}
      <4>1. buffers[bound[k]] \in [LeavesOf(k) -> Int]
        BY <1>6, <1>7 DEF Table
      <4>2. k \in ByRef => copies'[k] = [i \in LeavesOf(k) |->
              IF i.path # <<>> /\ i.type = kExternType THEN OtherByte ELSE buffers[bound[k]][i]]
        BY <1>1 DEF ConvertValueFromPacked, LeavesOf
      <4>3. k \notin ByRef => copies'[k] = buffers[bound[k]]
        BY <1>1
      <4>4. QED
        BY <3>1, <4>1, <4>2, <4>3
    <3>2. CASE LeavesOf(k) # {}
      BY <1>8, <3>2
    <3>3. QED
      BY <3>1, <3>2
  <2>2. Table(copies)'
    BY <1>1, <1>3, <2>1 DEF Table
  <2>3. Table(buffers)' /\ Table(direct)'
    BY <1>1, <1>3, <1>7 DEF Table
  <2>4. QED
    BY <2>2, <2>3 DEF Tables
<1>10. Contents'
  <2>1. SUFFICES ASSUME NEW k \in Args, NEW l \in LeavesOf(k)
                 PROVE  (PointerIs(k, l) /\ BufferIs(k, l) /\ LastIs(k, l) /\ CopyIs(k, l) /\ AloneIs(k, l))'
    BY <1>3 DEF Contents
  <2>2. PointerIs(k, l) /\ BufferIs(k, l) /\ LastIs(k, l) /\ AloneIs(k, l)
    BY <1>2 DEF Contents
  <2>2a. PointerIs(k, l)'
    BY <1>1, <1>3, <1>8, <2>2 DEF PointerIs
  <2>3. k \in Nat
    BY <1>1, <1>2, ArgsAre
  <2>4. BufferIs(k, l)' /\ LastIs(k, l)'
    BY <1>1, <1>3, <2>2 DEF BufferIs, LastIs
  <2>5. Alone(k)' <=> Alone(k)
    BY <1>1, <1>3 DEF Alone
  <2>6. AloneIs(k, l)'
    BY <1>1, <1>3, <2>2, <2>3, <2>5 DEF AloneIs
  <2>7. direct'[k][l] = Host
    BY <1>1, <1>2 DEF Contents, CopyIs
  <2>8. CopyIs(k, l)'
    BY <1>1, <1>3, <1>8, <2>7 DEF CopyIs
  <2>9. QED
    BY <2>4, <2>6, <2>8, <2>2a
<1>11. ResultIs'
  BY <1>1 DEF ResultIs
<1>12. QED
  BY <1>4, <1>5, <1>9, <1>10, <1>11 DEF CallInv

SetTo(u, t, b, v, w) ==
  /\ Table(u)
  /\ \A k \in Args : \A l \in LeavesOf(k) : u[k][l] = IF k = b /\ l = v THEN w ELSE t[k][l]

LEMMA TableSet ==
  ASSUME NEW t, Table(t), NEW b \in Args, NEW v \in LeavesOf(b), NEW w \in Int,
         NEW u, u = [t EXCEPT ![b][v] = w]
  PROVE  SetTo(u, t, b, v, w)
<1> DEFINE r == [t[b] EXCEPT ![v] = w]
<1>1. t[b] \in [LeavesOf(b) -> Int] /\ DOMAIN t = Args
  BY DEF Table
<1>2. r \in [LeavesOf(b) -> Int] /\ \A l \in LeavesOf(b) : r[l] = IF l = v THEN w ELSE t[b][l]
  BY <1>1
<1>3. u = [k \in Args |-> IF k = b THEN r ELSE t[k]]
  BY <1>1
<1> HIDE DEF r
<1>4. Table(u)
  BY <1>2, <1>3 DEF Table
<1>5. QED
  BY <1>2, <1>3, <1>4 DEF SetTo

LEMMA WriteStep ==
  ASSUME SourceInv, CallInv, FunctionWrites, UNCHANGED layoutVars
  PROVE  CallInv'
<1>1. /\ pc = "function" /\ writes < MaxWrites /\ writes' = writes + 1
      /\ pc' = pc /\ fn' = fn /\ bound' = bound /\ next' = next /\ result' = result
  BY DEF FunctionWrites
<1>2. PICK w \in Args : \E v \in LeavesOf(w) :
          \/ Assign(w, v, w, w)
          \/ \E j \in Args : \E m \in LeavesOf(j) :
                /\ v.type = kExternType /\ m.type = kExternType
                /\ Assign(w, v, InFunction(j, m), direct[bound[j]][m])
  BY DEF FunctionWrites, LeavesOf
<1>3. PICK v \in LeavesOf(w) :
          \/ Assign(w, v, w, w)
          \/ \E j \in Args : \E m \in LeavesOf(j) :
                /\ v.type = kExternType /\ m.type = kExternType
                /\ Assign(w, v, InFunction(j, m), direct[bound[j]][m])
  BY <1>2
<1> DEFINE ref == fn.args[w].ref
           b   == bound[w]
<1>4. CallShape /\ Binding /\ Tables /\ Contents /\ Calling /\ Converted
  BY <1>1 DEF CallInv, Calling, Converted
<1>5. /\ \A k : LeavesOf(k)' = LeavesOf(k)
      /\ Args' = Args /\ ByRef' = ByRef /\ (GetsAddresses' <=> GetsAddresses)
      /\ FnFits(fn)' /\ IsWellTyped(fn)' /\ next = 0
  BY <1>1, <1>4, SameFunction DEF CallShape
<1>6. /\ \A k \in Args : k \in Nat /\ k > 0 /\ (k \in ByRef <=> fn.args[k].ref = "&")
      /\ ref \in {"value", "%", "&"}
  BY <1>1, <1>4, ArgsAre
<1>7. /\ b \in Args /\ LeavesOf(b) = LeavesOf(w) /\ bound[b] = b
      /\ \A k \in Args : bound[k] \in Args /\ LeavesOf(bound[k]) = LeavesOf(k)
                       /\ (bound[k] = b => fn.args[k].ref = ref)
  BY <1>4 DEF Binding, LeavesOf
<1>8. Table(buffers) /\ Table(direct) /\ Table(copies)
  BY <1>4 DEF Tables
<1>9. v \in LeavesOf(b) /\ w \in Int
  BY <1>6, <1>7
<1>9a. PICK value \in Int, meant \in Int :
          /\ Assign(w, v, value, meant)
          /\ v.type # kExternType => value = w /\ meant = w
          /\ value = OtherByte => v.type = kExternType /\ GetsAddresses
  <2>1. CASE Assign(w, v, w, w)
    BY <1>6, <1>9, <2>1 DEF OtherByte
  <2>2. CASE \E j \in Args : \E m \in LeavesOf(j) :
                /\ v.type = kExternType /\ m.type = kExternType
                /\ Assign(w, v, InFunction(j, m), direct[bound[j]][m])
    <3>1. PICK j \in Args : \E m \in LeavesOf(j) :
                /\ v.type = kExternType /\ m.type = kExternType
                /\ Assign(w, v, InFunction(j, m), direct[bound[j]][m])
      BY <2>2
    <3>2. PICK m \in LeavesOf(j) :
                /\ v.type = kExternType /\ m.type = kExternType
                /\ Assign(w, v, InFunction(j, m), direct[bound[j]][m])
      BY <3>1
    <3>3. bound[j] \in Args /\ m \in LeavesOf(bound[j])
      BY <1>7
    <3>4. direct[bound[j]][m] \in Int /\ buffers[bound[j]][m] \in Int /\ copies[j][m] \in Int
      BY <1>8, <3>3 DEF Table
    <3>5. PointerIs(j, m) /\ PointerIs(bound[j], m) /\ Converted
      BY <1>1, <1>4, <3>3 DEF Contents, Converted
    <3>6. /\ InFunction(j, m) \in Int
          /\ InFunction(j, m) = OtherByte => GetsAddresses
      BY <3>4, <3>5 DEF InFunction, PointerIs
    <3>7. QED
      BY <3>2, <3>4, <3>6
  <2>3. QED
    BY <1>3, <2>1, <2>2
<1>9b. /\ copies'  = IF ref = "%" THEN copies ELSE [copies EXCEPT ![w][v] = value]
       /\ buffers' = IF ref = "%" THEN [buffers EXCEPT ![b][v] = value] ELSE buffers
       /\ direct'  = [direct EXCEPT ![b][v] = meant]
  BY <1>9a DEF Assign
<1> HIDE DEF ref, b
<1>10. /\ Table(buffers')
       /\ \A k \in Args : \A l \in LeavesOf(k) :
             buffers'[k][l] = IF ref = "%" /\ k = b /\ l = v THEN value ELSE buffers[k][l]
  <2>1. CASE ref = "%"
    <3>1. buffers' = [buffers EXCEPT ![b][v] = value]
      BY <1>9b, <2>1
    <3>2. SetTo(buffers', buffers, b, v, value)
      BY <1>7, <1>8, <1>9, <3>1, TableSet
    <3>3. QED
      BY <2>1, <3>2 DEF SetTo
  <2>2. CASE ref # "%"
    <3>1. buffers' = buffers
      BY <1>9b, <2>2
    <3>2. QED
      BY <1>8, <2>2, <3>1
  <2>3. QED
    BY <2>1, <2>2
<1>11. /\ Table(direct')
       /\ \A k \in Args : \A l \in LeavesOf(k) :
             direct'[k][l] = IF k = b /\ l = v THEN meant ELSE direct[k][l]
  <2>1. direct' = [direct EXCEPT ![b][v] = meant]
    BY <1>9b
  <2>2. SetTo(direct', direct, b, v, meant)
    BY <1>7, <1>8, <1>9, <2>1, TableSet
  <2>3. QED
    BY <2>2 DEF SetTo
<1>12. /\ Table(copies')
       /\ \A k \in Args : \A l \in LeavesOf(k) :
             copies'[k][l] = IF ref # "%" /\ k = w /\ l = v THEN value ELSE copies[k][l]
  <2>1. CASE ref # "%"
    <3>1. copies' = [copies EXCEPT ![w][v] = value]
      BY <1>9b, <2>1
    <3>2. SetTo(copies', copies, w, v, value)
      BY <1>7, <1>8, <1>9, <3>1, TableSet
    <3>3. QED
      BY <2>1, <3>2 DEF SetTo
  <2>2. CASE ref = "%"
    <3>1. copies' = copies
      BY <1>9b, <2>2
    <3>2. QED
      BY <1>8, <2>2, <3>1
  <2>3. QED
    BY <2>1, <2>2
<1>13. CallShape'
  <2>1. writes + 1 \in 0..MaxWrites
    BY <1>1, <1>4, FunctionsAssumption DEF CallShape
  <2>2. QED
    BY <1>1, <1>4, <1>5, <2>1 DEF CallShape, Calling
<1>14. Binding'
  BY <1>1, <1>4, <1>5 DEF Binding
<1>15. Tables'
  <2>1. Table(buffers)' /\ Table(direct)' /\ Table(copies)'
    BY <1>5, <1>10, <1>11, <1>12 DEF Table
  <2>2. QED
    BY <2>1 DEF Tables
<1>16. Contents'
  <2>1. SUFFICES ASSUME NEW k \in Args, NEW l \in LeavesOf(k)
                 PROVE  (PointerIs(k, l) /\ BufferIs(k, l) /\ LastIs(k, l) /\ CopyIs(k, l) /\ AloneIs(k, l))'
    BY <1>5 DEF Contents
  <2>2. PointerIs(k, l) /\ BufferIs(k, l) /\ CopyIs(k, l) /\ AloneIs(k, l)
    BY <1>4 DEF Contents
  <2>3. bound[k] \in Args /\ l \in LeavesOf(bound[k]) /\ k \in Nat /\ k > 0 /\ w \in Nat
    BY <1>6, <1>7
  <2>4. k \in ByRef => buffers'[bound[k]][l] = buffers[bound[k]][l]
    BY <1>6, <1>7, <1>10, <2>3
  <2>5. PointerIs(k, l)' /\ BufferIs(k, l)'
    <3>1. buffers'[k][l] = OtherByte
             => fn.args[k].ref = "%" /\ l.type = kExternType /\ writes + 1 > 0 /\ GetsAddresses
      <4>1. CASE ref = "%" /\ k = b /\ l = v
        <5>1. fn.args[k].ref = "%" /\ writes + 1 > 0 /\ buffers'[k][l] = value
          BY <1>4, <1>7, <1>10, <4>1, FunctionsAssumption DEF CallShape
        <5>2. QED
          BY <1>9a, <4>1, <5>1
      <4>2. CASE ~(ref = "%" /\ k = b /\ l = v)
        <5>1. buffers'[k][l] = buffers[k][l]
          BY <1>10, <4>2
        <5>2. writes \in Int
          BY <1>4, FunctionsAssumption DEF CallShape
        <5>3. QED
          BY <2>2, <5>1, <5>2 DEF PointerIs
      <4>3. QED
        BY <4>1, <4>2
    <3>2. copies'[k][l] = OtherByte => l.type = kExternType /\ GetsAddresses
      BY <1>9a, <1>1, <1>4, <1>12, <2>2 DEF PointerIs
    <3>3. PointerIs(k, l)'
      BY <1>1, <1>5, <3>1, <3>2 DEF PointerIs
    <3>4. QED
      BY <1>1, <1>5, <2>2, <2>4, <3>3 DEF BufferIs
  <2>6. LastIs(k, l)'
    BY <1>1, <1>5, <2>3 DEF LastIs
  <2>7. Alone(k)' <=> Alone(k)
    BY <1>1, <1>5 DEF Alone
  <2>8. k \in ByRef /\ Alone(k) => bound[k] = k /\ (b = k => w = k)
    BY <1>4, <1>7, <2>3 DEF Alone, Binding, b
  <2>9. CopyIs(k, l)'
    <3>1. SUFFICES ASSUME k \in ByRef, Even(l)
                   PROVE  copies'[k][l] \in {Host, k} /\ (Alone(k) => copies'[k][l] = direct'[k][l])
      BY <1>1, <1>5, <2>7 DEF CopyIs
    <3>2. copies[k][l] \in {Host, k} /\ (Alone(k) => copies[k][l] = direct[k][l])
      BY <1>4, <2>2, <3>1 DEF CopyIs
    <3>2a. l = v /\ (k = w \/ b = k) => value = w /\ meant = w
      <4>1. l.type # kExternType
        BY <1>1, <1>4, <3>1, StoredIsPlain
      <4>2. QED
        BY <1>9a, <4>1
    <3>3. copies'[k][l] \in {Host, k}
      BY <1>12, <3>2, <3>2a
    <3>4. Alone(k) => copies'[k][l] = direct'[k][l]
      <4>1. SUFFICES ASSUME Alone(k) PROVE copies'[k][l] = direct'[k][l]
        OBVIOUS
      <4>2. bound[k] = k /\ fn.args[k].ref = "&" /\ (b = k <=> w = k)
        BY <1>6, <2>8, <3>1, <4>1 DEF b
      <4>3. w = k => ref = "&"
        BY <4>2 DEF ref
      <4>4. QED
        BY <1>11, <1>12, <3>2, <3>2a, <4>1, <4>2, <4>3
    <3>5. QED
      BY <3>3, <3>4
  <2>10. AloneIs(k, l)'
    <3>1. SUFFICES ASSUME k \in ByRef, Alone(k) PROVE buffers'[k][l] = Host
      BY <1>1, <1>5, <2>3, <2>7 DEF AloneIs
    <3>2. bound[k] = k
      BY <2>8, <3>1
    <3>3. QED
      BY <1>5, <2>2, <2>3, <2>4, <3>1, <3>2 DEF AloneIs
  <2>11. QED
    BY <2>5, <2>6, <2>9, <2>10
<1>17. ResultIs'
  BY <1>1 DEF ResultIs
<1>18. QED
  BY <1>13, <1>14, <1>15, <1>16, <1>17 DEF CallInv

LEMMA ReturnStep ==
  ASSUME SourceInv, CallInv, FunctionReturns, UNCHANGED layoutVars
  PROVE  CallInv'
<1>1. /\ pc = "function" /\ pc' = "back" /\ next' = 1 /\ fn' = fn /\ bound' = bound /\ writes' = writes
      /\ buffers' = buffers /\ copies' = copies /\ direct' = direct
  BY DEF FunctionReturns
<1>2. CallShape /\ Binding /\ Tables /\ Contents /\ Calling /\ Converted
  BY <1>1 DEF CallInv, Calling, Converted
<1>3. /\ \A k : LeavesOf(k)' = LeavesOf(k)
      /\ Args' = Args /\ ByRef' = ByRef /\ (GetsAddresses' <=> GetsAddresses)
      /\ FnFits(fn)' /\ IsWellTyped(fn)' /\ next = 0
  BY <1>1, <1>2, SameFunction DEF CallShape
<1>4. Len(fn.args) \in Nat /\ \A k \in Args : k \in Nat /\ k > 0
  BY <1>1, <1>2, ArgsAre
<1>5. CallShape'
  BY <1>1, <1>2, <1>3, <1>4 DEF CallShape, Calling
<1>6. Binding'
  BY <1>1, <1>2, <1>3 DEF Binding
<1>7. Tables'
  BY <1>1, <1>2, <1>3 DEF Tables, Table
<1>8. Contents'
  <2>1. SUFFICES ASSUME NEW k \in Args, NEW l \in LeavesOf(k)
                 PROVE  (PointerIs(k, l) /\ BufferIs(k, l) /\ LastIs(k, l) /\ CopyIs(k, l) /\ AloneIs(k, l))'
    BY <1>3 DEF Contents
  <2>2. PointerIs(k, l) /\ BufferIs(k, l) /\ CopyIs(k, l) /\ AloneIs(k, l) /\ k \in Nat /\ k > 0
    BY <1>2, <1>4 DEF Contents
  <2>3. Alone(k)' <=> Alone(k)
    BY <1>1, <1>3 DEF Alone
  <2>4. PointerIs(k, l)' /\ BufferIs(k, l)' /\ LastIs(k, l)'
    BY <1>1, <1>2, <1>3, <2>2 DEF PointerIs, BufferIs, LastIs
  <2>5. CopyIs(k, l)'
    BY <1>1, <1>2, <1>3, <2>2, <2>3 DEF CopyIs
  <2>6. AloneIs(k, l)'
    BY <1>1, <1>3, <2>2, <2>3 DEF AloneIs
  <2>7. QED
    BY <2>4, <2>5, <2>6
<1>9. ResultIs'
  BY <1>1 DEF ResultIs
<1>10. QED
  BY <1>5, <1>6, <1>7, <1>8, <1>9 DEF CallInv

LEMMA BackStep ==
  ASSUME SourceInv, CallInv, ConvertBack, UNCHANGED layoutVars
  PROVE  CallInv'
<1> DEFINE j == next
           b == bound[j]
           stored == StoredToPacked(fn.args[j].field)
<1>1. /\ pc = "back" /\ pc' = pc /\ j \in Args /\ next' = j + 1 /\ fn' = fn /\ bound' = bound
      /\ writes' = writes /\ copies' = copies /\ direct' = direct
      /\ buffers' = IF j \in ByRef
                    THEN [buffers EXCEPT ![b] = [l \in DOMAIN @ |-> IF l \in stored THEN copies[j][l] ELSE @[l]]]
                    ELSE buffers
  BY DEF ConvertBack, ByRef
<1>2. CallShape /\ Binding /\ Tables /\ Contents /\ Calling /\ Converted
  BY <1>1 DEF CallInv, Calling, Converted
<1>3. /\ \A k : LeavesOf(k)' = LeavesOf(k)
      /\ Args' = Args /\ ByRef' = ByRef /\ (GetsAddresses' <=> GetsAddresses)
      /\ FnFits(fn)' /\ IsWellTyped(fn)'
  BY <1>1, <1>2, SameFunction DEF CallShape
<1>4. Len(fn.args) \in Nat /\ Args = 1..Len(fn.args) /\ \A k \in Args : k \in Nat /\ k > 0
  BY <1>1, <1>2, ArgsAre
<1>5. /\ b \in Args /\ LeavesOf(b) = LeavesOf(j)
      /\ \A k \in Args : bound[k] \in Args /\ LeavesOf(bound[k]) = LeavesOf(k)
  BY <1>1, <1>2 DEF Binding, LeavesOf
<1>6. \A l \in LeavesOf(j) : l \in stored <=> Even(l)
  BY <1>1, <1>2, ArgsAre DEF EvenOf
<1>7. Table(buffers) /\ Table(direct) /\ Table(copies)
  BY <1>2 DEF Tables
<1> HIDE DEF b, stored
<1>8. /\ Table(buffers')
      /\ \A k \in Args : \A l \in LeavesOf(k) :
            buffers'[k][l] = IF j \in ByRef /\ k = b /\ Even(l) THEN copies[j][l] ELSE buffers[k][l]
  <2>1. CASE j \in ByRef
    <3> DEFINE r == [l \in DOMAIN buffers[b] |-> IF l \in stored THEN copies[j][l] ELSE buffers[b][l]]
    <3>1. buffers' = [buffers EXCEPT ![b] = r]
      BY <1>1, <2>1
    <3>2. /\ buffers[b] \in [LeavesOf(j) -> Int] /\ copies[j] \in [LeavesOf(j) -> Int]
          /\ buffers = [k \in Args |-> buffers[k]]
      BY <1>1, <1>5, <1>7 DEF Table
    <3>3. r \in [LeavesOf(j) -> Int] /\ \A l \in LeavesOf(j) : r[l] = IF Even(l) THEN copies[j][l] ELSE buffers[b][l]
      BY <1>6, <3>2
    <3> HIDE DEF r
    <3>4. buffers' = [k \in Args |-> IF k = b THEN r ELSE buffers[k]]
      BY <3>1, <3>2
    <3>5. Table(buffers')
      BY <1>5, <1>7, <3>3, <3>4 DEF Table
    <3>6. ASSUME NEW k \in Args, NEW l \in LeavesOf(k)
          PROVE  buffers'[k][l] = IF k = b /\ Even(l) THEN copies[j][l] ELSE buffers[k][l]
      <4>1. CASE k = b
        BY <1>5, <3>3, <3>4, <4>1
      <4>2. CASE k # b
        BY <3>4, <4>2
      <4>3. QED
        BY <4>1, <4>2
    <3>7. QED
      BY <2>1, <3>5, <3>6
  <2>2. CASE j \notin ByRef
    BY <1>1, <1>7, <2>2
  <2>3. QED
    BY <2>1, <2>2
<1>9. CallShape'
  BY <1>1, <1>2, <1>3, <1>4 DEF CallShape, Calling
<1>10. Binding'
  BY <1>1, <1>2, <1>3 DEF Binding
<1>11. Tables'
  <2>1. Table(buffers)' /\ Table(direct)' /\ Table(copies)'
    BY <1>1, <1>3, <1>7, <1>8 DEF Table
  <2>2. QED
    BY <2>1 DEF Tables
<1>12. Contents'
  <2>1. SUFFICES ASSUME NEW k \in Args, NEW l \in LeavesOf(k)
                 PROVE  (PointerIs(k, l) /\ BufferIs(k, l) /\ LastIs(k, l) /\ CopyIs(k, l) /\ AloneIs(k, l))'
    BY <1>3 DEF Contents
  <2>2. PointerIs(k, l) /\ BufferIs(k, l) /\ LastIs(k, l) /\ CopyIs(k, l) /\ AloneIs(k, l)
    BY <1>2 DEF Contents
  <2>3. /\ k \in Nat /\ k > 0 /\ j \in Nat /\ j > 0
        /\ bound[k] \in Args /\ l \in LeavesOf(bound[k])
    BY <1>1, <1>4, <1>5
  <2>4. Alone(k)' <=> Alone(k)
    BY <1>1, <1>3 DEF Alone
  <2>5. j \in ByRef /\ Even(l) /\ l \in LeavesOf(j) => copies[j][l] \in {Host, j}
    BY <1>1, <1>2 DEF Contents, CopyIs
  <2>6. buffers'[bound[k]][l] = IF j \in ByRef /\ bound[k] = b /\ Even(l) THEN copies[j][l] ELSE buffers[bound[k]][l]
    BY <1>8, <2>3
  <2>7. PointerIs(k, l)' /\ BufferIs(k, l)'
    <3>1. buffers'[k][l] = OtherByte => buffers[k][l] = OtherByte
      <4>1. CASE j \in ByRef /\ k = b /\ Even(l)
        <5>1. copies[j][l] \in {Host, j}
          BY <1>5, <2>5, <4>1
        <5>2. QED
          BY <1>8, <2>3, <4>1, <5>1 DEF Host, OtherByte
      <4>2. CASE ~(j \in ByRef /\ k = b /\ Even(l))
        BY <1>8, <4>2
      <4>3. QED
        BY <4>1, <4>2
    <3>2. k \in ByRef /\ (~Even(l) \/ j + 1 = 0) => buffers'[bound[k]][l] = Host
      BY <2>2, <2>3, <2>6 DEF BufferIs
    <3>3. PointerIs(k, l)'
      BY <1>1, <1>2, <1>3, <2>2, <3>1 DEF PointerIs
    <3>4. QED
      BY <1>1, <1>3, <3>2, <3>3 DEF BufferIs
  <2>8. LastIs(k, l)'
    <3>1. SUFFICES ASSUME k \in ByRef, k < j + 1, \A i \in Args : k < i /\ i < j + 1 => bound[i] # bound[k]
                   PROVE  buffers'[bound[k]][l] \in {Host, k}
      BY <1>1, <1>3 DEF LastIs
    <3>2. CASE k = j
      <4>1. ~Even(l) => buffers[bound[k]][l] = Host
        BY <2>2, <3>1 DEF BufferIs
      <4>2. Even(l) => copies[j][l] \in {Host, k}
        BY <2>5, <3>1, <3>2
      <4>3. QED
        BY <2>6, <3>1, <3>2, <4>1, <4>2 DEF b
    <3>3. CASE k # j
      <4>1. k < j /\ bound[j] # bound[k]
        BY <1>1, <2>3, <3>1, <3>3
      <4>2. \A i \in Args : k < i /\ i < j => bound[i] # bound[k]
        BY <1>4, <2>3, <3>1
      <4>3. buffers[bound[k]][l] \in {Host, k}
        BY <2>2, <3>1, <4>1, <4>2 DEF LastIs
      <4>4. QED
        BY <2>6, <4>1, <4>3 DEF b
    <3>4. QED
      BY <3>2, <3>3
  <2>9. CopyIs(k, l)'
    BY <1>1, <1>2, <1>3, <2>2, <2>4 DEF CopyIs
  <2>10. AloneIs(k, l)'
    <3>1. SUFFICES ASSUME k \in ByRef, Alone(k)
                   PROVE  buffers'[k][l] = IF k < j + 1 /\ Even(l) THEN copies[k][l] ELSE Host
      BY <1>1, <1>3, <2>4 DEF AloneIs
    <3>2. bound[k] = k
      BY <1>2, <2>3, <3>1 DEF Alone, Binding
    <3>3. buffers[k][l] = IF k < j /\ Even(l) THEN copies[k][l] ELSE Host
      BY <2>2, <3>1 DEF AloneIs
    <3>4. CASE k = j
      BY <2>3, <2>6, <3>1, <3>2, <3>3, <3>4 DEF b
    <3>5. CASE k # j
      <4>1. k # b
        BY <1>1, <3>1, <3>2, <3>5 DEF Alone, b
      <4>2. buffers'[k][l] = buffers[k][l]
        BY <2>6, <3>2, <4>1
      <4>3. k < j + 1 <=> k < j
        BY <2>3, <3>5
      <4>4. QED
        BY <3>3, <4>2, <4>3
    <3>6. QED
      BY <3>4, <3>5
  <2>11. QED
    BY <2>7, <2>8, <2>9, <2>10
<1>13. ResultIs'
  BY <1>1 DEF ResultIs
<1>14. QED
  BY <1>9, <1>10, <1>11, <1>12, <1>13 DEF CallInv

LEMMA EmptyPathIsEven == \A l : l.path = <<>> => Even(l)
<1>1. DOMAIN <<>> = {}
  OBVIOUS
<1>2. QED
  BY <1>1 DEF Even

LEMMA DoneStep ==
  ASSUME SourceInv, CallInv, WrapperReturns, UNCHANGED layoutVars
  PROVE  CallInv'
<1>1. /\ pc = "back" /\ next \notin Args /\ pc' = "done" /\ next' = next /\ fn' = fn /\ bound' = bound
      /\ writes' = writes /\ buffers' = buffers /\ copies' = copies /\ direct' = direct
      /\ result' = [l \in Leaves(fn.ret) |->
            IF HasWrapper(fn) /\ l \notin StoredToPacked(fn.ret) THEN Undefined ELSE next]
  BY DEF WrapperReturns
<1>2. CallShape /\ Binding /\ Tables /\ Contents /\ Calling /\ Converted
  BY <1>1 DEF CallInv, Calling, Converted
<1>3. /\ \A k : LeavesOf(k)' = LeavesOf(k)
      /\ Args' = Args /\ ByRef' = ByRef /\ (GetsAddresses' <=> GetsAddresses)
      /\ FnFits(fn)' /\ IsWellTyped(fn)'
  BY <1>1, <1>2, SameFunction DEF CallShape
<1>4. CallShape'
  BY <1>1, <1>2, <1>3 DEF CallShape, Calling
<1>5. Binding' /\ Tables'
  BY <1>1, <1>2, <1>3 DEF Binding, Tables, Table
<1>6. Contents'
  <2>1. SUFFICES ASSUME NEW k \in Args, NEW l \in LeavesOf(k)
                 PROVE  (PointerIs(k, l) /\ BufferIs(k, l) /\ LastIs(k, l) /\ CopyIs(k, l) /\ AloneIs(k, l))'
    BY <1>3 DEF Contents
  <2>2. PointerIs(k, l) /\ BufferIs(k, l) /\ LastIs(k, l) /\ CopyIs(k, l) /\ AloneIs(k, l)
    BY <1>2 DEF Contents
  <2>3. Alone(k)' <=> Alone(k)
    BY <1>1, <1>3 DEF Alone
  <2>4. PointerIs(k, l)' /\ BufferIs(k, l)' /\ LastIs(k, l)'
    BY <1>1, <1>2, <1>3, <2>2 DEF PointerIs, BufferIs, LastIs
  <2>5. CopyIs(k, l)' /\ AloneIs(k, l)'
    BY <1>1, <1>2, <1>3, <2>2, <2>3 DEF CopyIs, AloneIs
  <2>6. QED
    BY <2>4, <2>5
<1>7. ResultIs'
  <2>1. Len(fn.args) \in Nat /\ next # Undefined
    BY <1>1, <1>2, ArgsAre DEF CallShape, Undefined
  <2>2. SUFFICES ASSUME NEW l \in Leaves(fn.ret) PROVE result'[l] = Undefined <=> ~Even(l)
    BY <1>1 DEF ResultIs
  <2>3. CASE HasWrapper(fn)
    <3>1. l \in StoredToPacked(fn.ret) <=> Even(l)
      BY <1>1, <1>2, ArgsAre DEF EvenOf
    <3>2. QED
      BY <1>1, <2>1, <2>3, <3>1
  <2>4. CASE ~HasWrapper(fn)
    <3>1. fn.ret.arr = 0 /\ fn.ret.type # kStructure
      BY <1>1, <1>2, <2>4, ArgsAre DEF HasWrapper, IsPackedType, IsStruct, IsArray
    <3>2. l.path = <<>>
      BY <3>1, SimpleLeaves
    <3>3. QED
      BY <1>1, <2>1, <2>4, <3>2, EmptyPathIsEven
  <2>5. QED
    BY <2>3, <2>4
<1>8. QED
  BY <1>4, <1>5, <1>6, <1>7 DEF CallInv

LEMMA CallStays ==
  ASSUME CallInv, UNCHANGED vars
  PROVE  CallInv'
<1> USE DEF vars, callVars
<1>1. /\ \A k : LeavesOf(k)' = LeavesOf(k)
      /\ Args' = Args /\ ByRef' = ByRef /\ (GetsAddresses' <=> GetsAddresses)
      /\ (FnFits(fn)' <=> FnFits(fn)) /\ (IsWellTyped(fn)' <=> IsWellTyped(fn))
  BY SameFunction
<1>2. CallShape /\ Binding /\ Tables /\ Contents /\ ResultIs
  BY DEF CallInv
<1>3. CallShape'
  BY <1>1, <1>2 DEF CallShape, Calling
<1>4. Binding' /\ Tables'
  BY <1>1, <1>2 DEF Binding, Tables, Table, Calling, Converted
<1>5. Contents'
  <2>1. SUFFICES ASSUME Calling, NEW k \in Args, NEW l \in LeavesOf(k)
                 PROVE  (PointerIs(k, l) /\ BufferIs(k, l) /\ LastIs(k, l) /\ CopyIs(k, l) /\ AloneIs(k, l))'
    BY <1>1 DEF Contents, Calling
  <2>2. PointerIs(k, l) /\ BufferIs(k, l) /\ LastIs(k, l) /\ CopyIs(k, l) /\ AloneIs(k, l)
    BY <1>2, <2>1 DEF Contents
  <2>3. Alone(k)' <=> Alone(k)
    BY <1>1 DEF Alone
  <2>4. PointerIs(k, l)' /\ BufferIs(k, l)' /\ LastIs(k, l)'
    BY <1>1, <2>2 DEF PointerIs, BufferIs, LastIs, Converted
  <2>5. CopyIs(k, l)' /\ AloneIs(k, l)'
    BY <1>1, <2>2, <2>3 DEF CopyIs, AloneIs, Converted
  <2>6. QED
    BY <2>4, <2>5
<1>6. ResultIs'
  BY <1>2 DEF ResultIs
<1>7. QED
  BY <1>3, <1>4, <1>5, <1>6 DEF CallInv

IInv == LayoutInv /\ CallInv

LEMMA Inductive == IInv /\ [Next]_vars => IInv'
<1> SUFFICES ASSUME IInv, [Next]_vars PROVE IInv'
  OBVIOUS
<1>1. LayoutInv /\ SourceInv /\ CallInv
  BY DEF IInv, LayoutInv
<1>2. LayoutInv'
  BY <1>1, LayoutKept
<1>3. CallInv'
  <2>1. CASE LayoutNext /\ pc = "idle" /\ UNCHANGED callVars
    BY <1>1, <2>1, CallWaits
  <2>2. CASE CallNext /\ UNCHANGED layoutVars
    BY <1>1, <2>2, GetStep, CallsStep, ConvertStep, WriteStep, ReturnStep, BackStep, DoneStep DEF CallNext
  <2>3. CASE UNCHANGED vars
    BY <1>1, <2>3, CallStays
  <2>4. QED
    BY <2>1, <2>2, <2>3 DEF Next
<1>4. QED
  BY <1>2, <1>3 DEF IInv

LEMMA Invariance == Spec => []IInv
<1>1. Init => IInv
  BY LayoutStarts, CallStarts DEF Init, IInv
<1>2. QED
  BY <1>1, Inductive, PTL DEF Spec

LEMMA TypesAreOK == IInv => TypeOK
<1> SUFFICES ASSUME IInv PROVE TypeOK
  OBVIOUS
<1>1. SourceInv /\ DescsInv /\ MemoryInv /\ CallShape /\ Tables
  BY DEF IInv, LayoutInv, CallInv
<1>2. /\ DOMAIN structs = 1..Len(structs) /\ Len(structs) \in Nat
      /\ \A s \in 1..Len(structs) :
            /\ structs[s] \in Seq(AnyMember) /\ Len(structs[s]) > 0
            /\ \A i \in 1..Len(structs[s]) : structs[s][i] \in MembersOver(s - 1) /\ names[s][i] \in 1..i
  BY <1>1 DEF SourceInv
<1>3. \A s \in DOMAIN structs : structs[s] # <<>> /\ DOMAIN structs[s] = 1..Len(structs[s])
  BY <1>2
<1>4. \A s \in DOMAIN structs : structs[s] # <<>> /\ Range(structs[s]) \subseteq MembersOver(s - 1)
  BY <1>2, <1>3 DEF Range
<1>5. \A s \in DOMAIN structs : \A i \in DOMAIN structs[s] : names[s][i] \in 1..i
  BY <1>2, <1>3
<1>6. Len(types) <= Len(structs) /\ Len(descs) = Len(types)
  BY <1>1 DEF DescsInv
<1>7. /\ memory \in 0..Len(descs)
      /\ write.member \in 0..MaxMembers /\ write.first \in Nat /\ write.bytes \in Nat
  BY <1>1 DEF MemoryInv
<1>8. /\ pc \in {"idle", "address", "refused", "convert", "function", "back", "done"}
      /\ writes \in 0..MaxWrites
  BY <1>1 DEF CallShape
<1>9. next \in 0..(Len(fn.args) + 1)
  <2>1. CASE pc = "idle"
    BY <1>1, <2>1 DEF CallShape
  <2>2. CASE pc # "idle"
    <3>1. Len(fn.args) \in Nat
      BY <1>1, <2>2, ArgsAre
    <3>2. QED
      BY <1>1, <3>1 DEF CallShape
  <2>3. QED
    BY <2>1, <2>2
<1>10. \A b \in DOMAIN buffers : DOMAIN buffers[b] = Leaves(fn.args[b].field)
  <2>1. CASE Calling
    BY <1>1, <2>1 DEF Tables, Table, LeavesOf
  <2>2. CASE ~Calling
    BY <1>1, <2>2 DEF CallShape
  <2>3. QED
    BY <2>1, <2>2
<1>11. QED
  BY <1>4, <1>5, <1>6, <1>7, <1>8, <1>9, <1>10 DEF TypeOK

\* A value of a boolean type is converted, and its constants are ill-typed.
LEMMA BooleansAreIll ==
  ASSUME NEW f, f.arr = 0, IsBooleanType(f.type)
  PROVE  ~IsPackedType(f) /\ IllToPacked(f)
<1>1. f.type \in BooleanTypes
  BY DEF IsBooleanType
<1>2. f.type # kStructure /\ f.type # kVoid /\ (f.type = kBoolean \/ TypeElementCnt(f.type) > 1)
  BY <1>1 DEF BooleanTypes, TypeElementCnt, kStructure, kVoid,
     kFloat, kFloat2, kFloat3, kFloat4, kFloat8, kInt, kInt2, kInt3, kInt4, kInt8,
     kBoolean, kBoolean2, kBoolean3, kBoolean4, kBoolean8
<1>3. ~IsPackedType(f)
  BY <1>2 DEF IsPackedType, IsVector, IsArray
<1>4. [path |-> <<>>, type |-> f.type] \in StoredToPacked(f)
  BY <1>2, SimpleLeaves
<1>5. QED
  BY <1>3, <1>4 DEF IllToPacked

LEMMA RefusalsAre == IInv => RefusedForBooleans
<1> SUFFICES ASSUME IInv PROVE RefusedForBooleans
  OBVIOUS
<1>1. SourceInv /\ CallShape
  BY DEF IInv, LayoutInv, CallInv
<1> DEFINE has(f, ts) == \E l \in Leaves(f) : l.type \in ts
           converted  == {fn.args[k].field : k \in NeedJITPacked(fn)} \cup {fn.ret}
<1>2. ASSUME pc = "refused"
      PROVE  \E f \in converted : has(f, BooleanTypes \cup {kExternType})
  <2>1. ~IsWellTyped(fn)
    BY <1>1, <1>2 DEF CallShape
  <2>2. ASSUME NEW f, IllFromPacked(f) PROVE has(f, BooleanTypes \cup {kExternType})
    BY <2>2 DEF IllFromPacked, BooleanTypes
  <2>3. ASSUME NEW f, StoredToPacked(f) = EvenOf(Leaves(f)), IllToPacked(f)
        PROVE  has(f, BooleanTypes \cup {kExternType})
    BY <2>3 DEF IllToPacked, EvenOf, IsBooleanType
  <2>4. \A k \in NeedJITPacked(fn) : StoredToPacked(fn.args[k].field) = EvenOf(Leaves(fn.args[k].field))
    BY <1>1, <1>2, ArgsAre DEF ByRef, LeavesOf
  <2>5. StoredToPacked(fn.ret) = EvenOf(Leaves(fn.ret))
    BY <1>1, <1>2, ArgsAre
  <2> HIDE DEF has
  <2>6. QED
    BY <2>1, <2>2, <2>3, <2>4, <2>5 DEF IsWellTyped
<1>3. ASSUME pc \notin {"idle", "refused"}
      PROVE  /\ \A k \in NeedJITPacked(fn) : ~has(fn.args[k].field, {kBoolean})
             /\ ~IsBooleanType(fn.ret.type)
  <2>1. IsWellTyped(fn) /\ fn.ret.arr = 0
    BY <1>1, <1>3, ArgsAre DEF CallShape
  <2>2. \A k \in NeedJITPacked(fn) : ~has(fn.args[k].field, {kBoolean})
    BY <2>1 DEF IsWellTyped, IllFromPacked
  <2>3. ~IsBooleanType(fn.ret.type)
    BY <2>1, BooleansAreIll DEF IsWellTyped, HasWrapper
  <2>4. QED
    BY <2>2, <2>3
<1>4. QED
  BY <1>2, <1>3 DEF RefusedForBooleans

LEMMA CopiesReachHost == IInv => CopiedBack
<1> SUFFICES ASSUME IInv, pc = "done" PROVE CopiedBack
  BY DEF CopiedBack
<1>1. SourceInv /\ CallShape /\ Contents /\ ResultIs /\ Calling /\ Converted
  BY DEF IInv, LayoutInv, CallInv, Calling, Converted
<1>2. /\ Len(fn.args) \in Nat /\ Args = 1..Len(fn.args) /\ NeedJITPacked(fn) \subseteq Args
      /\ next \in 1..(Len(fn.args) + 1) /\ next \notin Args
  BY <1>1, ArgsAre DEF CallShape, ByRef
<1>3. ASSUME NEW k \in NeedJITPacked(fn), Alone(k), NEW l \in Leaves(fn.args[k].field)
      PROVE  buffers[k][l] = IF Even(l) THEN direct[k][l] ELSE Host
  <2>1. CopyIs(k, l) /\ AloneIs(k, l)
    BY <1>1, <1>2 DEF Contents, LeavesOf
  <2>2. k < next
    BY <1>2
  <2>3. QED
    BY <1>1, <1>3, <2>1, <2>2 DEF CopyIs, AloneIs, ByRef
<1>4. QED
  BY <1>1, <1>3 DEF CopiedBack, ResultIs

LEMMA LastCopyIsThere == IInv => LastCopyWins
<1> SUFFICES ASSUME IInv, pc = "done", NEW k \in NeedJITPacked(fn),
                    \A j \in Args : j > k => bound[j] # bound[k],
                    NEW l \in Leaves(fn.args[k].field)
             PROVE  buffers[bound[k]][l] \in {Host, k}
  BY DEF LastCopyWins
<1>1. SourceInv /\ CallShape /\ Contents /\ Calling
  BY DEF IInv, LayoutInv, CallInv, Calling
<1>2. /\ Len(fn.args) \in Nat /\ Args = 1..Len(fn.args) /\ NeedJITPacked(fn) \subseteq Args
      /\ next \in 1..(Len(fn.args) + 1) /\ next \notin Args
  BY <1>1, ArgsAre DEF CallShape, ByRef
<1>3. LastIs(k, l)
  BY <1>1, <1>2 DEF Contents, LeavesOf
<1>4. k < next /\ \A j \in Args : k < j /\ j < next => bound[j] # bound[k]
  BY <1>2
<1>5. QED
  BY <1>3, <1>4 DEF LastIs, ByRef

LEMMA LeaksAre == IInv => OnlyFunctionsLeakPointers
<1> SUFFICES ASSUME IInv, NEW b \in DOMAIN buffers, NEW l \in DOMAIN buffers[b], buffers[b][l] = OtherByte
             PROVE  /\ fn.args[b].ref = "%" /\ l.type = kExternType /\ writes > 0
                    /\ \E k \in NeedJITPacked(fn) : \E m \in Leaves(fn.args[k].field) :
                          m.path # <<>> /\ m.type = kExternType
  BY DEF OnlyFunctionsLeakPointers
<1>1. CallShape /\ Tables /\ Contents
  BY DEF IInv, CallInv
<1>2. CASE Calling
  <2>1. b \in Args /\ l \in LeavesOf(b)
    BY <1>1, <1>2 DEF Tables, Table
  <2>2. fn.args[b].ref = "%" /\ l.type = kExternType /\ writes > 0 /\ GetsAddresses
    BY <1>1, <1>2, <2>1 DEF Contents, PointerIs
  <2>3. QED
    BY <2>2 DEF GetsAddresses, ByRef, LeavesOf
<1>3. CASE ~Calling
  BY <1>1, <1>3 DEF CallShape
<1>4. QED
  BY <1>2, <1>3

(***************************************************************************)
(* The sizes of structures, as the host is told them and as they are.      *)
(***************************************************************************)

AtMost(s, t) ==
  s \in Seq(Nat) /\ t \in Seq(Nat) /\ Len(s) = Len(t) /\ \A i \in 1..Len(s) : s[i] <= t[i]

LEMMA SumsCompared ==
  ASSUME NEW s, NEW t, AtMost(s, t)
  PROVE  /\ Sum(s) \in Nat /\ Sum(t) \in Nat /\ Sum(s) <= Sum(t)
         /\ Sum(s) = Sum(t) <=> \A i \in 1..Len(s) : s[i] = t[i]
<1> DEFINE n == Len(s)
<1>a. s \in Seq(Nat) /\ t \in Seq(Nat) /\ Len(s) = Len(t) /\ \A i \in 1..n : s[i] <= t[i]
  BY DEF AtMost
<1>1. n \in Nat /\ \A i \in 1..n : s[i] \in Nat /\ t[i] \in Nat
  BY <1>a
<1>2. s \in Seq(Int) /\ t \in Seq(Int)
  BY <1>a
<1>3. PICK f : IsSum(f, s, n) /\ Sum(s) = f[n]
  BY <1>2, SumIs
<1>4. PICK g : IsSum(g, t, n) /\ Sum(t) = g[n]
  BY <1>a, <1>2, SumIs
<1>5. f[0] = 0 /\ g[0] = 0 /\ \A k \in 0..(n - 1) : /\ f[k + 1] = f[k] + s[n - k]
                                                  /\ g[k + 1] = g[k] + t[n - k]
  <2>1. f[0] = 0 /\ \A k \in 0..(n - 1) : f[k + 1] = f[k] + s[n - k]
    BY <1>1, <1>3, SumSteps
  <2>2. g[0] = 0 /\ \A k \in 0..(n - 1) : g[k + 1] = g[k] + t[Len(t) - k]
    BY <1>1, <1>4, SumSteps
  <2>3. QED
    BY <1>a, <2>1, <2>2
<1> DEFINE Below(k) == /\ f[k] \in Nat /\ g[k] \in Nat /\ f[k] <= g[k]
                       /\ f[k] = g[k] <=> \A i \in (n - k + 1)..n : s[i] = t[i]
           T == {k \in Nat : k <= n => Below(k)}
<1>6. 0 \in T
  BY <1>1, <1>5
<1>7. ASSUME NEW k \in Nat, k \in T PROVE k + 1 \in T
  <2>1. SUFFICES ASSUME k + 1 <= n PROVE Below(k + 1)
    OBVIOUS
  <2>2. Below(k)
    BY <1>1, <1>7, <2>1
  <2> DEFINE i == n - k
  <2>3. k \in 0..(n - 1) /\ i \in 1..n /\ n - (k + 1) + 1 = i /\ n - k + 1 = i + 1
    BY <1>1, <2>1
  <2>n. i \in Int /\ n \in Int /\ i <= n
    BY <1>1, <2>3
  <2>4. f[k + 1] = f[k] + s[i] /\ g[k + 1] = g[k] + t[i] /\ s[i] \in Nat /\ t[i] \in Nat /\ s[i] <= t[i]
    BY <1>1, <1>5, <1>a, <2>3
  <2>5. f[k] \in Nat /\ g[k] \in Nat /\ f[k] <= g[k] /\ (f[k] = g[k] <=> \A j \in (i + 1)..n : s[j] = t[j])
    BY <2>2, <2>3
  <2> HIDE DEF i, n
  <2>6. \A j : j \in i..n <=> j = i \/ j \in (i + 1)..n
    BY <2>n
  <2>7. /\ f[k + 1] \in Nat /\ g[k + 1] \in Nat /\ f[k + 1] <= g[k + 1]
        /\ f[k + 1] = g[k + 1] <=> f[k] = g[k] /\ s[i] = t[i]
    <3> DEFINE a == f[k]
               b == g[k]
               c == s[i]
               d == t[i]
    <3>1. a \in Nat /\ b \in Nat /\ c \in Nat /\ d \in Nat /\ a <= b /\ c <= d
      BY <2>4, <2>5
    <3>2. f[k + 1] = a + c /\ g[k + 1] = b + d
      BY <2>4
    <3> HIDE DEF a, b, c, d
    <3>3. a + c \in Nat /\ b + d \in Nat /\ a + c <= b + d /\ (a + c = b + d <=> a = b /\ c = d)
      BY <3>1
    <3>4. QED
      BY <3>2, <3>3 DEF a, b, c, d
  <2>8. (\A j \in i..n : s[j] = t[j]) <=> s[i] = t[i] /\ \A j \in (i + 1)..n : s[j] = t[j]
    BY <2>6
  <2>9. QED
    BY <2>3, <2>5, <2>7, <2>8
<1> HIDE DEF T
<1>8. Nat \subseteq T
  BY <1>6, <1>7, SetInduction
<1>9. Below(n)
  <2>1. n \in T
    BY <1>1, <1>8
  <2>2. QED
    BY <1>1, <2>1 DEF T
<1>10. n - n + 1 = 1
  BY <1>1
<1>11. QED
  BY <1>3, <1>4, <1>9, <1>10

\* What LLVM lays out is no smaller than the sum of its parts, and no larger
\* when they need no padding.
LEMMA LayTotal ==
  ASSUME NEW size, NEW align, Lists(size, align)
  PROVE  LET l == Lay(size, align)
         IN  /\ Sum(size) \in Nat /\ Sum(size) <= l.size
             /\ (\A i \in 1..Len(size) : align[i] = 4 /\ size[i] % 4 = 0)
                  => l.size = Sum(size) /\ l.align = 4 /\ l.size % 4 = 0
<1> DEFINE l == Lay(size, align)
           o == l.offsets
           n == Len(size)
           Plain == \A i \in 1..n : align[i] = 4 /\ size[i] % 4 = 0
<1>1. /\ n \in Nat /\ n > 0
      /\ \A i \in 1..n : size[i] \in Nat /\ align[i] \in Nat /\ align[i] > 0
  BY ListParts
<1>2. AreOffsets(o, size, align)
  BY LayOffsets
<1>3. o[1] = 0 /\ \A i \in 1..n : o[i] \in Nat
  BY <1>2 DEF AreOffsets
<1>4. /\ l.align \in {align[i] : i \in 1..n} /\ l.align \in Nat \ {0} /\ l.size \in Nat
      /\ o[n] + size[n] <= l.size /\ l.size = RoundUp(o[n] + size[n], l.align)
  BY LayIs
<1>5. size \in Seq(Nat) /\ size \in Seq(Int)
  BY DEF Lists
<1>6. Sum(size) \in Nat
  BY <1>5, SumType
<1> HIDE DEF l, o, n
<1>7. PICK f : IsSum(f, size, n) /\ Sum(size) = f[n]
  BY <1>5, SumIs DEF n
<1>8. f \in [0..n -> Int] /\ f[0] = 0 /\ \A k \in 0..(n - 1) : f[k + 1] = f[k] + size[n - k]
  BY <1>1, <1>7, SumSteps DEF n
<1>9. ASSUME NEW i \in 1..(n - 1)
      PROVE  /\ o[i] + size[i] <= o[i + 1]
             /\ Plain /\ o[i] % 4 = 0 => o[i + 1] = o[i] + size[i] /\ o[i + 1] % 4 = 0
  <2>1. i \in 1..n /\ i + 1 \in 1..n
    BY <1>1
  <2>2. o[i + 1] = RoundUp(o[i] + size[i], align[i + 1])
    BY <1>2 DEF AreOffsets, n
  <2>3. o[i] + size[i] \in Nat /\ align[i + 1] \in Nat /\ align[i + 1] > 0
    BY <1>1, <1>3, <2>1
  <2>4. /\ o[i] + size[i] <= o[i + 1]
        /\ o[i + 1] = o[i] + size[i] <=> (o[i] + size[i]) % align[i + 1] = 0
    BY <2>2, <2>3, Rounded
  <2>5. ASSUME Plain, o[i] % 4 = 0 PROVE o[i + 1] = o[i] + size[i] /\ o[i + 1] % 4 = 0
    <3>1. align[i + 1] = 4 /\ size[i] % 4 = 0 /\ o[i] \in Nat /\ size[i] \in Nat
      BY <1>1, <1>3, <2>1, <2>5
    <3>2. (o[i] + size[i]) % 4 = 0
      BY <2>5, <3>1
    <3>3. QED
      BY <2>4, <3>1, <3>2
  <2>6. QED
    BY <2>4, <2>5
<1> DEFINE Fours == {i \in Nat : i + 1 \in 1..n => o[i + 1] % 4 = 0}
<1>10. ASSUME Plain, NEW i \in 1..n PROVE o[i] % 4 = 0
  <2>1. 0 \in Fours
    BY <1>3
  <2>2. ASSUME NEW k \in Nat, k \in Fours PROVE k + 1 \in Fours
    <3>1. SUFFICES ASSUME (k + 1) + 1 \in 1..n PROVE o[(k + 1) + 1] % 4 = 0
      OBVIOUS
    <3>2. k + 1 \in 1..(n - 1) /\ k + 1 \in 1..n
      BY <1>1, <3>1
    <3>3. o[k + 1] % 4 = 0
      BY <2>2, <3>2
    <3>4. QED
      BY <1>9, <1>10, <3>2, <3>3
  <2> HIDE DEF Fours
  <2>3. Nat \subseteq Fours
    BY <2>1, <2>2, SetInduction
  <2>4. i - 1 \in Nat /\ (i - 1) + 1 = i
    BY <1>1
  <2>5. QED
    BY <2>3, <2>4 DEF Fours
<1> DEFINE Rest(k) == /\ o[n - k] + f[k + 1] <= o[n] + size[n]
                      /\ Plain => o[n - k] + f[k + 1] = o[n] + size[n]
           T == {k \in Nat : k < n => Rest(k)}
<1>11. 0 \in T
  <2>1. 0 \in 0..(n - 1) /\ n - 0 = n /\ n \in 1..n
    BY <1>1
  <2>2. f[0 + 1] = size[n] /\ o[n] \in Nat /\ size[n] \in Nat
    BY <1>1, <1>3, <1>8, <2>1
  <2>3. QED
    BY <2>1, <2>2
<1>12. ASSUME NEW k \in Nat, k \in T PROVE k + 1 \in T
  <2>1. SUFFICES ASSUME k + 1 < n PROVE Rest(k + 1)
    OBVIOUS
  <2> DEFINE i == n - (k + 1)
  <2>2. /\ i \in 1..(n - 1) /\ i \in 1..n /\ n - k = i + 1 /\ i + 1 \in 1..n
        /\ k + 1 \in 0..(n - 1) /\ k + 1 \in 0..n /\ (k + 1) + 1 \in 0..n
    BY <1>1, <2>1
  <2>3. o[i + 1] + f[k + 1] <= o[n] + size[n] /\ (Plain => o[i + 1] + f[k + 1] = o[n] + size[n])
    <3>1. Rest(k)
      BY <1>1, <1>12, <2>1
    <3>2. QED
      BY <2>2, <3>1
  <2>4. f[(k + 1) + 1] = f[k + 1] + size[i]
    BY <1>8, <2>2
  <2>5. /\ o[i] \in Nat /\ o[i + 1] \in Nat /\ size[i] \in Nat /\ f[k + 1] \in Int
        /\ o[n] \in Nat /\ size[n] \in Nat
    <3>1. n \in 1..n
      BY <1>1
    <3>2. QED
      BY <1>1, <1>3, <1>8, <2>2, <3>1
  <2>6. o[i] + size[i] <= o[i + 1] /\ (Plain => o[i + 1] = o[i] + size[i])
    BY <1>9, <1>10, <2>2
  <2> HIDE DEF Plain, i
  <2>7. /\ o[i] + f[(k + 1) + 1] <= o[n] + size[n]
        /\ Plain => o[i] + f[(k + 1) + 1] = o[n] + size[n]
    BY <2>3, <2>4, <2>5, <2>6
  <2>8. QED
    BY <2>7 DEF i
<1>13. Sum(size) <= o[n] + size[n] /\ (Plain => Sum(size) = o[n] + size[n])
  <2> HIDE DEF T, Plain
  <2>1. Nat \subseteq T
    BY <1>11, <1>12, SetInduction
  <2>2. n - 1 \in Nat /\ n - (n - 1) = 1 /\ (n - 1) + 1 = n /\ n - 1 < n
    BY <1>1
  <2>3. Rest(n - 1)
    BY <2>1, <2>2 DEF T
  <2>4. QED
    BY <1>3, <1>6, <1>7, <2>2, <2>3
<1>14. n \in 1..n /\ o[n] \in Nat /\ size[n] \in Nat
  BY <1>1, <1>3
<1>15. ASSUME Plain PROVE l.size = Sum(size) /\ l.align = 4 /\ l.size % 4 = 0
  <2>1. l.align = 4
    BY <1>4, <1>15
  <2>2. (o[n] + size[n]) % 4 = 0
    BY <1>10, <1>14, <1>15
  <2>3. RoundUp(o[n] + size[n], 4) = o[n] + size[n]
    <3> DEFINE x == o[n] + size[n]
    <3>1. x \in Nat /\ x % 4 = 0 /\ 4 \in Nat /\ 4 > 0
      BY <1>14, <2>2
    <3> HIDE DEF x
    <3>2. RoundUp(x, 4) = x
      BY <3>1, Rounded
    <3>3. QED
      BY <3>2 DEF x
  <2>4. QED
    BY <1>4, <1>13, <1>15, <2>1, <2>2, <2>3
<1>16. Sum(size) <= l.size
  BY <1>4, <1>6, <1>13, <1>14
<1>17. QED
  BY <1>6, <1>15, <1>16 DEF l, n

LEMMA TypeBytes ==
  ASSUME NEW t \in MemberTypes
  PROVE  LET x == TypePackedSize(t) IN x \in Nat /\ x > 0 /\ x % 4 = 0
<1>1. t \in ValueTypes \cup {kExternType}
  BY LayoutAssumption
<1>2. CASE t = kExternType
  <2>1. ~IsValueType(t)
    BY <1>2 DEF IsValueType, ValueTypes, FloatTypes, IntegerTypes, BooleanTypes, kExternType,
                kFloat, kFloat2, kFloat3, kFloat4, kFloat8, kInt, kInt2, kInt3, kInt4, kInt8,
                kBoolean, kBoolean2, kBoolean3, kBoolean4, kBoolean8
  <2>2. TypePackedSize(t) = 8
    BY <1>2, <2>1 DEF TypePackedSize
  <2>3. QED
    BY <2>2
<1>3. CASE t \in ValueTypes
  <2>1. t # kExternType
    BY <1>3 DEF ValueTypes, FloatTypes, IntegerTypes, BooleanTypes, kExternType,
                kFloat, kFloat2, kFloat3, kFloat4, kFloat8, kInt, kInt2, kInt3, kInt4, kInt8,
                kBoolean, kBoolean2, kBoolean3, kBoolean4, kBoolean8
  <2>2. TypePackedSize(t) = 4 * TypeElementCnt(t)
    BY <1>3, <2>1 DEF TypePackedSize, IsValueType
  <2>3. TypeElementCnt(t) \in {1, 2, 3, 4, 8}
    BY <1>3 DEF TypeElementCnt, ValueTypes, FloatTypes, IntegerTypes, BooleanTypes,
                kFloat, kFloat2, kFloat3, kFloat4, kFloat8, kInt, kInt2, kInt3, kInt4, kInt8,
                kBoolean, kBoolean2, kBoolean3, kBoolean4, kBoolean8
  <2>4. QED
    BY <2>2, <2>3
<1>4. QED
  BY <1>1, <1>2, <1>3

LEMMA Multiples ==
  ASSUME NEW n \in Nat, n > 0, NEW b \in Nat, b > 0, NEW c \in Nat, b <= c
  PROVE  /\ n * b \in Nat /\ n * c \in Nat /\ b <= n * b /\ n * b <= n * c
         /\ (n * b = b <=> n = 1)
         /\ c % 4 = 0 => (n * c) % 4 = 0
<1> DEFINE m == n - 1
<1>1. m \in Nat /\ n = m + 1
  OBVIOUS
<1> HIDE DEF m
<1>2. n * b = m * b + b /\ m * b \in Nat
  BY <1>1
<1>3. m > 0 => m * b > 0
  BY <1>1
<1>4. n * c = n * b + n * (c - b) /\ n * (c - b) \in Nat /\ n * c \in Nat /\ n * b \in Nat
  BY <1>1
<1>5. ASSUME c % 4 = 0 PROVE (n * c) % 4 = 0
  <2> DEFINE q == c \div 4
  <2>1. q \in Nat /\ c = q * 4
    BY <1>5
  <2> HIDE DEF q
  <2>2. n * c = (n * q) * 4 /\ n * q \in Nat
    BY <2>1
  <2>3. QED
    BY <2>2
<1>6. n * b = b <=> n = 1
  BY <1>1, <1>2, <1>3
<1>7. QED
  BY <1>2, <1>4, <1>5, <1>6

\* A part of a description: what KSC_GetTypePackedSize counts for it.
ToldBytes(f, ofStruct) == IF f.type = kStructure THEN ofStruct[f.str] ELSE TypePackedSize(f.type)

HasExtern(leaves) == \E l \in leaves : l.type = kExternType

\* A size told, all leaves, and the packed type; the leaves tell it to be exact.
Compares(told, plain, packed, leaves) ==
  /\ told \in Nat /\ told > 0 /\ plain \in Nat /\ told <= plain
  /\ packed.size \in Nat /\ packed.align \in Nat /\ packed.align > 0 /\ plain <= packed.size
  /\ HasExtern(leaves) \/ (packed.align = 4 /\ packed.size % 4 = 0 /\ packed.size = plain)

LEMMA ExternUnder ==
  ASSUME NEW i, NEW L, HasExtern(L)
  PROVE  HasExtern(Under(i, L))
<1>1. PICK l \in L : l.type = kExternType
  BY DEF HasExtern
<1>2. [path |-> <<i>> \o l.path, type |-> l.type] \in Under(i, L)
  BY DEF Under
<1>3. QED
  BY <1>1, <1>2 DEF HasExtern

LEMMA FieldBytes ==
  ASSUME NEW k \in Nat, NEW f, FieldOver(f, k), f.type # kVoid,
         NEW told, NEW plain, NEW packed, NEW leaves, NEW has,
         \A j \in 1..k : Compares(told[j], plain[j], packed[j], leaves[j]) /\ (told[j] = plain[j] <=> ~has[j]),
         \A j \in 1..k : packed[j] = [size |-> packed[j].size, align |-> packed[j].align]
  PROVE  /\ Compares(ToldBytes(f, told), LeafBytesOver(f, plain), PackedOver(f, packed), LeavesOver(f, leaves, 1))
         /\ ToldBytes(f, told) = LeafBytesOver(f, plain) <=> ~HasArrayOver(f, has)
<1> DEFINE a   == ToldBytes(f, told)
           b   == IF f.type = kStructure THEN plain[f.str] ELSE TypePackedSize(f.type)
           c   == IF f.type = kStructure THEN packed[f.str]
                  ELSE [size |-> TypePackedSize(f.type), align |-> IF f.type = kExternType THEN 8 ELSE 4]
           one == IF f.type = kStructure THEN leaves[f.str]
                  ELSE {[path |-> <<>>, type |-> t] : t \in {f.type} \ {kVoid}}
           h   == f.type = kStructure /\ has[f.str]
<1>1. f.arr \in Nat
  BY DEF FieldOver
<1>2. Compares(a, b, c, one) /\ (a = b <=> ~h) /\ c = [size |-> c.size, align |-> c.align]
  <2>1. CASE f.type = kStructure
    <3>1. f.str \in 1..k
      BY <2>1 DEF FieldOver
    <3>2. a = told[f.str] /\ b = plain[f.str] /\ c = packed[f.str] /\ one = leaves[f.str] /\ (h <=> has[f.str])
      BY <2>1 DEF ToldBytes
    <3> HIDE DEF a, b, c, one, h
    <3>3. QED
      BY <3>1, <3>2
  <2>2. CASE f.type # kStructure
    <3> DEFINE x == TypePackedSize(f.type)
    <3>1. f.type \in MemberTypes
      BY <2>2 DEF FieldOver
    <3>2. x \in Nat /\ x > 0 /\ x % 4 = 0
      BY <3>1, TypeBytes
    <3>3. a = x /\ b = x /\ c = [size |-> x, align |-> IF f.type = kExternType THEN 8 ELSE 4] /\ ~h
      BY <2>2 DEF ToldBytes
    <3>4. [path |-> <<>>, type |-> f.type] \in one
      BY <2>2
    <3> HIDE DEF a, b, c, one, h, x
    <3>5. f.type = kExternType => HasExtern(one)
      BY <3>4 DEF HasExtern
    <3>6. c.size = x /\ c.align = (IF f.type = kExternType THEN 8 ELSE 4)
      BY <3>3
    <3>7. Compares(a, b, c, one)
      BY <3>2, <3>3, <3>5, <3>6 DEF Compares
    <3>8. QED
      BY <3>3, <3>6, <3>7
  <2>3. QED
    BY <2>1, <2>2
<1>3. /\ LeafBytesOver(f, plain) = (IF IsArray(f) THEN f.arr ELSE 1) * b
      /\ PackedOver(f, packed) = [c EXCEPT !.size = IF IsArray(f) THEN f.arr * @ ELSE @]
      /\ LeavesOver(f, leaves, 1) = IF IsArray(f) THEN UNION {Under(i, one) : i \in Indices(f.arr, 1)} ELSE one
      /\ HasArrayOver(f, has) <=> f.arr > 1 \/ h
  BY DEF LeafBytesOver, PackedOver, LeavesOver, HasArrayOver
<1> HIDE DEF a, b, c, one, h
<1>n. /\ a \in Nat /\ a > 0 /\ b \in Nat /\ a <= b /\ c.size \in Nat /\ b <= c.size
      /\ c.align \in Nat /\ c.align > 0
      /\ HasExtern(one) \/ (c.align = 4 /\ c.size % 4 = 0 /\ c.size = b)
  BY <1>2 DEF Compares
<1>4. CASE f.arr = 0
  <2>1. LeafBytesOver(f, plain) = b /\ LeavesOver(f, leaves, 1) = one /\ (HasArrayOver(f, has) <=> h)
    BY <1>n, <1>3, <1>4 DEF IsArray
  <2>2. PackedOver(f, packed) = c
    BY <1>2, <1>3, <1>4 DEF IsArray
  <2>3. QED
    BY <1>2, <2>1, <2>2 DEF a
<1>5. CASE f.arr # 0
  <2> DEFINE n == f.arr
             p == PackedOver(f, packed)
  <2>1. n \in Nat /\ n > 0 /\ IsArray(f)
    BY <1>1, <1>5 DEF IsArray
  <2>2. LeafBytesOver(f, plain) = n * b /\ (HasArrayOver(f, has) <=> n > 1 \/ h)
    BY <1>3, <2>1
  <2>3. p.size = n * c.size /\ p.align = c.align
    BY <1>2, <1>3, <2>1
  <2>4. LeavesOver(f, leaves, 1) = UNION {Under(i, one) : i \in Indices(n, 1)}
    BY <1>3, <2>1
  <2>5. HasExtern(one) => HasExtern(LeavesOver(f, leaves, 1))
    <3>1. SUFFICES ASSUME HasExtern(one) PROVE HasExtern(LeavesOver(f, leaves, 1))
      OBVIOUS
    <3>2. 0 \in Indices(n, 1)
      BY <2>1 DEF Indices
    <3>3. HasExtern(Under(0, one))
      BY <3>1, ExternUnder
    <3>4. QED
      BY <2>4, <3>2, <3>3 DEF HasExtern
  <2> HIDE DEF n, p
  <2> DEFINE d == c.size
  <2>6. d \in Nat /\ b \in Nat /\ b > 0 /\ b <= d
    BY <1>n
  <2> HIDE DEF d
  <2>7. /\ n * b \in Nat /\ n * d \in Nat /\ b <= n * b /\ n * b <= n * d
        /\ (n * b = b <=> n = 1)
        /\ d % 4 = 0 => (n * d) % 4 = 0
    BY ONLY <2>1, <2>6, Multiples
  <2>8. a = n * b <=> ~(n > 1 \/ h)
    BY <1>n, <1>2, <2>1, <2>7
  <2>9. p.size = n * d /\ (HasExtern(one) \/ (c.align = 4 /\ d % 4 = 0 /\ d = b))
    BY <1>n, <2>3 DEF d
  <2>10. Compares(a, n * b, p, LeavesOver(f, leaves, 1))
    BY <1>n, <2>3, <2>5, <2>7, <2>9 DEF Compares
  <2>11. QED
    BY <2>2, <2>8, <2>10 DEF a, p
<1>6. QED
  BY <1>4, <1>5

\* Of a structure, given its elements.
ListCompares(n, A, B, S, R, leaves) ==
  /\ n \in Nat /\ n > 0
  /\ A = [i \in 1..n |-> A[i]] /\ B = [i \in 1..n |-> B[i]]
  /\ S = [i \in 1..n |-> S[i]] /\ R = [i \in 1..n |-> R[i]]
  /\ \A i \in 1..n : Compares(A[i], B[i], [size |-> S[i], align |-> R[i]], leaves)

TotalsCompare(n, A, B, S, R, leaves) ==
  /\ Compares(Sum(A), Sum(B), [size |-> Lay(S, R).size, align |-> Lay(S, R).align], leaves)
  /\ Sum(A) = Sum(B) <=> \A i \in 1..n : A[i] = B[i]

LEMMA ListBytes ==
  ASSUME NEW n, NEW A, NEW B, NEW S, NEW R, NEW leaves, ListCompares(n, A, B, S, R, leaves)
  PROVE  TotalsCompare(n, A, B, S, R, leaves)
<1>1. \A i \in 1..n : /\ A[i] \in Nat /\ A[i] > 0 /\ B[i] \in Nat /\ A[i] <= B[i]
                      /\ S[i] \in Nat /\ B[i] <= S[i] /\ R[i] \in Nat \ {0}
                      /\ HasExtern(leaves) \/ (R[i] = 4 /\ S[i] % 4 = 0 /\ S[i] = B[i])
  BY DEF ListCompares, Compares
<1>2. A \in [1..n -> Nat] /\ B \in [1..n -> Nat] /\ S \in [1..n -> Nat] /\ R \in [1..n -> Nat \ {0}]
  BY <1>1 DEF ListCompares
<1>3. /\ n \in Nat /\ n > 0
      /\ A \in Seq(Nat) /\ B \in Seq(Nat) /\ S \in Seq(Nat) /\ R \in Seq(Nat \ {0})
      /\ Len(A) = n /\ Len(B) = n /\ Len(S) = n /\ Len(R) = n
  BY <1>2 DEF ListCompares
<1>4. Lists(S, R)
  BY <1>3 DEF Lists
<1> DEFINE l == Lay(S, R)
<1>5. l.size \in Nat /\ l.align \in Nat \ {0}
  BY <1>4, LayIs
<1>6. /\ Sum(A) \in Nat /\ Sum(B) \in Nat /\ Sum(A) <= Sum(B)
      /\ Sum(A) = Sum(B) <=> \A i \in 1..n : A[i] = B[i]
  <2>1. AtMost(A, B) /\ Len(A) = n
    BY <1>1, <1>3 DEF AtMost
  <2>2. QED
    BY ONLY <2>1, SumsCompared
<1>7. /\ Sum(B) <= Sum(S) /\ Sum(S) \in Nat
      /\ Sum(B) = Sum(S) <=> \A i \in 1..n : B[i] = S[i]
  <2>1. AtMost(B, S) /\ Len(B) = n
    BY <1>1, <1>3 DEF AtMost
  <2>2. QED
    BY ONLY <2>1, SumsCompared
<1>8. Sum(S) <= l.size /\ ((\A i \in 1..n : R[i] = 4 /\ S[i] % 4 = 0)
                              => l.size = Sum(S) /\ l.align = 4 /\ l.size % 4 = 0)
  BY <1>3, <1>4, LayTotal
<1>9. Sum(A) > 0
  <2>1. A[1] <= Sum(A) /\ A[1] > 0
    <3>1. 1 \in 1..Len(A) /\ 1 \in 1..n
      BY <1>3
    <3>2. A[1] <= Sum(A)
      BY ONLY <1>3, <3>1, SumType
    <3>3. QED
      BY <1>1, <3>1, <3>2
  <2>2. A[1] \in Nat /\ 1 \in 1..n
    BY <1>1, <1>3
  <2>3. QED
    BY <1>6, <2>1, <2>2
<1> HIDE DEF l
<1>10. HasExtern(leaves) \/ (l.align = 4 /\ l.size % 4 = 0 /\ l.size = Sum(B))
  <2>1. SUFFICES ASSUME ~HasExtern(leaves) PROVE l.align = 4 /\ l.size % 4 = 0 /\ l.size = Sum(B)
    OBVIOUS
  <2>2. \A i \in 1..n : R[i] = 4 /\ S[i] % 4 = 0 /\ S[i] = B[i]
    BY <1>1, <2>1
  <2>3. QED
    BY <1>7, <1>8, <2>2
<1> DEFINE c == [size |-> l.size, align |-> l.align]
<1>11. c.size = l.size /\ c.align = l.align
  OBVIOUS
<1> HIDE DEF c
<1>12. Sum(B) <= l.size
  BY <1>5, <1>6, <1>7, <1>8
<1>13. Compares(Sum(A), Sum(B), c, leaves)
  BY <1>5, <1>6, <1>9, <1>10, <1>11, <1>12 DEF Compares
<1>14. QED
  BY <1>6, <1>13 DEF c, l, TotalsCompare

\* The recursions over the structures.
HasBody(es, f, s)   == \E i \in DOMAIN es[s] : HasArrayOver(es[s][i], f)
PlainBody(es, f, s) == Sum([i \in DOMAIN es[s] |-> LeafBytesOver(es[s][i], f)])
ToldBody(es, f, s)  == Sum([i \in DOMAIN es[s] |-> ToldBytes(es[s][i], f)])
SizesOver(m, f)     == [i \in DOMAIN m |-> PackedOver(m[i], f).size]
AlignsOver(m, f)    == [i \in DOMAIN m |-> PackedOver(m[i], f).align]
PackedBody(es, f, s) ==
  LET l == Lay(SizesOver(es[s], f), AlignsOver(es[s], f)) IN [size |-> l.size, align |-> l.align]

PackedType == [size : Nat \ {0}, align : Nat \ {0}]

AreHas(g, es)    == g \in [1..Len(es) -> BOOLEAN] /\ \A s \in 1..Len(es) : g[s] = HasBody(es, g, s)
ArePlain(g, es)  == g \in [1..Len(es) -> Nat] /\ \A s \in 1..Len(es) : g[s] = PlainBody(es, g, s)
AreSizes(g, es)  == g \in [1..Len(es) -> Nat] /\ \A s \in 1..Len(es) : g[s] = ToldBody(es, g, s)
ArePacked(g, es) == g \in [1..Len(es) -> PackedType] /\ \A s \in 1..Len(es) : g[s] = PackedBody(es, g, s)

LEMMA HasAreTyped ==
  ASSUME NEW es, ElementsGood(es), NEW s \in 1..Len(es), NEW f
  PROVE  /\ HasBody(es, f, s) \in BOOLEAN
         /\ \A h : (\A j \in 1..(s - 1) : h[j] = f[j]) => HasBody(es, h, s) = HasBody(es, f, s)
<1>1. \A h : HasBody(es, h, s) \in BOOLEAN
  BY DEF HasBody
<1>2. ASSUME NEW h, \A j \in 1..(s - 1) : h[j] = f[j] PROVE HasBody(es, h, s) <=> HasBody(es, f, s)
  <2>1. ASSUME NEW i \in DOMAIN es[s] PROVE HasArrayOver(es[s][i], h) <=> HasArrayOver(es[s][i], f)
    <3>1. es[s][i].type = kStructure => es[s][i].str \in 1..(s - 1)
      BY DEF ElementsGood, FieldOver
    <3>2. QED
      BY <1>2, <3>1 DEF HasArrayOver
  <2>2. QED
    BY <2>1 DEF HasBody
<1>3. QED
  BY <1>1, <1>2

\* A field over the structures in front looks at no other.
LEMMA FieldSame ==
  ASSUME NEW f, NEW k, FieldOver(f, k), NEW g, NEW h, \A j \in 1..k : h[j] = g[j]
  PROVE  /\ LeafBytesOver(f, h) = LeafBytesOver(f, g) /\ ToldBytes(f, h) = ToldBytes(f, g)
         /\ PackedOver(f, h) = PackedOver(f, g)
<1>1. f.type = kStructure => h[f.str] = g[f.str]
  BY DEF FieldOver
<1>2. QED
  BY <1>1 DEF LeafBytesOver, ToldBytes, PackedOver

LEMMA PlainAreTyped ==
  ASSUME NEW es, ElementsGood(es), NEW s \in 1..Len(es), NEW f, \A j \in 1..(s - 1) : f[j] \in Nat
  PROVE  /\ PlainBody(es, f, s) \in Nat
         /\ \A h : (\A j \in 1..(s - 1) : h[j] = f[j]) => PlainBody(es, h, s) = PlainBody(es, f, s)
<1> DEFINE m == es[s]
           V(h) == [i \in DOMAIN m |-> LeafBytesOver(m[i], h)]
<1>1. Len(m) \in Nat /\ DOMAIN m = 1..Len(m)
  BY DEF ElementsGood
<1>2. ASSUME NEW i \in 1..Len(m) PROVE FieldOver(m[i], s - 1) /\ m[i].type # kVoid
  BY DEF ElementsGood
<1> HIDE DEF m
<1>3. ASSUME NEW i \in 1..Len(m) PROVE LeafBytesOver(m[i], f) \in Nat
  <2>1. CASE m[i].type = kStructure
    <3>1. f[m[i].str] \in Nat /\ m[i].arr \in Nat
      BY <1>2, <2>1 DEF FieldOver
    <3>2. QED
      BY <2>1, <3>1 DEF LeafBytesOver, IsArray
  <2>2. CASE m[i].type # kStructure
    <3>1. TypePackedSize(m[i].type) \in Nat /\ m[i].arr \in Nat
      BY <1>2, <2>2, TypeBytes DEF FieldOver
    <3>2. QED
      BY <2>2, <3>1 DEF LeafBytesOver, IsArray
  <2>3. QED
    BY <2>1, <2>2
<1>4. V(f) \in Seq(Nat)
  BY <1>1, <1>3
<1>5. ASSUME NEW h, \A j \in 1..(s - 1) : h[j] = f[j] PROVE V(h) = V(f)
  <2>1. \A i \in DOMAIN m : LeafBytesOver(m[i], h) = LeafBytesOver(m[i], f)
    BY <1>1, <1>2, <1>5, FieldSame
  <2>2. QED
    BY <2>1
<1>6. \A h : PlainBody(es, h, s) = Sum(V(h))
  BY DEF PlainBody, m
<1> HIDE DEF V
<1>7. Sum(V(f)) \in Nat
  BY <1>4, SumType
<1>8. QED
  BY <1>5, <1>6, <1>7

LEMMA ToldAreTyped ==
  ASSUME NEW es, ElementsGood(es), NEW s \in 1..Len(es), NEW f, \A j \in 1..(s - 1) : f[j] \in Nat
  PROVE  /\ ToldBody(es, f, s) \in Nat
         /\ \A h : (\A j \in 1..(s - 1) : h[j] = f[j]) => ToldBody(es, h, s) = ToldBody(es, f, s)
<1> DEFINE m == es[s]
           V(h) == [i \in DOMAIN m |-> ToldBytes(m[i], h)]
<1>1. Len(m) \in Nat /\ DOMAIN m = 1..Len(m)
  BY DEF ElementsGood
<1>2. ASSUME NEW i \in 1..Len(m) PROVE FieldOver(m[i], s - 1) /\ m[i].type # kVoid
  BY DEF ElementsGood
<1> HIDE DEF m
<1>3. ASSUME NEW i \in 1..Len(m) PROVE ToldBytes(m[i], f) \in Nat
  <2>1. CASE m[i].type = kStructure
    BY <1>2, <2>1 DEF FieldOver, ToldBytes
  <2>2. CASE m[i].type # kStructure
    BY <1>2, <2>2, TypeBytes DEF FieldOver, ToldBytes
  <2>3. QED
    BY <2>1, <2>2
<1>4. V(f) \in Seq(Nat)
  BY <1>1, <1>3
<1>5. ASSUME NEW h, \A j \in 1..(s - 1) : h[j] = f[j] PROVE V(h) = V(f)
  <2>1. \A i \in DOMAIN m : ToldBytes(m[i], h) = ToldBytes(m[i], f)
    BY <1>1, <1>2, <1>5, FieldSame
  <2>2. QED
    BY <2>1
<1>6. \A h : ToldBody(es, h, s) = Sum(V(h))
  BY DEF ToldBody, m
<1> HIDE DEF V
<1>7. Sum(V(f)) \in Nat
  BY <1>4, SumType
<1>8. QED
  BY <1>5, <1>6, <1>7

\* The descriptions of these elements, as far as their sizes are computed of them.
AreOf(ds, es) ==
  /\ Len(ds) = Len(es)
  /\ \A s \in 1..Len(es) :
        /\ DOMAIN ds[s].members = DOMAIN es[s]
        /\ \A i \in DOMAIN es[s] :
              /\ ds[s].members[i].type = es[s][i].type /\ ds[s].members[i].hStruct = es[s][i].str
              /\ es[s][i].str = 0 <=> es[s][i].type # kStructure

DescBody(ds, f, s) ==
  Sum([i \in DOMAIN ds[s].members |->
          IF ds[s].members[i].hStruct = 0
          THEN TypePackedSize(ds[s].members[i].type)
          ELSE f[ds[s].members[i].hStruct]])

LEMMA DescBodyIs ==
  ASSUME NEW es, NEW ds, AreOf(ds, es), NEW s \in 1..Len(es), NEW f
  PROVE  DescBody(ds, f, s) = ToldBody(es, f, s)
<1> DEFINE V == [i \in DOMAIN ds[s].members |->
                    IF ds[s].members[i].hStruct = 0
                    THEN TypePackedSize(ds[s].members[i].type)
                    ELSE f[ds[s].members[i].hStruct]]
           W == [i \in DOMAIN es[s] |-> ToldBytes(es[s][i], f)]
<1>1. V = W
  BY DEF AreOf, ToldBytes
<1>2. DescBody(ds, f, s) = Sum(V) /\ ToldBody(es, f, s) = Sum(W)
  BY DEF DescBody, ToldBody
<1> HIDE DEF V, W
<1>3. QED
  BY <1>1, <1>2

LEMMA PackedAreTyped ==
  ASSUME NEW es, ElementsGood(es), NEW s \in 1..Len(es), NEW f, \A j \in 1..(s - 1) : f[j] \in PackedType
  PROVE  /\ PackedBody(es, f, s) \in PackedType
         /\ \A h : (\A j \in 1..(s - 1) : h[j] = f[j]) => PackedBody(es, h, s) = PackedBody(es, f, s)
<1> DEFINE m == es[s]
           S == SizesOver(m, f)
           R == AlignsOver(m, f)
<1>1. Len(m) \in Nat /\ Len(m) > 0 /\ DOMAIN m = 1..Len(m)
  BY DEF ElementsGood
<1>2. ASSUME NEW i \in 1..Len(m) PROVE FieldOver(m[i], s - 1) /\ m[i].type # kVoid
  BY DEF ElementsGood
<1>3. \A h : PackedBody(es, h, s) = [size |-> Lay(SizesOver(m, h), AlignsOver(m, h)).size,
                                     align |-> Lay(SizesOver(m, h), AlignsOver(m, h)).align]
  BY DEF PackedBody
<1> HIDE DEF m
<1>4. ASSUME NEW i \in 1..Len(m)
      PROVE  PackedOver(m[i], f).size \in Nat \ {0} /\ PackedOver(m[i], f).align \in Nat \ {0}
  <2> DEFINE t == m[i]
             one == IF t.type = kStructure THEN f[t.str]
                    ELSE [size |-> TypePackedSize(t.type), align |-> IF t.type = kExternType THEN 8 ELSE 4]
             n == t.arr
  <2>1. n \in Nat
    BY <1>2 DEF FieldOver
  <2>2. one \in PackedType
    <3>1. CASE t.type = kStructure
      BY <1>2, <3>1 DEF FieldOver
    <3>2. CASE t.type # kStructure
      <4>1. TypePackedSize(t.type) \in Nat /\ TypePackedSize(t.type) > 0
        BY <1>2, <3>2, TypeBytes DEF FieldOver
      <4>2. QED
        BY <3>2, <4>1 DEF PackedType
    <3>3. QED
      BY <3>1, <3>2
  <2>3. PackedOver(t, f) = [one EXCEPT !.size = IF IsArray(t) THEN n * @ ELSE @]
    BY DEF PackedOver
  <2>4. IsArray(t) <=> n > 0
    BY DEF IsArray
  <2> HIDE DEF one, n
  <2> DEFINE x == one.size
  <2>5. x \in Nat /\ x > 0 /\ one.align \in Nat \ {0}
    BY <2>2 DEF PackedType
  <2>6. PackedOver(t, f).size = (IF n > 0 THEN n * x ELSE x) /\ PackedOver(t, f).align = one.align
    BY <2>2, <2>3, <2>4 DEF PackedType
  <2> HIDE DEF x, t
  <2>7. n > 0 => n * x \in Nat /\ x <= n * x
    BY <2>1, <2>5, Multiples
  <2>8. PackedOver(t, f).size \in Nat \ {0} /\ PackedOver(t, f).align \in Nat \ {0}
    BY <2>5, <2>6, <2>7
  <2>9. QED
    BY <2>8 DEF t
<1>5. S \in [1..Len(m) -> Nat \ {0}] /\ R \in [1..Len(m) -> Nat \ {0}]
  BY <1>1, <1>4 DEF SizesOver, AlignsOver
<1>6. ASSUME NEW h, \A j \in 1..(s - 1) : h[j] = f[j]
      PROVE  SizesOver(m, h) = S /\ AlignsOver(m, h) = R
  <2>1. \A i \in DOMAIN m : PackedOver(m[i], h) = PackedOver(m[i], f)
    BY <1>1, <1>2, <1>6, FieldSame
  <2>2. QED
    BY <2>1 DEF SizesOver, AlignsOver
<1> HIDE DEF S, R
<1>7. Lists(S, R)
  <2>1. S \in Seq(Nat) /\ R \in Seq(Nat \ {0}) /\ Len(S) = Len(m) /\ Len(R) = Len(m)
    BY <1>1, <1>5
  <2>2. QED
    BY <1>1, <2>1 DEF Lists
<1> DEFINE l == Lay(S, R)
<1>8. l.align \in Nat \ {0} /\ l.size \in Nat /\ Sum(S) \in Nat /\ Sum(S) <= l.size
  BY <1>7, LayIs, LayTotal
<1>9. l.size > 0
  <2>1. S \in Seq(Nat) /\ 1 \in 1..Len(S) /\ S[1] \in Nat /\ S[1] > 0
    BY <1>1, <1>5
  <2>2. S[1] <= Sum(S)
    BY ONLY <2>1, SumType
  <2> HIDE DEF l
  <2>3. QED
    BY <1>8, <2>1, <2>2
<1>10. PackedBody(es, f, s) = [size |-> l.size, align |-> l.align]
  BY <1>3 DEF S, R
<1> HIDE DEF l
<1>11. PackedBody(es, f, s) \in PackedType
  BY <1>8, <1>9, <1>10 DEF PackedType
<1>12. \A h : (\A j \in 1..(s - 1) : h[j] = f[j]) => PackedBody(es, h, s) = PackedBody(es, f, s)
  BY <1>3, <1>6 DEF S, R
<1>13. QED
  BY <1>11, <1>12

LEMMA HasAre ==
  ASSUME NEW es, ElementsGood(es)
  PROVE  AreHas(StructsHaveArrays(es), es)
<1> DEFINE n == Len(es)
           D == BOOLEAN
           G == [s \in 1..n |-> [f \in [1..n -> D] |-> HasBody(es, f, s)]]
           g == CHOOSE f : f = [s \in 1..n |-> HasBody(es, f, s)]
<1>1. n \in Nat
  BY SeqParts DEF ElementsGood
<1>2. ASSUME NEW s \in 1..n, NEW f, \A j \in 1..(s - 1) : f[j] \in D
      PROVE  /\ HasBody(es, f, s) \in D
             /\ \A h : (\A j \in 1..(s - 1) : h[j] = f[j]) => HasBody(es, h, s) = HasBody(es, f, s)
  BY HasAreTyped
<1>3. StructsHaveArrays(es) = g
  BY DEF StructsHaveArrays, HasBody
<1> HIDE DEF g
<1>4. \A s \in 1..n : \A f \in [1..n -> D] : /\ G[s][f] = HasBody(es, f, s)
                                            /\ \A j \in 1..(s - 1) : f[j] \in D
  OBVIOUS
<1> HIDE DEF G
<1>5. LooksBack(G, n, D)
  <2>1. \A s \in 1..n : \A f \in [1..n -> D] : G[s][f] \in D
    BY <1>2, <1>4
  <2>2. \A s \in 1..n : \A f, h \in [1..n -> D] :
            (\A j \in 1..(s - 1) : f[j] = h[j]) => G[s][f] = G[s][h]
    <3> TAKE s \in 1..n
    <3> TAKE f, h \in [1..n -> D]
    <3> HAVE \A j \in 1..(s - 1) : f[j] = h[j]
    <3>1. \A j \in 1..(s - 1) : h[j] \in D
      BY <1>4
    <3>2. HasBody(es, f, s) = HasBody(es, h, s)
      BY <3>1, <1>2
    <3>3. G[s][f] = HasBody(es, f, s) /\ G[s][h] = HasBody(es, h, s)
      BY <1>4
    <3>4. QED
      BY <3>2, <3>3, Zenon
  <2>3. QED
    BY <2>1, <2>2 DEF LooksBack
<1>6. D # {}
  OBVIOUS
<1> HIDE DEF n, D
<1>7. PICK f : Follows(f, G, n, D)
  BY <1>1, <1>5, <1>6, Recursion
<1>8. f = [s \in 1..n |-> HasBody(es, f, s)]
  BY <1>4, <1>7 DEF Follows
<1>9. g = [s \in 1..n |-> HasBody(es, g, s)]
  BY <1>8 DEF g
<1>10. 1..n \subseteq {s \in 1..n : g[s] \in D}
  <2> DEFINE T == {s \in 1..n : g[s] \in D}
  <2>1. ASSUME NEW s \in 1..n, \A j \in 1..(s - 1) : j \in T PROVE s \in T
    <3>1. HasBody(es, g, s) \in D
      BY <1>2, <2>1
    <3>2. QED
      BY <1>9, <3>1
  <2> HIDE DEF T
  <2>2. 1..n \subseteq T
    BY <1>1, <2>1, StrongInduction
  <2>3. QED
    BY <2>2 DEF T
<1>11. g \in [1..n -> D] /\ \A s \in 1..n : g[s] = HasBody(es, g, s)
  BY <1>9, <1>10
<1>12. QED
  BY <1>3, <1>11 DEF AreHas, n, D

LEMMA PlainAre ==
  ASSUME NEW es, ElementsGood(es)
  PROVE  ArePlain(StructsLeafBytes(es), es)
<1> DEFINE n == Len(es)
           D == Nat
           G == [s \in 1..n |-> [f \in [1..n -> D] |-> PlainBody(es, f, s)]]
           g == CHOOSE f : f = [s \in 1..n |-> PlainBody(es, f, s)]
<1>1. n \in Nat
  BY SeqParts DEF ElementsGood
<1>2. ASSUME NEW s \in 1..n, NEW f, \A j \in 1..(s - 1) : f[j] \in D
      PROVE  /\ PlainBody(es, f, s) \in D
             /\ \A h : (\A j \in 1..(s - 1) : h[j] = f[j]) => PlainBody(es, h, s) = PlainBody(es, f, s)
  BY <1>2, PlainAreTyped
<1>3. StructsLeafBytes(es) = g
  BY DEF StructsLeafBytes, PlainBody
<1> HIDE DEF g
<1>4. \A s \in 1..n : \A f \in [1..n -> D] : /\ G[s][f] = PlainBody(es, f, s)
                                            /\ \A j \in 1..(s - 1) : f[j] \in D
  OBVIOUS
<1> HIDE DEF G
<1>5. LooksBack(G, n, D)
  <2>1. \A s \in 1..n : \A f \in [1..n -> D] : G[s][f] \in D
    BY <1>2, <1>4
  <2>2. \A s \in 1..n : \A f, h \in [1..n -> D] :
            (\A j \in 1..(s - 1) : f[j] = h[j]) => G[s][f] = G[s][h]
    BY <1>2, <1>4
  <2>3. QED
    BY <2>1, <2>2 DEF LooksBack
<1>6. D # {}
  OBVIOUS
<1> HIDE DEF n, D
<1>7. PICK f : Follows(f, G, n, D)
  BY <1>1, <1>5, <1>6, Recursion
<1>8. f = [s \in 1..n |-> PlainBody(es, f, s)]
  BY <1>4, <1>7 DEF Follows
<1>9. g = [s \in 1..n |-> PlainBody(es, g, s)]
  BY <1>8 DEF g
<1>10. 1..n \subseteq {s \in 1..n : g[s] \in D}
  <2> DEFINE T == {s \in 1..n : g[s] \in D}
  <2>1. ASSUME NEW s \in 1..n, \A j \in 1..(s - 1) : j \in T PROVE s \in T
    <3>1. PlainBody(es, g, s) \in D
      BY <1>2, <2>1
    <3>2. QED
      BY <1>9, <3>1
  <2> HIDE DEF T
  <2>2. 1..n \subseteq T
    BY <1>1, <2>1, StrongInduction
  <2>3. QED
    BY <2>2 DEF T
<1>11. g \in [1..n -> D] /\ \A s \in 1..n : g[s] = PlainBody(es, g, s)
  BY <1>9, <1>10
<1>12. QED
  BY <1>3, <1>11 DEF ArePlain, n, D

LEMMA PackedAre ==
  ASSUME NEW es, ElementsGood(es)
  PROVE  ArePacked(StructsPacked(es), es)
<1> DEFINE n == Len(es)
           D == PackedType
           G == [s \in 1..n |-> [f \in [1..n -> D] |-> PackedBody(es, f, s)]]
           g == CHOOSE f : f = [s \in 1..n |-> PackedBody(es, f, s)]
<1>1. n \in Nat
  BY SeqParts DEF ElementsGood
<1>2. ASSUME NEW s \in 1..n, NEW f, \A j \in 1..(s - 1) : f[j] \in D
      PROVE  /\ PackedBody(es, f, s) \in D
             /\ \A h : (\A j \in 1..(s - 1) : h[j] = f[j]) => PackedBody(es, h, s) = PackedBody(es, f, s)
  BY <1>2, PackedAreTyped
<1>3. StructsPacked(es) = g
  BY DEF StructsPacked, PackedBody, SizesOver, AlignsOver
<1> HIDE DEF g
<1>4. \A s \in 1..n : \A f \in [1..n -> D] : /\ G[s][f] = PackedBody(es, f, s)
                                            /\ \A j \in 1..(s - 1) : f[j] \in D
  OBVIOUS
<1> HIDE DEF G
<1>5. LooksBack(G, n, D)
  <2>1. \A s \in 1..n : \A f \in [1..n -> D] : G[s][f] \in D
    BY <1>2, <1>4
  <2>2. \A s \in 1..n : \A f, h \in [1..n -> D] :
            (\A j \in 1..(s - 1) : f[j] = h[j]) => G[s][f] = G[s][h]
    BY <1>2, <1>4
  <2>3. QED
    BY <2>1, <2>2 DEF LooksBack
<1>6. D # {}
  <2>1. [size |-> 1, align |-> 1] \in D
    BY DEF PackedType
  <2>2. QED
    BY <2>1
<1> HIDE DEF n, D
<1>7. PICK f : Follows(f, G, n, D)
  BY <1>1, <1>5, <1>6, Recursion
<1>8. f = [s \in 1..n |-> PackedBody(es, f, s)]
  BY <1>4, <1>7 DEF Follows
<1>9. g = [s \in 1..n |-> PackedBody(es, g, s)]
  BY <1>8 DEF g
<1>10. 1..n \subseteq {s \in 1..n : g[s] \in D}
  <2> DEFINE T == {s \in 1..n : g[s] \in D}
  <2>1. ASSUME NEW s \in 1..n, \A j \in 1..(s - 1) : j \in T PROVE s \in T
    <3>1. PackedBody(es, g, s) \in D
      BY <1>2, <2>1
    <3>2. QED
      BY <1>9, <3>1
  <2> HIDE DEF T
  <2>2. 1..n \subseteq T
    BY <1>1, <2>1, StrongInduction
  <2>3. QED
    BY <2>2 DEF T
<1>11. g \in [1..n -> D] /\ \A s \in 1..n : g[s] = PackedBody(es, g, s)
  BY <1>9, <1>10
<1>12. QED
  BY <1>3, <1>11 DEF ArePacked, n, D

LEMMA ToldAre ==
  ASSUME NEW es, ElementsGood(es), NEW ds, AreOf(ds, es)
  PROVE  AreSizes(PackedSizes(ds), es)
<1> DEFINE n == Len(es)
           D == Nat
           G == [s \in 1..n |-> [f \in [1..n -> D] |-> ToldBody(es, f, s)]]
           g == CHOOSE f : f = [s \in 1..n |-> DescBody(ds, f, s)]
<1>1. n \in Nat
  BY SeqParts DEF ElementsGood
<1>2. ASSUME NEW s \in 1..n, NEW f, \A j \in 1..(s - 1) : f[j] \in D
      PROVE  /\ ToldBody(es, f, s) \in D
             /\ \A h : (\A j \in 1..(s - 1) : h[j] = f[j]) => ToldBody(es, h, s) = ToldBody(es, f, s)
  BY <1>2, ToldAreTyped
<1>3. PackedSizes(ds) = g
  <2>1. Len(ds) = n
    BY DEF AreOf
  <2>2. PackedSizes(ds) = CHOOSE f : f = [s \in 1..Len(ds) |-> DescBody(ds, f, s)]
    BY DEF PackedSizes, DescBody
  <2>3. QED
    BY <2>1, <2>2
<1> HIDE DEF g
<1>4. \A s \in 1..n : \A f \in [1..n -> D] : /\ G[s][f] = ToldBody(es, f, s)
                                            /\ \A j \in 1..(s - 1) : f[j] \in D
  OBVIOUS
<1> HIDE DEF G
<1>5. LooksBack(G, n, D)
  <2>1. \A s \in 1..n : \A f \in [1..n -> D] : G[s][f] \in D
    BY <1>2, <1>4
  <2>2. \A s \in 1..n : \A f, h \in [1..n -> D] :
            (\A j \in 1..(s - 1) : f[j] = h[j]) => G[s][f] = G[s][h]
    BY <1>2, <1>4
  <2>3. QED
    BY <2>1, <2>2 DEF LooksBack
<1>6. D # {}
  OBVIOUS
<1> HIDE DEF n, D
<1>7. PICK f : Follows(f, G, n, D)
  BY <1>1, <1>5, <1>6, Recursion
<1>8. \A h : [s \in 1..n |-> DescBody(ds, h, s)] = [s \in 1..n |-> ToldBody(es, h, s)]
  BY DescBodyIs DEF n
<1>9. g = [s \in 1..n |-> ToldBody(es, g, s)]
  <2>1. f = [s \in 1..n |-> ToldBody(es, f, s)]
    BY <1>4, <1>7 DEF Follows
  <2>2. f = [s \in 1..n |-> DescBody(ds, f, s)]
    BY <1>8, <2>1
  <2>3. g = [s \in 1..n |-> DescBody(ds, g, s)]
    BY <2>2 DEF g
  <2>4. QED
    BY <1>8, <2>3
<1>10. 1..n \subseteq {s \in 1..n : g[s] \in D}
  <2> DEFINE T == {s \in 1..n : g[s] \in D}
  <2>1. ASSUME NEW s \in 1..n, \A j \in 1..(s - 1) : j \in T PROVE s \in T
    <3>1. ToldBody(es, g, s) \in D
      BY <1>2, <2>1
    <3>2. QED
      BY <1>9, <3>1
  <2> HIDE DEF T
  <2>2. 1..n \subseteq T
    BY <1>1, <2>1, StrongInduction
  <2>3. QED
    BY <2>2 DEF T
<1>11. g \in [1..n -> D] /\ \A s \in 1..n : g[s] = ToldBody(es, g, s)
  BY <1>9, <1>10
<1>12. QED
  BY <1>3, <1>11 DEF AreSizes, n, D

LEMMA StructBytes ==
  ASSUME NEW es, ElementsGood(es), NEW ds, AreOf(ds, es)
  PROVE  \A s \in 1..Len(es) :
            /\ Compares(PackedSizes(ds)[s], StructsLeafBytes(es)[s], StructsPacked(es)[s], StructLeaves(es, 1)[s])
            /\ PackedSizes(ds)[s] = StructsLeafBytes(es)[s] <=> ~StructsHaveArrays(es)[s]
<1> DEFINE n == Len(es)
           told   == PackedSizes(ds)
           plain  == StructsLeafBytes(es)
           packed == StructsPacked(es)
           leaves == StructLeaves(es, 1)
           has    == StructsHaveArrays(es)
           Good(s) == Compares(told[s], plain[s], packed[s], leaves[s]) /\ (told[s] = plain[s] <=> ~has[s])
           T == {s \in 1..n : Good(s)}
<1>1. AreSizes(told, es) /\ ArePlain(plain, es) /\ ArePacked(packed, es) /\ AreHas(has, es)
  BY ToldAre, PlainAre, PackedAre, HasAre
<1>2. AreLeaves(leaves, es, 1)
  BY StructLeavesAre
<1>3. n \in Nat
  BY SeqParts DEF ElementsGood
<1> HIDE DEF told, plain, packed, leaves, has
<1>4. ASSUME NEW s \in 1..n, \A j \in 1..(s - 1) : j \in T PROVE s \in T
  <2> DEFINE m == es[s]
             l == Len(m)
             A == [i \in 1..l |-> ToldBytes(m[i], told)]
             B == [i \in 1..l |-> LeafBytesOver(m[i], plain)]
             S == [i \in 1..l |-> PackedOver(m[i], packed).size]
             R == [i \in 1..l |-> PackedOver(m[i], packed).align]
             L == [i \in 1..l |-> LeavesOver(m[i], leaves, 1)]
  <2>1. l \in Nat /\ l > 0 /\ DOMAIN m = 1..l
    BY DEF ElementsGood
  <2>2. ASSUME NEW i \in 1..l
        PROVE  /\ Compares(A[i], B[i], PackedOver(m[i], packed), L[i])
               /\ A[i] = B[i] <=> ~HasArrayOver(m[i], has)
    <3> DEFINE f == m[i]
               k == s - 1
    <3>1. FieldOver(f, k) /\ f.type # kVoid /\ k \in Nat
      BY DEF ElementsGood
    <3>2. \A j \in 1..k : j \in T /\ j \in 1..n
      BY <1>3, <1>4
    <3>3. \A j \in 1..k : Compares(told[j], plain[j], packed[j], leaves[j]) /\ (told[j] = plain[j] <=> ~has[j])
      BY <3>2
    <3>4. \A j \in 1..k : packed[j] = [size |-> packed[j].size, align |-> packed[j].align]
      <4>1. \A j \in 1..k : packed[j] \in PackedType
        BY <1>1, <3>2 DEF ArePacked
      <4>2. QED
        BY <4>1 DEF PackedType
    <3>5. A[i] = ToldBytes(f, told) /\ B[i] = LeafBytesOver(f, plain) /\ L[i] = LeavesOver(f, leaves, 1)
      OBVIOUS
    <3> HIDE DEF f, k, A, B, L, T, m, l
    <3>6. /\ Compares(ToldBytes(f, told), LeafBytesOver(f, plain), PackedOver(f, packed), LeavesOver(f, leaves, 1))
          /\ ToldBytes(f, told) = LeafBytesOver(f, plain) <=> ~HasArrayOver(f, has)
      BY <3>1, <3>3, <3>4, FieldBytes
    <3>7. QED
      BY <3>5, <3>6 DEF f
  <2>3. ASSUME NEW i \in 1..l, HasExtern(L[i]) PROVE HasExtern(leaves[s])
    <3>1. leaves[s] = UNION {Under(j, LeavesOver(m[j + 1], leaves, 1)) : j \in Indices(l, 1)}
      BY <1>2 DEF AreLeaves
    <3>2. i - 1 \in Indices(l, 1) /\ (i - 1) + 1 = i
      BY <2>1 DEF Indices
    <3>3. HasExtern(LeavesOver(m[i], leaves, 1))
      BY <2>3
    <3>4. HasExtern(Under(i - 1, LeavesOver(m[i], leaves, 1)))
      BY <3>3, ExternUnder
    <3>5. QED
      BY <3>1, <3>2, <3>4 DEF HasExtern
  <2>4. ASSUME NEW i \in 1..l PROVE Compares(A[i], B[i], [size |-> S[i], align |-> R[i]], leaves[s])
    <3> DEFINE c == PackedOver(m[i], packed)
               d == [size |-> S[i], align |-> R[i]]
    <3>1. d.size = c.size /\ d.align = c.align
      OBVIOUS
    <3>2. Compares(A[i], B[i], c, L[i]) /\ (HasExtern(L[i]) => HasExtern(leaves[s]))
      BY <2>2, <2>3
    <3> HIDE DEF c, d, A, B, L
    <3>3. Compares(A[i], B[i], d, leaves[s])
      BY <3>1, <3>2 DEF Compares
    <3>4. QED
      BY <3>3 DEF d
  <2>5. /\ A = [i \in 1..l |-> A[i]] /\ B = [i \in 1..l |-> B[i]]
        /\ S = [i \in 1..l |-> S[i]] /\ R = [i \in 1..l |-> R[i]]
    OBVIOUS
  <2>6. /\ told[s] = Sum(A) /\ plain[s] = Sum(B)
        /\ packed[s] = [size |-> Lay(S, R).size, align |-> Lay(S, R).align]
        /\ has[s] <=> \E i \in 1..l : HasArrayOver(m[i], has)
    <3>1. told[s] = ToldBody(es, told, s) /\ plain[s] = PlainBody(es, plain, s)
      BY <1>1 DEF AreSizes, ArePlain
    <3>2. packed[s] = PackedBody(es, packed, s) /\ (has[s] <=> HasBody(es, has, s))
      BY <1>1 DEF ArePacked, AreHas
    <3>3. ToldBody(es, told, s) = Sum(A) /\ PlainBody(es, plain, s) = Sum(B)
      BY <2>1 DEF ToldBody, PlainBody
    <3>4. SizesOver(m, packed) = S /\ AlignsOver(m, packed) = R
      BY <2>1 DEF SizesOver, AlignsOver
    <3>5. HasBody(es, has, s) <=> \E i \in 1..l : HasArrayOver(m[i], has)
      BY <2>1 DEF HasBody
    <3> HIDE DEF A, B, S, R
    <3>6. QED
      BY <3>1, <3>2, <3>3, <3>4, <3>5 DEF PackedBody
  <2> HIDE DEF m, l, A, B, S, R, L
  <2>7. /\ Compares(Sum(A), Sum(B), [size |-> Lay(S, R).size, align |-> Lay(S, R).align], leaves[s])
        /\ Sum(A) = Sum(B) <=> \A i \in 1..l : A[i] = B[i]
    <3> DEFINE x == leaves[s]
    <3>1. \A i \in 1..l : Compares(A[i], B[i], [size |-> S[i], align |-> R[i]], x)
      BY <2>4
    <3> HIDE DEF x
    <3>2. ListCompares(l, A, B, S, R, x)
      BY <2>1, <2>5, <3>1 DEF ListCompares
    <3>3. TotalsCompare(l, A, B, S, R, x)
      BY <3>2, ListBytes
    <3>4. QED
      BY <3>3 DEF x, TotalsCompare
  <2>8. Sum(A) = Sum(B) <=> ~has[s]
    BY <2>2, <2>6, <2>7
  <2>9. Good(s)
    BY <2>6, <2>7, <2>8
  <2>10. QED
    BY <2>9
<1> HIDE DEF T, n
<1>5. 1..n \subseteq T
  BY <1>3, <1>4, StrongInduction
<1>6. QED
  BY <1>5 DEF T, n, told, plain, packed, leaves, has

LEMMA DescribedElements ==
  ASSUME SourceInv, DescsInv, Len(descs) = Len(structs)
  PROVE  AreOf(descs, AllElements)
<1> DEFINE n == Len(structs)
           es == AllElements
<1>1. ElementsGood(es) /\ Len(es) = n /\ n \in Nat
  BY AllElementsGood
<1>2. ASSUME NEW s \in 1..n PROVE es[s] = Elements(s)
  BY DEF AllElements, SourceInv
<1> HIDE DEF es
<1>3. ASSUME NEW s \in 1..n
      PROVE  /\ DOMAIN descs[s].members = DOMAIN es[s]
             /\ \A i \in DOMAIN es[s] :
                   /\ descs[s].members[i].type = es[s][i].type /\ descs[s].members[i].hStruct = es[s][i].str
                   /\ es[s][i].str = 0 <=> es[s][i].type # kStructure
  <2> DEFINE m == es[s]
  <2>1. m = Elements(s) /\ DOMAIN m = 1..Len(m)
    BY <1>1, <1>2 DEF ElementsGood
  <2>2. /\ DOMAIN descs[s].members = 1..Len(m)
        /\ \A i \in 1..Len(m) : /\ descs[s].members[i].type = m[i].type
                                /\ descs[s].members[i].hStruct = m[i].str
    <3>1. s \in 1..Len(descs)
      BY DEF n
    <3>2. m = Elements(s)
      BY <2>1
    <3> HIDE DEF m
    <3>3. QED
      BY <3>1, <3>2, DescriptionIs
  <2>3. ASSUME NEW i \in 1..Len(m) PROVE m[i].str = 0 <=> m[i].type # kStructure
    <3>1. m[i] \in MembersOver(s - 1)
      BY <2>1, ElementsAre
    <3>2. CASE m[i].type = kStructure
      <4>1. m[i].str \in 1..(s - 1)
        BY <3>1, <3>2, NoStructureIsSimple DEF MembersOver, Member
      <4>2. QED
        BY <3>2, <4>1
    <3>3. CASE m[i].type # kStructure
      BY <3>1, <3>3 DEF MembersOver, Member
    <3>4. QED
      BY <3>2, <3>3
  <2>4. QED
    BY <2>1, <2>2, <2>3
<1>4. QED
  BY <1>1, <1>3 DEF AreOf, es

LEMMA PackedSizesAre == LayoutInv => PackedSizeExact
<1> SUFFICES ASSUME LayoutInv, Compiled, NEW s \in DOMAIN descs
             PROVE  LET plain == StructsLeafBytes(AllElements)[s]
                        read  == StructsPacked(AllElements)[s].size
                    IN  /\ KSC_GetTypePackedSize(s) <= plain /\ plain <= read
                        /\ KSC_GetTypePackedSize(s) = plain <=> ~StructsHaveArrays(AllElements)[s]
                        /\ plain = read \/ \E l \in StructLeaves(AllElements, 1)[s] : l.type = kExternType
  BY DEF PackedSizeExact
<1>1. SourceInv /\ DescsInv /\ Len(descs) = Len(structs)
  BY DEF LayoutInv, Compiled, DescsInv
<1>2. ElementsGood(AllElements) /\ Len(AllElements) = Len(structs) /\ AreOf(descs, AllElements)
  BY <1>1, AllElementsGood, DescribedElements
<1>3. s \in 1..Len(AllElements)
  BY <1>1, <1>2, SeqParts DEF DescsInv
<1>4. /\ Compares(PackedSizes(descs)[s], StructsLeafBytes(AllElements)[s], StructsPacked(AllElements)[s],
                  StructLeaves(AllElements, 1)[s])
      /\ PackedSizes(descs)[s] = StructsLeafBytes(AllElements)[s] <=> ~StructsHaveArrays(AllElements)[s]
  BY <1>2, <1>3, StructBytes
<1>5. QED
  BY <1>4 DEF Compares, HasExtern, KSC_GetTypePackedSize

(***************************************************************************)
(* The theorems, of every specification that the constants give.           *)
(***************************************************************************)

\* Structures are made of complete types and each is generated once; a call and
\* what the host records of its writes are where their parts are.
THEOREM TypeCorrect == Spec => []TypeOK
BY Invariance, TypesAreOK, PTL

\* ConvertToDescription tells the host the offset that LLVM has chosen exactly
\* for the members with no array and no padding in front of them, and a smaller
\* one for the others (LLVM_IR_Gen.cpp:654).
THEOREM OffsetsAreExact == Spec => []OffsetsExact
<1>1. IInv => OffsetsExact
  BY TheyAreExact DEF IInv
<1>2. QED
  BY <1>1, Invariance, PTL

\* KSC_SetStructMemberData sets nothing behind the memory that
\* KSC_AllocMemForType has allocated, nor in a member behind the one it is asked for.
THEOREM WritesAreContained == Spec => []WritesStayInside
<1>1. IInv => WritesStayInside
  BY WritesAreInside DEF IInv
<1>2. QED
  BY <1>1, Invariance, PTL

\* KSC_GetTypePackedSize counts an array as one element: it is what the leaves of
\* a structure take together unless there is an array in it, and never more than
\* the wrapper reads and writes (SC_API.cpp:424, IR_Gen_Context.cpp:165).
THEOREM PackedSizesAreExact == Spec => []PackedSizeExact
<1>1. IInv => PackedSizeExact
  BY PackedSizesAre DEF IInv
<1>2. QED
  BY <1>1, Invariance, PTL

\* KSC_GetStructMemberPtr and KSC_GetStructMemberType agree on names without a
\* dot and on no others, neither ends at a member that is a structure, although
\* SC_API.h:175 says so, and both mean the members the functions mean unless a name
\* was given twice (SC_API.cpp:300 and 318, parser_AST_Gen.cpp:406).
THEOREM NamesAreAgreed == Spec => []NamesAgree
<1>1. IInv => NamesAgree
  BY TheyAgree DEF IInv
<1>2. QED
  BY <1>1, Invariance, PTL

\* KSC_GetFunctionPtr refuses a function only for a bool or an extern type that
\* its wrapper converts, and every one with a plain bool in an & argument or
\* that returns booleans (IR_Gen_Context.cpp:363).
THEOREM RefusalsAreForBooleans == Spec => []RefusedForBooleans
BY Invariance, RefusalsAre, PTL

\* What a function does to an & argument with a buffer of its own reaches the
\* host at the leaves with even numbers only, whatever the type and however the
\* function writes (IR_Gen_Context.cpp:272).
THEOREM EvenLeavesAreCopiedBack == Spec => []CopiedBack
BY Invariance, CopiesReachHost, PTL

\* Of & arguments that share a buffer the host finds what was written through
\* the last, and nothing of what was written through the others.
THEOREM LastCopyIsKept == Spec => []LastCopyWins
BY Invariance, LastCopyIsThere, PTL

\* The wrapper never stores the address of a byte of its own frame in the host's
\* memory: only the function can, where it copies an extern member of an &
\* argument into an extern value of a % argument (IR_Gen_Context.cpp:355, 407).
THEOREM OnlyFunctionsLeak == Spec => []OnlyFunctionsLeakPointers
BY Invariance, LeaksAre, PTL
=============================================================================
