------------------------------ MODULE SumProofs ------------------------------
(***************************************************************************)
(* Facts about the sums of module Sums, for every length.  The recursive    *)
(* function PrefixSum is shown to exist, and its properties are proved by   *)
(* induction over sets of naturals (first-order, so that the backends can   *)
(* use it).                                                                 *)
(***************************************************************************)
EXTENDS Sums, TLAPS, WellFoundedInduction

Less == {ss \in Nat \X Nat : ss[1] < ss[2]}

\* The naturals are well-founded by <.
LEMMA LessWellFounded == IsWellFoundedOn(Less, Nat)
  BY NatLessThanWellFounded, Zenon DEF OpToRel, Less

\* Every non-empty set of naturals has a least element.
LEMMA LeastNat ==
  ASSUME NEW T, T \subseteq Nat, T # {}
  PROVE  \E x \in T : \A y \in T : x <= y
<1>1. \E x \in T : \A y \in T : ~ (<<y, x>> \in Less)
  BY LessWellFounded, WFMin, Zenon
<1>2. ASSUME NEW x \in Nat, NEW y \in Nat, ~(<<y, x>> \in Less)
      PROVE  x <= y
  BY <1>2 DEF Less
<1> QED
  BY <1>1, <1>2

\* Induction: a set with 0 and closed under successor holds every natural.
LEMMA SetInduction ==
  ASSUME NEW S, 0 \in S, \A n \in Nat : n \in S => n + 1 \in S
  PROVE  Nat \subseteq S
<1> SUFFICES ASSUME NEW k \in Nat \ S
             PROVE  FALSE
  OBVIOUS
<1>1. PICK x \in Nat \ S : \A y \in Nat \ S : x <= y
  <2> DEFINE T == Nat \ S
  <2>1. T \subseteq Nat /\ T # {}
    OBVIOUS
  <2> HIDE DEF T
  <2>2. \E x \in T : \A y \in T : x <= y
    BY <2>1, LeastNat, Zenon
  <2> QED
    BY <2>2 DEF T
<1>2. x - 1 \in Nat /\ (x - 1) + 1 = x
  OBVIOUS
<1>3. x - 1 \in S
  BY <1>1, <1>2
<1> QED
  BY <1>2, <1>3

-----------------------------------------------------------------------------
\* f repeats the step G, n times from c.
Iterates(f, c, G, n) ==
    /\ f \in [0..n -> Int]
    /\ f[0] = c
    /\ \A i \in 1..n : f[i] = G[i][f[i - 1]]

\* A step can be repeated any number of times.
LEMMA IteratesExist ==
  ASSUME NEW G \in [Nat -> [Int -> Int]], NEW c \in Int, NEW n \in Nat
  PROVE  \E f : Iterates(f, c, G, n)
<1> DEFINE S == {m \in Nat : \E f : Iterates(f, c, G, m)}
<1>1. 0 \in S
  <2>1. Iterates([i \in 0..0 |-> c], c, G, 0)
    BY DEF Iterates
  <2> QED
    BY <2>1
<1>2. ASSUME NEW m \in Nat, m \in S
      PROVE  m + 1 \in S
  <2>1. PICK f : Iterates(f, c, G, m)
    BY <1>2
  <2> DEFINE g == [i \in 0..(m + 1) |-> IF i <= m THEN f[i] ELSE G[m + 1][f[m]]]
  <2>2. g \in [0..(m + 1) -> Int] /\ g[0] = c
    <3>1. f \in [0..m -> Int] /\ f[0] = c
      BY <2>1 DEF Iterates
    <3>2. G[m + 1][f[m]] \in Int
      BY <3>1
    <3>3. \A i \in 0..(m + 1) : i <= m => f[i] \in Int
      BY <3>1
    <3> QED
      BY <3>1, <3>2, <3>3
  <2>3. ASSUME NEW i \in 1..(m + 1)
        PROVE  g[i] = G[i][g[i - 1]]
    <3>1. CASE i <= m
      <4>0. i \in 0..(m + 1) /\ i - 1 \in 0..(m + 1) /\ i - 1 <= m
        BY <3>1
      <4>1. g[i] = f[i] /\ g[i - 1] = f[i - 1]
        BY <3>1, <4>0
      <4>2. f[i] = G[i][f[i - 1]]
        BY <2>1, <3>1 DEF Iterates
      <4> QED
        BY <4>1, <4>2
    <3>2. CASE i = m + 1
      <4>1. g[i] = G[m + 1][f[m]] /\ g[i - 1] = f[m]
        BY <3>2
      <4> QED
        BY <3>2, <4>1
    <3> QED
      BY <3>1, <3>2
  <2>4. Iterates(g, c, G, m + 1)
    BY <2>2, <2>3 DEF Iterates
  <2> QED
    BY <2>4
<1> HIDE DEF S
<1>3. Nat \subseteq S
  BY <1>1, <1>2, SetInduction
<1> QED
  BY <1>3 DEF S

\* Repetitions up to two bounds agree where both are defined.
LEMMA IteratesUnique ==
  ASSUME NEW G, NEW c, NEW m \in Nat, NEW n \in Nat,
         NEW f, NEW g, Iterates(f, c, G, m), Iterates(g, c, G, n),
         NEW k \in Nat, k <= m, k <= n
  PROVE  f[k] = g[k]
<1> DEFINE S == {i \in Nat : i <= m /\ i <= n => f[i] = g[i]}
<1>1. 0 \in S
  BY DEF Iterates
<1>2. ASSUME NEW i \in Nat, i \in S
      PROVE  i + 1 \in S
  <2> SUFFICES ASSUME i + 1 <= m, i + 1 <= n
               PROVE  f[i + 1] = g[i + 1]
    OBVIOUS
  <2>1. i + 1 \in 1..m /\ i + 1 \in 1..n /\ (i + 1) - 1 = i
    OBVIOUS
  <2>2. f[i + 1] = G[i + 1][f[i]] /\ g[i + 1] = G[i + 1][g[i]]
    BY <2>1 DEF Iterates
  <2> QED
    BY <1>2, <2>2
<1> HIDE DEF S
<1>3. Nat \subseteq S
  BY <1>1, <1>2, SetInduction
<1> QED
  BY <1>3 DEF S

\* The infinite function that repeats G exists.
LEMMA RecursionExists ==
  ASSUME NEW G \in [Nat -> [Int -> Int]], NEW c \in Int
  PROVE  \E g \in [Nat -> Int] :
            g[0] = c /\ \A i \in Nat \ {0} : g[i] = G[i][g[i - 1]]
<1> DEFINE F(n) == CHOOSE f : Iterates(f, c, G, n)
           g == [n \in Nat |-> F(n)[n]]
<1>1. \A n \in Nat : Iterates(F(n), c, G, n)
  BY IteratesExist
<1> HIDE DEF F
<1>2. g \in [Nat -> Int]
  BY <1>1 DEF Iterates
<1>3. g[0] = c
  BY <1>1 DEF Iterates
<1>4. ASSUME NEW i \in Nat \ {0}
      PROVE  g[i] = G[i][g[i - 1]]
  <2>1. i - 1 \in Nat /\ i - 1 <= i /\ i \in 1..i
    OBVIOUS
  <2>2. Iterates(F(i), c, G, i) /\ Iterates(F(i - 1), c, G, i - 1)
    BY <1>1, <2>1
  <2>3. F(i)[i - 1] = F(i - 1)[i - 1]
    BY <2>1, <2>2, IteratesUnique
  <2>4. F(i)[i] = G[i][F(i)[i - 1]]
    BY <2>1, <2>2 DEF Iterates
  <2> QED
    BY <2>1, <2>3, <2>4
<1> QED
  BY <1>2, <1>3, <1>4

\* Powers of a natural.
LEMMA PowerRec ==
  ASSUME NEW a \in Nat
  PROVE  /\ Power(a)[0] = 1
         /\ \A n \in Nat : Power(a)[n] \in Nat /\ Power(a)[n + 1] = a * Power(a)[n]
<1> DEFINE G == [i \in Nat |-> [x \in Int |-> a * x]]
           P(p) == p = [n \in Nat |-> IF n = 0 THEN 1 ELSE a * p[n - 1]]
           p == Power(a)
<1>1. PICK g \in [Nat -> Int] : g[0] = 1 /\ \A i \in Nat \ {0} : g[i] = a * g[i - 1]
  <2>1. G \in [Nat -> [Int -> Int]] /\ \A i \in Nat, x \in Int : G[i][x] = a * x
    OBVIOUS
  <2>2. 1 \in Int
    OBVIOUS
  <2> HIDE DEF G
  <2>3. PICK g \in [Nat -> Int] : g[0] = 1 /\ \A i \in Nat \ {0} : g[i] = G[i][g[i - 1]]
    BY <2>1, <2>2, RecursionExists, Zenon
  <2>4. ASSUME NEW i \in Nat \ {0}
        PROVE  g[i] = a * g[i - 1]
    <3>1. i \in Nat /\ g[i - 1] \in Int
      OBVIOUS
    <3> QED
      BY <2>1, <2>3, <3>1
  <2> QED
    BY <2>3, <2>4
<1>2. P(g)
  BY <1>1
<1>3. Power(a) = CHOOSE q : P(q)
  BY Zenon DEF Power
<1>4. P(Power(a))
  <2> HIDE DEF P
  <2> QED
    BY <1>2, <1>3, Zenon
<1>5. ASSUME NEW n \in Nat
      PROVE  p[n] = IF n = 0 THEN 1 ELSE a * p[n - 1]
  BY <1>4
<1> HIDE DEF p, P
<1>6. ASSUME NEW n \in Nat
      PROVE  p[n + 1] = a * p[n]
  <2>1. n + 1 \in Nat /\ n + 1 # 0 /\ (n + 1) - 1 = n
    OBVIOUS
  <2> QED
    BY <1>5, <2>1
<1> DEFINE S == {n \in Nat : p[n] \in Nat}
<1>7. Nat \subseteq S
  <2>1. 0 \in S
    BY <1>5
  <2>2. ASSUME NEW n \in Nat, n \in S
        PROVE  n + 1 \in S
    <3>1. \A x \in Nat : a * x \in Nat
      OBVIOUS
    <3> QED
      BY <1>6, <2>2, <3>1
  <2> HIDE DEF S
  <2> QED
    BY <2>1, <2>2, SetInduction
<1>8. p[0] = 1
  BY <1>5
<1> QED
  BY <1>6, <1>7, <1>8 DEF p

\* The recursion equation of PrefixSum.
LEMMA PrefixSumRec ==
  ASSUME NEW n \in Nat, NEW w \in [1..n -> Int]
  PROVE  /\ PrefixSum(w) \in [Nat -> Int]
         /\ PrefixSum(w)[0] = 0
         /\ \A i \in 1..n : PrefixSum(w)[i] = PrefixSum(w)[i - 1] + w[i]
<1> DEFINE v == [i \in Nat |-> IF i \in DOMAIN w THEN w[i] ELSE 0]
           P(s) == s = [i \in Nat |-> IF i = 0 THEN 0
                          ELSE s[i - 1] + (IF i \in DOMAIN w THEN w[i] ELSE 0)]
<1>1. v \in [Nat -> Int]
  OBVIOUS
<1>2. PICK g \in [Nat -> Int] :
         g[0] = 0 /\ \A i \in Nat \ {0} : g[i] = g[i - 1] + v[i]
  <2> HIDE DEF v
  <2> DEFINE G == [i \in Nat |-> [x \in Int |-> x + v[i]]]
  <2>1. G \in [Nat -> [Int -> Int]] /\ \A i \in Nat, x \in Int : G[i][x] = x + v[i]
    BY <1>1
  <2> HIDE DEF G
  <2>2. PICK g \in [Nat -> Int] : g[0] = 0 /\ \A i \in Nat \ {0} : g[i] = G[i][g[i - 1]]
    <3>1. 0 \in Int
      OBVIOUS
    <3> QED
      BY <2>1, <3>1, RecursionExists, Zenon
  <2>3. \A i \in Nat \ {0} : g[i] = g[i - 1] + v[i]
    <3> SUFFICES ASSUME NEW i \in Nat \ {0}
                 PROVE  g[i] = g[i - 1] + v[i]
      OBVIOUS
    <3>1. i \in Nat /\ g[i - 1] \in Int
      OBVIOUS
    <3> QED
      BY <2>1, <2>2, <3>1
  <2> QED
    BY <2>2, <2>3
<1>3. P(g)
  BY <1>2
<1>4. PrefixSum(w) = CHOOSE s : P(s)
  BY Zenon DEF PrefixSum
<1>5. P(PrefixSum(w))
  <2> HIDE DEF P
  <2> QED
    BY <1>3, <1>4, Zenon
<1>6. ASSUME NEW i \in Nat
      PROVE  PrefixSum(w)[i] = IF i = 0 THEN 0 ELSE PrefixSum(w)[i - 1] + v[i]
  BY <1>5
<1> DEFINE S == {i \in Nat : PrefixSum(w)[i] \in Int}
<1>7. Nat \subseteq S
  <2> HIDE DEF v, P
  <2>1. 0 \in S
    BY <1>6
  <2>2. ASSUME NEW i \in Nat, i \in S
        PROVE  i + 1 \in S
    BY <1>1, <1>6, <2>2
  <2> HIDE DEF S
  <2> QED
    BY <2>1, <2>2, SetInduction
<1>8. PrefixSum(w) \in [Nat -> Int]
  <2>1. DOMAIN PrefixSum(w) = Nat /\ PrefixSum(w) = [i \in Nat |-> PrefixSum(w)[i]]
    BY <1>5
  <2> QED
    BY <1>7, <2>1
<1>9. PrefixSum(w)[0] = 0
  BY <1>6
<1>10. ASSUME NEW i \in 1..n
       PROVE  PrefixSum(w)[i] = PrefixSum(w)[i - 1] + w[i]
  <2>1. v[i] = w[i] /\ i \in Nat /\ i # 0
    OBVIOUS
  <2> HIDE DEF v
  <2> QED
    BY <1>6, <2>1
<1> QED
  BY <1>8, <1>9, <1>10

-----------------------------------------------------------------------------
\* A total of integers is an integer.
LEMMA TotalInt ==
  ASSUME NEW n \in Nat, NEW w \in [1..n -> Int]
  PROVE  Total(w, n) \in Int
BY PrefixSumRec DEF Total

\* A total of naturals is a natural.
LEMMA TotalNat ==
  ASSUME NEW n \in Nat, NEW w \in [1..n -> Nat]
  PROVE  Total(w, n) \in Nat
<1> DEFINE s == PrefixSum(w)
           S == {i \in Nat : i <= n => s[i] \in Nat}
<1>1. w \in [1..n -> Int]
  OBVIOUS
<1>2. s[0] = 0 /\ \A i \in 1..n : s[i] = s[i - 1] + w[i]
  BY <1>1, PrefixSumRec
<1> HIDE DEF s
<1>3. 0 \in S
  BY <1>2
<1>4. ASSUME NEW i \in Nat, i \in S
      PROVE  i + 1 \in S
  <2> SUFFICES ASSUME i + 1 <= n
               PROVE  s[i + 1] \in Nat
    OBVIOUS
  <2>1. i + 1 \in 1..n /\ (i + 1) - 1 = i
    OBVIOUS
  <2> QED
    BY <1>2, <1>4, <2>1
<1> HIDE DEF S
<1>5. Nat \subseteq S
  BY <1>3, <1>4, SetInduction
<1> QED
  BY <1>5 DEF S, s, Total

\* Totals add up.
LEMMA TotalAdd ==
  ASSUME NEW n \in Nat, NEW u \in [1..n -> Int], NEW v \in [1..n -> Int],
         NEW w \in [1..n -> Int], \A i \in 1..n : w[i] = u[i] + v[i]
  PROVE  Total(w, n) = Total(u, n) + Total(v, n)
<1> DEFINE su == PrefixSum(u)
           sv == PrefixSum(v)
           sw == PrefixSum(w)
           S == {i \in Nat : i <= n => sw[i] = su[i] + sv[i]}
<1>1. /\ su \in [Nat -> Int] /\ su[0] = 0 /\ \A i \in 1..n : su[i] = su[i - 1] + u[i]
      /\ sv \in [Nat -> Int] /\ sv[0] = 0 /\ \A i \in 1..n : sv[i] = sv[i - 1] + v[i]
      /\ sw \in [Nat -> Int] /\ sw[0] = 0 /\ \A i \in 1..n : sw[i] = sw[i - 1] + w[i]
  BY PrefixSumRec
<1> HIDE DEF su, sv, sw
<1>2. 0 \in S
  BY <1>1
<1>3. ASSUME NEW i \in Nat, i \in S
      PROVE  i + 1 \in S
  <2> SUFFICES ASSUME i + 1 <= n
               PROVE  sw[i + 1] = su[i + 1] + sv[i + 1]
    OBVIOUS
  <2>1. i + 1 \in 1..n /\ (i + 1) - 1 = i
    OBVIOUS
  <2>2. sw[i] = su[i] + sv[i] /\ sw[i] \in Int /\ su[i] \in Int /\ sv[i] \in Int
    BY <1>1, <1>3
  <2>3. /\ su[i + 1] = su[i] + u[i + 1]
        /\ sv[i + 1] = sv[i] + v[i + 1]
        /\ sw[i + 1] = sw[i] + w[i + 1]
        /\ w[i + 1] = u[i + 1] + v[i + 1]
    BY <1>1, <2>1
  <2>4. u[i + 1] \in Int /\ v[i + 1] \in Int
    BY <2>1
  <2> QED
    BY <2>2, <2>3, <2>4
<1> HIDE DEF S
<1>4. Nat \subseteq S
  BY <1>2, <1>3, SetInduction
<1> QED
  BY <1>4 DEF S, su, sv, sw, Total

\* A total of multiples, and one more summand.
LEMMA TotalScaled ==
  ASSUME NEW n \in Nat, NEW k \in Int, NEW w \in [1..n -> Int], NEW u \in [1..n + 1 -> Int],
         \A i \in 1..n : u[i] = k * w[i]
  PROVE  Total(u, n + 1) = k * Total(w, n) + u[n + 1]
<1> DEFINE s == PrefixSum(w)
           t == PrefixSum(u)
           S == {i \in Nat : i <= n => t[i] = k * s[i]}
<1>1. s \in [Nat -> Int] /\ s[0] = 0 /\ \A i \in 1..n : s[i] = s[i - 1] + w[i]
  BY PrefixSumRec
<1>2. t[0] = 0 /\ \A i \in 1..n + 1 : t[i] = t[i - 1] + u[i]
  <2>1. n + 1 \in Nat
    OBVIOUS
  <2> QED
    BY <2>1, PrefixSumRec
<1> HIDE DEF s, t
<1>3. 0 \in S
  BY <1>1, <1>2
<1>4. ASSUME NEW i \in Nat, i \in S
      PROVE  i + 1 \in S
  <2> SUFFICES ASSUME i + 1 <= n
               PROVE  t[i + 1] = k * s[i + 1]
    OBVIOUS
  <2>1. i + 1 \in 1..n /\ i + 1 \in 1..n + 1 /\ (i + 1) - 1 = i /\ i <= n
    OBVIOUS
  <2>2. t[i] = k * s[i] /\ s[i + 1] = s[i] + w[i + 1] /\ t[i + 1] = t[i] + u[i + 1]
    BY <1>1, <1>2, <1>4, <2>1
  <2>3. s[i] \in Int /\ w[i + 1] \in Int /\ u[i + 1] = k * w[i + 1]
    BY <1>1, <2>1
  <2>4. \A x, y \in Int : k * x + k * y = k * (x + y)
    OBVIOUS
  <2> QED
    BY <2>2, <2>3, <2>4
<1> HIDE DEF S
<1>5. Nat \subseteq S
  BY <1>3, <1>4, SetInduction
<1>6. t[n] = k * s[n]
  BY <1>5 DEF S
<1>7. n + 1 \in 1..n + 1 /\ (n + 1) - 1 = n
  OBVIOUS
<1>8. t[n + 1] = t[n] + u[n + 1]
  BY <1>2, <1>7
<1> QED
  BY <1>6, <1>8 DEF s, t, Total

\* A function that is 0 everywhere has total 0.
LEMMA TotalZero ==
  ASSUME NEW n \in Nat, NEW w \in [1..n -> Int], \A i \in 1..n : w[i] = 0
  PROVE  Total(w, n) = 0
<1>1. Total(w, n) = Total(w, n) + Total(w, n)
  BY TotalAdd
<1> QED
  BY <1>1, TotalInt

\* A function that is 0 everywhere but at k has total w[k].
LEMMA TotalSingle ==
  ASSUME NEW n \in Nat, NEW w \in [1..n -> Int], NEW k \in 1..n,
         \A i \in 1..n : i # k => w[i] = 0
  PROVE  Total(w, n) = w[k]
<1> DEFINE s == PrefixSum(w)
           S == {i \in Nat : i <= n => s[i] = IF i < k THEN 0 ELSE w[k]}
<1>1. s \in [Nat -> Int] /\ s[0] = 0 /\ \A i \in 1..n : s[i] = s[i - 1] + w[i]
  BY PrefixSumRec
<1> HIDE DEF s
<1>2. 0 \in S
  BY <1>1
<1>3. ASSUME NEW i \in Nat, i \in S
      PROVE  i + 1 \in S
  <2> SUFFICES ASSUME i + 1 <= n
               PROVE  s[i + 1] = IF i + 1 < k THEN 0 ELSE w[k]
    OBVIOUS
  <2>1. i + 1 \in 1..n /\ (i + 1) - 1 = i
    OBVIOUS
  <2>2. s[i + 1] = s[i] + w[i + 1] /\ s[i] = IF i < k THEN 0 ELSE w[k]
    BY <1>1, <1>3, <2>1
  <2>3. w[k] \in Int /\ (i + 1 # k => w[i + 1] = 0)
    BY <2>1
  <2> QED
    BY <2>2, <2>3
<1> HIDE DEF S
<1>4. Nat \subseteq S
  BY <1>2, <1>3, SetInduction
<1> QED
  BY <1>4 DEF S, s, Total
-----------------------------------------------------------------------------
\* Masking keeps the type.
LEMMA MaskedType ==
  ASSUME NEW n \in Nat, NEW w \in [1..n -> Nat], NEW A
  PROVE  /\ Masked(w, A) \in [1..n -> Nat]
         /\ Masked(w, A) \in [1..n -> Int]
         /\ \A i \in 1..n : Masked(w, A)[i] = IF i \in A THEN w[i] ELSE 0
BY DEF Masked

\* The total over no index is 0.
LEMMA MaskedEmpty ==
  ASSUME NEW n \in Nat, NEW w \in [1..n -> Nat]
  PROVE  Total(Masked(w, {}), n) = 0
BY MaskedType, TotalZero

\* Taking away a subset takes away its total.
LEMMA MaskedSplit ==
  ASSUME NEW n \in Nat, NEW w \in [1..n -> Nat], NEW A, NEW B, B \subseteq A
  PROVE  /\ Total(Masked(w, A), n) = Total(Masked(w, A \ B), n) + Total(Masked(w, B), n)
         /\ Total(Masked(w, A), n) \in Nat
         /\ Total(Masked(w, A \ B), n) \in Nat
         /\ Total(Masked(w, B), n) \in Nat
<1> DEFINE z == Masked(w, A)
           x == Masked(w, A \ B)
           y == Masked(w, B)
<1>1. /\ z \in [1..n -> Nat] /\ x \in [1..n -> Nat] /\ y \in [1..n -> Nat]
      /\ z \in [1..n -> Int] /\ x \in [1..n -> Int] /\ y \in [1..n -> Int]
      /\ \A i \in 1..n : z[i] = x[i] + y[i]
  BY DEF Masked
<1> HIDE DEF x, y, z
<1>2. Total(z, n) = Total(x, n) + Total(y, n)
  BY <1>1, TotalAdd
<1>3. Total(z, n) \in Nat /\ Total(x, n) \in Nat /\ Total(y, n) \in Nat
  BY <1>1, TotalNat
<1> QED
  BY <1>2, <1>3 DEF x, y, z

\* The total over one index is its amount.
LEMMA MaskedSingle ==
  ASSUME NEW n \in Nat, NEW w \in [1..n -> Nat], NEW k \in 1..n
  PROVE  Total(Masked(w, {k}), n) = w[k]
<1> DEFINE y == Masked(w, {k})
<1>1. y \in [1..n -> Int] /\ (\A i \in 1..n : i # k => y[i] = 0) /\ y[k] = w[k]
  BY DEF Masked
<1> HIDE DEF y
<1>2. Total(y, n) = y[k]
  BY <1>1, TotalSingle
<1> QED
  BY <1>1, <1>2 DEF y

\* Counting: nothing in the empty set, one more with a new element.
LEMMA CountFacts ==
  ASSUME NEW n \in Nat, NEW A
  PROVE  /\ Count(A, n) \in Nat
         /\ Count({}, n) = 0
         /\ \A k \in 1..n : k \notin A => Count(A \union {k}, n) = Count(A, n) + 1
<1> DEFINE one(S) == [i \in 1..n |-> IF i \in S THEN 1 ELSE 0]
<1>1. \A S : one(S) \in [1..n -> Nat] /\ one(S) \in [1..n -> Int]
  OBVIOUS
<1>2. \A S : Count(S, n) = Total(one(S), n)
  BY DEF Count
<1>3. Count(A, n) \in Nat
  <2> DEFINE x == one(A)
  <2>1. x \in [1..n -> Nat]
    OBVIOUS
  <2> HIDE DEF x
  <2>2. Total(x, n) \in Nat
    BY <2>1, TotalNat
  <2> QED
    BY <1>2, <2>2 DEF x
<1>4. Count({}, n) = 0
  <2> DEFINE x == one({})
  <2>1. x \in [1..n -> Int] /\ \A i \in 1..n : x[i] = 0
    OBVIOUS
  <2> HIDE DEF x
  <2>2. Total(x, n) = 0
    BY <2>1, TotalZero
  <2> QED
    BY <1>2, <2>2 DEF x
<1>5. ASSUME NEW k \in 1..n, k \notin A
      PROVE  Count(A \union {k}, n) = Count(A, n) + 1
  <2> DEFINE z == one(A \union {k})
             x == one(A)
             y == one({k})
  <2>1. /\ \A i \in 1..n : z[i] = x[i] + y[i]
        /\ \A i \in 1..n : i # k => y[i] = 0
        /\ y[k] = 1
    BY <1>5
  <2>2. z \in [1..n -> Int] /\ x \in [1..n -> Int] /\ y \in [1..n -> Int]
    BY <1>1
  <2> HIDE DEF x, y, z
  <2>3. Total(z, n) = Total(x, n) + Total(y, n)
    BY <2>1, <2>2, TotalAdd
  <2>4. Total(y, n) = 1
    BY <2>1, <2>2, TotalSingle
  <2> QED
    BY <1>2, <2>3, <2>4 DEF x, z
<1> QED
  BY <1>3, <1>4, <1>5
=============================================================================
