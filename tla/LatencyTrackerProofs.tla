------------------------- MODULE LatencyTrackerProofs -------------------------
(***************************************************************************)
(* The latency tracker: for any smoothing factor, any window and any        *)
(* records.                                                                 *)
(***************************************************************************)
EXTENDS LatencyTracker, SumProofs, SequenceTheorems

keep == ALPHA_DEN - ALPHA_NUM

Typed ==
    /\ ema \in [Backends -> [num : Nat, den : Nat]]
    /\ windows \in [Backends -> Seq(Nat)]
    /\ history \in [Backends -> Seq(Nat)]

\* The window is the end of the history, as much of it as fits.
Suffix(w, h) ==
    /\ Len(w) = IF Len(h) < LATENCY_WINDOW_SIZE THEN Len(h) ELSE LATENCY_WINDOW_SIZE
    /\ \A i \in 1..Len(w) : w[i] = h[Len(h) - Len(w) + i]

\* The average is not above a bound of the seed and the records, and below it
\* when the last record is.
Below(e, h, seed) ==
    \A s \in Nat :
        seed <= s /\ (\A i \in 1..Len(h) : h[i] <= s)
            => /\ e.num <= e.den * s
               /\ Len(h) > 0 /\ h[Len(h)] < s => e.num < e.den * s

\* What the records h weigh, each by its age.
Weighted(h) ==
    [i \in 1..Len(h) |-> ALPHA_NUM * Power(keep)[Len(h) - i]
                            * (Power(ALPHA_DEN)[i - 1] * h[i])]

\* The average e is the weighted mean of the seed and the records.
Mean(e, h, seed) ==
    /\ e.den = Power(ALPHA_DEN)[Len(h)]
    /\ e.num = Power(keep)[Len(h)] * seed + Total(Weighted(h), Len(h))

\* The inductive invariant.
TrackerInv ==
    /\ Typed
    /\ \A b \in Backends :
          /\ Suffix(windows[b], history[b])
          /\ Below(ema[b], history[b], Seed[b])
          /\ Mean(ema[b], history[b], Seed[b])
          /\ ema[b].den > 0

-----------------------------------------------------------------------------
\* Numbers and sequences

\* The constants are naturals.
LEMMA Constants ==
  /\ ALPHA_NUM \in Nat /\ ALPHA_NUM > 0 /\ ALPHA_DEN \in Nat /\ ALPHA_DEN > 0
  /\ keep \in Nat /\ ALPHA_NUM + keep = ALPHA_DEN
  /\ LATENCY_WINDOW_SIZE \in Nat /\ LATENCY_WINDOW_SIZE > 0
  /\ \A b \in Backends : Seed[b] \in Nat
BY TrackerAssumption DEF keep

\* What Append does.
LEMMA AppendedNat ==
  ASSUME NEW q \in Seq(Nat), NEW e \in Nat
  PROVE  /\ Append(q, e) \in Seq(Nat)
         /\ Len(q) \in Nat /\ Len(Append(q, e)) = Len(q) + 1
         /\ Append(q, e)[Len(q) + 1] = e
         /\ \A i \in 1..Len(q) : Append(q, e)[i] = q[i] /\ q[i] \in Nat
OBVIOUS

\* What Tail does.
LEMMA TailedNat ==
  ASSUME NEW q \in Seq(Nat), q # <<>>
  PROVE  /\ Tail(q) \in Seq(Nat)
         /\ Len(q) \in Nat /\ Len(q) > 0 /\ Len(Tail(q)) = Len(q) - 1
         /\ \A i \in 1..Len(q) - 1 : Tail(q)[i] = q[i + 1]
OBVIOUS

\* The items of a sequence up to m have a greatest one.
LEMMA GreatestItem ==
  ASSUME NEW w \in Seq(Nat), w # <<>>
  PROVE  \E i \in 1..Len(w) : \A j \in 1..Len(w) : w[i] >= w[j]
<1> DEFINE S == {m \in Nat : m < Len(w) =>
                    \E i \in 1..(m + 1) : \A j \in 1..(m + 1) : w[i] >= w[j]}
<1>1. Len(w) \in Nat /\ Len(w) > 0 /\ \A i \in 1..Len(w) : w[i] \in Nat
  OBVIOUS
<1>2. 0 \in S
  <2>1. 1 \in 1..Len(w) /\ w[1] \in Nat
    BY <1>1
  <2>2. w[1] >= w[1] /\ \A j \in 1..(0 + 1) : j = 1
    BY <2>1
  <2> QED
    BY <2>2
<1>3. ASSUME NEW m \in Nat, m \in S
      PROVE  m + 1 \in S
  <2> SUFFICES ASSUME m + 1 < Len(w)
               PROVE  \E i \in 1..(m + 1) + 1 : \A j \in 1..(m + 1) + 1 : w[i] >= w[j]
    OBVIOUS
  <2> DEFINE k == m + 2
  <2>1. PICK i \in 1..(m + 1) : \A j \in 1..(m + 1) : w[i] >= w[j]
    BY <1>1, <1>3
  <2>2. /\ i \in 1..(m + 1) + 1 /\ k \in 1..(m + 1) + 1
        /\ \A j \in 1..(m + 1) + 1 : j \in 1..Len(w) /\ (j = k \/ j \in 1..(m + 1))
    BY <1>1
  <2>3. \A j \in 1..(m + 1) + 1 : w[j] \in Nat
    BY <1>1, <2>2
  <2> HIDE DEF k
  <2>4. CASE w[i] >= w[k]
    <3>1. \A j \in 1..(m + 1) + 1 : w[i] >= w[j]
      BY <2>1, <2>2, <2>4
    <3> QED
      BY <2>2, <3>1
  <2>5. CASE ~(w[i] >= w[k])
    <3>1. \A j \in 1..(m + 1) + 1 : w[k] >= w[j]
      BY <2>1, <2>2, <2>3, <2>5
    <3> QED
      BY <2>2, <3>1
  <2> QED
    BY <2>4, <2>5
<1> HIDE DEF S
<1>4. Nat \subseteq S
  BY <1>2, <1>3, SetInduction
<1>5. Len(w) - 1 \in Nat /\ Len(w) - 1 < Len(w) /\ (Len(w) - 1) + 1 = Len(w)
  BY <1>1
<1>6. Len(w) - 1 \in S
  BY <1>4, <1>5
<1>7. \E i \in 1..((Len(w) - 1) + 1) : \A j \in 1..((Len(w) - 1) + 1) : w[i] >= w[j]
  BY <1>5, <1>6 DEF S
<1> QED
  BY <1>5, <1>7

\* The maximum of a window is one of its items and bounds them all.
LEMMA WindowMax ==
  ASSUME NEW w \in Seq(Nat), w # <<>>
  PROVE  /\ Max(ToSet(w)) \in Nat
         /\ \A j \in 1..Len(w) : Max(ToSet(w)) >= w[j]
         /\ \E i \in 1..Len(w) : Max(ToSet(w)) = w[i]
<1>1. PICK i \in 1..Len(w) : \A j \in 1..Len(w) : w[i] >= w[j]
  BY GreatestItem
<1>2. ToSet(w) = {w[j] : j \in 1..Len(w)}
  BY DEF ToSet
<1>3. w[i] \in ToSet(w) /\ \A y \in ToSet(w) : w[i] >= y
  BY <1>1, <1>2
<1>4. Max(ToSet(w)) \in ToSet(w) /\ \A y \in ToSet(w) : Max(ToSet(w)) >= y
  BY <1>3 DEF Max
<1>5. \A j \in 1..Len(w) : w[j] \in Nat
  OBVIOUS
<1> QED
  BY <1>2, <1>4, <1>5

\* The maximum of two numbers.
LEMMA PairMax ==
  ASSUME NEW x \in Nat, NEW y \in Nat
  PROVE  /\ Max({x, y}) \in {x, y}
         /\ Max({x, y}) >= x /\ Max({x, y}) >= y
<1>1. \E m \in {x, y} : \A z \in {x, y} : m >= z
  <2>1. CASE x >= y
    BY <2>1
  <2>2. CASE y >= x
    BY <2>2
  <2> QED
    BY <2>1, <2>2
<1> QED
  BY <1>1 DEF Max

-----------------------------------------------------------------------------
\* One record

\* The window slides with the history.
LEMMA PushSuffix ==
  ASSUME NEW w \in Seq(Nat), NEW h \in Seq(Nat), NEW x \in Nat, Suffix(w, h)
  PROVE  Push(w, x) \in Seq(Nat) /\ Suffix(Push(w, x), Append(h, x))
<1> DEFINE g == Append(h, x)
           W == LATENCY_WINDOW_SIZE
<1>0. W \in Nat /\ W > 0
  BY Constants
<1>1. /\ Len(h) \in Nat /\ Len(g) = Len(h) + 1 /\ g[Len(h) + 1] = x
      /\ \A i \in 1..Len(h) : g[i] = h[i]
  BY AppendedNat
<1>len. Len(h) \in Nat /\ Len(g) = Len(h) + 1
  BY <1>1
<1>2. Len(w) \in Nat /\ Len(w) = IF Len(h) < W THEN Len(h) ELSE W
  BY DEF Suffix
<1> HIDE DEF g, W
<1>3. CASE Len(w) < W
  <2> DEFINE v == Append(w, x)
  <2>1. Push(w, x) = v
    BY <1>3 DEF Push, W
  <2>2. /\ v \in Seq(Nat) /\ Len(v) = Len(w) + 1 /\ v[Len(w) + 1] = x
        /\ \A i \in 1..Len(w) : v[i] = w[i]
    BY AppendedNat
  <2> HIDE DEF v
  <2>3. Len(w) = Len(h) /\ Len(v) = Len(g) /\ Len(g) <= W
    BY <1>0, <1>len, <1>2, <1>3, <2>2
  <2>4. ASSUME NEW i \in 1..Len(v)
        PROVE  v[i] = g[Len(g) - Len(v) + i]
    <3>1. Len(g) - Len(v) + i = i /\ (i = Len(h) + 1 \/ i \in 1..Len(h))
      BY <1>len, <2>3
    <3>2. CASE i = Len(h) + 1
      BY <1>1, <2>2, <2>3, <3>1, <3>2
    <3>3. CASE i \in 1..Len(h)
      <4>1. v[i] = w[i] /\ g[i] = h[i]
        BY <1>1, <2>2, <2>3, <3>3
      <4>2. w[i] = h[Len(h) - Len(w) + i] /\ Len(h) - Len(w) + i = i
        BY <1>len, <2>3, <3>3 DEF Suffix
      <4> QED
        BY <3>1, <4>1, <4>2
    <3> QED
      BY <3>1, <3>2, <3>3
  <2>5. Len(v) = IF Len(g) < W THEN Len(g) ELSE W
    BY <1>0, <1>len, <2>3
  <2> QED
    BY <2>1, <2>2, <2>4, <2>5 DEF Suffix, W, g
<1>4. CASE ~(Len(w) < W)
  <2> DEFINE t == Tail(w)
             v == Append(t, x)
  <2>1. Push(w, x) = v
    BY <1>4 DEF Push, W
  <2>2. w # <<>> /\ Len(w) = W /\ Len(h) >= W
    BY <1>0, <1>len, <1>2, <1>4
  <2>3. t \in Seq(Nat) /\ Len(t) = W - 1 /\ \A i \in 1..W - 1 : t[i] = w[i + 1]
    BY <2>2, TailedNat
  <2> HIDE DEF t
  <2>4. /\ v \in Seq(Nat) /\ Len(v) = Len(t) + 1 /\ v[Len(t) + 1] = x
        /\ \A i \in 1..Len(t) : v[i] = t[i]
    BY <2>3, AppendedNat
  <2>len. Len(v) = W /\ Len(t) + 1 = W
    BY <1>0, <2>3, <2>4
  <2> HIDE DEF v
  <2>5. ASSUME NEW i \in 1..Len(v)
        PROVE  v[i] = g[Len(g) - Len(v) + i]
    <3>1. i = W \/ i \in 1..W - 1
      BY <1>0, <2>len
    <3>2. CASE i = W
      <4>1. Len(g) - Len(v) + i = Len(h) + 1
        BY <1>0, <1>len, <2>len, <3>2
      <4> QED
        BY <1>1, <2>4, <2>len, <3>2, <4>1
    <3>3. CASE i \in 1..W - 1
      <4>1. /\ i \in 1..Len(t) /\ i + 1 \in 1..Len(w)
            /\ Len(g) - Len(v) + i = Len(h) - Len(w) + (i + 1)
            /\ Len(h) - Len(w) + (i + 1) \in 1..Len(h)
        BY <1>0, <1>len, <2>2, <2>len, <3>3
      <4>2. v[i] = w[i + 1]
        BY <2>3, <2>4, <3>3, <4>1
      <4>3. w[i + 1] = h[Len(h) - Len(w) + (i + 1)]
        BY <4>1 DEF Suffix
      <4>4. g[Len(h) - Len(w) + (i + 1)] = h[Len(h) - Len(w) + (i + 1)]
        BY <1>1, <4>1
      <4> QED
        BY <4>1, <4>2, <4>3, <4>4
    <3> QED
      BY <3>1, <3>2, <3>3
  <2>6. Len(v) = IF Len(g) < W THEN Len(g) ELSE W
    BY <1>0, <1>len, <2>2, <2>len
  <2> QED
    BY <2>1, <2>4, <2>5, <2>6 DEF Suffix, W, g
<1> QED
  BY <1>3, <1>4

\* Products are monotonic.
LEMMA Monotonic ==
  ASSUME NEW a \in Nat, NEW x \in Int, NEW y \in Int
  PROVE  /\ x <= y => a * x <= a * y
         /\ a > 0 /\ x < y => a * x < a * y
<1> DEFINE z == y - x
<1>1. z \in Int /\ a * y = a * x + a * z
  OBVIOUS
<1>2. z >= 0 => a * z >= 0
  OBVIOUS
<1>3. a > 0 /\ z > 0 => a * z > 0
  OBVIOUS
<1>4. a * x \in Int /\ a * z \in Int /\ a * y \in Int
  BY <1>1
<1>5. (x <= y => z >= 0) /\ (x < y => z > 0)
  OBVIOUS
<1> HIDE DEF z
<1> QED
  BY <1>1, <1>2, <1>3, <1>4, <1>5

\* A weighted step from e towards x has the type of an average.
LEMMA SmoothType ==
  ASSUME NEW e \in [num : Nat, den : Nat], NEW x \in Nat
  PROVE  /\ Smooth(e, x) \in [num : Nat, den : Nat]
         /\ Smooth(e, x).num = ALPHA_NUM * x * e.den + keep * e.num
         /\ Smooth(e, x).den = ALPHA_DEN * e.den
         /\ e.den > 0 => Smooth(e, x).den > 0
<1>1. /\ Smooth(e, x).num = ALPHA_NUM * x * e.den + keep * e.num
      /\ Smooth(e, x).den = ALPHA_DEN * e.den
      /\ Smooth(e, x) = [num |-> ALPHA_NUM * x * e.den + keep * e.num, den |-> ALPHA_DEN * e.den]
  BY DEF Smooth, keep
<1>2. \A a, b \in Nat : a * b \in Nat
  OBVIOUS
<1>3. \A a, b \in Nat : a > 0 /\ b > 0 => a * b > 0
  OBVIOUS
<1>4. e.num \in Nat /\ e.den \in Nat
  OBVIOUS
<1>5. /\ ALPHA_NUM * x \in Nat /\ ALPHA_NUM * x * e.den \in Nat
      /\ keep * e.num \in Nat /\ ALPHA_DEN * e.den \in Nat
  BY <1>2, <1>4, Constants
<1>6. ALPHA_NUM * x * e.den + keep * e.num \in Nat
  BY <1>5
<1>7. e.den > 0 => ALPHA_DEN * e.den > 0
  BY <1>3, <1>4, Constants
<1> QED
  BY <1>1, <1>5, <1>6, <1>7

\* A mean stays below what bounds its parts.
LEMMA SmoothBelow ==
  ASSUME NEW e \in [num : Nat, den : Nat], NEW h \in Seq(Nat), NEW x \in Nat, NEW seed \in Nat,
         e.den > 0, Below(e, h, seed)
  PROVE  Below(Smooth(e, x), Append(h, x), seed)
<1> DEFINE g == Append(h, x)
           f == Smooth(e, x)
           n == e.num
           d == e.den
<1>1. /\ Len(h) \in Nat /\ Len(g) = Len(h) + 1 /\ g[Len(h) + 1] = x
      /\ \A i \in 1..Len(h) : g[i] = h[i]
  BY AppendedNat
<1>2. n \in Nat /\ d \in Nat /\ d > 0
  OBVIOUS
<1>3. f.num = ALPHA_NUM * x * d + keep * n /\ f.den = ALPHA_DEN * d
  BY SmoothType
<1>4. ASSUME NEW s \in Nat, seed <= s, \A i \in 1..Len(h) : h[i] <= s
      PROVE  n <= d * s
  BY <1>4 DEF Below
<1> HIDE DEF g, f, n, d
<1> SUFFICES ASSUME NEW s \in Nat, seed <= s, \A i \in 1..Len(g) : g[i] <= s
             PROVE  f.num <= f.den * s /\ (g[Len(g)] < s => f.num < f.den * s)
  BY DEF Below, g, f
<1>5. n <= d * s
  <2>1. \A i \in 1..Len(h) : i \in 1..Len(g)
    BY <1>1
  <2> QED
    BY <1>1, <1>4, <2>1
<1>6. x <= s /\ g[Len(g)] = x
  <2>1. Len(g) \in 1..Len(g)
    BY <1>1
  <2> QED
    BY <1>1, <2>1
<1> DEFINE a == ALPHA_NUM * d
           ds == d * s
<1>7. a \in Nat /\ a > 0 /\ ds \in Nat
  <2>1. \A p, q \in Nat : p * q \in Nat /\ (p > 0 /\ q > 0 => p * q > 0)
    OBVIOUS
  <2> QED
    BY <1>2, <2>1, Constants
<1>8. ALPHA_NUM * x * d = a * x
  BY <1>2, Constants
<1>9. f.den * s = a * s + keep * ds
  <2>1. ALPHA_DEN * d * s = ALPHA_NUM * d * s + keep * (d * s)
    <3>1. \A p, k, q, r \in Nat : (p + k) * q * r = p * q * r + k * (q * r)
      OBVIOUS
    <3>2. (ALPHA_NUM + keep) * d * s = ALPHA_NUM * d * s + keep * (d * s)
      BY <1>2, <3>1, Constants
    <3> QED
      BY <3>2, Constants
  <2> QED
    BY <1>3, <2>1
<1>10. keep * n <= keep * ds
  BY <1>2, <1>5, <1>7, Constants, Monotonic
<1>11. a * x <= a * s /\ (x < s => a * x < a * s)
  BY <1>6, <1>7, Monotonic
<1>12. a * x \in Int /\ a * s \in Int /\ keep * n \in Int /\ keep * ds \in Int
  BY <1>2, <1>7, Constants
<1> HIDE DEF a, ds
<1> QED
  BY <1>3, <1>6, <1>8, <1>9, <1>10, <1>11, <1>12

\* The weights of a history are naturals.
LEMMA WeightedType ==
  ASSUME NEW h \in Seq(Nat)
  PROVE  Len(h) \in Nat /\ Weighted(h) \in [1..Len(h) -> Int]
<1>1. Len(h) \in Nat /\ \A i \in 1..Len(h) : h[i] \in Nat
  OBVIOUS
<1>2. ASSUME NEW i \in 1..Len(h)
      PROVE  ALPHA_NUM * Power(keep)[Len(h) - i] * (Power(ALPHA_DEN)[i - 1] * h[i]) \in Int
  <2>1. Len(h) - i \in Nat /\ i - 1 \in Nat
    BY <1>1
  <2>2. Power(keep)[Len(h) - i] \in Nat /\ Power(ALPHA_DEN)[i - 1] \in Nat
    BY <2>1, Constants, PowerRec
  <2>3. \A p, q, r, t \in Nat : p * q * (r * t) \in Int
    OBVIOUS
  <2> QED
    BY <1>1, <2>2, <2>3, Constants
<1> QED
  BY <1>1, <1>2 DEF Weighted

\* One more record makes every weight older by one.
LEMMA SmoothMean ==
  ASSUME NEW e \in [num : Nat, den : Nat], NEW h \in Seq(Nat), NEW x \in Nat, NEW seed \in Nat,
         Mean(e, h, seed)
  PROVE  Mean(Smooth(e, x), Append(h, x), seed)
<1> DEFINE g == Append(h, x)
           f == Smooth(e, x)
           n == Len(h)
           P == Power(keep)
           D == Power(ALPHA_DEN)
           w == Weighted(h)
           u == Weighted(g)
           T == Total(w, n)
<1>1. /\ g \in Seq(Nat) /\ n \in Nat /\ Len(g) = n + 1 /\ g[n + 1] = x
      /\ \A i \in 1..n : g[i] = h[i] /\ h[i] \in Nat
  BY AppendedNat
<1>2. P[0] = 1 /\ \A i \in Nat : P[i] \in Nat /\ P[i + 1] = keep * P[i]
  BY Constants, PowerRec
<1>3. \A i \in Nat : D[i] \in Nat /\ D[i + 1] = ALPHA_DEN * D[i]
  BY Constants, PowerRec
<1>4. w \in [1..n -> Int] /\ u \in [1..n + 1 -> Int]
  BY <1>1, WeightedType
<1>5. /\ \A i \in 1..n : w[i] = ALPHA_NUM * P[n - i] * (D[i - 1] * h[i])
      /\ \A i \in 1..n + 1 : u[i] = ALPHA_NUM * P[n + 1 - i] * (D[i - 1] * g[i])
  BY <1>1 DEF Weighted
<1>6. /\ f.num = ALPHA_NUM * x * e.den + keep * e.num /\ f.den = ALPHA_DEN * e.den
      /\ e.den = D[n] /\ e.num = P[n] * seed + T
  BY SmoothType DEF Mean
<1>7. T \in Int
  BY <1>1, <1>4, TotalInt
<1> HIDE DEF g, f, P, D, w, u, T
<1>8. ASSUME NEW i \in 1..n
      PROVE  u[i] = keep * w[i]
  <2>1. n - i \in Nat /\ i - 1 \in Nat /\ n + 1 - i = (n - i) + 1 /\ i \in 1..n + 1
    BY <1>1
  <2>2. P[n + 1 - i] = keep * P[n - i] /\ P[n - i] \in Nat /\ D[i - 1] \in Nat
    BY <1>2, <1>3, <2>1
  <2>3. g[i] = h[i] /\ h[i] \in Nat
    BY <1>1
  <2> DEFINE y == D[i - 1] * h[i]
             z == P[n - i]
  <2>4. y \in Nat /\ z \in Nat
    BY <2>2, <2>3
  <2>5. u[i] = ALPHA_NUM * (keep * z) * y /\ w[i] = ALPHA_NUM * z * y
    BY <1>5, <2>1, <2>2, <2>3
  <2> HIDE DEF y, z
  <2>6. \A p, k, q, r \in Nat : p * (k * q) * r = k * (p * q * r)
    OBVIOUS
  <2> QED
    BY <2>4, <2>5, <2>6, Constants
<1>9. u[n + 1] = ALPHA_NUM * x * D[n]
  <2>1. n + 1 \in 1..n + 1 /\ n + 1 - (n + 1) = 0 /\ (n + 1) - 1 = n
    BY <1>1
  <2>2. u[n + 1] = ALPHA_NUM * 1 * (D[n] * x)
    BY <1>1, <1>2, <1>5, <2>1
  <2>3. D[n] \in Nat /\ \A p, q, r \in Nat : p * 1 * (q * r) = p * r * q
    BY <1>1, <1>3
  <2> QED
    BY <2>2, <2>3, Constants
<1>10. Total(u, n + 1) = keep * T + u[n + 1]
  <2>1. keep \in Int
    BY Constants
  <2> QED
    BY <1>1, <1>4, <1>8, <2>1, TotalScaled DEF T
<1>11. f.num = P[n + 1] * seed + Total(u, n + 1)
  <2>1. P[n] \in Nat /\ P[n + 1] = keep * P[n]
    BY <1>1, <1>2
  <2>2. \A k, p, r \in Nat, t \in Int : k * (p * r + t) = k * p * r + k * t
    OBVIOUS
  <2>3. keep * e.num = P[n + 1] * seed + keep * T
    BY <1>6, <1>7, <2>1, <2>2, Constants
  <2>4. f.num = ALPHA_NUM * x * D[n] + keep * e.num
    BY <1>6
  <2>5. P[n + 1] * seed \in Int /\ keep * T \in Int /\ ALPHA_NUM * x * D[n] \in Int
    <3>1. P[n + 1] \in Nat /\ D[n] \in Nat
      BY <1>1, <1>2, <1>3
    <3>2. \A p, q \in Int : p * q \in Int
      OBVIOUS
    <3> QED
      BY <1>7, <3>1, <3>2, Constants
  <2> HIDE DEF n
  <2> QED
    BY <1>9, <1>10, <2>3, <2>4, <2>5
<1>12. f.den = D[n + 1]
  BY <1>1, <1>3, <1>6
<1> QED
  BY <1>1, <1>11, <1>12 DEF Mean, g, f, P, D, u

-----------------------------------------------------------------------------
\* The invariant

\* Where there is no record, the average is the seed.
LEMMA NoRecord ==
  ASSUME NEW b \in Backends
  PROVE  /\ Suffix(<<>>, <<>>)
         /\ Below(Seeded[b], <<>>, Seed[b])
         /\ Mean(Seeded[b], <<>>, Seed[b])
         /\ Seeded[b].den > 0
<1>1. Seeded[b] = [num |-> Seed[b], den |-> 1] /\ Seed[b] \in Nat
  BY Constants DEF Seeded
<1>2. Suffix(<<>>, <<>>)
  BY Constants DEF Suffix
<1>3. Below(Seeded[b], <<>>, Seed[b])
  BY <1>1 DEF Below
<1>4. Mean(Seeded[b], <<>>, Seed[b])
  <2>1. Power(keep)[0] = 1 /\ Power(ALPHA_DEN)[0] = 1
    BY Constants, PowerRec
  <2>2. Total(Weighted(<<>>), 0) = 0
    <3> DEFINE z == Weighted(<<>>)
    <3>0. <<>> \in Seq(Nat) /\ Len(<<>>) = 0
      OBVIOUS
    <3>1. z \in [1..Len(<<>>) -> Int]
      BY <3>0, WeightedType, Zenon
    <3>2. z \in [1..0 -> Int] /\ 0 \in Nat
      BY <3>0, <3>1
    <3> HIDE DEF z
    <3> QED
      BY <3>2, PrefixSumRec DEF Total, z
  <2>3. Len(<<>>) = 0
    OBVIOUS
  <2>4. Seeded[b].num = 1 * Seed[b] + 0 /\ Seeded[b].den = 1
    BY <1>1
  <2> QED
    BY <2>1, <2>2, <2>3, <2>4 DEF Mean
<1>5. Seeded[b].den > 0
  BY <1>1
<1> QED
  BY <1>2, <1>3, <1>4, <1>5

\* A tracker without records satisfies the invariant.
LEMMA TrackerStarts ==
  ASSUME ema = Seeded, windows = [b \in Backends |-> <<>>], history = [b \in Backends |-> <<>>]
  PROVE  TrackerInv
<1>1. Typed
  BY Constants DEF Typed, Seeded
<1>2. \A b \in Backends : windows[b] = <<>> /\ history[b] = <<>> /\ ema[b] = Seeded[b]
  OBVIOUS
<1> QED
  BY <1>1, <1>2, NoRecord DEF TrackerInv

\* Recording keeps the invariant.
LEMMA RecordKeeps ==
  ASSUME TrackerInv, NEW b \in Backends, NEW x \in Samples, Record(b, x)
  PROVE  TrackerInv'
<1>1. x \in Nat
  BY TrackerAssumption
<1>2. /\ ema[b] \in [num : Nat, den : Nat] /\ windows[b] \in Seq(Nat) /\ history[b] \in Seq(Nat)
      /\ Seed[b] \in Nat
  BY Constants DEF TrackerInv, Typed
<1>3. /\ Suffix(windows[b], history[b]) /\ Below(ema[b], history[b], Seed[b])
      /\ Mean(ema[b], history[b], Seed[b]) /\ ema[b].den > 0
  BY DEF TrackerInv
<1>4. /\ ema'[b] = Smooth(ema[b], x) /\ windows'[b] = Push(windows[b], x)
      /\ history'[b] = Append(history[b], x)
  BY DEF Record, TrackerInv, Typed
<1>5. /\ ema'[b] \in [num : Nat, den : Nat] /\ ema'[b].den > 0
  BY <1>1, <1>2, <1>3, <1>4, SmoothType
<1>6. windows'[b] \in Seq(Nat) /\ Suffix(windows'[b], history'[b])
  BY <1>1, <1>2, <1>3, <1>4, PushSuffix
<1>7. history'[b] \in Seq(Nat)
  BY <1>1, <1>2, <1>4, AppendedNat
<1>8. Below(ema'[b], history'[b], Seed[b])
  BY <1>1, <1>2, <1>3, <1>4, SmoothBelow
<1>9. Mean(ema'[b], history'[b], Seed[b])
  BY <1>1, <1>2, <1>3, <1>4, SmoothMean
<1>10. Typed'
  BY <1>5, <1>6, <1>7 DEF Typed, TrackerInv, Record
<1>11. ASSUME NEW c \in Backends, c # b
       PROVE  ema'[c] = ema[c] /\ windows'[c] = windows[c] /\ history'[c] = history[c]
  BY <1>11 DEF Record, TrackerInv, Typed
<1>12. ASSUME NEW c \in Backends
       PROVE  /\ Suffix(windows'[c], history'[c]) /\ Below(ema'[c], history'[c], Seed[c])
              /\ Mean(ema'[c], history'[c], Seed[c]) /\ ema'[c].den > 0
  <2>1. CASE c = b
    BY <1>5, <1>6, <1>8, <1>9, <2>1
  <2>2. CASE c # b
    BY <1>11, <2>2 DEF TrackerInv
  <2> QED
    BY <2>1, <2>2
<1> QED
  BY <1>10, <1>12 DEF TrackerInv, Suffix, Below, Mean, Weighted, keep

\* The invariant is inductive: the window is the end of the history, the average
\* is a mean of the seed and the history, and bounded by them.
THEOREM TrackerInvariant == Spec => []TrackerInv
<1>1. Init => TrackerInv
  BY TrackerStarts DEF Init
<1>2. TrackerInv /\ [Next]_vars => TrackerInv'
  <2> SUFFICES ASSUME TrackerInv, [Next]_vars
               PROVE  TrackerInv'
    OBVIOUS
  <2>1. ASSUME NEW b \in Backends, NEW x \in Samples, Record(b, x)
        PROVE  TrackerInv'
    BY <2>1, RecordKeeps
  <2>2. CASE Reset
    <3>1. ASSUME NEW b \in Backends
          PROVE  windows'[b] = <<>> /\ history'[b] = <<>> /\ ema'[b] = Seeded[b]
      BY <2>2 DEF Reset
    <3>2. Typed'
      BY <2>2, Constants DEF Typed, Reset, Seeded
    <3> QED
      BY <3>1, <3>2, NoRecord DEF TrackerInv, Suffix, Below, Mean, Weighted, keep
  <2>3. CASE UNCHANGED vars
    BY <2>3 DEF vars, TrackerInv, Typed, Suffix, Below, Mean, Weighted, keep
  <2> QED
    BY <2>1, <2>2, <2>3 DEF Next
<1> QED
  BY <1>1, <1>2, PTL DEF Spec

-----------------------------------------------------------------------------
\* What the invariant says

\* The estimate is not below the average nor any item of the window, and is one
\* of them.
LEMMA EstimateFacts ==
  ASSUME TrackerInv, NEW b \in Backends
  PROVE  /\ GetEstimate(b) \in Nat
         /\ \A i \in 1..Len(windows[b]) : GetEstimate(b) >= ema[b].den * windows[b][i]
         /\ \/ GetEstimate(b) = ema[b].num
            \/ \E i \in 1..Len(windows[b]) : GetEstimate(b) = ema[b].den * windows[b][i]
<1> DEFINE w == windows[b]
           n == ema[b].num
           d == ema[b].den
<1>1. w \in Seq(Nat) /\ n \in Nat /\ d \in Nat
  BY DEF TrackerInv, Typed
<1>2. GetEstimate(b) = IF w = <<>> THEN n ELSE Max({n, d * Max(ToSet(w))})
  BY DEF GetEstimate
<1> HIDE DEF w, n, d
<1>3. CASE w = <<>>
  <2>1. Len(w) = 0 /\ GetEstimate(b) = n
    BY <1>2, <1>3
  <2> QED
    BY <1>1, <2>1 DEF w, n, d
<1>4. CASE w # <<>>
  <2> DEFINE m == Max(ToSet(w))
             e == Max({n, d * m})
  <2>1. /\ m \in Nat /\ \A j \in 1..Len(w) : m >= w[j]
        /\ \E i \in 1..Len(w) : m = w[i]
    BY <1>1, <1>4, WindowMax
  <2>2. \A j \in 1..Len(w) : w[j] \in Nat
    BY <1>1
  <2>3. GetEstimate(b) = e
    BY <1>2, <1>4
  <2> HIDE DEF m
  <2>4. d * m \in Nat
    BY <1>1, <2>1
  <2>5. e \in {n, d * m} /\ e >= n /\ e >= d * m
    BY <1>1, <2>4, PairMax
  <2> HIDE DEF e
  <2>6. ASSUME NEW j \in 1..Len(w)
        PROVE  e >= d * w[j]
    <3>1. w[j] \in Int /\ m \in Int /\ w[j] <= m
      BY <2>1, <2>2
    <3>2. d * w[j] <= d * m
      BY <1>1, <3>1, Monotonic
    <3>3. d * w[j] \in Int /\ e \in Int
      BY <1>1, <2>4, <2>5, <3>1
    <3> QED
      BY <2>4, <2>5, <3>2, <3>3
  <2>7. e = n \/ \E i \in 1..Len(w) : e = d * w[i]
    BY <2>1, <2>5
  <2>8. e \in Nat
    BY <1>1, <2>4, <2>5
  <2> QED
    BY <2>3, <2>6, <2>7, <2>8 DEF w, n, d
<1> QED
  BY <1>3, <1>4

\* EmaIsWeightedMean of latency_tracker.py's record(): after any records the
\* average is the weighted mean of the seed and all of them since the last
\* reset, each with the weight of its age.
THEOREM MeanExact == Spec => []EmaIsWeightedMean
<1>1. TrackerInv => EmaIsWeightedMean
  BY DEF TrackerInv, EmaIsWeightedMean, Mean, Weighted, keep
<1> QED
  BY <1>1, TrackerInvariant, PTL

\* SpikeWindow of latency_tracker.py's get_estimate(): a record among the last
\* LATENCY_WINDOW_SIZE ones is not above the estimate; one that is higher than
\* the seed and every other record is above it once it has left the window.
THEOREM SpikesPass == Spec => []SpikeWindow
<1>1. TrackerInv => SpikeWindow
  <2> SUFFICES ASSUME TrackerInv, NEW b \in Backends, NEW i \in DOMAIN history[b]
               PROVE  /\ i > Len(history[b]) - LATENCY_WINDOW_SIZE
                            => GetEstimate(b) >= ema[b].den * history[b][i]
                      /\ /\ ~(i > Len(history[b]) - LATENCY_WINDOW_SIZE)
                         /\ history[b][i] > Seed[b]
                         /\ \A j \in DOMAIN history[b] \ {i} : history[b][j] < history[b][i]
                         => GetEstimate(b) < ema[b].den * history[b][i]
    BY DEF SpikeWindow
  <2> DEFINE h == history[b]
             w == windows[b]
             n == ema[b].num
             d == ema[b].den
             est == GetEstimate(b)
             W == LATENCY_WINDOW_SIZE
  <2>1. /\ h \in Seq(Nat) /\ w \in Seq(Nat) /\ n \in Nat /\ d \in Nat /\ d > 0
        /\ Suffix(w, h) /\ Below(ema[b], h, Seed[b]) /\ Seed[b] \in Nat /\ W \in Nat /\ W > 0
    BY Constants DEF TrackerInv, Typed
  <2>2. /\ Len(h) \in Nat /\ DOMAIN h = 1..Len(h) /\ Len(w) \in Nat
        /\ \A j \in 1..Len(h) : h[j] \in Nat
    BY <2>1
  <2>3. /\ Len(w) = IF Len(h) < W THEN Len(h) ELSE W
        /\ \A j \in 1..Len(w) : w[j] = h[Len(h) - Len(w) + j]
    BY <2>1 DEF Suffix
  <2>4. /\ est \in Nat /\ \A j \in 1..Len(w) : est >= d * w[j]
        /\ est = n \/ \E j \in 1..Len(w) : est = d * w[j]
    BY EstimateFacts
  <2>5. i \in 1..Len(h) /\ h[i] \in Nat
    BY <2>2
  <2>6. \A s \in Nat : Seed[b] <= s /\ (\A j \in 1..Len(h) : h[j] <= s)
                          /\ Len(h) > 0 /\ h[Len(h)] < s => n < d * s
    BY <2>1 DEF Below
  <2>len. Len(h) \in Nat /\ Len(w) \in Nat /\ W \in Nat /\ W > 0
          /\ Len(w) = IF Len(h) < W THEN Len(h) ELSE W
    BY <2>1, <2>2, <2>3
  <2> HIDE DEF h, w, n, d, est, W
  <2>7. ASSUME i > Len(h) - W
        PROVE  est >= d * h[i]
    <3> DEFINE j == i - (Len(h) - Len(w))
    <3>1. j \in 1..Len(w) /\ Len(h) - Len(w) + j = i
      BY <2>5, <2>len, <2>7
    <3> HIDE DEF j
    <3>2. w[j] = h[i]
      BY <2>3, <3>1
    <3> QED
      BY <2>4, <3>1, <3>2
  <2>8. ASSUME ~(i > Len(h) - W), h[i] > Seed[b], \A j \in 1..Len(h) \ {i} : h[j] < h[i]
        PROVE  est < d * h[i]
    <3>0. i <= Len(h) - Len(w) /\ i \in Nat
      BY <2>5, <2>len, <2>8
    <3>1. Len(w) = W /\ i # Len(h) /\ Len(h) \in 1..Len(h) /\ Len(h) > 0
      BY <2>5, <2>len, <2>8
    <3>2. \A j \in 1..Len(h) : h[j] <= h[i]
      BY <2>2, <2>5, <2>8
    <3>3. h[Len(h)] < h[i] /\ Seed[b] <= h[i]
      BY <2>1, <2>5, <2>8, <3>1
    <3>4. n < d * h[i]
      BY <2>5, <2>6, <3>1, <3>2, <3>3
    <3>5. ASSUME NEW j \in 1..Len(w)
          PROVE  d * w[j] < d * h[i]
      <4>1. Len(h) - Len(w) + j \in 1..Len(h) /\ Len(h) - Len(w) + j # i
        BY <2>len, <3>0
      <4>2. w[j] < h[i] /\ w[j] \in Nat
        BY <2>2, <2>3, <2>8, <4>1
      <4>3. w[j] \in Int /\ h[i] \in Int
        BY <2>5, <4>2
      <4> QED
        BY <2>1, <4>2, <4>3, Monotonic
    <3> QED
      BY <2>4, <3>4, <3>5
  <2> QED
    BY <2>2, <2>7, <2>8 DEF h, d, est, W
<1> QED
  BY <1>1, TrackerInvariant, PTL
=============================================================================
