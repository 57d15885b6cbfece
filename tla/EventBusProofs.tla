---------------------------- MODULE EventBusProofs ----------------------------
(***************************************************************************)
(* The event bus and its streams: for any number of connections, any queue  *)
(* limit and any number of events.                                          *)
(***************************************************************************)
EXTENDS EventBus, FiniteSetTheorems, SequenceTheorems, TLAPS

Typed ==
    /\ log \in Seq(Kinds) /\ Len(log) <= MaxEvents
    /\ subscribers \subseteq Clients
    /\ queues \in [Clients -> Seq(Nat)]
    /\ stream \in [Clients -> Streams]
    /\ online \in [Clients -> BOOLEAN]
    /\ joined \in [Clients -> 0..MaxEvents]
    /\ got \in [Clients -> Seq(Nat)]
    /\ counts \in [served : Nat, failed : Nat]

\* Before its first turn a stream has taken nothing, before its subscription its
\* queue is empty and nobody is there; one that was dropped has nobody either.
Begun(c) ==
    /\ stream[c] \in {"none", "opening", "dropped"} => got[c] = <<>>
    /\ stream[c] = "none" => queues[c] = <<>>
    /\ stream[c] \in {"none", "dropped"} => ~online[c]
    /\ c \in subscribers <=> stream[c] \notin {"none", "closed"}

\* What was taken and what waits is in order, and published since c joined.
Ordered(g, q, from, to) ==
    /\ \A i \in 1..Len(g) : from < g[i] /\ g[i] <= to
    /\ \A i \in 1..Len(q) : from < q[i] /\ q[i] <= to
    /\ \A i, j \in 1..Len(g) : i < j => g[i] < g[j]
    /\ \A i, j \in 1..Len(q) : i < j => q[i] < q[j]
    /\ \A i \in 1..Len(g), j \in 1..Len(q) : g[i] < q[j]

\* A queue on the bus holds the newest events, without a gap.
Newest(q, to) == \A i \in 1..Len(q) : q[i] = to - Len(q) + i

\* An event neither taken nor waiting is older than a full queue.
Missed(g, q, from, to) ==
    \A e \in from + 1 .. to :
        (\A i \in 1..Len(g) : g[i] # e) /\ (\A i \in 1..Len(q) : q[i] # e)
            => e + MAX_QUEUE_SIZE <= to

Streamed(c) ==
    /\ joined[c] <= Len(log)
    /\ Len(queues[c]) <= MAX_QUEUE_SIZE
    /\ Ordered(got[c], queues[c], joined[c], Len(log))
    /\ c \in subscribers => /\ Newest(queues[c], Len(log))
                            /\ Missed(got[c], queues[c], joined[c], Len(log))

\* The inductive invariant.
BusInv ==
    /\ Typed
    /\ \A c \in Clients : Begun(c) /\ Streamed(c)
    /\ CountsUnlessStreamed

-----------------------------------------------------------------------------
\* Sequences of event numbers

\* What Append does.
LEMMA Appended ==
  ASSUME NEW S, NEW q \in Seq(S), NEW e \in S
  PROVE  /\ Append(q, e) \in Seq(S)
         /\ Len(q) \in Nat /\ Len(Append(q, e)) = Len(q) + 1
         /\ Append(q, e)[Len(q) + 1] = e
         /\ \A i \in 1..Len(q) : Append(q, e)[i] = q[i] /\ q[i] \in S
OBVIOUS

\* What Head and Tail do.
LEMMA Tailed ==
  ASSUME NEW q \in Seq(Nat), q # <<>>
  PROVE  /\ Tail(q) \in Seq(Nat)
         /\ Len(q) \in Nat /\ Len(q) > 0 /\ Len(Tail(q)) = Len(q) - 1
         /\ Head(q) = q[1] /\ Head(q) \in Nat
         /\ \A i \in 1..Len(q) - 1 : Tail(q)[i] = q[i + 1]
         /\ \A i \in 1..Len(q) : q[i] \in Nat
OBVIOUS

\* A sequence is one of its own items.
LEMMA SequenceOf ==
  ASSUME NEW S, NEW q \in Seq(Nat), \A i \in 1..Len(q) : q[i] \in S
  PROVE  q \in Seq(S)
<1>1. Len(q) \in Nat /\ q \in [1..Len(q) -> S]
  OBVIOUS
<1> QED
  BY <1>1, SeqDef

\* An empty queue satisfies everything.
LEMMA EmptyOrdered ==
  ASSUME NEW n \in Nat
  PROVE  Ordered(<<>>, <<>>, n, n) /\ Newest(<<>>, n) /\ Missed(<<>>, <<>>, n, n)
BY DEF Ordered, Newest, Missed

\* One more event on a queue that is not full.
LEMMA PushOrdered ==
  ASSUME NEW g \in Seq(Nat), NEW q \in Seq(Nat), NEW a \in Nat, NEW n \in Nat, a <= n,
         Ordered(g, q, a, n), Newest(q, n), Missed(g, q, a, n)
  PROVE  /\ Ordered(g, Append(q, n + 1), a, n + 1)
         /\ Newest(Append(q, n + 1), n + 1)
         /\ Missed(g, Append(q, n + 1), a, n + 1)
<1> DEFINE p == Append(q, n + 1)
<1>1. /\ Len(q) \in Nat /\ Len(p) = Len(q) + 1 /\ p[Len(q) + 1] = n + 1
      /\ \A i \in 1..Len(q) : p[i] = q[i] /\ q[i] \in Nat
  BY Appended
<1>2. Len(g) \in Nat /\ \A i \in 1..Len(g) : g[i] \in Nat
  OBVIOUS
<1>3. MAX_QUEUE_SIZE \in Nat
  BY EventBusAssumption
<1> HIDE DEF p
<1>len. Len(q) \in Nat /\ Len(p) = Len(q) + 1
  BY <1>1
<1>4. Ordered(g, p, a, n + 1)
  <2>1. ASSUME NEW i \in 1..Len(p)
        PROVE  a < p[i] /\ p[i] <= n + 1
    <3>1. i \in 1..Len(q) \/ i = Len(q) + 1
      BY <1>len
    <3>2. CASE i \in 1..Len(q)
      <4>1. p[i] = q[i] /\ q[i] \in Nat /\ a < q[i] /\ q[i] <= n
        BY <1>1, <3>2 DEF Ordered
      <4> QED
        BY <4>1
    <3> QED
      BY <1>1, <3>1, <3>2
  <2>2. ASSUME NEW i \in 1..Len(p), NEW j \in 1..Len(p), i < j
        PROVE  p[i] < p[j]
    <3>0. \A m \in Nat : i \in 1..m + 1 /\ j \in 1..m + 1 =>
                            i \in 1..m /\ (j \in 1..m \/ j = m + 1)
      BY <2>2
    <3>1. i \in 1..Len(q) /\ (j \in 1..Len(q) \/ j = Len(q) + 1)
      BY <1>len, <3>0
    <3>2. p[i] = q[i] /\ q[i] \in Nat /\ q[i] <= n
      BY <1>1, <3>1 DEF Ordered
    <3>3. CASE j \in 1..Len(q)
      <4>1. p[j] = q[j] /\ q[i] < q[j]
        BY <1>1, <2>2, <3>1, <3>3 DEF Ordered
      <4> QED
        BY <3>2, <4>1
    <3>4. CASE j = Len(q) + 1
      BY <1>1, <3>2, <3>4
    <3> QED
      BY <3>1, <3>3, <3>4
  <2>3. ASSUME NEW i \in 1..Len(g), NEW j \in 1..Len(p)
        PROVE  g[i] < p[j]
    <3>1. j \in 1..Len(q) \/ j = Len(q) + 1
      BY <1>len
    <3>2. g[i] \in Nat /\ g[i] <= n
      BY <1>2 DEF Ordered
    <3>3. CASE j \in 1..Len(q)
      <4>1. p[j] = q[j] /\ g[i] < q[j]
        BY <1>1, <3>3 DEF Ordered
      <4> QED
        BY <4>1
    <3>4. CASE j = Len(q) + 1
      BY <1>1, <3>2, <3>4
    <3> QED
      BY <3>1, <3>3, <3>4
  <2>4. /\ \A i \in 1..Len(g) : a < g[i] /\ g[i] <= n + 1
        /\ \A i, j \in 1..Len(g) : i < j => g[i] < g[j]
    BY <1>2 DEF Ordered
  <2> QED
    BY <2>1, <2>2, <2>3, <2>4 DEF Ordered
<1>5. Newest(p, n + 1)
  <2> SUFFICES ASSUME NEW i \in 1..Len(p)
               PROVE  p[i] = n + 1 - Len(p) + i
    BY DEF Newest
  <2>1. i \in 1..Len(q) \/ i = Len(q) + 1
    BY <1>len
  <2>2. CASE i \in 1..Len(q)
    <3>1. p[i] = q[i] /\ q[i] = n - Len(q) + i
      BY <1>1, <2>2 DEF Newest
    <3> QED
      BY <1>len, <3>1
  <2>3. CASE i = Len(q) + 1
    <3>1. p[i] = n + 1
      BY <1>1, <2>3
    <3> QED
      BY <1>len, <2>3, <3>1
  <2> QED
    BY <2>1, <2>2, <2>3
<1>6. Missed(g, p, a, n + 1)
  <2> SUFFICES ASSUME NEW e \in a + 1 .. n + 1,
                      \A i \in 1..Len(g) : g[i] # e, \A i \in 1..Len(p) : p[i] # e
               PROVE  e + MAX_QUEUE_SIZE <= n + 1
    BY DEF Missed
  <2>1. e # n + 1
    <3>1. Len(q) + 1 \in 1..Len(p)
      BY <1>len
    <3> QED
      BY <1>1, <3>1
  <2>2. e \in a + 1 .. n
    BY <2>1
  <2>3. \A i \in 1..Len(q) : q[i] # e
    <3>1. \A i \in 1..Len(q) : i \in 1..Len(p)
      BY <1>len
    <3> QED
      BY <1>1, <3>1
  <2>4. e + MAX_QUEUE_SIZE <= n
    BY <2>2, <2>3 DEF Missed
  <2> QED
    BY <1>3, <2>4
<1> QED
  BY <1>4, <1>5, <1>6 DEF p

\* A full queue that drops its oldest event stays in order; what is lost is
\* followed by a full queue.
LEMMA DropOrdered ==
  ASSUME NEW g \in Seq(Nat), NEW q \in Seq(Nat), NEW a \in Nat, NEW n \in Nat, a <= n,
         Ordered(g, q, a, n), Newest(q, n), Missed(g, q, a, n), Len(q) = MAX_QUEUE_SIZE
  PROVE  /\ q # <<>> /\ Tail(q) \in Seq(Nat)
         /\ Ordered(g, Append(Tail(q), n + 1), a, n + 1)
         /\ Newest(Append(Tail(q), n + 1), n + 1)
         /\ Missed(g, Append(Tail(q), n + 1), a, n + 1)
         /\ Len(Append(Tail(q), n + 1)) = MAX_QUEUE_SIZE
<1> DEFINE t == Tail(q)
           p == Append(t, n + 1)
<1>1. MAX_QUEUE_SIZE \in Nat /\ MAX_QUEUE_SIZE > 0
  BY EventBusAssumption
<1>2. q # <<>>
  BY <1>1
<1>3. /\ t \in Seq(Nat) /\ Len(q) \in Nat /\ Len(t) = Len(q) - 1
      /\ \A i \in 1..Len(q) - 1 : t[i] = q[i + 1]
      /\ \A i \in 1..Len(q) : q[i] \in Nat
  BY <1>2, Tailed
<1> HIDE DEF t
<1>4. /\ Len(p) = Len(q) /\ p[Len(q)] = n + 1
      /\ \A i \in 1..Len(q) - 1 : p[i] = q[i + 1]
  BY <1>3, Appended
<1>5. Len(g) \in Nat /\ \A i \in 1..Len(g) : g[i] \in Nat
  OBVIOUS
<1> HIDE DEF p
<1>len. Len(q) \in Nat /\ Len(p) = Len(q)
  BY <1>3, <1>4
<1>6. Ordered(g, p, a, n + 1)
  <2>1. \A i \in 1..Len(p) : a < p[i] /\ p[i] <= n + 1
    <3> SUFFICES ASSUME NEW i \in 1..Len(p)
                 PROVE  a < p[i] /\ p[i] <= n + 1
      OBVIOUS
    <3>1. CASE i = Len(q)
      BY <1>4, <3>1
    <3>2. CASE i # Len(q)
      <4>1. i \in 1..Len(q) - 1 /\ i + 1 \in 1..Len(q)
        BY <1>len, <3>2
      <4>2. p[i] = q[i + 1] /\ q[i + 1] \in Nat /\ a < q[i + 1] /\ q[i + 1] <= n
        BY <1>3, <1>4, <4>1 DEF Ordered
      <4> QED
        BY <4>2
    <3> QED
      BY <3>1, <3>2
  <2>2. ASSUME NEW i \in 1..Len(p), NEW j \in 1..Len(p), i < j
        PROVE  p[i] < p[j]
    <3>0. i \in 1..Len(q) - 1 /\ i + 1 \in 1..Len(q)
      BY <1>len, <2>2
    <3>1. i + 1 \in 1..Len(q) /\ p[i] = q[i + 1]
      BY <1>4, <3>0
    <3>2. CASE j = Len(q)
      <4>1. q[i + 1] \in Nat /\ q[i + 1] <= n
        BY <1>3, <3>1 DEF Ordered
      <4> QED
        BY <1>4, <3>1, <3>2, <4>1
    <3>3. CASE j # Len(q)
      <4>0. j \in 1..Len(q) - 1 /\ j + 1 \in 1..Len(q) /\ i + 1 < j + 1
        BY <1>len, <2>2, <3>3
      <4>1. j + 1 \in 1..Len(q) /\ p[j] = q[j + 1] /\ i + 1 < j + 1
        BY <1>4, <4>0
      <4> QED
        BY <3>1, <4>1 DEF Ordered
    <3> QED
      BY <3>2, <3>3
  <2>3. ASSUME NEW i \in 1..Len(g), NEW j \in 1..Len(p)
        PROVE  g[i] < p[j]
    <3>1. CASE j = Len(q)
      <4>1. g[i] \in Nat /\ g[i] <= n
        BY <1>5 DEF Ordered
      <4> QED
        BY <1>4, <3>1, <4>1
    <3>2. CASE j # Len(q)
      <4>0. j \in 1..Len(q) - 1 /\ j + 1 \in 1..Len(q)
        BY <1>len, <3>2
      <4>1. j + 1 \in 1..Len(q) /\ p[j] = q[j + 1]
        BY <1>4, <4>0
      <4> QED
        BY <4>1 DEF Ordered
    <3> QED
      BY <3>1, <3>2
  <2>4. /\ \A i \in 1..Len(g) : a < g[i] /\ g[i] <= n + 1
        /\ \A i, j \in 1..Len(g) : i < j => g[i] < g[j]
    BY <1>5 DEF Ordered
  <2> QED
    BY <2>1, <2>2, <2>3, <2>4 DEF Ordered
<1>7. Newest(p, n + 1)
  <2> SUFFICES ASSUME NEW i \in 1..Len(p)
               PROVE  p[i] = n + 1 - Len(p) + i
    BY DEF Newest
  <2>1. CASE i = Len(q)
    BY <1>3, <1>4, <2>1
  <2>2. CASE i # Len(q)
    <3>0. i \in 1..Len(q) - 1 /\ i + 1 \in 1..Len(q)
      BY <1>len, <2>2
    <3>1. i + 1 \in 1..Len(q) /\ p[i] = q[i + 1]
      BY <1>4, <3>0
    <3>2. q[i + 1] = n - Len(q) + (i + 1)
      BY <3>1 DEF Newest
    <3> QED
      BY <1>3, <1>4, <3>1, <3>2
  <2> QED
    BY <2>1, <2>2
<1>8. Missed(g, p, a, n + 1)
  <2> SUFFICES ASSUME NEW e \in a + 1 .. n + 1,
                      \A i \in 1..Len(g) : g[i] # e, \A i \in 1..Len(p) : p[i] # e
               PROVE  e + MAX_QUEUE_SIZE <= n + 1
    BY DEF Missed
  <2>1. e # n + 1
    BY <1>1, <1>3, <1>4
  <2>2. e \in a + 1 .. n
    BY <2>1
  <2>3. CASE e = q[1]
    <3>1. q[1] = n - Len(q) + 1
      BY <1>1 DEF Newest
    <3> QED
      BY <1>1, <2>3, <3>1
  <2>4. CASE e # q[1]
    <3>1. ASSUME NEW i \in 1..Len(q)
          PROVE  q[i] # e
      <4>1. CASE i = 1
        BY <2>4, <4>1
      <4>2. CASE i # 1
        <5>1. i - 1 \in 1..Len(q) - 1 /\ i - 1 \in 1..Len(p) /\ (i - 1) + 1 = i
          BY <1>len, <4>2
        <5>2. p[i - 1] = q[i]
          BY <1>4, <5>1
        <5> QED
          BY <5>1, <5>2
      <4> QED
        BY <4>1, <4>2
    <3>2. e + MAX_QUEUE_SIZE <= n
      BY <2>2, <3>1 DEF Missed
    <3> QED
      BY <1>1, <3>2
  <2> QED
    BY <2>3, <2>4
<1> QED
  BY <1>2, <1>3, <1>4, <1>6, <1>7, <1>8 DEF p, t

\* An event moves from the head of the queue to what was taken.
LEMMA TakeOrdered ==
  ASSUME NEW g \in Seq(Nat), NEW q \in Seq(Nat), q # <<>>, NEW a \in Nat, NEW n \in Nat,
         Ordered(g, q, a, n)
  PROVE  /\ Ordered(Append(g, Head(q)), Tail(q), a, n)
         /\ Newest(q, n) => Newest(Tail(q), n)
         /\ Missed(g, q, a, n) => Missed(Append(g, Head(q)), Tail(q), a, n)
<1> DEFINE t == Tail(q)
           p == Append(g, Head(q))
<1>1. /\ t \in Seq(Nat) /\ Head(q) = q[1] /\ Head(q) \in Nat
      /\ \A i \in 1..Len(q) - 1 : t[i] = q[i + 1]
      /\ \A i \in 1..Len(q) : q[i] \in Nat
  BY Tailed
<1>2. /\ p[Len(g) + 1] = q[1]
      /\ \A i \in 1..Len(g) : p[i] = g[i] /\ g[i] \in Nat
  BY <1>1, Appended
<1>3. /\ Len(q) \in Nat /\ Len(q) > 0 /\ Len(t) = Len(q) - 1
      /\ Len(g) \in Nat /\ Len(p) = Len(g) + 1
  BY <1>1, Tailed, Appended
<1> HIDE DEF t, p
<1>4. ASSUME NEW i \in 1..Len(p)
      PROVE  (i \in 1..Len(g) /\ p[i] = g[i]) \/ (i = Len(g) + 1 /\ p[i] = q[1])
  <2>1. i \in 1..Len(g) \/ i = Len(g) + 1
    BY <1>3
  <2> QED
    BY <1>2, <2>1
<1>5. ASSUME NEW i \in 1..Len(t)
      PROVE  i + 1 \in 1..Len(q) /\ t[i] = q[i + 1]
  <2>1. i \in 1..Len(q) - 1 /\ i + 1 \in 1..Len(q)
    BY <1>3
  <2> QED
    BY <1>1, <2>1
<1>6. 1 \in 1..Len(q)
  BY <1>3
<1>7. Ordered(p, t, a, n)
  <2>1. \A i \in 1..Len(p) : a < p[i] /\ p[i] <= n
    BY <1>4, <1>6 DEF Ordered
  <2>2. \A i \in 1..Len(t) : a < t[i] /\ t[i] <= n
    BY <1>5 DEF Ordered
  <2>3. ASSUME NEW i \in 1..Len(p), NEW j \in 1..Len(p), i < j
        PROVE  p[i] < p[j]
    <3>1. i \in 1..Len(g)
      <4>1. \A m \in Nat : i \in 1..m + 1 /\ j \in 1..m + 1 => i \in 1..m
        BY <2>3
      <4> QED
        BY <1>3, <4>1
    <3>2. p[i] = g[i]
      BY <1>2, <3>1
    <3>3. CASE j \in 1..Len(g)
      BY <1>2, <2>3, <3>1, <3>2, <3>3 DEF Ordered
    <3>4. CASE p[j] = q[1]
      BY <1>6, <3>1, <3>2, <3>4 DEF Ordered
    <3> QED
      BY <1>4, <3>3, <3>4
  <2>4. ASSUME NEW i \in 1..Len(t), NEW j \in 1..Len(t), i < j
        PROVE  t[i] < t[j]
    <3>1. i + 1 < j + 1
      BY <2>4
    <3> QED
      BY <1>5, <3>1 DEF Ordered
  <2>5. ASSUME NEW i \in 1..Len(p), NEW j \in 1..Len(t)
        PROVE  p[i] < t[j]
    <3>1. j + 1 \in 1..Len(q) /\ t[j] = q[j + 1] /\ 1 < j + 1
      BY <1>5
    <3>2. CASE i \in 1..Len(g) /\ p[i] = g[i]
      BY <3>1, <3>2 DEF Ordered
    <3>3. CASE p[i] = q[1]
      BY <1>6, <3>1, <3>3 DEF Ordered
    <3> QED
      BY <1>4, <3>2, <3>3
  <2> QED
    BY <2>1, <2>2, <2>3, <2>4, <2>5 DEF Ordered
<1>8. ASSUME Newest(q, n)
      PROVE  Newest(t, n)
  <2> SUFFICES ASSUME NEW i \in 1..Len(t)
               PROVE  t[i] = n - Len(t) + i
    BY DEF Newest
  <2>1. t[i] = n - Len(q) + (i + 1)
    BY <1>5, <1>8 DEF Newest
  <2> QED
    BY <1>3, <2>1
<1>9. ASSUME Missed(g, q, a, n)
      PROVE  Missed(p, t, a, n)
  <2> SUFFICES ASSUME NEW e \in a + 1 .. n,
                      \A i \in 1..Len(p) : p[i] # e, \A i \in 1..Len(t) : t[i] # e
               PROVE  e + MAX_QUEUE_SIZE <= n
    BY DEF Missed
  <2>1. \A i \in 1..Len(g) : g[i] # e
    <3>1. \A i \in 1..Len(g) : i \in 1..Len(p)
      BY <1>3
    <3> QED
      BY <1>2, <3>1
  <2>2. q[1] # e
    <3>1. Len(g) + 1 \in 1..Len(p)
      BY <1>3
    <3> QED
      BY <1>2, <3>1
  <2>3. ASSUME NEW i \in 1..Len(q), i # 1
        PROVE  q[i] # e
    <3>1. i - 1 \in 1..Len(t) /\ (i - 1) + 1 = i
      BY <1>3, <2>3
    <3>2. t[i - 1] = q[i]
      BY <1>5, <3>1
    <3> QED
      BY <3>1, <3>2
  <2>4. \A i \in 1..Len(q) : q[i] # e
    BY <2>2, <2>3
  <2> QED
    BY <1>9, <2>1, <2>4 DEF Missed
<1> QED
  BY <1>7, <1>8, <1>9 DEF p, t

\* Taken and waiting events as one sequence.
LEMMA SeenTogether ==
  ASSUME NEW g \in Seq(Nat), NEW q \in Seq(Nat), NEW a \in Nat, NEW n \in Nat,
         Ordered(g, q, a, n)
  PROVE  /\ \A i, j \in DOMAIN (g \o q) : i < j => (g \o q)[i] < (g \o q)[j]
         /\ \A i \in DOMAIN (g \o q) : (g \o q)[i] > a
         /\ Missed(g, q, a, n) =>
              \A e \in a + 1 .. n :
                 (\A i \in DOMAIN (g \o q) : (g \o q)[i] # e) => e + MAX_QUEUE_SIZE <= n
<1> DEFINE s == g \o q
<1>1. /\ DOMAIN s = 1..Len(s) /\ Len(s) = Len(g) + Len(q) /\ Len(g) \in Nat /\ Len(q) \in Nat
      /\ \A i \in 1..Len(g) + Len(q) : s[i] = IF i <= Len(g) THEN g[i] ELSE q[i - Len(g)]
  BY ConcatProperties
<1> HIDE DEF s
<1>2. ASSUME NEW i \in DOMAIN s
      PROVE  \/ i \in 1..Len(g) /\ s[i] = g[i]
             \/ i - Len(g) \in 1..Len(q) /\ s[i] = q[i - Len(g)] /\ i > Len(g)
  <2>1. i \in 1..Len(g) + Len(q) /\ i \in Int
    BY <1>1
  <2>2. s[i] = IF i <= Len(g) THEN g[i] ELSE q[i - Len(g)]
    BY <1>1, <2>1
  <2>3. Len(g) \in Nat /\ Len(q) \in Nat
    BY <1>1
  <2>4. i <= Len(g) => i \in 1..Len(g)
    BY <2>1, <2>3
  <2>5. ~(i <= Len(g)) => i - Len(g) \in 1..Len(q) /\ i > Len(g)
    BY <2>1, <2>3
  <2> QED
    BY <2>2, <2>4, <2>5
<1>3. ASSUME NEW i \in DOMAIN s, NEW j \in DOMAIN s, i < j
      PROVE  s[i] < s[j]
  <2>1. CASE i \in 1..Len(g) /\ s[i] = g[i] /\ j \in 1..Len(g) /\ s[j] = g[j]
    BY <1>3, <2>1 DEF Ordered
  <2>2. CASE i \in 1..Len(g) /\ s[i] = g[i] /\ j - Len(g) \in 1..Len(q) /\ s[j] = q[j - Len(g)]
    BY <2>2 DEF Ordered
  <2>3. CASE /\ i - Len(g) \in 1..Len(q) /\ s[i] = q[i - Len(g)]
             /\ j - Len(g) \in 1..Len(q) /\ s[j] = q[j - Len(g)]
    <3>1. i \in Int /\ j \in Int /\ Len(g) \in Nat
      BY <1>1
    <3>2. i - Len(g) < j - Len(g)
      BY <1>3, <3>1
    <3> QED
      BY <2>3, <3>2 DEF Ordered
  <2>4. ~(i > Len(g) /\ j \in 1..Len(g))
    <3>1. i \in Int /\ j \in Int /\ Len(g) \in Nat
      BY <1>1
    <3> QED
      BY <1>3, <3>1
  <2> QED
    BY <1>2, <2>1, <2>2, <2>3, <2>4
<1>4. ASSUME NEW i \in DOMAIN s
      PROVE  s[i] > a
  <2>1. a < s[i]
    BY <1>2 DEF Ordered
  <2> QED
    BY <2>1
<1>5. ASSUME Missed(g, q, a, n), NEW e \in a + 1 .. n, \A i \in DOMAIN s : s[i] # e
      PROVE  e + MAX_QUEUE_SIZE <= n
  <2>1. ASSUME NEW i \in 1..Len(g)
        PROVE  g[i] # e
    <3>1. i \in 1..Len(g) + Len(q) /\ i <= Len(g)
      BY <1>1
    <3>2. i \in DOMAIN s /\ s[i] = g[i]
      BY <1>1, <3>1
    <3> QED
      BY <1>5, <3>2
  <2>2. ASSUME NEW i \in 1..Len(q)
        PROVE  q[i] # e
    <3>1. /\ Len(g) + i \in 1..Len(g) + Len(q) /\ ~(Len(g) + i <= Len(g))
          /\ (Len(g) + i) - Len(g) = i
      BY <1>1
    <3>2. Len(g) + i \in DOMAIN s /\ s[Len(g) + i] = q[i]
      BY <1>1, <3>1
    <3> QED
      BY <1>5, <3>2
  <2> QED
    BY <1>5, <2>1, <2>2 DEF Missed
<1> QED
  BY <1>3, <1>4, <1>5 DEF s

-----------------------------------------------------------------------------
\* The counters

\* How the events since the last reset grow with one more.
LEMMA CountPublished ==
  ASSUME Typed, NEW kind \in Kinds, NEW k \in {"decision", "fail_fast"},
         log' = Append(log, kind)
  PROVE  /\ Cardinality(SinceReset(k)) \in Nat
         /\ kind = k => Cardinality(SinceReset(k)') = Cardinality(SinceReset(k)) + 1
         /\ kind = "reset" => Cardinality(SinceReset(k)') = 0
         /\ kind \notin {k, "reset"} => Cardinality(SinceReset(k)') = Cardinality(SinceReset(k))
<1> DEFINE n == Len(log)
<1>1. log \in Seq(Kinds) /\ n \in Nat /\ DOMAIN log = 1..n
  BY DEF Typed
<1>2. /\ log'[n + 1] = kind /\ Len(log') = n + 1 /\ DOMAIN log' = 1..n + 1
      /\ \A i \in 1..n : log'[i] = log[i]
  BY <1>1, Appended
<1> HIDE DEF n
<1>3. SinceReset(k) = {i \in 1..n : log[i] = k /\ \A j \in i + 1 .. n : log[j] # "reset"}
  BY <1>1 DEF SinceReset, n
<1>4. SinceReset(k)' = {i \in 1..n + 1 : log'[i] = k /\ \A j \in i + 1 .. n + 1 : log'[j] # "reset"}
  BY <1>2 DEF SinceReset
<1>5. IsFiniteSet(SinceReset(k)) /\ n + 1 \notin SinceReset(k)
  <2>1. IsFiniteSet(1..n)
    BY <1>1, FS_Interval
  <2>2. SinceReset(k) \subseteq 1..n
    BY <1>3
  <2> QED
    BY <1>1, <2>1, <2>2, FS_Subset
<1>6. Cardinality(SinceReset(k)) \in Nat
  BY <1>5, FS_CardinalityType
<1>7. ASSUME NEW i \in 1..n
      PROVE  (\A j \in i + 1 .. n + 1 : log'[j] # "reset")
                <=> (kind # "reset" /\ \A j \in i + 1 .. n : log[j] # "reset")
  <2>1. n + 1 \in i + 1 .. n + 1
    BY <1>1
  <2>2. \A j \in i + 1 .. n : j \in 1..n /\ j \in i + 1 .. n + 1
    BY <1>1
  <2>3. \A j \in i + 1 .. n + 1 : j = n + 1 \/ j \in i + 1 .. n
    BY <1>1
  <2> QED
    BY <1>2, <2>1, <2>2, <2>3
<1>8. ASSUME NEW i
      PROVE  i \in SinceReset(k)' <=>
                \/ i \in SinceReset(k) /\ kind # "reset"
                \/ i = n + 1 /\ kind = k
  <2>1. CASE i \in 1..n
    <3>1. i \in 1..n + 1 /\ i # n + 1 /\ log'[i] = log[i]
      BY <1>1, <1>2, <2>1
    <3> QED
      BY <1>3, <1>4, <1>7, <2>1, <3>1
  <2>2. CASE i = n + 1
    <3>1. i \in 1..n + 1 /\ i \notin 1..n /\ (i + 1 .. n + 1) = {}
      BY <1>1, <2>2
    <3> QED
      BY <1>2, <1>3, <1>4, <2>2, <3>1
  <2>3. CASE i \notin 1..n /\ i # n + 1
    <3>1. i \notin 1..n + 1
      BY <1>1, <2>3
    <3> QED
      BY <1>3, <1>4, <2>3, <3>1
  <2> QED
    BY <2>1, <2>2, <2>3
<1>9. ASSUME kind = k
      PROVE  Cardinality(SinceReset(k)') = Cardinality(SinceReset(k)) + 1
  <2>1. SinceReset(k)' = SinceReset(k) \union {n + 1}
    BY <1>8, <1>9
  <2> QED
    BY <1>5, <2>1, FS_AddElement
<1>10. ASSUME kind = "reset"
       PROVE  Cardinality(SinceReset(k)') = 0
  <2>1. SinceReset(k)' = {}
    BY <1>8, <1>10
  <2> QED
    BY <2>1, FS_EmptySet
<1>11. ASSUME kind \notin {k, "reset"}
       PROVE  SinceReset(k)' = SinceReset(k)
  BY <1>8, <1>11
<1> QED
  BY <1>6, <1>9, <1>10, <1>11

\* The handler's own counting keeps the counters right.
LEMMA CountsPublished ==
  ASSUME BusInv, Decide \/ FailFast \/ ResetCounts \/ LogOther
  PROVE  CountsUnlessStreamed' /\ counts' \in [served : Nat, failed : Nat]
<1> DEFINE D == Cardinality(SinceReset("decision"))
           F == Cardinality(SinceReset("fail_fast"))
<1>1. Typed /\ counts \in [served : Nat, failed : Nat] /\ CountsUnlessStreamed
  BY DEF BusInv, Typed
<1>2. counts.failed = F /\ ((\A c \in Clients : got[c] = <<>>) => counts.served = D)
  BY <1>1 DEF CountsUnlessStreamed
<1>3. SUFFICES /\ counts' \in [served : Nat, failed : Nat]
               /\ counts'.failed = F'
               /\ (\A c \in Clients : got[c] = <<>>) => counts'.served = D'
  BY <1>3 DEF CountsUnlessStreamed, Decide, FailFast, ResetCounts, LogOther, Publish, clientVars
<1> HIDE DEF D, F
<1>4. CASE Decide
  <2>1. log' = Append(log, "decision") /\ counts' = [counts EXCEPT !.served = @ + 1]
    BY <1>4 DEF Decide, Publish
  <2>2. D' = D + 1 /\ F' = F
    BY <1>1, <2>1, CountPublished DEF D, F, Kinds
  <2> QED
    BY <1>1, <1>2, <2>1, <2>2
<1>5. CASE FailFast
  <2>1. log' = Append(log, "fail_fast") /\ counts' = [counts EXCEPT !.failed = @ + 1]
    BY <1>5 DEF FailFast, Publish
  <2>2. D' = D /\ F' = F + 1
    BY <1>1, <2>1, CountPublished DEF D, F, Kinds
  <2> QED
    BY <1>1, <1>2, <2>1, <2>2
<1>6. CASE ResetCounts
  <2>1. log' = Append(log, "reset") /\ counts' = [served |-> 0, failed |-> 0]
    BY <1>6 DEF ResetCounts, Publish, NoCounts
  <2>2. D' = 0 /\ F' = 0
    BY <1>1, <2>1, CountPublished DEF D, F, Kinds
  <2> QED
    BY <2>1, <2>2
<1>7. CASE LogOther
  <2>1. log' = Append(log, "other") /\ counts' = counts
    BY <1>7 DEF LogOther, Publish
  <2>2. D' = D /\ F' = F
    BY <1>1, <2>1, CountPublished DEF D, F, Kinds
  <2> QED
    BY <1>1, <1>2, <2>1, <2>2
<1> QED
  BY <1>4, <1>5, <1>6, <1>7

-----------------------------------------------------------------------------
\* The actions

\* publish() keeps every queue in order, the queues of closed streams too.
LEMMA PublishKept ==
  ASSUME BusInv, Decide \/ FailFast \/ ResetCounts \/ LogOther
  PROVE  BusInv'
<1> DEFINE n == Len(log)
<1>1. Typed /\ \A c \in Clients : Begun(c) /\ Streamed(c)
  BY DEF BusInv
<1>2. PICK kind \in Kinds : Publish(kind)
  BY DEF Decide, FailFast, ResetCounts, LogOther, Kinds
<1>3. /\ n \in Nat /\ n < MaxEvents
      /\ log' = Append(log, kind)
      /\ queues' = [c \in Clients |-> IF c \in subscribers
                                        THEN PushBounded(queues[c], n + 1) ELSE queues[c]]
      /\ UNCHANGED <<subscribers, stream, online, joined, got>>
  BY <1>1, <1>2 DEF Publish, clientVars, Typed
<1>4. log' \in Seq(Kinds) /\ Len(log') = n + 1 /\ Len(log') <= MaxEvents
  <2>1. log' \in Seq(Kinds) /\ Len(log') = n + 1
    BY <1>1, <1>3, Appended DEF Typed
  <2> QED
    BY <1>3, <2>1, EventBusAssumption
<1>5. counts' \in [served : Nat, failed : Nat] /\ CountsUnlessStreamed'
  BY CountsPublished
<1> HIDE DEF n
<1>6. ASSUME NEW c \in Clients
      PROVE  /\ queues'[c] \in Seq(Nat) /\ Len(queues'[c]) <= MAX_QUEUE_SIZE
             /\ Ordered(got[c], queues'[c], joined[c], n + 1)
             /\ c \in subscribers => /\ Newest(queues'[c], n + 1)
                                     /\ Missed(got[c], queues'[c], joined[c], n + 1)
  <2>1. /\ got[c] \in Seq(Nat) /\ queues[c] \in Seq(Nat) /\ joined[c] \in Nat /\ joined[c] <= n
        /\ Len(queues[c]) <= MAX_QUEUE_SIZE /\ Ordered(got[c], queues[c], joined[c], n)
        /\ c \in subscribers => /\ Newest(queues[c], n)
                                /\ Missed(got[c], queues[c], joined[c], n)
    BY <1>1 DEF Typed, Streamed, n
  <2>2. MAX_QUEUE_SIZE \in Nat /\ Len(queues[c]) \in Nat
    BY <2>1, EventBusAssumption
  <2>6. n \in Nat /\ n + 1 \in Nat
    BY <1>3
  <2>3. CASE c \in subscribers /\ Len(queues[c]) >= MAX_QUEUE_SIZE
    <3>1. Len(queues[c]) = MAX_QUEUE_SIZE
      BY <2>1, <2>2, <2>3
    <3>2. queues'[c] = Append(Tail(queues[c]), n + 1)
      BY <1>3, <2>3 DEF PushBounded
    <3>3. /\ Tail(queues[c]) \in Seq(Nat)
          /\ Ordered(got[c], queues'[c], joined[c], n + 1)
          /\ Newest(queues'[c], n + 1)
          /\ Missed(got[c], queues'[c], joined[c], n + 1)
          /\ Len(queues'[c]) = MAX_QUEUE_SIZE
      <4> DEFINE q == queues[c]
                 g == got[c]
                 a == joined[c]
      <4>1. /\ g \in Seq(Nat) /\ q \in Seq(Nat) /\ a \in Nat /\ a <= n /\ n \in Nat
            /\ Ordered(g, q, a, n) /\ Newest(q, n) /\ Missed(g, q, a, n)
            /\ Len(q) = MAX_QUEUE_SIZE
        BY <2>1, <2>3, <2>6, <3>1
      <4> HIDE DEF q, g, a
      <4>2. /\ Tail(q) \in Seq(Nat)
            /\ Ordered(g, Append(Tail(q), n + 1), a, n + 1)
            /\ Newest(Append(Tail(q), n + 1), n + 1)
            /\ Missed(g, Append(Tail(q), n + 1), a, n + 1)
            /\ Len(Append(Tail(q), n + 1)) = MAX_QUEUE_SIZE
        BY <4>1, DropOrdered
      <4> QED
        BY <3>2, <4>2 DEF q, g, a
    <3>4. queues'[c] \in Seq(Nat)
      BY <2>6, <3>2, <3>3
    <3> QED
      BY <2>2, <3>3, <3>4
  <2>4. CASE c \in subscribers /\ ~(Len(queues[c]) >= MAX_QUEUE_SIZE)
    <3>1. queues'[c] = Append(queues[c], n + 1)
      BY <1>3, <2>4 DEF PushBounded
    <3>2. /\ Ordered(got[c], queues'[c], joined[c], n + 1)
          /\ Newest(queues'[c], n + 1)
          /\ Missed(got[c], queues'[c], joined[c], n + 1)
      <4> DEFINE q == queues[c]
                 g == got[c]
                 a == joined[c]
      <4>1. /\ g \in Seq(Nat) /\ q \in Seq(Nat) /\ a \in Nat /\ a <= n /\ n \in Nat
            /\ Ordered(g, q, a, n) /\ Newest(q, n) /\ Missed(g, q, a, n)
        BY <2>1, <2>4, <2>6
      <4> HIDE DEF q, g, a
      <4>2. /\ Ordered(g, Append(q, n + 1), a, n + 1)
            /\ Newest(Append(q, n + 1), n + 1)
            /\ Missed(g, Append(q, n + 1), a, n + 1)
        BY <4>1, PushOrdered
      <4> QED
        BY <3>1, <4>2 DEF q, g, a
    <3>3. n + 1 \in Nat /\ Len(queues'[c]) = Len(queues[c]) + 1 /\ queues'[c] \in Seq(Nat)
      BY <2>6, <2>1, <3>1, Appended
    <3> QED
      BY <2>2, <2>4, <3>2, <3>3
  <2>5. CASE c \notin subscribers
    <3>1. queues'[c] = queues[c]
      BY <1>3, <2>5
    <3>2. \A x \in Nat : x <= n => x <= n + 1
      BY <1>3
    <3>3. /\ \A i \in 1..Len(got[c]) : got[c][i] \in Nat
          /\ \A i \in 1..Len(queues[c]) : queues[c][i] \in Nat
      BY <2>1
    <3>4. Ordered(got[c], queues[c], joined[c], n + 1)
      BY <2>1, <3>2, <3>3 DEF Ordered
    <3> QED
      BY <2>1, <2>5, <3>1, <3>4
  <2> QED
    BY <2>3, <2>4, <2>5
<1>7. \A c \in Clients : Begun(c)'
  BY <1>1, <1>3 DEF Begun, Typed
<1>8. \A c \in Clients : Streamed(c)'
  <2>1. ASSUME NEW c \in Clients
        PROVE  joined'[c] <= n + 1
    BY <1>1, <1>3, <2>1 DEF Streamed, Typed, n
  <2> QED
    BY <1>3, <1>4, <1>6, <2>1 DEF Streamed
<1>9. queues' \in [Clients -> Seq(Nat)]
  BY <1>3, <1>6
<1>10. Typed'
  BY <1>1, <1>3, <1>4, <1>5, <1>9 DEF Typed
<1> QED
  BY <1>5, <1>7, <1>8, <1>10 DEF BusInv

\* The other connections are not touched.
Others(c) ==
    \A d \in Clients \ {c} :
        /\ stream'[d] = stream[d] /\ online'[d] = online[d] /\ joined'[d] = joined[d]
        /\ queues'[d] = queues[d] /\ got'[d] = got[d]
        /\ d \in subscribers' <=> d \in subscribers

\* What a step of one connection has to show.
LEMMA ClientKept ==
  ASSUME BusInv, NEW c \in Clients, UNCHANGED log, Others(c), Typed', Begun(c)', Streamed(c)',
         CountsUnlessStreamed'
  PROVE  BusInv'
<1>1. ASSUME NEW d \in Clients \ {c}
      PROVE  Begun(d)' /\ Streamed(d)'
  BY <1>1 DEF BusInv, Begun, Streamed, Others
<1> QED
  BY <1>1 DEF BusInv

\* The counters are right when neither they nor what was taken changes.
LEMMA CountsKept ==
  ASSUME BusInv, UNCHANGED <<log, got, counts>>
  PROVE  CountsUnlessStreamed'
BY DEF BusInv, CountsUnlessStreamed, SinceReset

\* subscribe() starts with an empty queue.
LEMMA ConnectKept ==
  ASSUME BusInv, NEW c \in Clients, Connect(c)
  PROVE  BusInv'
<1>1. Typed /\ Begun(c)
  BY DEF BusInv
<1>2. /\ stream[c] = "none"
      /\ subscribers' = subscribers \union {c}
      /\ stream' = [stream EXCEPT ![c] = "opening"]
      /\ online' = [online EXCEPT ![c] = TRUE]
      /\ joined' = [joined EXCEPT ![c] = Len(log)]
      /\ UNCHANGED <<log, queues, got, counts>>
  BY DEF Connect
<1>3. got[c] = <<>> /\ queues[c] = <<>>
  BY <1>1, <1>2 DEF Begun
<1>4. Len(log) \in Nat /\ Len(log) \in 0..MaxEvents
  BY <1>1, EventBusAssumption DEF Typed
<1>5. Typed' /\ Others(c) /\ CountsUnlessStreamed'
  BY <1>1, <1>2, <1>4, CountsKept DEF Typed, Others, Streams
<1>6. stream'[c] = "opening" /\ joined'[c] = Len(log) /\ c \in subscribers'
  BY <1>1, <1>2 DEF Typed
<1>7. Begun(c)'
  BY <1>2, <1>3, <1>6 DEF Begun
<1>8. Streamed(c)'
  <2>1. /\ Ordered(<<>>, <<>>, Len(log), Len(log)) /\ Newest(<<>>, Len(log))
        /\ Missed(<<>>, <<>>, Len(log), Len(log))
    BY <1>4, EmptyOrdered
  <2>2. Len(<<>>) <= MAX_QUEUE_SIZE /\ Len(log) <= Len(log)
    BY <1>4, EventBusAssumption
  <2> QED
    BY <1>2, <1>3, <1>6, <2>1, <2>2 DEF Streamed
<1> QED
  BY <1>2, <1>5, <1>7, <1>8, ClientKept

\* A client that goes away changes nothing of its stream.
LEMMA DisconnectKept ==
  ASSUME BusInv, NEW c \in Clients, Disconnect(c)
  PROVE  BusInv'
<1>1. Typed /\ Begun(c) /\ Streamed(c)
  BY DEF BusInv
<1>2. /\ online' = [online EXCEPT ![c] = FALSE]
      /\ UNCHANGED <<log, queues, subscribers, stream, joined, got, counts>>
  BY DEF Disconnect
<1>3. Typed' /\ Others(c) /\ CountsUnlessStreamed' /\ online'[c] = FALSE
  BY <1>1, <1>2, CountsKept DEF Typed, Others
<1>4. Begun(c)' /\ Streamed(c)'
  BY <1>1, <1>2, <1>3 DEF Begun, Streamed
<1> QED
  BY <1>2, <1>3, <1>4, ClientKept

\* A stream that goes round its loop, or is dropped before its first turn, keeps
\* its queue as it is.
LEMMA GoKept ==
  ASSUME BusInv, NEW c \in Clients, NEW s \in {"turn", "wait", "dropped"}, Go(c, s),
         stream[c] \in {"opening", "turn", "wait"},
         s = "dropped" => stream[c] = "opening" /\ ~online[c],
         UNCHANGED <<log, queues, subscribers, online, joined, got, counts>>
  PROVE  BusInv'
<1>1. Typed /\ Begun(c) /\ Streamed(c)
  BY DEF BusInv
<1>2. Typed' /\ Others(c) /\ CountsUnlessStreamed' /\ stream'[c] = s
  BY <1>1, CountsKept DEF Typed, Others, Go, Streams
<1>3. Begun(c)' /\ Streamed(c)'
  BY <1>1, <1>2 DEF Begun, Streamed
<1> QED
  BY <1>2, <1>3, ClientKept

\* The finally takes the queue off the bus.
LEMMA CloseKept ==
  ASSUME BusInv, NEW c \in Clients, Close(c)
  PROVE  BusInv'
<1>1. Typed /\ Begun(c) /\ Streamed(c)
  BY DEF BusInv
<1>2. /\ stream' = [stream EXCEPT ![c] = "closed"]
      /\ subscribers' = subscribers \ {c}
      /\ UNCHANGED <<log, queues, online, joined, got, counts>>
  BY DEF Close, Go
<1>3. Typed' /\ Others(c) /\ CountsUnlessStreamed' /\ stream'[c] = "closed" /\ c \notin subscribers'
  BY <1>1, <1>2, CountsKept DEF Typed, Others, Streams
<1>4. Begun(c)' /\ Streamed(c)'
  BY <1>1, <1>2, <1>3 DEF Begun, Streamed
<1> QED
  BY <1>2, <1>3, <1>4, ClientKept

\* A delivery takes the head of the queue; only decisions are counted again.
LEMMA DeliverKept ==
  ASSUME BusInv, NEW c \in Clients, Deliver(c)
  PROVE  BusInv'
<1> DEFINE q == queues[c]
           g == got[c]
<1>1. Typed /\ Begun(c) /\ Streamed(c)
  BY DEF BusInv
<1>2. /\ stream[c] = "wait" /\ q # <<>>
      /\ queues' = [queues EXCEPT ![c] = Tail(q)]
      /\ got' = [got EXCEPT ![c] = Append(g, Head(q))]
      /\ stream' = [stream EXCEPT ![c] = "turn"]
      /\ UNCHANGED <<log, subscribers, online, joined>>
      /\ counts' = CountsDelivered(log[Head(q)])
  BY DEF Deliver, Go
<1>3. q \in Seq(Nat) /\ g \in Seq(Nat) /\ joined[c] \in Nat /\ Len(log) \in Nat
  BY <1>1 DEF Typed
<1>4. /\ queues'[c] = Tail(q) /\ got'[c] = Append(g, Head(q)) /\ stream'[c] = "turn"
      /\ joined'[c] = joined[c]
  BY <1>1, <1>2 DEF Typed
<1>5. Tail(q) \in Seq(Nat) /\ Head(q) \in Nat /\ Len(Tail(q)) = Len(q) - 1 /\ Len(q) \in Nat
  BY <1>2, <1>3, Tailed
<1>6. Append(g, Head(q)) \in Seq(Nat) /\ Append(g, Head(q)) # <<>>
  <2>1. /\ Append(g, Head(q)) \in Seq(Nat) /\ Len(g) \in Nat
        /\ Len(Append(g, Head(q))) = Len(g) + 1
    BY <1>3, <1>5, Appended
  <2> QED
    BY <2>1
<1>7. counts' \in [served : Nat, failed : Nat] /\ counts'.failed = counts.failed
  <2>1. counts \in [served : Nat, failed : Nat]
    BY <1>1 DEF Typed
  <2>2. counts' = counts \/ counts' = [counts EXCEPT !.served = @ + 1]
    BY <1>2, Zenon DEF CountsDelivered
  <2> QED
    BY <2>1, <2>2
<1>8. CountsUnlessStreamed'
  <2>1. SinceReset("fail_fast")' = SinceReset("fail_fast")
    BY <1>2 DEF SinceReset
  <2>2. ~(\A d \in Clients : got'[d] = <<>>)
    BY <1>4, <1>6
  <2> QED
    BY <1>7, <2>1, <2>2 DEF BusInv, CountsUnlessStreamed
<1>9. Typed' /\ Others(c)
  BY <1>1, <1>2, <1>5, <1>6, <1>7 DEF Typed, Others, Streams
<1>10. Begun(c)'
  BY <1>1, <1>2, <1>4 DEF Begun
<1>11. Streamed(c)'
  <2>1. /\ joined[c] <= Len(log) /\ Len(q) <= MAX_QUEUE_SIZE
        /\ Ordered(g, q, joined[c], Len(log))
        /\ c \in subscribers => Newest(q, Len(log)) /\ Missed(g, q, joined[c], Len(log))
    BY <1>1 DEF Streamed
  <2> HIDE DEF q, g
  <2>2. /\ Ordered(Append(g, Head(q)), Tail(q), joined[c], Len(log))
        /\ Newest(q, Len(log)) => Newest(Tail(q), Len(log))
        /\ Missed(g, q, joined[c], Len(log)) =>
             Missed(Append(g, Head(q)), Tail(q), joined[c], Len(log))
    BY <1>2, <1>3, <2>1, TakeOrdered
  <2>3. Len(Tail(q)) <= MAX_QUEUE_SIZE
    BY <1>5, <2>1, EventBusAssumption
  <2> QED
    BY <1>2, <1>4, <2>1, <2>2, <2>3 DEF Streamed
<1> QED
  BY <1>2, <1>8, <1>9, <1>10, <1>11, ClientKept

\* Every step keeps the invariant.
LEMMA BusNext == BusInv /\ [Next]_vars => BusInv'
<1> SUFFICES ASSUME BusInv, [Next]_vars
             PROVE  BusInv'
  OBVIOUS
<1>1. CASE UNCHANGED vars
  BY <1>1 DEF vars, clientVars, BusInv, Typed, Begun, Streamed, CountsUnlessStreamed, SinceReset
<1>2. CASE Decide \/ FailFast \/ ResetCounts \/ LogOther
  BY <1>2, PublishKept
<1>3. ASSUME NEW c \in Clients, Turn(c)
      PROVE  BusInv'
  <2>1. CASE Open(c)
    BY <2>1, GoKept DEF Open
  <2>2. CASE FindGone(c)
    BY <2>2, CloseKept DEF FindGone
  <2>3. CASE FindConnected(c)
    BY <2>3, GoKept DEF FindConnected
  <2>4. CASE Heartbeat(c)
    BY <2>4, GoKept DEF Heartbeat, TimesOut
  <2> QED
    BY <1>3, <2>1, <2>2, <2>3, <2>4, DeliverKept DEF Turn
<1>4. ASSUME NEW c \in Clients, CancelStream(c)
      PROVE  BusInv'
  <2>1. CASE stream[c] = "opening"
    BY <1>4, <2>1, GoKept DEF CancelStream, Cancelled
  <2>2. CASE stream[c] # "opening"
    BY <1>4, <2>2, CloseKept DEF CancelStream, Cancelled
  <2> QED
    BY <2>1, <2>2
<1> QED
  BY <1>1, <1>2, <1>3, <1>4, ConnectKept, DisconnectKept DEF Next

\* Nothing is published and nobody connected at first.
LEMMA BusInit == Init => BusInv
<1> SUFFICES ASSUME Init
             PROVE  BusInv
  OBVIOUS
<1>1. Typed
  BY EventBusAssumption DEF Init, Typed, Streams, NoCounts
<1>2. ASSUME NEW c \in Clients
      PROVE  Begun(c) /\ Streamed(c)
  <2>1. /\ got[c] = <<>> /\ queues[c] = <<>> /\ stream[c] = "none" /\ ~online[c]
        /\ c \notin subscribers /\ joined[c] = 0 /\ Len(log) = 0
    BY DEF Init
  <2>2. Ordered(<<>>, <<>>, 0, 0) /\ Len(<<>>) <= MAX_QUEUE_SIZE
    BY EmptyOrdered, EventBusAssumption
  <2> QED
    BY <2>1, <2>2 DEF Begun, Streamed
<1>3. CountsUnlessStreamed
  <2>1. SinceReset("decision") = {} /\ SinceReset("fail_fast") = {}
    BY DEF Init, SinceReset
  <2> QED
    BY <2>1, FS_EmptySet DEF Init, NoCounts, CountsUnlessStreamed
<1> QED
  BY <1>1, <1>2, <1>3 DEF BusInv

\* The invariant holds throughout; fairness is not needed.
LEMMA BusCorrect == Spec => []BusInv
BY BusInit, BusNext, PTL DEF Spec

-----------------------------------------------------------------------------
\* What it gives

\* Type correctness: every queue is within its limit and holds published events.
THEOREM BusTypes == Spec => []TypeOK
<1>1. ASSUME BusInv
      PROVE  TypeOK
  <2>1. Typed /\ DOMAIN log = 1..Len(log) /\ Len(log) \in Nat
    BY <1>1 DEF BusInv, Typed
  <2>2. ASSUME NEW c \in Clients
        PROVE  /\ queues[c] \in Seq(DOMAIN log) /\ Len(queues[c]) <= MAX_QUEUE_SIZE
               /\ got[c] \in Seq(DOMAIN log)
    <3>1. /\ queues[c] \in Seq(Nat) /\ got[c] \in Seq(Nat) /\ joined[c] \in Nat
          /\ Len(queues[c]) <= MAX_QUEUE_SIZE
          /\ Ordered(got[c], queues[c], joined[c], Len(log))
      BY <1>1, <2>1 DEF BusInv, Streamed, Typed
    <3>2. ASSUME NEW x \in Nat, joined[c] < x, x <= Len(log)
          PROVE  x \in DOMAIN log
      BY <2>1, <3>1, <3>2
    <3>3. \A i \in 1..Len(queues[c]) : queues[c][i] \in Nat /\ queues[c][i] \in DOMAIN log
      BY <3>1, <3>2 DEF Ordered
    <3>4. \A i \in 1..Len(got[c]) : got[c][i] \in Nat /\ got[c][i] \in DOMAIN log
      BY <3>1, <3>2 DEF Ordered
    <3> QED
      BY <3>1, <3>3, <3>4, SequenceOf
  <2> QED
    BY <2>1, <2>2 DEF Typed, TypeOK
<1> QED
  BY <1>1, BusCorrect, PTL

\* publish() and the stream's generator deliver in order, each event once and
\* none from before the subscription, and only events that MAX_QUEUE_SIZE newer
\* ones have followed are lost.
THEOREM StreamsInOrder == Spec => []StreamFaithful
<1>1. ASSUME BusInv
      PROVE  StreamFaithful
  <2>1. ASSUME NEW c \in Clients
        PROVE  LET seen == got[c] \o queues[c] IN
               /\ \A i, j \in DOMAIN seen : i < j => seen[i] < seen[j]
               /\ \A i \in DOMAIN seen : seen[i] > joined[c]
               /\ c \in subscribers =>
                     \A e \in joined[c] + 1 .. Len(log) :
                        (\A i \in DOMAIN seen : seen[i] # e) => e + MAX_QUEUE_SIZE <= Len(log)
    <3>1. /\ queues[c] \in Seq(Nat) /\ got[c] \in Seq(Nat) /\ joined[c] \in Nat
          /\ Len(log) \in Nat
          /\ Ordered(got[c], queues[c], joined[c], Len(log))
          /\ c \in subscribers => Missed(got[c], queues[c], joined[c], Len(log))
      BY <1>1 DEF BusInv, Streamed, Typed
    <3> QED
      BY <3>1, SeenTogether
  <2> QED
    BY <2>1 DEF StreamFaithful
<1> QED
  BY <1>1, BusCorrect, PTL

\* Every way out of the stream's loop unsubscribes its queue; only a stream
\* cancelled before its first chunk leaves one behind.
THEOREM BusMembership == Spec => []OnBusWhileStreaming
<1>1. BusInv => OnBusWhileStreaming
  BY DEF BusInv, Begun, OnBusWhileStreaming
<1> QED
  BY <1>1, BusCorrect, PTL

\* The counters of /summary count each rejection once, and each served request
\* once as long as no stream delivers.
THEOREM CountsRight == Spec => []CountsUnlessStreamed
<1>1. BusInv => CountsUnlessStreamed
  BY DEF BusInv
<1> QED
  BY <1>1, BusCorrect, PTL

-----------------------------------------------------------------------------
\* The bus as one shared log

\* How long the queue of a subscriber is after one more event.
LEMMA PushLength ==
  ASSUME NEW q \in Seq(Nat), NEW e \in Nat
  PROVE  /\ Len(q) \in Nat
         /\ Len(q) < MAX_QUEUE_SIZE => Len(PushBounded(q, e)) = Len(q) + 1
         /\ Len(q) = MAX_QUEUE_SIZE => Len(PushBounded(q, e)) = MAX_QUEUE_SIZE
<1>1. MAX_QUEUE_SIZE \in Nat /\ MAX_QUEUE_SIZE > 0 /\ Len(q) \in Nat
  BY EventBusAssumption
<1>2. ASSUME Len(q) < MAX_QUEUE_SIZE
      PROVE  Len(PushBounded(q, e)) = Len(q) + 1
  <2>1. PushBounded(q, e) = Append(q, e)
    BY <1>1, <1>2 DEF PushBounded
  <2> QED
    BY <2>1, Appended
<1>3. ASSUME Len(q) = MAX_QUEUE_SIZE
      PROVE  Len(PushBounded(q, e)) = MAX_QUEUE_SIZE
  <2>1. PushBounded(q, e) = Append(Tail(q), e)
    BY <1>1, <1>3 DEF PushBounded
  <2>2. q # <<>>
    BY <1>1, <1>3
  <2>3. Tail(q) \in Seq(Nat) /\ Len(Tail(q)) = Len(q) - 1
    BY <2>2, Tailed
  <2>4. Len(Append(Tail(q), e)) = Len(Tail(q)) + 1
    BY <2>3, Appended
  <2> QED
    BY <1>1, <1>3, <2>1, <2>3, <2>4
<1> QED
  BY <1>1, <1>2, <1>3

\* Publishing moves exactly the cursors that point before the oldest event kept.
LEMMA PublishShared ==
  ASSUME BusInv, Decide \/ FailFast \/ ResetCounts \/ LogOther
  PROVE  Shared!Publish
<1> DEFINE n == Len(log)
<1>1. Typed /\ \A c \in Clients : Streamed(c)
  BY DEF BusInv
<1>2. PICK kind \in Kinds : Publish(kind)
  BY DEF Decide, FailFast, ResetCounts, LogOther, Kinds
<1>3. /\ log' = Append(log, kind)
      /\ queues' = [c \in Clients |-> IF c \in subscribers
                                        THEN PushBounded(queues[c], n + 1) ELSE queues[c]]
      /\ UNCHANGED <<subscribers, got>>
  BY <1>2 DEF Publish, clientVars
<1>4. n \in Nat /\ Len(log') = n + 1
  BY <1>1, <1>3, Appended DEF Typed
<1>5. MAX_QUEUE_SIZE \in Nat /\ MAX_QUEUE_SIZE > 0
  BY EventBusAssumption
<1>6. ASSUME NEW c \in Clients
      PROVE  Cursor'[c] = IF c \in subscribers /\ Cursor[c] < Shared!Oldest(n + 1)
                            THEN Shared!Oldest(n + 1) ELSE Cursor[c]
  <2>1. CASE c \notin subscribers
    BY <1>3, <2>1 DEF Cursor
  <2>2. CASE c \in subscribers
    <3> DEFINE q == queues[c]
               p == PushBounded(q, n + 1)
    <3>1. Cursor[c] = n + 1 - Len(q) /\ Cursor'[c] = n + 2 - Len(p)
      BY <1>3, <1>4, <2>2 DEF Cursor
    <3>2. q \in Seq(Nat) /\ Len(q) <= MAX_QUEUE_SIZE
      BY <1>1 DEF Typed, Streamed
    <3>3. /\ Len(q) \in Nat
          /\ Len(q) < MAX_QUEUE_SIZE => Len(p) = Len(q) + 1
          /\ Len(q) = MAX_QUEUE_SIZE => Len(p) = MAX_QUEUE_SIZE
      BY <1>4, <3>2, PushLength
    <3>4. Shared!Oldest(n + 1) = n + 2 - MAX_QUEUE_SIZE
      BY <1>4, <1>5 DEF Shared!Oldest
    <3> HIDE DEF q, p, n
    <3> QED
      BY <1>4, <1>5, <2>2, <3>1, <3>2, <3>3, <3>4
  <2> QED
    BY <2>1, <2>2
<1>7. Cursor' = [c \in Clients |-> IF c \in subscribers /\ Cursor[c] < Shared!Oldest(n + 1)
                                     THEN Shared!Oldest(n + 1) ELSE Cursor[c]]
  BY <1>6 DEF Cursor
<1> QED
  BY <1>3, <1>4, <1>7 DEF Shared!Publish

\* subscribe() joins at the end of the log.
LEMMA ConnectShared ==
  ASSUME BusInv, NEW c \in Clients, Connect(c)
  PROVE  Shared!Join(c)
<1>1. Typed /\ Begun(c)
  BY DEF BusInv
<1>2. /\ c \notin subscribers /\ queues[c] = <<>>
      /\ subscribers' = subscribers \union {c}
      /\ UNCHANGED <<log, queues, got>>
  BY <1>1 DEF Begun, Connect
<1>3. Len(log) \in Nat
  BY <1>1 DEF Typed
<1>4. Cursor'[c] = Len(log) + 1
  <2>1. Cursor'[c] = Len(log) + 1 - Len(<<>>)
    BY <1>2 DEF Cursor
  <2> QED
    BY <1>3, <2>1
<1>5. Cursor' = [Cursor EXCEPT ![c] = Len(log) + 1]
  BY <1>2, <1>4 DEF Cursor
<1> QED
  BY <1>2, <1>5 DEF Shared!Join

\* unsubscribe() leaves.
LEMMA CloseShared ==
  ASSUME BusInv, NEW c \in Clients, stream[c] \in {"turn", "wait"}, Close(c)
  PROVE  Shared!Leave(c)
<1>1. /\ c \in subscribers
      /\ subscribers' = subscribers \ {c}
      /\ UNCHANGED <<log, queues, got>>
  BY DEF BusInv, Begun, Close
<1>2. Cursor' = [Cursor EXCEPT ![c] = 0]
  BY <1>1 DEF Cursor
<1> QED
  BY <1>1, <1>2 DEF Shared!Leave

\* The head of a subscriber's queue is the event under its cursor.
LEMMA DeliverShared ==
  ASSUME BusInv, NEW c \in Clients, Deliver(c)
  PROVE  Shared!Read(c)
<1> DEFINE q == queues[c]
<1>1. Typed /\ Begun(c) /\ Streamed(c)
  BY DEF BusInv
<1>2. /\ c \in subscribers /\ q # <<>>
      /\ queues' = [queues EXCEPT ![c] = Tail(q)]
      /\ got' = [got EXCEPT ![c] = Append(@, Head(q))]
      /\ UNCHANGED <<log, subscribers>>
  BY <1>1 DEF Deliver, Begun
<1>3. q \in Seq(Nat) /\ Newest(q, Len(log)) /\ Len(log) \in Nat
  BY <1>1, <1>2 DEF Typed, Streamed
<1>4. Len(q) \in Nat /\ Len(q) > 0 /\ Len(Tail(q)) = Len(q) - 1 /\ Head(q) = q[1]
  BY <1>2, <1>3, Tailed
<1>5. Cursor[c] = Len(log) + 1 - Len(q) /\ Cursor'[c] = Len(log) + 1 - Len(Tail(q))
  BY <1>1, <1>2 DEF Cursor, Typed
<1> HIDE DEF q
<1>6. Head(q) = Cursor[c] /\ Cursor[c] <= Len(log) /\ Cursor'[c] = Cursor[c] + 1
  <2>1. 1 \in 1..Len(q)
    BY <1>4
  <2>2. Head(q) = Len(log) - Len(q) + 1
    <3>1. q[1] = Len(log) - Len(q) + 1
      BY <1>3, <2>1, Zenon DEF Newest
    <3> QED
      BY <1>4, <3>1
  <2>3. Cursor'[c] = Len(log) + 1 - (Len(q) - 1)
    BY <1>4, <1>5, Zenon
  <2>4. \A m, n \in Nat : n > 0 => /\ m - n + 1 = m + 1 - n /\ m + 1 - n <= m
                                    /\ m + 1 - (n - 1) = (m + 1 - n) + 1
    OBVIOUS
  <2>5. Len(log) \in Nat /\ Len(q) \in Nat /\ Len(q) > 0
    BY <1>3, <1>4
  <2> QED
    BY <1>5, <2>2, <2>3, <2>4, <2>5, Zenon
<1>7. Cursor' = [Cursor EXCEPT ![c] = @ + 1]
  <2>1. \A d \in Clients \ {c} : Cursor'[d] = Cursor[d]
    BY <1>1, <1>2 DEF Cursor, Typed
  <2> QED
    BY <1>6, <2>1 DEF Cursor
<1> QED
  BY <1>2, <1>6, <1>7 DEF Shared!Read

\* The bus with its private queues, streams and cancellations implements one
\* shared log that keeps the newest MAX_QUEUE_SIZE events.
THEOREM BusIsSharedLog == Spec => ImplementsSharedLog
<1>1. Init => Shared!Init
  BY DEF Init, Shared!Init, Cursor
<1>2. ASSUME BusInv, [Next]_vars
      PROVE  [Shared!Next]_(Shared!logVars)
  <2>1. ASSUME UNCHANGED <<log, queues, subscribers, got>>
        PROVE  UNCHANGED Shared!logVars
    BY <2>1 DEF Shared!logVars, Cursor
  <2>2. CASE Decide \/ FailFast \/ ResetCounts \/ LogOther
    BY <1>2, <2>2, PublishShared DEF Shared!Next
  <2>3. ASSUME NEW c \in Clients, Connect(c) \/ Deliver(c)
        PROVE  Shared!Next
    BY <1>2, <2>3, ConnectShared, DeliverShared DEF Shared!Next
  <2>4. ASSUME NEW c \in Clients, FindGone(c) \/ (CancelStream(c) /\ stream[c] # "opening")
        PROVE  Shared!Next
    <3>1. stream[c] \in {"turn", "wait"} /\ Close(c)
      BY <2>4 DEF FindGone, CancelStream, Cancelled
    <3> QED
      BY <1>2, <3>1, CloseShared DEF Shared!Next
  <2>5. ASSUME NEW c \in Clients,
               \/ Disconnect(c) \/ Open(c) \/ FindConnected(c) \/ Heartbeat(c)
               \/ CancelStream(c) /\ stream[c] = "opening"
        PROVE  UNCHANGED <<log, queues, subscribers, got>>
    BY <2>5 DEF Disconnect, Open, FindConnected, Heartbeat, CancelStream, Cancelled
  <2>6. CASE UNCHANGED vars
    BY <2>1, <2>6 DEF vars, clientVars
  <2> QED
    BY <1>2, <2>1, <2>2, <2>3, <2>4, <2>5, <2>6 DEF Next, Turn
<1> QED
  BY <1>1, <1>2, BusCorrect, PTL DEF Spec, ImplementsSharedLog, Shared!Spec
=============================================================================
