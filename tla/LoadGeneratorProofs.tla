------------------------- MODULE LoadGeneratorProofs -------------------------
(***************************************************************************)
(* The managers of AppState, replaced while requests are in flight, and the *)
(* load generator's verdict on them: for any number of requests, resets and *)
(* slots, any limits and any burst.                                         *)
(***************************************************************************)
EXTENDS LoadGenerator, FiniteSetTheorems, TLAPS

\* The requests that hold money of a generation, and those in its slots.
Costly(g) == {r \in HeldBy(g) : price[r] > 0}
Sitting(g) == {r \in Req : stage[r] \in InSlot /\ home[r] = g}

MoneyMatches == \A g \in Gens : reserved[g] = COST_PER_REMOTE_REQUEST * Cardinality(Costly(g))
SlotsMatch == \A g \in Gens : slots[g] = Cardinality(Sitting(g))
LatencyMatches == \A g \in Gens : reservedLat[g] = PROJECTED_LATENCY * Cardinality(HeldBy(g))
WithinBudget == \A g \in Gens : spent[g] + reserved[g] <= MAX_REMOTE_BUDGET

\* The latency that each generation holds and has used.
LatencyBooks ==
    /\ reservedLat \in [Gens -> Nat] /\ LatencyMatches
    /\ usedLat \in [Gens -> Nat]
    /\ \A g \in Gens : usedLat[g] <= MAX_CUMULATIVE_LATENCY_MS

\* A request has managers and may hold something from its entry on; an answered
\* one, and one in the fallback, holds no reservation.
Tied(r) ==
    /\ IF stage[r] = "new" THEN price[r] = 0 ELSE home[r] \in Gens
    /\ res[r] = "held" => stage[r] \in {"remote", "local", "cancelled"}

\* The invariant of the server ...
AppInv ==
    /\ AppTypeOK
    /\ \A r \in Req : Tied(r)
    /\ MoneyMatches
    /\ SlotsMatch
    /\ WithinBudget
    /\ LatencyBooks
    /\ OneReaper

\* ... and what the load generator knows once its burst is gathered.
LoadInv ==
    /\ AppInv
    /\ TypeOK
    /\ step = "metrics" => \A r \in Burst : stage[r] = "done" \/ r \in lost

-----------------------------------------------------------------------------
\* Counting

\* The figures are numbers.
LEMMA FiguresNat ==
  /\ MaxGen \in Nat /\ MAX_REMOTE_BUDGET \in Nat
  /\ COST_PER_REMOTE_REQUEST \in Nat /\ COST_PER_REMOTE_REQUEST > 0
  /\ LOCAL_QUEUE_CAPACITY \in Nat /\ MAX_CUMULATIVE_LATENCY_MS \in Nat
  /\ PROJECTED_LATENCY \in Nat /\ PROJECTED_LATENCY > 0
BY AppStateAssumption

\* The requests of a generation are counted.
LEMMA Counted ==
  ASSUME NEW g
  PROVE  /\ IsFiniteSet(HeldBy(g)) /\ IsFiniteSet(Costly(g)) /\ IsFiniteSet(Sitting(g))
         /\ Cardinality(HeldBy(g)) \in Nat /\ Cardinality(Costly(g)) \in Nat
         /\ Cardinality(Sitting(g)) \in Nat
<1>1. IsFiniteSet(Req)
  BY AppStateAssumption
<1>2. HeldBy(g) \subseteq Req /\ Costly(g) \subseteq Req /\ Sitting(g) \subseteq Req
  BY DEF HeldBy, Costly, Sitting
<1>3. IsFiniteSet(HeldBy(g)) /\ IsFiniteSet(Costly(g)) /\ IsFiniteSet(Sitting(g))
  BY <1>1, <1>2, FS_Subset
<1> QED
  BY <1>3, FS_CardinalityType

\* So they are after a step.
LEMMA CountedNext ==
  ASSUME NEW g
  PROVE  /\ Cardinality(Costly(g)') \in Nat /\ Cardinality(Sitting(g)') \in Nat
         /\ Cardinality(HeldBy(g)') \in Nat
<1>1. IsFiniteSet(Req)
  BY AppStateAssumption
<1>2. Costly(g)' \subseteq Req /\ Sitting(g)' \subseteq Req /\ HeldBy(g)' \subseteq Req
  BY DEF HeldBy, Costly, Sitting
<1>3. IsFiniteSet(Costly(g)') /\ IsFiniteSet(Sitting(g)') /\ IsFiniteSet(HeldBy(g)')
  BY <1>1, <1>2, FS_Subset
<1> QED
  BY <1>3, FS_CardinalityType

\* One more.
LEMMA OneMore ==
  ASSUME NEW S, IsFiniteSet(S), NEW T, NEW x, x \notin S, T = S \union {x}
  PROVE  Cardinality(T) = Cardinality(S) + 1
BY FS_AddElement

\* One less.
LEMMA OneLess ==
  ASSUME NEW S, IsFiniteSet(S), NEW T, NEW x, x \in S, T = S \ {x}
  PROVE  Cardinality(T) = Cardinality(S) - 1
BY FS_RemoveElement

-----------------------------------------------------------------------------
\* The books of one step

\* A reservation that ends gives its money back to its own generation.
LEMMA HoldEnds ==
  ASSUME AppInv, NEW r \in Req, res[r] = "held",
         res' = [res EXCEPT ![r] = "settled"],
         reserved' = [reserved EXCEPT ![home[r]] = @ - price[r]],
         UNCHANGED <<home, price>>
  PROVE  /\ MoneyMatches'
         /\ reserved' \in [Gens -> Nat]
         /\ home[r] \in Gens /\ price[r] \in Nat
         /\ reserved'[home[r]] = reserved[home[r]] - price[r]
         /\ \A g \in Gens \ {home[r]} : reserved'[g] = reserved[g]
<1> DEFINE C == COST_PER_REMOTE_REQUEST
<1>1. AppTypeOK /\ home[r] \in Gens /\ MoneyMatches
  BY DEF AppInv, Tied
<1>2. price[r] \in {0, C} /\ C \in Nat /\ C > 0
  BY <1>1, FiguresNat DEF AppTypeOK
<1>3. /\ reserved'[home[r]] = reserved[home[r]] - price[r]
      /\ \A g \in Gens \ {home[r]} : reserved'[g] = reserved[g]
  BY <1>1 DEF AppTypeOK
<1>4. res'[r] # "held" /\ \A q \in Req \ {r} : res'[q] = res[q]
  BY <1>1 DEF AppTypeOK
<1>5. ASSUME NEW g \in Gens
      PROVE  reserved'[g] = C * Cardinality(Costly(g)')
  <2>1. reserved[g] = C * Cardinality(Costly(g)) /\ Cardinality(Costly(g)) \in Nat
    BY <1>1, Counted DEF MoneyMatches
  <2>2. CASE g = home[r] /\ price[r] = C
    <3>1. r \in Costly(g) /\ Costly(g)' = Costly(g) \ {r}
      BY <1>2, <1>4, <2>2 DEF Costly, HeldBy
    <3>2. Cardinality(Costly(g)') = Cardinality(Costly(g)) - 1
      BY <3>1, OneLess, Counted
    <3>3. C * (Cardinality(Costly(g)) - 1) = C * Cardinality(Costly(g)) - C
      BY <1>2, <2>1
    <3> QED
      BY <1>3, <2>1, <2>2, <3>2, <3>3
  <2>3. CASE ~(g = home[r] /\ price[r] = C)
    <3>1. Costly(g)' = Costly(g)
      BY <1>2, <1>4, <2>3 DEF Costly, HeldBy
    <3>2. reserved'[g] = reserved[g]
      BY <1>1, <1>2, <1>3, <2>3 DEF AppTypeOK
    <3> QED
      BY <2>1, <3>1, <3>2
  <2> QED
    BY <2>2, <2>3
<1>6. \A g \in Gens : reserved'[g] \in Nat
  BY <1>2, <1>5, CountedNext
<1>7. reserved' \in [Gens -> Nat]
  BY <1>1, <1>6 DEF AppTypeOK
<1> QED
  BY <1>1, <1>2, <1>3, <1>5, <1>7 DEF MoneyMatches

\* A reservation that starts takes its price of the current generation.
LEMMA HoldStarts ==
  ASSUME AppInv, NEW r \in Req, res[r] # "held",
         res' = [res EXCEPT ![r] = "held"],
         home' = [home EXCEPT ![r] = gen],
         \/ /\ price' = [price EXCEPT ![r] = COST_PER_REMOTE_REQUEST]
            /\ reserved' = [reserved EXCEPT ![gen] = @ + COST_PER_REMOTE_REQUEST]
         \/ price[r] = 0 /\ UNCHANGED <<price, reserved>>
  PROVE  MoneyMatches' /\ reserved' \in [Gens -> Nat]
<1> DEFINE C == COST_PER_REMOTE_REQUEST
<1>1. AppTypeOK /\ gen \in Gens /\ MoneyMatches
  BY DEF AppInv, AppTypeOK
<1>2. C \in Nat /\ C > 0
  BY FiguresNat
<1>3. /\ res'[r] = "held" /\ \A q \in Req \ {r} : res'[q] = res[q]
      /\ home'[r] = gen /\ \A q \in Req \ {r} : home'[q] = home[q]
      /\ \A q \in Req \ {r} : price'[q] = price[q]
  BY <1>1 DEF AppTypeOK
<1>4. ASSUME NEW g \in Gens
      PROVE  reserved'[g] = C * Cardinality(Costly(g)')
  <2>1. reserved[g] = C * Cardinality(Costly(g)) /\ Cardinality(Costly(g)) \in Nat
    BY <1>1, Counted DEF MoneyMatches
  <2>2. r \notin Costly(g)
    BY DEF Costly, HeldBy
  <2>3. CASE g = gen /\ price'[r] = C
    <3>1. Costly(g)' = Costly(g) \union {r}
      BY <1>2, <1>3, <2>2, <2>3 DEF Costly, HeldBy
    <3>2. Cardinality(Costly(g)') = Cardinality(Costly(g)) + 1
      BY <2>2, <3>1, OneMore, Counted
    <3>3. C * (Cardinality(Costly(g)) + 1) = C * Cardinality(Costly(g)) + C
      BY <1>2, <2>1
    <3>4. reserved'[g] = reserved[g] + C
      BY <1>1, <1>2, <2>3 DEF AppTypeOK
    <3> QED
      BY <2>1, <3>2, <3>3, <3>4
  <2>4. CASE ~(g = gen /\ price'[r] = C)
    <3>1. reserved'[g] = reserved[g] /\ (g # gen \/ price'[r] = 0)
      BY <1>1, <2>4 DEF AppTypeOK
    <3>2. Costly(g)' = Costly(g)
      BY <1>2, <1>3, <2>2, <3>1 DEF Costly, HeldBy
    <3> QED
      BY <2>1, <3>1, <3>2
  <2> QED
    BY <2>3, <2>4
<1>5. \A g \in Gens : reserved'[g] \in Nat
  BY <1>2, <1>4, CountedNext
<1>6. reserved' \in [Gens -> Nat]
  BY <1>1, <1>5 DEF AppTypeOK
<1> QED
  BY <1>4, <1>6 DEF MoneyMatches

\* Money is untouched when no reservation is.
LEMMA HoldsKept ==
  ASSUME AppInv, UNCHANGED <<res, price, reserved>>,
         \A q \in Req : res[q] = "held" => home'[q] = home[q]
  PROVE  MoneyMatches' /\ reserved' \in [Gens -> Nat]
<1>1. \A g \in Gens : Costly(g)' = Costly(g)
  BY DEF Costly, HeldBy
<1> QED
  BY <1>1 DEF AppInv, AppTypeOK, MoneyMatches

\* A reservation that ends gives its latency back to its own generation.
LEMMA LatencyEnds ==
  ASSUME AppInv, NEW r \in Req, res[r] = "held",
         res' = [res EXCEPT ![r] = "settled"],
         reservedLat' = [reservedLat EXCEPT ![home[r]] = @ - PROJECTED_LATENCY],
         UNCHANGED home
  PROVE  LatencyMatches' /\ reservedLat' \in [Gens -> Nat]
<1> DEFINE P == PROJECTED_LATENCY
<1>1. AppTypeOK /\ home[r] \in Gens /\ LatencyMatches /\ P \in Nat
  BY FiguresNat DEF AppInv, Tied, LatencyBooks
<1>2. res'[r] # "held" /\ \A q \in Req \ {r} : res'[q] = res[q]
  BY <1>1 DEF AppTypeOK
<1>3. ASSUME NEW g \in Gens
      PROVE  reservedLat'[g] = P * Cardinality(HeldBy(g)')
  <2>1. reservedLat[g] = P * Cardinality(HeldBy(g)) /\ Cardinality(HeldBy(g)) \in Nat
    BY <1>1, Counted DEF LatencyMatches
  <2>2. CASE g = home[r]
    <3>1. r \in HeldBy(g) /\ HeldBy(g)' = HeldBy(g) \ {r}
      BY <1>2, <2>2 DEF HeldBy
    <3>2. Cardinality(HeldBy(g)') = Cardinality(HeldBy(g)) - 1
      BY <3>1, OneLess, Counted
    <3>3. P * (Cardinality(HeldBy(g)) - 1) = P * Cardinality(HeldBy(g)) - P
      BY <1>1, <2>1
    <3>4. reservedLat'[g] = reservedLat[g] - P
      BY <1>1, <2>2 DEF AppTypeOK
    <3> QED
      BY <2>1, <3>2, <3>3, <3>4
  <2>3. CASE g # home[r]
    <3>1. HeldBy(g)' = HeldBy(g)
      BY <1>2, <2>3 DEF HeldBy
    <3>2. reservedLat'[g] = reservedLat[g]
      BY <1>1, <2>3 DEF AppTypeOK
    <3> QED
      BY <2>1, <3>1, <3>2
  <2> QED
    BY <2>2, <2>3
<1>4. \A g \in Gens : reservedLat'[g] \in Nat
  BY <1>1, <1>3, CountedNext
<1> QED
  BY <1>1, <1>3, <1>4 DEF LatencyMatches, AppTypeOK

\* A reservation that starts takes its latency of the current generation.
LEMMA LatencyStarts ==
  ASSUME AppInv, NEW r \in Req, res[r] # "held", HoldLatency(r),
         home' = [home EXCEPT ![r] = gen], UNCHANGED usedLat
  PROVE  LatencyBooks'
<1> DEFINE P == PROJECTED_LATENCY
<1>1. AppTypeOK /\ gen \in Gens /\ LatencyBooks /\ P \in Nat
  BY FiguresNat DEF AppInv, AppTypeOK
<1>2. /\ res' = [res EXCEPT ![r] = "held"]
      /\ reservedLat' = [reservedLat EXCEPT ![gen] = @ + P]
  BY DEF HoldLatency
<1>3. /\ res'[r] = "held" /\ \A q \in Req \ {r} : res'[q] = res[q]
      /\ home'[r] = gen /\ \A q \in Req \ {r} : home'[q] = home[q]
  BY <1>1, <1>2 DEF AppTypeOK
<1>4. ASSUME NEW g \in Gens
      PROVE  reservedLat'[g] = P * Cardinality(HeldBy(g)')
  <2>1. reservedLat[g] = P * Cardinality(HeldBy(g)) /\ Cardinality(HeldBy(g)) \in Nat
    BY <1>1, Counted DEF LatencyBooks, LatencyMatches
  <2>2. r \notin HeldBy(g)
    BY DEF HeldBy
  <2>3. CASE g = gen
    <3>1. HeldBy(g)' = HeldBy(g) \union {r}
      BY <1>3, <2>2, <2>3 DEF HeldBy
    <3>2. Cardinality(HeldBy(g)') = Cardinality(HeldBy(g)) + 1
      BY <2>2, <3>1, OneMore, Counted
    <3>3. P * (Cardinality(HeldBy(g)) + 1) = P * Cardinality(HeldBy(g)) + P
      BY <1>1, <2>1
    <3>4. reservedLat'[g] = reservedLat[g] + P
      BY <1>1, <1>2, <2>3 DEF AppTypeOK
    <3> QED
      BY <2>1, <3>2, <3>3, <3>4
  <2>4. CASE g # gen
    <3>1. HeldBy(g)' = HeldBy(g)
      BY <1>3, <2>2, <2>4 DEF HeldBy
    <3>2. reservedLat'[g] = reservedLat[g]
      BY <1>1, <1>2, <2>4 DEF AppTypeOK
    <3> QED
      BY <2>1, <3>1, <3>2
  <2> QED
    BY <2>3, <2>4
<1>5. \A g \in Gens : reservedLat'[g] \in Nat
  BY <1>1, <1>4, CountedNext
<1>6. reservedLat' \in [Gens -> Nat]
  BY <1>1, <1>2, <1>5 DEF AppTypeOK
<1> QED
  BY <1>1, <1>4, <1>6 DEF LatencyBooks, LatencyMatches

\* Latency is untouched when no reservation is.
LEMMA LatencyKept ==
  ASSUME AppInv, UNCHANGED <<res, usedLat, reservedLat>>,
         \A q \in Req : res[q] = "held" => home'[q] = home[q]
  PROVE  LatencyBooks'
<1>1. \A g \in Gens : HeldBy(g)' = HeldBy(g)
  BY DEF HeldBy
<1> QED
  BY <1>1 DEF AppInv, LatencyBooks, LatencyMatches

\* r alone moves: the others keep their stages and their managers.
Alone(r) == \A q \in Req \ {r} : stage'[q] = stage[q] /\ home'[q] = home[q]

\* A slot left is a slot of the generation that gave it.
LEMMA SeatLeft ==
  ASSUME AppInv, NEW r \in Req, Alone(r), stage[r] \in InSlot, stage'[r] \notin InSlot,
         slots' = [slots EXCEPT ![home[r]] = @ - 1]
  PROVE  SlotsMatch' /\ slots' \in [Gens -> 0..LOCAL_QUEUE_CAPACITY]
<1> DEFINE K == LOCAL_QUEUE_CAPACITY
<1>1. AppTypeOK /\ SlotsMatch /\ Tied(r)
  BY DEF AppInv
<1>2. home[r] \in Gens
  BY <1>1 DEF Tied, InSlot
<1>3. ASSUME NEW g \in Gens
      PROVE  slots'[g] = Cardinality(Sitting(g)') /\ slots'[g] <= K
  <2>1. /\ slots[g] = Cardinality(Sitting(g)) /\ Cardinality(Sitting(g)) \in Nat
        /\ slots[g] \in 0..K /\ K \in Nat
    BY <1>1, Counted, FiguresNat DEF SlotsMatch, AppTypeOK
  <2>2. CASE g = home[r]
    <3>1. r \in Sitting(g) /\ Sitting(g)' = Sitting(g) \ {r}
      BY <2>2 DEF Sitting, Alone
    <3>2. Cardinality(Sitting(g)') = Cardinality(Sitting(g)) - 1
      BY <3>1, OneLess, Counted
    <3>3. slots'[g] = slots[g] - 1
      BY <1>1, <2>2 DEF AppTypeOK
    <3> QED
      BY <2>1, <3>2, <3>3
  <2>3. CASE g # home[r]
    <3>1. Sitting(g)' = Sitting(g)
      BY <2>3 DEF Sitting, Alone
    <3>2. slots'[g] = slots[g]
      BY <1>1, <2>3 DEF AppTypeOK
    <3> QED
      BY <2>1, <3>1, <3>2
  <2> QED
    BY <2>2, <2>3
<1>4. \A g \in Gens : slots'[g] \in 0..K
  BY <1>3, CountedNext, FiguresNat
<1> QED
  BY <1>1, <1>3, <1>4 DEF SlotsMatch, AppTypeOK

\* A slot taken is a free one of the request's generation.
LEMMA SeatTaken ==
  ASSUME AppInv, NEW r \in Req, Alone(r), stage[r] \notin InSlot, stage'[r] \in InSlot,
         home'[r] \in Gens, slots[home'[r]] < LOCAL_QUEUE_CAPACITY,
         slots' = [slots EXCEPT ![home'[r]] = @ + 1]
  PROVE  SlotsMatch' /\ slots' \in [Gens -> 0..LOCAL_QUEUE_CAPACITY]
<1> DEFINE K == LOCAL_QUEUE_CAPACITY
<1>1. AppTypeOK /\ SlotsMatch
  BY DEF AppInv
<1>2. ASSUME NEW g \in Gens
      PROVE  slots'[g] = Cardinality(Sitting(g)') /\ slots'[g] <= K
  <2>1. /\ slots[g] = Cardinality(Sitting(g)) /\ Cardinality(Sitting(g)) \in Nat
        /\ slots[g] \in 0..K /\ K \in Nat
    BY <1>1, Counted, FiguresNat DEF SlotsMatch, AppTypeOK
  <2>2. CASE g = home'[r]
    <3>1. r \notin Sitting(g) /\ Sitting(g)' = Sitting(g) \union {r}
      BY <2>2 DEF Sitting, Alone
    <3>2. Cardinality(Sitting(g)') = Cardinality(Sitting(g)) + 1
      BY <3>1, OneMore, Counted
    <3>3. slots'[g] = slots[g] + 1
      BY <1>1, <2>2 DEF AppTypeOK
    <3> QED
      BY <2>1, <2>2, <3>2, <3>3
  <2>3. CASE g # home'[r]
    <3>1. Sitting(g)' = Sitting(g)
      BY <2>3 DEF Sitting, Alone
    <3>2. slots'[g] = slots[g]
      BY <1>1, <2>3 DEF AppTypeOK
    <3> QED
      BY <2>1, <3>1, <3>2
  <2> QED
    BY <2>2, <2>3
<1>3. \A g \in Gens : slots'[g] \in 0..K
  BY <1>2, CountedNext, FiguresNat
<1> QED
  BY <1>1, <1>2, <1>3 DEF SlotsMatch, AppTypeOK

\* A request that is in no slot before and after leaves them alone.
LEMMA SeatsKept ==
  ASSUME AppInv, NEW r \in Req, Alone(r), stage[r] \notin InSlot, stage'[r] \notin InSlot,
         UNCHANGED slots
  PROVE  SlotsMatch' /\ slots' \in [Gens -> 0..LOCAL_QUEUE_CAPACITY]
<1>1. \A g \in Gens : Sitting(g)' = Sitting(g)
  BY DEF Sitting, Alone
<1> QED
  BY <1>1 DEF AppInv, AppTypeOK, SlotsMatch

-----------------------------------------------------------------------------
\* The actions of the server

\* What the books of a step have to show.
LEMMA AppKept ==
  ASSUME AppInv, NEW r \in Req, Alone(r), UNCHANGED <<serving, gen, reapers>>,
         MoneyMatches', reserved' \in [Gens -> Nat],
         SlotsMatch', slots' \in [Gens -> 0..LOCAL_QUEUE_CAPACITY],
         spent' \in [Gens -> Nat], WithinBudget', LatencyBooks',
         stage' \in [Req -> InFlight \union {"new", "done", "cancelled"}],
         home' \in [Req -> Gens \union {NoGen}],
         price' \in [Req -> {0, COST_PER_REMOTE_REQUEST}],
         res' \in [Req -> {"none", "held", "settled"}],
         \A q \in Req \ {r} : res'[q] = res[q] /\ price'[q] = price[q],
         Tied(r)'
  PROVE  AppInv'
<1>1. AppTypeOK' /\ OneReaper'
  BY DEF AppInv, AppTypeOK, OneReaper, LatencyBooks
<1>2. \A q \in Req : Tied(q)'
  BY DEF AppInv, Tied, Alone
<1> QED
  BY <1>1, <1>2 DEF AppInv

\* route() reserves money for a remote call, of the managers of the moment.
LEMMA EnterRemoteKept ==
  ASSUME AppInv, NEW r \in Req, EnterRemote(r)
  PROVE  AppInv'
<1>1. AppTypeOK /\ Tied(r) /\ WithinBudget /\ gen \in Gens
  BY DEF AppInv, AppTypeOK
<1>2. /\ stage[r] = "new" /\ stage' = [stage EXCEPT ![r] = "remote"]
      /\ home' = [home EXCEPT ![r] = gen]
      /\ price' = [price EXCEPT ![r] = COST_PER_REMOTE_REQUEST]
      /\ reserved' = [reserved EXCEPT ![gen] = @ + COST_PER_REMOTE_REQUEST]
      /\ res' = [res EXCEPT ![r] = "held"] /\ HoldLatency(r)
      /\ UNCHANGED <<serving, gen, reapers, spent, usedLat, slots>>
      /\ spent[gen] + reserved[gen] + COST_PER_REMOTE_REQUEST <= MAX_REMOTE_BUDGET
  BY DEF EnterRemote, Enter, HoldLatency
<1>3. res[r] # "held"
  BY <1>1, <1>2 DEF Tied
<1>4. MoneyMatches' /\ reserved' \in [Gens -> Nat] /\ LatencyBooks'
  BY <1>2, <1>3, HoldStarts, LatencyStarts
<1>5. /\ Alone(r) /\ stage'[r] = "remote" /\ home'[r] = gen
      /\ \A q \in Req \ {r} : res'[q] = res[q] /\ price'[q] = price[q]
  BY <1>1, <1>2 DEF AppTypeOK, Alone
<1>6. SlotsMatch' /\ slots' \in [Gens -> 0..LOCAL_QUEUE_CAPACITY]
  BY <1>2, <1>5, SeatsKept DEF InSlot
<1>7. WithinBudget'
  <2>1. reserved'[gen] = reserved[gen] + COST_PER_REMOTE_REQUEST
        /\ \A g \in Gens \ {gen} : reserved'[g] = reserved[g]
    BY <1>1, <1>2 DEF AppTypeOK
  <2>2. /\ spent[gen] \in Nat /\ reserved[gen] \in Nat /\ COST_PER_REMOTE_REQUEST \in Nat
        /\ MAX_REMOTE_BUDGET \in Nat
    BY <1>1, FiguresNat DEF AppTypeOK
  <2>3. spent'[gen] + reserved'[gen] <= MAX_REMOTE_BUDGET
    BY <1>2, <2>1, <2>2
  <2> QED
    BY <1>1, <1>2, <2>1, <2>3 DEF WithinBudget
<1>8. /\ stage' \in [Req -> InFlight \union {"new", "done", "cancelled"}]
      /\ home' \in [Req -> Gens \union {NoGen}]
      /\ price' \in [Req -> {0, COST_PER_REMOTE_REQUEST}]
      /\ res' \in [Req -> {"none", "held", "settled"}]
      /\ spent' \in [Gens -> Nat]
  BY <1>1, <1>2 DEF AppTypeOK, InFlight
<1>9. Tied(r)'
  BY <1>1, <1>5 DEF Tied
<1> QED
  BY <1>2, <1>4, <1>5, <1>6, <1>7, <1>8, <1>9, AppKept

\* route() reserves latency for a local call, and the handler takes a slot.
LEMMA EnterLocalKept ==
  ASSUME AppInv, NEW r \in Req, EnterLocal(r)
  PROVE  AppInv'
<1>1. AppTypeOK /\ Tied(r) /\ WithinBudget /\ gen \in Gens
  BY DEF AppInv, AppTypeOK
<1>2. /\ stage[r] = "new" /\ stage' = [stage EXCEPT ![r] = "local"]
      /\ home' = [home EXCEPT ![r] = gen]
      /\ slots[gen] < LOCAL_QUEUE_CAPACITY
      /\ slots' = [slots EXCEPT ![gen] = @ + 1]
      /\ res' = [res EXCEPT ![r] = "held"] /\ HoldLatency(r)
      /\ UNCHANGED <<serving, gen, reapers, spent, usedLat, price, reserved>>
  BY DEF EnterLocal, Enter, HoldLatency
<1>3. res[r] # "held" /\ price[r] = 0
  BY <1>1, <1>2 DEF Tied
<1>4. MoneyMatches' /\ reserved' \in [Gens -> Nat] /\ LatencyBooks'
  BY <1>2, <1>3, HoldStarts, LatencyStarts
<1>5. /\ Alone(r) /\ stage'[r] = "local" /\ home'[r] = gen
      /\ \A q \in Req \ {r} : res'[q] = res[q] /\ price'[q] = price[q]
  BY <1>1, <1>2 DEF AppTypeOK, Alone
<1>6. SlotsMatch' /\ slots' \in [Gens -> 0..LOCAL_QUEUE_CAPACITY]
  BY <1>1, <1>2, <1>5, SeatTaken DEF InSlot
<1>7. WithinBudget'
  BY <1>1, <1>2 DEF WithinBudget
<1>8. /\ stage' \in [Req -> InFlight \union {"new", "done", "cancelled"}]
      /\ home' \in [Req -> Gens \union {NoGen}]
      /\ price' \in [Req -> {0, COST_PER_REMOTE_REQUEST}]
      /\ res' \in [Req -> {"none", "held", "settled"}]
      /\ spent' \in [Gens -> Nat]
  BY <1>1, <1>2 DEF AppTypeOK, InFlight
<1>9. Tied(r)'
  BY <1>1, <1>5 DEF Tied
<1> QED
  BY <1>2, <1>4, <1>5, <1>6, <1>7, <1>8, <1>9, AppKept

\* A refused request holds nothing.
LEMMA RefuseKept ==
  ASSUME AppInv, NEW r \in Req, Refuse(r)
  PROVE  AppInv'
<1>1. AppTypeOK /\ Tied(r) /\ WithinBudget /\ gen \in Gens
  BY DEF AppInv, AppTypeOK
<1>2. /\ stage[r] = "new" /\ stage' = [stage EXCEPT ![r] = "done"]
      /\ home' = [home EXCEPT ![r] = gen]
      /\ UNCHANGED <<serving, gen, reapers, spent, price, reserved, usedLat, reservedLat, slots, res>>
  BY DEF Refuse, Enter
<1>3. res[r] # "held"
  BY <1>1, <1>2 DEF Tied
<1>4. /\ Alone(r) /\ stage'[r] = "done" /\ home'[r] = gen
      /\ \A q \in Req \ {r} : res'[q] = res[q] /\ price'[q] = price[q]
  BY <1>1, <1>2 DEF AppTypeOK, Alone
<1>5. MoneyMatches' /\ reserved' \in [Gens -> Nat] /\ LatencyBooks'
  BY <1>2, <1>3, <1>4, HoldsKept, LatencyKept DEF Alone
<1>6. SlotsMatch' /\ slots' \in [Gens -> 0..LOCAL_QUEUE_CAPACITY]
  BY <1>2, <1>4, SeatsKept DEF InSlot
<1>7. WithinBudget'
  BY <1>1, <1>2 DEF WithinBudget
<1>8. /\ stage' \in [Req -> InFlight \union {"new", "done", "cancelled"}]
      /\ home' \in [Req -> Gens \union {NoGen}]
      /\ price' \in [Req -> {0, COST_PER_REMOTE_REQUEST}]
      /\ res' \in [Req -> {"none", "held", "settled"}]
      /\ spent' \in [Gens -> Nat]
  BY <1>1, <1>2 DEF AppTypeOK
<1>9. Tied(r)'
  BY <1>1, <1>2, <1>3, <1>4 DEF Tied
<1> QED
  BY <1>2, <1>4, <1>5, <1>6, <1>7, <1>8, <1>9, AppKept

\* The latency cap has room for lat more in the managers of r.
Room(r, lat) == usedLat[home[r]] + lat <= MAX_CUMULATIVE_LATENCY_MS

\* Ending a reservation, if there is one left, keeps the money and the latency of
\* every generation.
LEMMA Settled ==
  ASSUME AppInv, NEW r \in Req, stage[r] \in InFlight,
         NEW actual \in 0..price[r], NEW lat \in Nat, Room(r, lat),
         EndReservation(r, actual, lat), UNCHANGED <<home, price>>
  PROVE  /\ MoneyMatches' /\ reserved' \in [Gens -> Nat]
         /\ spent' \in [Gens -> Nat] /\ WithinBudget' /\ LatencyBooks'
         /\ res' \in [Req -> {"none", "held", "settled"}]
         /\ res'[r] # "held" /\ \A q \in Req \ {r} : res'[q] = res[q]
<1>1. AppTypeOK /\ WithinBudget /\ MAX_REMOTE_BUDGET \in Nat
  BY FiguresNat DEF AppInv
<1>2. CASE res[r] = "held"
  <2>1. /\ res' = [res EXCEPT ![r] = "settled"]
        /\ reserved' = [reserved EXCEPT ![home[r]] = @ - price[r]]
        /\ spent' = [spent EXCEPT ![home[r]] = @ + actual]
        /\ reservedLat' = [reservedLat EXCEPT ![home[r]] = @ - PROJECTED_LATENCY]
        /\ usedLat' = [usedLat EXCEPT ![home[r]] = @ + lat]
    BY <1>2 DEF EndReservation, Managers
  <2>2. /\ MoneyMatches' /\ reserved' \in [Gens -> Nat]
        /\ home[r] \in Gens /\ price[r] \in Nat
        /\ reserved'[home[r]] = reserved[home[r]] - price[r]
        /\ \A g \in Gens \ {home[r]} : reserved'[g] = reserved[g]
    BY <1>2, <2>1, HoldEnds
  <2>3. spent' \in [Gens -> Nat]
    BY <1>1, <2>1, <2>2 DEF AppTypeOK
  <2>4. /\ spent'[home[r]] <= spent[home[r]] + price[r]
        /\ \A g \in Gens \ {home[r]} : spent'[g] = spent[g]
    BY <1>1, <2>1, <2>2 DEF AppTypeOK
  <2>5. /\ spent[home[r]] + reserved[home[r]] <= MAX_REMOTE_BUDGET
        /\ spent[home[r]] \in Nat /\ reserved[home[r]] \in Nat /\ spent'[home[r]] \in Nat
    BY <1>1, <2>2, <2>3 DEF WithinBudget, AppTypeOK
  <2>6. spent'[home[r]] + reserved'[home[r]] <= MAX_REMOTE_BUDGET
    BY <1>1, <2>2, <2>4, <2>5
  <2>7. WithinBudget'
    BY <1>1, <2>2, <2>4, <2>6 DEF WithinBudget
  <2>8. /\ res' \in [Req -> {"none", "held", "settled"}]
        /\ res'[r] # "held" /\ \A q \in Req \ {r} : res'[q] = res[q]
    BY <1>1, <2>1 DEF AppTypeOK
  <2>9. LatencyMatches' /\ reservedLat' \in [Gens -> Nat]
    BY <1>2, <2>1, LatencyEnds
  <2>10. usedLat' \in [Gens -> Nat] /\ \A g \in Gens : usedLat'[g] <= MAX_CUMULATIVE_LATENCY_MS
    BY <1>1, <2>1, <2>2 DEF AppInv, LatencyBooks, Room
  <2> QED
    BY <2>2, <2>3, <2>7, <2>8, <2>9, <2>10 DEF LatencyBooks
<1>3. CASE res[r] # "held"
  <2>1. UNCHANGED <<res, reserved, spent, usedLat, reservedLat>>
    BY <1>3 DEF EndReservation
  <2>2. MoneyMatches' /\ reserved' \in [Gens -> Nat] /\ LatencyBooks'
    BY <2>1, HoldsKept, LatencyKept
  <2> QED
    BY <1>1, <1>3, <2>1, <2>2 DEF WithinBudget, AppTypeOK
<1> QED
  BY <1>2, <1>3

\* Nothing always fits.
LEMMA NothingFits ==
  ASSUME AppInv, NEW r \in Req, stage[r] \in InFlight
  PROVE  0 \in 0..price[r] /\ Room(r, 0)
<1>1. home[r] \in Gens /\ price[r] \in Nat
  BY FiguresNat DEF AppInv, AppTypeOK, Tied, InFlight
<1>2. usedLat[home[r]] \in Nat /\ usedLat[home[r]] <= MAX_CUMULATIVE_LATENCY_MS
  BY <1>1 DEF AppInv, LatencyBooks
<1>3. usedLat[home[r]] + 0 = usedLat[home[r]]
  BY <1>2
<1> QED
  BY <1>1, <1>2, <1>3 DEF Room

\* The answer of a backend settles with the managers the request began with.
LEMMA FinishKept ==
  ASSUME AppInv, NEW r \in Req, NEW actual \in 0..price[r], NEW lat \in Nat, Room(r, lat),
         Finish(r, actual, lat)
  PROVE  AppInv'
<1>1. AppTypeOK /\ Tied(r)
  BY DEF AppInv
<1>2. /\ stage[r] \in InFlight /\ stage' = [stage EXCEPT ![r] = "done"]
      /\ EndReservation(r, actual, lat) /\ LeaveSlot(r)
      /\ UNCHANGED <<serving, gen, reapers, home, price>>
  BY DEF Finish
<1>3. /\ MoneyMatches' /\ reserved' \in [Gens -> Nat]
      /\ spent' \in [Gens -> Nat] /\ WithinBudget' /\ LatencyBooks'
      /\ res' \in [Req -> {"none", "held", "settled"}]
      /\ res'[r] # "held" /\ \A q \in Req \ {r} : res'[q] = res[q]
  BY <1>2, Settled
<1>4. Alone(r) /\ stage'[r] = "done"
  BY <1>1, <1>2 DEF AppTypeOK, Alone
<1>5. SlotsMatch' /\ slots' \in [Gens -> 0..LOCAL_QUEUE_CAPACITY]
  BY <1>2, <1>4, SeatLeft, SeatsKept DEF LeaveSlot, Managers, InSlot
<1>6. /\ stage' \in [Req -> InFlight \union {"new", "done", "cancelled"}]
      /\ home' \in [Req -> Gens \union {NoGen}]
      /\ price' \in [Req -> {0, COST_PER_REMOTE_REQUEST}]
      /\ \A q \in Req \ {r} : price'[q] = price[q]
  BY <1>1, <1>2 DEF AppTypeOK
<1>7. Tied(r)'
  BY <1>1, <1>2, <1>3, <1>4 DEF Tied, InFlight
<1> QED
  BY <1>2, <1>3, <1>4, <1>5, <1>6, <1>7, AppKept

\* A failed remote call falls back to a slot of its own generation, if one is free.
LEMMA RemoteFailsKept ==
  ASSUME AppInv, NEW r \in Req, RemoteFails(r)
  PROVE  AppInv'
<1> DEFINE free == slots[home[r]] < LOCAL_QUEUE_CAPACITY
<1>1. AppTypeOK /\ Tied(r)
  BY DEF AppInv
<1>2. /\ stage[r] = "remote"
      /\ stage' = [stage EXCEPT ![r] = IF free THEN "fallback" ELSE "done"]
      /\ slots' = IF free THEN [slots EXCEPT ![home[r]] = @ + 1] ELSE slots
      /\ EndReservation(r, 0, 0)
      /\ UNCHANGED <<serving, gen, reapers, home, price>>
  BY DEF RemoteFails, Managers
<1>3. stage[r] \in InFlight /\ home[r] \in Gens /\ 0 \in 0..price[r] /\ 0 \in Nat /\ Room(r, 0)
  BY <1>1, <1>2, NothingFits, FiguresNat DEF InFlight, Tied, AppTypeOK
<1>4. /\ MoneyMatches' /\ reserved' \in [Gens -> Nat]
      /\ spent' \in [Gens -> Nat] /\ WithinBudget' /\ LatencyBooks'
      /\ res' \in [Req -> {"none", "held", "settled"}]
      /\ res'[r] # "held" /\ \A q \in Req \ {r} : res'[q] = res[q]
  BY <1>2, <1>3, Settled
<1>5. Alone(r) /\ stage'[r] = (IF free THEN "fallback" ELSE "done") /\ home'[r] = home[r]
  BY <1>1, <1>2 DEF AppTypeOK, Alone
<1>6. SlotsMatch' /\ slots' \in [Gens -> 0..LOCAL_QUEUE_CAPACITY]
  <2>1. CASE free
    BY <1>2, <1>3, <1>5, <2>1, SeatTaken DEF InSlot
  <2>2. CASE ~free
    BY <1>2, <1>5, <2>2, SeatsKept DEF InSlot
  <2> QED
    BY <2>1, <2>2
<1>7. /\ stage' \in [Req -> InFlight \union {"new", "done", "cancelled"}]
      /\ home' \in [Req -> Gens \union {NoGen}]
      /\ price' \in [Req -> {0, COST_PER_REMOTE_REQUEST}]
      /\ \A q \in Req \ {r} : price'[q] = price[q]
  BY <1>1, <1>2 DEF AppTypeOK, InFlight
<1>8. Tied(r)'
  BY <1>3, <1>4, <1>5 DEF Tied
<1> QED
  BY <1>2, <1>4, <1>5, <1>6, <1>7, <1>8, AppKept

\* A cancelled request leaves its slot and keeps its reservation.
LEMMA CancelKept ==
  ASSUME AppInv, NEW r \in Req, Cancel(r)
  PROVE  AppInv'
<1>1. AppTypeOK /\ Tied(r) /\ WithinBudget
  BY DEF AppInv
<1>2. /\ stage[r] \in InFlight /\ stage' = [stage EXCEPT ![r] = "cancelled"]
      /\ LeaveSlot(r)
      /\ UNCHANGED <<serving, gen, reapers, spent, reserved, usedLat, reservedLat, home, price, res>>
  BY DEF Cancel
<1>3. Alone(r) /\ stage'[r] = "cancelled"
  BY <1>1, <1>2 DEF AppTypeOK, Alone
<1>4. MoneyMatches' /\ reserved' \in [Gens -> Nat] /\ LatencyBooks'
  BY <1>2, HoldsKept, LatencyKept
<1>5. SlotsMatch' /\ slots' \in [Gens -> 0..LOCAL_QUEUE_CAPACITY]
  BY <1>2, <1>3, SeatLeft, SeatsKept DEF LeaveSlot, Managers, InSlot
<1>6. /\ stage' \in [Req -> InFlight \union {"new", "done", "cancelled"}]
      /\ home' \in [Req -> Gens \union {NoGen}]
      /\ price' \in [Req -> {0, COST_PER_REMOTE_REQUEST}]
      /\ res' \in [Req -> {"none", "held", "settled"}]
      /\ spent' \in [Gens -> Nat] /\ WithinBudget'
      /\ \A q \in Req \ {r} : res'[q] = res[q] /\ price'[q] = price[q]
  BY <1>1, <1>2 DEF AppTypeOK, WithinBudget
<1>7. Tied(r)'
  BY <1>1, <1>2, <1>3 DEF Tied, InFlight
<1> QED
  BY <1>2, <1>3, <1>4, <1>5, <1>6, <1>7, AppKept

\* A reaper gives back what a reservation of its own generation holds.
LEMMA ExpireKept ==
  ASSUME AppInv, NEW r \in Req, Expire(r)
  PROVE  AppInv'
<1>1. AppTypeOK /\ Tied(r) /\ SlotsMatch
  BY DEF AppInv
<1>2. /\ res[r] = "held" /\ res' = [res EXCEPT ![r] = "settled"]
      /\ reserved' = [reserved EXCEPT ![home[r]] = @ - price[r]]
      /\ reservedLat' = [reservedLat EXCEPT ![home[r]] = @ - PROJECTED_LATENCY]
      /\ UNCHANGED <<serving, gen, reapers, spent, usedLat, slots, stage, home, price>>
  BY DEF Expire
<1>3. stage[r] \in InFlight \union {"cancelled"}
  BY <1>1, <1>2 DEF Tied, InFlight
<1>4. /\ MoneyMatches' /\ reserved' \in [Gens -> Nat] /\ home[r] \in Gens /\ price[r] \in Nat
      /\ reserved'[home[r]] = reserved[home[r]] - price[r]
      /\ \A g \in Gens \ {home[r]} : reserved'[g] = reserved[g]
  BY <1>2, HoldEnds
<1>5. WithinBudget'
  <2>1. ASSUME NEW g \in Gens
        PROVE  spent'[g] + reserved'[g] <= MAX_REMOTE_BUDGET
    <3>1. /\ spent'[g] = spent[g] /\ spent[g] \in Nat /\ reserved[g] \in Nat
          /\ spent[g] + reserved[g] <= MAX_REMOTE_BUDGET /\ MAX_REMOTE_BUDGET \in Nat
      BY <1>1, <1>2, FiguresNat DEF AppInv, AppTypeOK, WithinBudget
    <3>2. reserved'[g] <= reserved[g] /\ reserved'[g] \in Nat
      BY <1>4, <3>1
    <3> QED
      BY <3>1, <3>2
  <2> QED
    BY <2>1 DEF WithinBudget
<1>6. /\ SlotsMatch' /\ slots' \in [Gens -> 0..LOCAL_QUEUE_CAPACITY]
      /\ Alone(r) /\ spent' \in [Gens -> Nat]
      /\ stage' \in [Req -> InFlight \union {"new", "done", "cancelled"}]
      /\ home' \in [Req -> Gens \union {NoGen}]
      /\ price' \in [Req -> {0, COST_PER_REMOTE_REQUEST}]
      /\ res' \in [Req -> {"none", "held", "settled"}]
      /\ \A q \in Req \ {r} : res'[q] = res[q] /\ price'[q] = price[q]
  BY <1>1, <1>2 DEF AppTypeOK, SlotsMatch, Sitting, Alone
<1>7. Tied(r)'
  BY <1>1, <1>2 DEF Tied, AppTypeOK
<1>8. LatencyBooks'
  <2>1. LatencyMatches' /\ reservedLat' \in [Gens -> Nat]
    BY <1>2, LatencyEnds
  <2> QED
    BY <1>2, <2>1 DEF AppInv, LatencyBooks
<1> QED
  BY <1>2, <1>4, <1>5, <1>6, <1>7, <1>8, AppKept

\* What replaces or stops the managers touches no book and no request.
LEMMA ManagersKept ==
  ASSUME AppInv, RunStart \/ Shutdown
  PROVE  AppInv'
<1>1. UNCHANGED <<spent, reserved, usedLat, reservedLat, slots, stage, home, price, res>>
  BY DEF RunStart, Shutdown, books
<1>2. AppTypeOK /\ OneReaper /\ MaxGen \in Nat
  BY FiguresNat DEF AppInv
<1>3. serving' \in BOOLEAN /\ gen' \in Gens /\ reapers' \subseteq Gens /\ OneReaper'
  <2>1. CASE RunStart
    <3>1. serving /\ gen < MaxGen /\ gen' = gen + 1 /\ reapers' = (reapers \ {gen}) \union {gen + 1}
          /\ serving' = serving
      BY <2>1 DEF RunStart, Reapers
    <3>2. reapers = {gen}
      BY <1>2, <3>1 DEF OneReaper
    <3>3. reapers' = {gen'}
      BY <3>1, <3>2
    <3>4. gen' \in Gens
      BY <1>2, <3>1 DEF AppTypeOK, Gens
    <3> QED
      BY <1>2, <3>1, <3>3, <3>4 DEF OneReaper, AppTypeOK
  <2>2. CASE Shutdown
    <3>1. serving' = FALSE /\ gen' = gen /\ reapers' = reapers \ {0}
      BY <2>2 DEF Shutdown
    <3> QED
      BY <1>2, <3>1 DEF OneReaper, AppTypeOK
  <2> QED
    BY <2>1, <2>2
<1>4. AppTypeOK'
  BY <1>1, <1>2, <1>3 DEF AppTypeOK
<1>5. (\A r \in Req : Tied(r)') /\ MoneyMatches' /\ SlotsMatch' /\ WithinBudget' /\ LatencyBooks'
  BY <1>1 DEF AppInv, Tied, MoneyMatches, SlotsMatch, WithinBudget, LatencyBooks, LatencyMatches,
              Costly, HeldBy, Sitting
<1> QED
  BY <1>3, <1>4, <1>5 DEF AppInv

\* Nothing happens.
LEMMA AppIdle ==
  ASSUME AppInv, UNCHANGED appVars
  PROVE  AppInv'
BY DEF AppInv, appVars, books, AppTypeOK, Tied, MoneyMatches, SlotsMatch, WithinBudget,
       LatencyBooks, LatencyMatches, Costly, HeldBy, Sitting, OneReaper

\* Every step the server can take.
AppStep ==
    \/ \E r \in Req : Admission(r) \/ Handling(r) \/ Cancel(r) \/ Expire(r)
    \/ RunStart \/ Shutdown \/ UNCHANGED appVars

\* The server keeps its invariant, and an answered request stays answered.
LEMMA AppNext ==
  ASSUME AppInv, AppStep
  PROVE  AppInv' /\ \A q \in Req : stage[q] = "done" => stage'[q] = "done"
<1>1. AppInv'
  <2>1. ASSUME NEW r \in Req, Admission(r)
        PROVE  AppInv'
    BY <2>1, EnterRemoteKept, EnterLocalKept, RefuseKept DEF Admission
  <2>2. ASSUME NEW r \in Req, Handling(r)
        PROVE  AppInv'
    <3>1. ASSUME NEW actual \in 0..price[r], NEW lat \in Latencies, Finish(r, actual, lat),
                 usedLat[Managers(r)] + lat <= MAX_CUMULATIVE_LATENCY_MS
          PROVE  AppInv'
      <4>1. lat \in Nat /\ Room(r, lat)
        BY <3>1, AppStateAssumption DEF Managers, Room
      <4> QED
        BY <3>1, <4>1, FinishKept
    <3>2. ASSUME Finish(r, 0, 0)
          PROVE  AppInv'
      <4>1. 0 \in 0..price[r] /\ 0 \in Nat /\ Room(r, 0)
        BY <3>2, NothingFits DEF Finish
      <4> QED
        BY <3>2, <4>1, FinishKept
    <3> QED
      BY <2>2, <3>1, <3>2, RemoteFailsKept DEF Handling
  <2> QED
    BY <2>1, <2>2, CancelKept, ExpireKept, ManagersKept, AppIdle DEF AppStep
<1>2. ASSUME NEW r \in Req, Admission(r) \/ Handling(r) \/ Cancel(r) \/ Expire(r)
      PROVE  \A q \in Req : stage[q] = "done" => stage'[q] = "done"
  <2>1. stage \in [Req -> InFlight \union {"new", "done", "cancelled"}]
    BY DEF AppInv, AppTypeOK
  <2>2. \/ UNCHANGED stage
        \/ stage[r] # "done" /\ \E s : stage' = [stage EXCEPT ![r] = s]
    <3>1. CASE Admission(r)
      BY <3>1 DEF Admission, EnterRemote, EnterLocal, Refuse, Enter
    <3>2. CASE Handling(r)
      BY <3>2 DEF Handling, Finish, RemoteFails, InFlight
    <3>3. CASE Cancel(r) \/ Expire(r)
      BY <3>3 DEF Cancel, Expire, InFlight
    <3> QED
      BY <1>2, <3>1, <3>2, <3>3
  <2> QED
    BY <2>1, <2>2
<1>3. ASSUME RunStart \/ Shutdown \/ UNCHANGED appVars
      PROVE  UNCHANGED stage
  BY <1>3 DEF RunStart, Shutdown, appVars
<1> QED
  BY <1>1, <1>2, <1>3 DEF AppStep

\* The server starts with empty books and one reaper.
LEMMA AppInitial == AppInit => AppInv
<1> SUFFICES ASSUME AppInit
             PROVE  AppInv
  OBVIOUS
<1>1. 0 \in Gens
  BY FiguresNat DEF Gens
<1>2. AppTypeOK /\ OneReaper
  BY <1>1, FiguresNat DEF AppInit, AppTypeOK, OneReaper, InFlight
<1>3. \A r \in Req : Tied(r)
  BY DEF AppInit, Tied
<1>4. \A g \in Gens : Costly(g) = {} /\ Sitting(g) = {} /\ HeldBy(g) = {}
  BY DEF AppInit, Costly, HeldBy, Sitting, InSlot
<1>5. MoneyMatches /\ SlotsMatch /\ WithinBudget /\ LatencyBooks
  BY <1>4, FS_EmptySet, FiguresNat DEF AppInit, MoneyMatches, SlotsMatch, WithinBudget,
                                       LatencyBooks, LatencyMatches
<1> QED
  BY <1>2, <1>3, <1>5 DEF AppInv

-----------------------------------------------------------------------------
\* The load generator beside it

\* The load generator and the other clients only take the server's steps.
LEMMA NextIsAppStep == [Next]_vars => AppStep
<1>1. UNCHANGED vars => AppStep
  BY DEF vars, AppStep
<1>2. Client => AppStep
  BY DEF Client, Health, PostRunStart, PostRunStartNoEffect, DeleteTrace, GetSummary,
         GetSummaryFails, Gather, Judge, PostRunComplete, CallFails, AppStep
<1>3. ASSUME NEW r \in Burst, Send(r) \/ GiveUp(r)
      PROVE  AppStep
  BY <1>3, LoadGeneratorAssumption DEF Send, GiveUp, AppStep
<1>4. Server => AppStep
  BY DEF Server, AppStep
<1> QED
  BY <1>1, <1>2, <1>3, <1>4 DEF Next

\* Every step keeps the invariant.
LEMMA LoadNext == LoadInv /\ [Next]_vars => LoadInv'
<1> SUFFICES ASSUME LoadInv, [Next]_vars
             PROVE  LoadInv'
  OBVIOUS
<1>1. AppInv' /\ \A q \in Req : stage[q] = "done" => stage'[q] = "done"
  BY NextIsAppStep, AppNext DEF LoadInv
<1>2. AppTypeOK'
  BY <1>1 DEF AppInv
<1>3. TypeOK /\ Burst \subseteq Req
  BY LoadGeneratorAssumption DEF LoadInv
<1>4. ASSUME UNCHANGED clientVars
      PROVE  LoadInv'
  BY <1>1, <1>2, <1>3, <1>4 DEF LoadInv, TypeOK, clientVars
<1>5. CASE Client
  <2>1. /\ lost' = lost /\ step' \in Steps /\ verdict' \in {"none", "PASS", "FAIL"}
        /\ limits' \in {DefaultLimits, ServerLimits}
    BY <1>3, <1>5 DEF Client, Health, PostRunStart, PostRunStartNoEffect, DeleteTrace, GetSummary,
                      GetSummaryFails, Gather, Judge, PostRunComplete, CallFails, GoOn, Steps, TypeOK
  <2>2. step' = "metrics" => Gather
    BY <1>5 DEF Client, Health, PostRunStart, PostRunStartNoEffect, DeleteTrace, GetSummary,
                GetSummaryFails, Judge, PostRunComplete, CallFails, GoOn
  <2>3. step' = "metrics" => \A r \in Burst : stage[r] = "done" \/ r \in lost
    BY <2>2 DEF Gather, Answered
  <2> QED
    BY <1>1, <1>2, <1>3, <2>1, <2>3 DEF LoadInv, TypeOK
<1>6. ASSUME NEW r \in Burst, Send(r) \/ GiveUp(r)
      PROVE  LoadInv'
  <2>1. CASE Send(r)
    BY <1>4, <2>1 DEF Send
  <2>2. CASE GiveUp(r)
    BY <1>1, <1>2, <1>3, <2>2 DEF GiveUp, LoadInv, TypeOK
  <2> QED
    BY <1>6, <2>1, <2>2
<1>7. CASE Server
  BY <1>4, <1>7 DEF Server
<1> QED
  BY <1>4, <1>5, <1>6, <1>7 DEF Next, vars

\* The invariant holds throughout; fairness is not needed.
LEMMA LoadCorrect == Spec => []LoadInv
<1>1. Init => LoadInv
  BY AppInitial DEF Init, LoadInv, TypeOK, Steps, AppInv
<1> QED
  BY <1>1, LoadNext, PTL DEF Spec

-----------------------------------------------------------------------------
\* What it gives

\* Type correctness of the server's managers and of the load generator.
THEOREM LoadTypes == Spec => []TypeOK
<1>1. LoadInv => TypeOK
  BY DEF LoadInv
<1> QED
  BY <1>1, LoadCorrect, PTL

\* However often run_start replaces the managers while requests are in flight,
\* each generation's money, latency and slots are those of its own requests,
\* within its budget, its latency cap and its capacity.
THEOREM ResetIsolates == Spec => []GenerationsIsolated
<1>1. LoadInv => GenerationsIsolated
  BY FiguresNat DEF LoadInv, AppInv, AppTypeOK, MoneyMatches, SlotsMatch, WithinBudget,
                    LatencyBooks, LatencyMatches, Costly, Sitting, GenerationsIsolated
<1> QED
  BY <1>1, LoadCorrect, PTL

\* run_start neither leaves the old manager's reaper running nor the new one
\* without, and shutdown leaves at most the current one.
THEOREM ReaperUnique == Spec => []OneReaper
<1>1. LoadInv => OneReaper
  BY DEF LoadInv, AppInv
<1> QED
  BY <1>1, LoadCorrect, PTL

\* The step that gives a verdict is the one that read /metrics.
LEMMA OnlyJudge ==
  ASSUME LoadInv, [Next]_vars, verdict' # verdict, verdict' \in {"PASS", "FAIL"}
  PROVE  step = "metrics" /\ (verdict' = "PASS" <=> Passed(Metrics))
<1>1. Judge
  BY DEF Next, Client, Health, PostRunStart, PostRunStartNoEffect, DeleteTrace, GetSummary,
         GetSummaryFails, Gather, PostRunComplete, CallFails, Send, GiveUp, Server, vars, clientVars
<1> QED
  BY <1>1 DEF Judge, GoOn

\* evaluate_verdict of load_generator.py says PASS only when no request of the
\* managers it looked at still holds a reservation or a slot.
THEOREM PassIsHonest == Spec => HonestVerdict
<1>1. ASSUME LoadInv, [Next]_vars, verdict' # verdict, verdict' = "PASS", NEW r \in Req,
             home[r] = gen
      PROVE  res[r] # "held" /\ stage[r] \notin InSlot
  <2>1. Passed(Metrics) /\ gen \in Gens
    BY <1>1, OnlyJudge DEF LoadInv, AppInv, AppTypeOK
  <2>2. Cardinality(HeldBy(gen)) = 0 /\ slots[gen] = 0
    BY <2>1 DEF Passed, Metrics
  <2>3. Cardinality(Sitting(gen)) = 0
    BY <1>1, <2>1, <2>2 DEF LoadInv, AppInv, SlotsMatch
  <2>4. HeldBy(gen) = {} /\ Sitting(gen) = {}
    BY <2>2, <2>3, Counted, FS_EmptySet
  <2> QED
    BY <1>1, <2>4 DEF HeldBy, Sitting
<1>2. LoadInv /\ [Next]_vars =>
        (verdict' # verdict /\ verdict' = "PASS" =>
           \A r \in Req : home[r] = gen => res[r] # "held" /\ stage[r] \notin InSlot)
  BY <1>1
<1> QED
  BY <1>2, LoadCorrect, PTL DEF Spec, HonestVerdict

\* It says FAIL only when some request was cancelled while it held a
\* reservation, given up by its client, or sent by another client and in flight;
\* or when the run is judged by the hard-coded limits because GET /summary failed.
THEOREM FailIsNoFalseAlarm == Spec => NoFalseAlarm
<1> DEFINE Cause == \E r \in Req :
                       /\ home[r] = gen
                       /\ \/ stage[r] = "cancelled" /\ res[r] = "held"
                          \/ stage[r] \in InFlight /\ (r \in lost \/ r \notin Burst)
<1>1. ASSUME LoadInv, [Next]_vars, verdict' # verdict, verdict' = "FAIL", ~JudgedByDefaults
      PROVE  Cause
  <2>1. /\ ~Passed(Metrics) /\ step = "metrics" /\ AppInv /\ gen \in Gens
        /\ limits \in {DefaultLimits, ServerLimits}
    BY <1>1, OnlyJudge DEF LoadInv, AppInv, AppTypeOK, TypeOK
  <2>2. /\ spent[gen] \in Nat /\ reserved[gen] \in Nat /\ MAX_REMOTE_BUDGET \in Nat
        /\ spent[gen] + reserved[gen] <= MAX_REMOTE_BUDGET
        /\ usedLat[gen] \in Nat /\ usedLat[gen] <= MAX_CUMULATIVE_LATENCY_MS
    BY <2>1, FiguresNat DEF AppInv, AppTypeOK, WithinBudget, LatencyBooks
  <2>3. spent[gen] <= MAX_REMOTE_BUDGET
    BY <2>2
  <2>4. spent[gen] <= limits.budget /\ usedLat[gen] <= limits.latency
    <3>1. CASE limits = ServerLimits
      BY <2>2, <2>3, <3>1 DEF ServerLimits
    <3>2. CASE limits = DefaultLimits
      <4>1. limits.budget \in Nat /\ limits.latency \in Nat
        BY <3>2, LoadGeneratorAssumption DEF DefaultLimits
      <4>2. ~(limits.budget < spent[gen]) /\ ~(limits.latency < usedLat[gen])
        BY <1>1, <2>2, <2>3, <3>2 DEF JudgedByDefaults
      <4> QED
        BY <2>2, <4>1, <4>2
    <3> QED
      BY <2>1, <3>1, <3>2
  <2>5. \/ reserved[gen] # 0 \/ Cardinality(HeldBy(gen)) # 0 \/ slots[gen] # 0
        \/ reservedLat[gen] # 0
    BY <2>1, <2>4 DEF Passed, Metrics
  <2>6. Costly(gen) # {} \/ HeldBy(gen) # {} \/ Sitting(gen) # {}
    <3>1. /\ reserved[gen] = COST_PER_REMOTE_REQUEST * Cardinality(Costly(gen))
          /\ reservedLat[gen] = PROJECTED_LATENCY * Cardinality(HeldBy(gen))
          /\ slots[gen] = Cardinality(Sitting(gen))
      BY <2>1 DEF AppInv, MoneyMatches, SlotsMatch, LatencyBooks, LatencyMatches
    <3>2. Cardinality({}) = 0
      BY FS_EmptySet
    <3>3. COST_PER_REMOTE_REQUEST * 0 = 0 /\ PROJECTED_LATENCY * 0 = 0
      BY FiguresNat
    <3> QED
      BY <2>5, <3>1, <3>2, <3>3
  <2>7. PICK r \in Req : home[r] = gen /\ (res[r] = "held" \/ stage[r] \in InSlot)
    BY <2>6 DEF Costly, HeldBy, Sitting
  <2>8. Tied(r) /\ (r \in Burst => stage[r] = "done" \/ r \in lost)
    BY <1>1, <2>1 DEF LoadInv, AppInv
  <2>9. (stage[r] = "cancelled" /\ res[r] = "held") \/ stage[r] \in InFlight
    BY <2>7, <2>8 DEF Tied, InSlot, InFlight
  <2> QED
    BY <2>7, <2>8, <2>9 DEF InFlight
<1>2. LoadInv /\ [Next]_vars => (verdict' # verdict /\ verdict' = "FAIL" => JudgedByDefaults \/ Cause)
  BY <1>1
<1> QED
  BY <1>2, LoadCorrect, PTL DEF Spec, NoFalseAlarm
=============================================================================
