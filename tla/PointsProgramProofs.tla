--------------------------- MODULE PointsProgramProofs ---------------------------
(***************************************************************************)
(* What a quote earns and what a share pays, for every scale, setting,     *)
(* price and set of users, without the bounds of the exploration.          *)
(***************************************************************************)
EXTENDS PointsProgram, OperatorFacts, TLAPS

Gap(price, ref) == IF price > ref THEN price - ref ELSE ref - price

--------------------------------------------------------------------------------
(* The multiplier.                                                         *)

Spread(price, ref) == (Gap(price, ref) * WEIGHT_SCALE) \div ref

Bonus(p) == p.maxMakerMult - WEIGHT_SCALE

LEMMA SpreadMonotone ==
    ASSUME NEW near \in Nat, NEW far \in Nat, NEW ref \in Nat \ {0},
           Gap(near, ref) <= Gap(far, ref)
    PROVE  /\ Spread(near, ref) \in Nat /\ Spread(far, ref) \in Nat
           /\ Spread(near, ref) <= Spread(far, ref)
<1>1. Gap(near, ref) \in Nat /\ Gap(far, ref) \in Nat /\ WEIGHT_SCALE \in Nat
    BY Scale DEF Gap
<1>2. /\ Gap(near, ref) * WEIGHT_SCALE \in Nat
      /\ Gap(far, ref) * WEIGHT_SCALE \in Nat
      /\ Gap(near, ref) * WEIGHT_SCALE <= Gap(far, ref) * WEIGHT_SCALE
    BY <1>1, TimesMonotone
<1>3. Spread(far, ref) \in Nat
    BY <1>2, DivMonotone DEF Spread
<1>4. Spread(near, ref) \in Nat /\ Spread(near, ref) <= Spread(far, ref)
    BY <1>2, DivMonotone DEF Spread
<1> QED
    BY <1>3, <1>4

\* The multiplier between the flat rate and the cap, never rising with the gap
\* (PointsHook._makerMultiplier: its subtraction cannot underflow).
LEMMA MultiplierOrdered ==
    ASSUME NEW p \in Params, NEW near \in Nat, NEW far \in Nat, NEW ref \in Nat,
           Gap(near, ref) <= Gap(far, ref)
    PROVE  /\ makerMultiplier(p, near, ref) \in Nat
           /\ makerMultiplier(p, near, ref) >= WEIGHT_SCALE
           /\ makerMultiplier(p, near, ref) >= makerMultiplier(p, far, ref)
<1> DEFINE plain == \/ p.maxMakerMult <= WEIGHT_SCALE \/ p.maxSpread = 0 \/ ref = 0
           Taper(s) == p.maxMakerMult - (Bonus(p) * s) \div p.maxSpread
           Rate(price) == makerMultiplier(p, price, ref)
<1>1. p.maxMakerMult \in Nat /\ p.maxSpread \in Nat /\ WEIGHT_SCALE \in Nat \ {0}
    BY Scale DEF Params
<1>2. CASE plain
    <2>1. Rate(near) = WEIGHT_SCALE /\ Rate(far) = WEIGHT_SCALE
        BY <1>2 DEF makerMultiplier
    <2> QED
        BY <1>1, <2>1
<1>3. CASE ~plain
    <2>1. /\ ref \in Nat \ {0} /\ p.maxSpread \in Nat \ {0} /\ Bonus(p) \in Nat
          /\ p.maxMakerMult = Bonus(p) + WEIGHT_SCALE
        BY <1>1, <1>3 DEF Bonus
    <2>2. /\ Spread(near, ref) \in Nat /\ Spread(far, ref) \in Nat
          /\ Spread(near, ref) <= Spread(far, ref)
        BY <2>1, SpreadMonotone
    <2>3. ASSUME NEW price \in Nat
          PROVE  Rate(price) = IF Spread(price, ref) >= p.maxSpread
                               THEN WEIGHT_SCALE ELSE Taper(Spread(price, ref))
        BY <1>3 DEF makerMultiplier, Spread, Gap, Bonus
    <2>4. ASSUME NEW s \in Nat, s <= p.maxSpread
          PROVE  Taper(s) \in Nat /\ Taper(s) >= WEIGHT_SCALE
        <3>1. (Bonus(p) * s) \div p.maxSpread \in Nat
              /\ (Bonus(p) * s) \div p.maxSpread <= Bonus(p)
            BY <2>1, <2>4, ShareAtMostAll
        <3> QED
            BY <1>1, <2>1, <3>1
    <2>5. ASSUME NEW s \in Nat, NEW t \in Nat, s <= t
          PROVE  Taper(s) >= Taper(t)
        <3>1. /\ Bonus(p) * s <= Bonus(p) * t
              /\ s * Bonus(p) \in Nat /\ t * Bonus(p) \in Nat
            BY <2>1, <2>5, TimesMonotone
        <3>2. Bonus(p) * s = s * Bonus(p) /\ Bonus(p) * t = t * Bonus(p)
            BY <2>1, Z3
        <3>3. /\ (Bonus(p) * s) \div p.maxSpread \in Nat
              /\ (Bonus(p) * s) \div p.maxSpread <= (Bonus(p) * t) \div p.maxSpread
            BY <2>1, <3>1, <3>2, DivMonotone
        <3>4. (Bonus(p) * t) \div p.maxSpread \in Nat
            BY <2>1, <3>1, <3>2, DivMonotone
        <3> QED
            BY <1>1, <3>3, <3>4
    <2> HIDE DEF Taper, Rate
    <2>6. CASE Spread(near, ref) >= p.maxSpread
        <3>1. Rate(near) = WEIGHT_SCALE /\ Rate(far) = WEIGHT_SCALE
            BY <1>1, <2>2, <2>3, <2>6
        <3> QED
            BY <1>1, <3>1 DEF Rate
    <2>7. CASE Spread(near, ref) < p.maxSpread
        <3>1. Rate(near) = Taper(Spread(near, ref))
            BY <1>1, <2>2, <2>3, <2>7
        <3>2. Rate(near) \in Nat /\ Rate(near) >= WEIGHT_SCALE
            BY <1>1, <2>2, <2>4, <2>7, <3>1
        <3>3. CASE Spread(far, ref) >= p.maxSpread
            BY <2>3, <3>2, <3>3 DEF Rate
        <3>4. CASE Spread(far, ref) < p.maxSpread
            <4>1. Rate(far) = Taper(Spread(far, ref))
                BY <1>1, <2>2, <2>3, <3>4
            <4> QED
                BY <2>2, <2>5, <3>1, <3>2, <4>1 DEF Rate
        <3> QED
            BY <1>1, <2>2, <3>3, <3>4
    <2> QED
        BY <1>1, <2>2, <2>6, <2>7
<1> QED
    BY <1>2, <1>3
--------------------------------------------------------------------------------
(* The invariant.                                                          *)

Typed ==
    /\ balances \in [User -> Nat]
    /\ totalEarned \in [User -> Nat]
    /\ redeemedPoints \in [User -> Nat]
    /\ govReceived \in [User -> Nat]
    /\ totalSupply \in Int
    /\ finalized \in BOOLEAN
    /\ enabled \in BOOLEAN
    /\ params \in Params
    /\ govPool \in Nat
    /\ enabled => finalized /\ totalPointsSnapshot \in Nat \ {0}

\* A user has not redeemed at all, or has redeemed everything it ever earned.
Row(u) ==
    /\ totalEarned[u] = balances[u] + redeemedPoints[u]
    /\ redeemedPoints[u] = 0 => govReceived[u] = 0
    /\ redeemedPoints[u] > 0 =>
          /\ enabled
          /\ balances[u] = 0
          /\ govReceived[u] = (govPool * totalEarned[u]) \div totalPointsSnapshot

PointsInv == Typed /\ \A u \in User : Row(u)

--------------------------------------------------------------------------------
(* What each call does to it.                                              *)

LEMMA EarningsNat ==
    ASSUME Typed, NEW notional \in Notional, NEW makerFee \in {-1, 0, 1},
           NEW takerFee \in {0, 1}, NEW makerPrice \in Quote, NEW refPrice \in Quote
    PROVE  /\ takerPoints(notional, takerFee) \in Nat
           /\ makerPoints(notional, makerFee, makerPrice, refPrice) \in Nat
           /\ params.keeperPoints \in Nat
<1> DEFINE mult == makerMultiplier(params, makerPrice, refPrice)
<1>1. /\ params \in Params /\ params.wTaker \in Nat /\ params.wMaker \in Nat
      /\ params.keeperPoints \in Nat /\ WEIGHT_SCALE \in Nat \ {0}
    BY Scale DEF Typed, Params
<1>2. notional \in Nat /\ makerPrice \in Nat /\ refPrice \in Nat
    BY Reported
<1>3. mult \in Nat
    <2>1. Gap(makerPrice, refPrice) <= Gap(makerPrice, refPrice)
        BY <1>2 DEF Gap
    <2> QED
        BY <1>1, <1>2, <2>1, MultiplierOrdered
<1> HIDE DEF mult
<1>4. (notional * params.wTaker) \div WEIGHT_SCALE \in Nat
    <2>1. notional * params.wTaker \in Nat
        BY <1>1, <1>2, TimesMonotone
    <2> QED
        BY <1>1, <2>1, DivMonotone
<1>5. (notional * params.wMaker * mult) \div (WEIGHT_SCALE * WEIGHT_SCALE) \in Nat
    <2>1. notional * params.wMaker \in Nat
        BY <1>1, <1>2, TimesMonotone
    <2>2. notional * params.wMaker * mult \in Nat
        BY <1>3, <2>1, TimesMonotone
    <2>3. WEIGHT_SCALE * WEIGHT_SCALE \in Nat \ {0}
        BY <1>1, Z3
    <2> QED
        BY <2>2, <2>3, DivMonotone
<1>6. takerPoints(notional, takerFee) \in Nat
    BY <1>4 DEF takerPoints
<1>7. makerPoints(notional, makerFee, makerPrice, refPrice) \in Nat
    BY <1>5 DEF makerPoints, mult
<1> QED
    BY <1>1, <1>6, <1>7

\* Minting moves what a user earned and what it holds together, and only before
\* anybody can redeem.
LEMMA MintsKeep ==
    ASSUME PointsInv, NEW u \in User, NEW a \in Nat, NEW v \in User, NEW b \in Nat,
           mints(u, a, v, b),
           UNCHANGED <<finalized, params, redeemer, redeemedPoints, govReceived>>
    PROVE  PointsInv'
<1>1. /\ balances \in [User -> Nat] /\ totalEarned \in [User -> Nat]
      /\ totalSupply \in Int /\ (enabled => finalized)
      /\ redeemedPoints \in [User -> Nat] /\ finalized \in BOOLEAN
    BY DEF PointsInv, Typed
<1>2. /\ balances' = [[balances EXCEPT ![u] = @ + a] EXCEPT ![v] = @ + b]
      /\ totalEarned' = [[totalEarned EXCEPT ![u] = @ + a] EXCEPT ![v] = @ + b]
      /\ totalSupply' = totalSupply + a + b
      /\ a > 0 \/ b > 0 => ~finalized
    BY DEF mints, Earned, Added
<1>3. /\ balances' \in [User -> Nat] /\ totalEarned' \in [User -> Nat]
      /\ totalSupply' \in Int
    BY <1>1, <1>2
<1>4. Typed'
    BY <1>3 DEF PointsInv, Typed, redeemer
<1>5. ASSUME NEW w \in User
      PROVE  Row(w)'
    <2>1. Row(w)
        BY DEF PointsInv
    <2>2. /\ balances[w] \in Nat /\ totalEarned[w] \in Nat /\ redeemedPoints[w] \in Nat
        BY <1>1
    <2>3. CASE a = 0 /\ b = 0
        <3>1. balances' = balances /\ totalEarned' = totalEarned
            BY <1>1, <1>2, <2>3
        <3> QED
            BY <2>1, <3>1 DEF Row, redeemer
    <2>4. CASE a > 0 \/ b > 0
        <3>1. redeemedPoints[w] = 0
            BY <1>1, <1>2, <2>1, <2>2, <2>4 DEF Row
        <3>2. totalEarned'[w] = balances'[w] + redeemedPoints[w]
            <4>1. totalEarned[w] = balances[w]
                BY <2>1, <2>2, <3>1 DEF Row
            <4>2. totalEarned'[w] = balances'[w]
                BY <1>1, <1>2, <4>1
            <4> QED
                BY <1>3, <3>1, <4>2
        <3> QED
            BY <2>1, <3>1, <3>2 DEF Row, redeemer
    <2> QED
        BY <2>3, <2>4
<1> QED
    BY <1>4, <1>5 DEF PointsInv

LEMMA SwapKeeps ==
    ASSUME PointsInv, NEW u \in User, swap(u)
    PROVE  PointsInv'
<1> DEFINE share == (govPool * balances[u]) \div totalPointsSnapshot
<1>1. /\ balances \in [User -> Nat] /\ totalEarned \in [User -> Nat]
      /\ redeemedPoints \in [User -> Nat] /\ govReceived \in [User -> Nat]
      /\ totalSupply \in Int /\ govPool \in Nat /\ enabled
      /\ totalPointsSnapshot \in Nat \ {0}
      /\ balances[u] \in Nat \ {0}
    BY DEF PointsInv, Typed, swap
<1>2. /\ balances' = [balances EXCEPT ![u] = 0]
      /\ totalSupply' = totalSupply - balances[u]
      /\ redeemedPoints' = [redeemedPoints EXCEPT ![u] = @ + balances[u]]
      /\ govReceived' = [govReceived EXCEPT ![u] = @ + share]
      /\ UNCHANGED <<finalized, params, enabled, govPool, totalPointsSnapshot, totalEarned>>
    BY DEF swap, redeemer
<1>3. share \in Nat
    <2>1. govPool * balances[u] \in Nat
        BY <1>1, TimesMonotone
    <2> QED
        BY <1>1, <2>1, DivMonotone
<1>4. Row(u)
    BY DEF PointsInv
<1>5. redeemedPoints[u] = 0 /\ govReceived[u] = 0 /\ totalEarned[u] = balances[u]
    BY <1>1, <1>4 DEF Row
<1>6. /\ balances' \in [User -> Nat] /\ redeemedPoints' \in [User -> Nat]
      /\ govReceived' \in [User -> Nat] /\ totalSupply' \in Int
    <2> HIDE DEF share
    <2> QED
        BY <1>1, <1>2, <1>3
<1>7. Typed'
    BY <1>2, <1>6 DEF PointsInv, Typed
<1>8. Row(u)'
    <2>1. /\ balances'[u] = 0 /\ redeemedPoints'[u] = balances[u]
          /\ govReceived'[u] = share
        <3> HIDE DEF share
        <3> QED
            BY <1>1, <1>2, <1>3, <1>5
    <2> QED
        BY <1>1, <1>2, <1>5, <2>1 DEF Row
<1>9. ASSUME NEW w \in User \ {u}
      PROVE  Row(w)'
    <2>1. /\ balances'[w] = balances[w] /\ redeemedPoints'[w] = redeemedPoints[w]
          /\ govReceived'[w] = govReceived[w]
        BY <1>1, <1>2
    <2>2. Row(w)
        BY DEF PointsInv
    <2> QED
        BY <1>2, <2>1, <2>2 DEF Row
<1> QED
    BY <1>7, <1>8, <1>9 DEF PointsInv

--------------------------------------------------------------------------------
(* Theorems.                                                               *)

\* Every row of the programme is untouched by redemption or paid in full.
THEOREM InductiveInvariant == Spec => []PointsInv
<1>1. Init => PointsInv
    <2> SUFFICES ASSUME Init
                 PROVE  PointsInv
        OBVIOUS
    <2>1. /\ finalized \in BOOLEAN /\ enabled \in BOOLEAN /\ ~enabled
        BY Zenon DEF Init
    <2>4. params \in Params /\ totalSupply \in Int /\ govPool \in Nat
        <3>1. /\ params \in [wMaker : Weight, wTaker : Weight, keeperPoints : Reward,
                             minFee : {0}, maxMakerMult : {0}, maxSpread : {0}]
              /\ totalSupply = 0 /\ govPool = 0
            BY Zenon DEF Init
        <3>2. Weight \subseteq Nat /\ Reward \subseteq Nat /\ {0} \subseteq Nat
            BY Settings
        <3>3. params \in Params
            BY <3>1, <3>2, Zenon DEF Params
        <3> QED
            BY <3>1, <3>3
    <2>3. /\ balances \in [User -> Nat] /\ totalEarned \in [User -> Nat]
          /\ redeemedPoints \in [User -> Nat] /\ govReceived \in [User -> Nat]
        BY DEF Init, Nothing
    <2>2. ASSUME NEW u \in User
          PROVE  Row(u)
        <3>1. /\ balances[u] = 0 /\ totalEarned[u] = 0
              /\ redeemedPoints[u] = 0 /\ govReceived[u] = 0
            BY DEF Init, Nothing
        <3> QED
            BY <3>1 DEF Row
    <2> QED
        BY <2>1, <2>2, <2>3, <2>4 DEF PointsInv, Typed
<1>2. PointsInv /\ [Next]_vars => PointsInv'
    <2> SUFFICES ASSUME PointsInv, [Next]_vars
                 PROVE  PointsInv'
        OBVIOUS
    <2>1. CASE Fill
        <3>1. PICK maker \in User, taker \in User, notional \in Notional,
                   makerFee \in {-1, 0, 1}, takerFee \in {0, 1},
                   makerPrice \in Quote \ {0}, refPrice \in Quote :
                onFill(maker, taker, notional, makerFee, takerFee, makerPrice,
                       refPrice)
            BY <2>1 DEF Fill
        <3>2. /\ takerPoints(notional, takerFee) \in Nat
              /\ makerPoints(notional, makerFee, makerPrice, refPrice) \in Nat
            BY EarningsNat DEF PointsInv
        <3>3. /\ mints(taker, takerPoints(notional, takerFee), maker,
                       makerPoints(notional, makerFee, makerPrice, refPrice))
              /\ UNCHANGED <<finalized, params, redeemer, redeemedPoints, govReceived>>
            BY <3>1 DEF onFill
        <3> QED
            BY <3>2, <3>3, MintsKeep
    <2>2. ASSUME NEW u \in User, onLiquidation(u)
          PROVE  PointsInv'
        <3>1. params.keeperPoints \in Nat
            BY DEF PointsInv, Typed, Params
        <3>2. /\ mints(u, params.keeperPoints, u, 0)
              /\ UNCHANGED <<finalized, params, redeemer, redeemedPoints, govReceived>>
            BY <2>2 DEF onLiquidation
        <3> QED
            BY <3>1, <3>2, MintsKeep
    <2>3. ASSUME NEW u \in User, swap(u)
          PROVE  PointsInv'
        BY <2>3, SwapKeeps
    <2>4. CASE Tune
        <3>1. params' \in Params /\ UNCHANGED <<points, redeemer, gov, rows>>
            BY <2>4, Settings DEF Tune, setWeights, setKeeperPoints, setMinFee,
                setPriceImprovement, PointsInv, Typed, Params
        <3> QED
            BY <3>1 DEF PointsInv, Typed, Row, points, redeemer, rows
    <2>5. CASE finalize
        BY <2>5 DEF finalize, PointsInv, Typed, Row, redeemer, rows
    <2>6. ASSUME NEW amount \in 1 .. MaxGov, Fund(amount) \/ recoverGov(amount)
          PROVE  PointsInv'
        BY <2>6 DEF Fund, recoverGov, PointsInv, Typed, Row, points, redeemer, rows
    <2>7. ASSUME NEW amount \in 1 .. MaxGov, enableRedemption(amount)
          PROVE  PointsInv'
        <3>1. /\ ~enabled /\ enabled' /\ finalized /\ govPool' = amount
              /\ totalPointsSnapshot' = totalSupply /\ totalSupply > 0
              /\ UNCHANGED <<points, params, rows>>
            BY <2>7 DEF enableRedemption
        <3>2. enabled' \in BOOLEAN /\ amount \in Nat
            BY <2>7 DEF enableRedemption
        <3>3. Typed'
            BY <3>1, <3>2 DEF PointsInv, Typed, points, rows
        <3>4. ASSUME NEW w \in User
              PROVE  Row(w)'
            <4>1. Row(w) /\ redeemedPoints[w] \in Nat
                BY DEF PointsInv, Typed
            <4>2. redeemedPoints[w] = 0
                BY <3>1, <4>1 DEF Row
            <4> QED
                BY <3>1, <4>1, <4>2 DEF Row, points, rows
        <3> QED
            BY <3>3, <3>4 DEF PointsInv
    <2>8. CASE UNCHANGED vars
        BY <2>8 DEF vars, points, redeemer, rows, PointsInv, Typed, Row
    <2> QED
        BY <2>1, <2>2, <2>3, <2>4, <2>5, <2>6, <2>7, <2>8 DEF Next, Recover
<1> QED
    BY <1>1, <1>2, PTL DEF Spec

\* Whatever the order of the swaps, a user is paid its share of everything it
\* ever earned, and only once.
THEOREM SharesArePaidOnce == Spec => []ShareIsPaidOnce
<1>1. PointsInv => ShareIsPaidOnce
    BY DEF PointsInv, Row, ShareIsPaidOnce
<1> QED
    BY <1>1, InductiveInvariant, PTL

\* At any setting a nearer quote earns no less than a farther one.
THEOREM NearerEarnsMore == Spec => []TighterEarnsMore
<1>1. PointsInv => TighterEarnsMore
    <2> SUFFICES ASSUME PointsInv, NEW ref \in Quote,
                        NEW near \in Quote \ {0}, NEW far \in Quote \ {0}
                 PROVE  /\ makerMultiplier(params, near, ref) >= WEIGHT_SCALE
                        /\ Gap(near, ref) <= Gap(far, ref) =>
                              makerMultiplier(params, near, ref)
                                 >= makerMultiplier(params, far, ref)
        BY DEF TighterEarnsMore, Gap
    <2>1. params \in Params /\ ref \in Nat /\ near \in Nat /\ far \in Nat
        BY Reported DEF PointsInv, Typed
    <2>2. Gap(near, ref) <= Gap(near, ref)
        BY <2>1 DEF Gap
    <2> QED
        BY <2>1, <2>2, MultiplierOrdered
<1> QED
    BY <1>1, InductiveInvariant, PTL

--------------------------------------------------------------------------------
(* The pool.                                                               *)

\* What the redeemer holds, and the supply its snapshot will be of.
Ledger ==
    /\ gov \in Nat
    /\ totalSupply = SumFunction(balances)

Moved(after, before, u, d) == after = [before EXCEPT ![u] = before[u] + d]

LEMMA BalanceMoves ==
    ASSUME NEW before \in [User -> Int], NEW u \in User, NEW d \in Int, NEW after,
           Moved(after, before, u, d)
    PROVE  /\ after \in [User -> Int]
           /\ SumFunction(after) = SumFunction(before) + d
           /\ SumFunction(before) \in Int
<1>1. SumFunction([before EXCEPT ![u] = before[u] + d]) = SumFunction(before) + d
    BY Users, SumAfterChange
<1> QED
    BY <1>1, Users, SumOfFunction DEF Moved

LEMMA MintsKeepLedger ==
    ASSUME Typed, Ledger, NEW u \in User, NEW a \in Nat, NEW v \in User, NEW b \in Nat,
           mints(u, a, v, b), gov' = gov
    PROVE  Ledger'
<1> DEFINE first == [balances EXCEPT ![u] = balances[u] + a]
<1>1. balances \in [User -> Nat] /\ balances \in [User -> Int] /\ first \in [User -> Int]
    BY DEF Typed
<1>2. Moved(first, balances, u, a)
    BY DEF Moved
<1>3. Moved(balances', first, v, b)
    BY DEF Moved, mints, Earned, Added
<1> HIDE DEF first
<1>4. /\ SumFunction(first) = SumFunction(balances) + a
      /\ SumFunction(balances') = SumFunction(first) + b
      /\ SumFunction(balances) \in Int
    BY <1>1, <1>2, <1>3, BalanceMoves
<1>5. totalSupply' = totalSupply + a + b
    BY DEF mints
<1> QED
    BY <1>4, <1>5 DEF Ledger

LEMMA SwapKeepsLedger ==
    ASSUME Typed, Ledger, NEW u \in User, swap(u)
    PROVE  Ledger'
<1> DEFINE share == (govPool * balances[u]) \div totalPointsSnapshot
<1>1. /\ balances \in [User -> Int] /\ balances[u] \in Nat /\ govPool \in Nat
      /\ totalPointsSnapshot \in Nat \ {0}
    BY DEF Typed, swap
<1>2. gov >= share /\ gov' = gov - share /\ totalSupply' = totalSupply - balances[u]
    BY DEF swap
<1>3. share \in Nat
    <2>1. govPool * balances[u] \in Nat
        BY <1>1, TimesMonotone
    <2> QED
        BY <1>1, <2>1, DivMonotone
<1>4. Moved(balances', balances, u, 0 - balances[u])
    <2>1. balances' = [balances EXCEPT ![u] = 0]
        BY DEF swap
    <2>2. balances[u] + (0 - balances[u]) = 0
        BY <1>1
    <2> QED
        BY <2>1, <2>2 DEF Moved
<1> HIDE DEF share
<1>5. /\ SumFunction(balances') = SumFunction(balances) + (0 - balances[u])
      /\ SumFunction(balances) \in Int
    BY <1>1, <1>4, BalanceMoves
<1>6. gov' \in Nat
    BY <1>2, <1>3 DEF Ledger
<1> QED
    BY <1>1, <1>2, <1>5, <1>6 DEF Ledger

\* The supply is what the users hold (Points: mint, burn).
THEOREM SupplyIsHeld == Spec => []Ledger
<1>1. Init => Ledger
    BY Users, SumOfZeroFunction DEF Init, Nothing, Ledger
<1>2. PointsInv /\ Ledger /\ [Next]_vars => Ledger'
    <2> SUFFICES ASSUME PointsInv, Typed, Ledger, [Next]_vars
                 PROVE  Ledger'
        BY DEF PointsInv
    <2>1. CASE Fill
        <3>1. PICK maker \in User, taker \in User, notional \in Notional,
                   makerFee \in {-1, 0, 1}, takerFee \in {0, 1},
                   makerPrice \in Quote \ {0}, refPrice \in Quote :
                onFill(maker, taker, notional, makerFee, takerFee, makerPrice,
                       refPrice)
            BY <2>1 DEF Fill
        <3>2. /\ takerPoints(notional, takerFee) \in Nat
              /\ makerPoints(notional, makerFee, makerPrice, refPrice) \in Nat
            BY EarningsNat
        <3>3. /\ mints(taker, takerPoints(notional, takerFee), maker,
                       makerPoints(notional, makerFee, makerPrice, refPrice))
              /\ gov' = gov
            BY <3>1 DEF onFill
        <3> QED
            BY <3>2, <3>3, MintsKeepLedger
    <2>2. ASSUME NEW u \in User, onLiquidation(u)
          PROVE  Ledger'
        <3>1. params.keeperPoints \in Nat
            BY DEF Typed, Params
        <3>2. mints(u, params.keeperPoints, u, 0) /\ gov' = gov
            BY <2>2 DEF onLiquidation
        <3> QED
            BY <3>1, <3>2, MintsKeepLedger
    <2>3. ASSUME NEW u \in User, swap(u)
          PROVE  Ledger'
        BY <2>3, SwapKeepsLedger
    <2>4. CASE Tune
        BY <2>4 DEF Tune, setWeights, setKeeperPoints, setMinFee,
            setPriceImprovement, Ledger, points
    <2>5. CASE finalize
        BY <2>5 DEF finalize, Ledger
    <2>6. ASSUME NEW amount \in 1 .. MaxGov,
                 Fund(amount) \/ recoverGov(amount) \/ enableRedemption(amount)
          PROVE  Ledger'
        BY <2>6 DEF Fund, recoverGov, enableRedemption, Ledger, points
    <2>7. CASE UNCHANGED vars
        BY <2>7 DEF vars, points, Ledger
    <2> QED
        BY <2>1, <2>2, <2>3, <2>4, <2>5, <2>6, <2>7 DEF Next, Recover
<1> QED
    BY <1>1, <1>2, InductiveInvariant, PTL DEF Spec

--------------------------------------------------------------------------------
(* What is owed.                                                           *)

LEMMA OwedIsNat ==
    ASSUME Typed
    PROVE  /\ [u \in User |-> previewSwap(u)] \in [User -> Nat]
           /\ [u \in User |-> previewSwap(u)] \in [User -> Int]
           /\ Owed \in Nat
<1>1. ASSUME NEW u \in User
      PROVE  previewSwap(u) \in Nat
    <2>1. CASE enabled
        <3>1. /\ govPool \in Nat /\ balances[u] \in Nat
              /\ totalPointsSnapshot \in Nat \ {0}
            BY <2>1 DEF Typed
        <3>2. govPool * balances[u] \in Nat
            BY <3>1, TimesMonotone
        <3>3. (govPool * balances[u]) \div totalPointsSnapshot \in Nat
            BY <3>1, <3>2, DivMonotone
        <3> QED
            BY <2>1, <3>3 DEF previewSwap
    <2>2. CASE ~enabled
        BY <2>2 DEF previewSwap
    <2> QED
        BY <2>1, <2>2
<1>2. [u \in User |-> previewSwap(u)] \in [User -> Nat]
    BY <1>1
<1> QED
    BY <1>2, Users, SumOfNaturals DEF Owed

LEMMA OwedIsNatAfter == Typed' => (Owed \in Nat)'
<1>1. Typed => Owed \in Nat
    BY OwedIsNat
<1> QED
    BY <1>1, PTL

LEMMA NothingOwed == ~enabled => Owed = 0
<1>1. ~enabled => [u \in User |-> previewSwap(u)] = [u \in User |-> 0]
    BY DEF previewSwap
<1> QED
    BY <1>1, Users, SumOfZeroFunction DEF Owed

LEMMA NothingOwedAfter == (~enabled)' => (Owed = 0)'
    BY NothingOwed, PTL

LEMMA OwedUnmoved ==
    ASSUME balances' = balances, UNCHANGED redeemer
    PROVE  Owed' = Owed
    BY DEF Owed, previewSwap, redeemer

\* A swap takes its own share off what is owed, and no other.
LEMMA SwapPaysOwed ==
    ASSUME Typed, gov \in Nat, NEW u \in User, swap(u)
    PROVE  gov - gov' = Owed - Owed'
<1> DEFINE shares == [w \in User |-> previewSwap(w)]
           sharesAfter == [w \in User |-> previewSwap(w)']
<1>1. shares \in [User -> Int] /\ shares[u] \in Int
    BY OwedIsNat
<1>2. /\ enabled /\ UNCHANGED <<enabled, govPool, totalPointsSnapshot>>
      /\ balances' = [balances EXCEPT ![u] = 0] /\ balances \in [User -> Nat]
      /\ govPool \in Nat /\ totalPointsSnapshot \in Nat \ {0}
    BY DEF Typed, swap, redeemer
<1>3. sharesAfter[u] = 0
    <2>1. (govPool * 0) \div totalPointsSnapshot = 0
        BY <1>2, Z3
    <2> QED
        BY <1>2, <2>1 DEF previewSwap
<1>4. \A w \in User \ {u} : sharesAfter[w] = shares[w]
    BY <1>2 DEF previewSwap
<1> DEFINE paid == shares[u]
<1>5. gov' = gov - paid
    BY <1>2 DEF swap, previewSwap
<1>6. sharesAfter = [shares EXCEPT ![u] = shares[u] + (0 - paid)]
    <2>1. sharesAfter[u] = shares[u] + (0 - paid)
        BY <1>1, <1>3
    <2> QED
        BY <1>4, <2>1
<1>7. Owed = SumFunction(shares) /\ Owed' = SumFunction(sharesAfter)
    BY DEF Owed
<1>8. paid \in Int
    BY <1>1
<1> HIDE DEF shares, sharesAfter, paid
<1>9. Moved(sharesAfter, shares, u, 0 - paid)
    BY <1>6 DEF Moved
<1>10. SumFunction(sharesAfter) = SumFunction(shares) + (0 - paid)
       /\ SumFunction(shares) \in Int
    BY <1>1, <1>8, <1>9, BalanceMoves
<1> QED
    BY <1>5, <1>7, <1>8, <1>10

\* The pool covers the shares it was split into, whoever holds the points.
LEMMA PoolCoversShares ==
    ASSUME Typed, Ledger, NEW pool \in Nat, enableRedemption(pool)
    PROVE  Owed' <= gov'
<1> DEFINE shares == [u \in User |-> (pool * balances[u]) \div totalSupply]
<1>1. /\ balances \in [User -> Nat] /\ totalSupply \in Nat \ {0}
      /\ SumFunction(balances) = totalSupply
    BY DEF Typed, Ledger, enableRedemption
<1>2. SumFunction(shares) <= pool
    BY <1>1, Users, SharesFitPool
<1>3. Owed' = SumFunction(shares)
    BY DEF enableRedemption, points, Owed, previewSwap
<1>4. gov' = gov /\ gov >= pool
    BY DEF enableRedemption
<1>5. SumFunction(shares) \in Int
    <2>1. ASSUME NEW u \in User
          PROVE  (pool * balances[u]) \div totalSupply \in Int
        <3>1. pool * balances[u] \in Nat
            BY <1>1, TimesMonotone
        <3> QED
            BY <1>1, <3>1, DivMonotone
    <2>2. shares \in [User -> Int]
        BY <2>1
    <2> QED
        BY <2>2, Users, SumOfFunction
<1> HIDE DEF shares
<1> QED
    BY <1>2, <1>3, <1>4, <1>5 DEF Ledger

LEMMA MintsOweNothing ==
    ASSUME Typed, Ledger, Typed', NEW u \in User, NEW a \in Nat,
           NEW v \in User, NEW b \in Nat,
           mints(u, a, v, b), UNCHANGED <<redeemer, gov>>, Owed <= gov
    PROVE  Owed' <= gov'
<1>1. CASE enabled
    <2>1. a = 0 /\ b = 0
        BY <1>1 DEF Typed, mints
    <2>2. balances' = balances
        BY <2>1 DEF Typed, mints, Earned, Added
    <2> QED
        BY <2>2, OwedUnmoved
<1>2. CASE ~enabled
    <2>1. (~enabled)'
        BY <1>2 DEF redeemer
    <2>2. Owed' = 0
        BY <2>1, NothingOwedAfter
    <2> QED
        BY <2>2 DEF Ledger
<1> QED
    BY <1>1, <1>2

\* No fill, no setting and no order of swaps leaves the redeemer short of what
\* the holders of points can still claim: only the owner's recovery can
\* (PointsRedeemer: recoverGov against swap).
THEOREM OnlyRecoveryLeavesShort == Spec => OnlyRecoveryUncovers
<1>1. /\ PointsInv /\ PointsInv' /\ Ledger /\ Ledger' /\ [Next]_vars
      => [Owed <= gov /\ Owed' > gov' => Recover]_vars
    <2> SUFFICES ASSUME Typed, Typed', Ledger, Ledger', Next, ~Recover, Owed <= gov
                 PROVE  ~(Owed' > gov')
        BY DEF PointsInv
    <2> SUFFICES Owed' <= gov'
        <3>1. Owed' \in Nat
            BY OwedIsNatAfter
        <3>2. gov' \in Nat
            BY DEF Ledger
        <3> QED
            BY <3>1, <3>2
    <2>1. CASE Fill
        <3>1. PICK maker \in User, taker \in User, notional \in Notional,
                   makerFee \in {-1, 0, 1}, takerFee \in {0, 1},
                   makerPrice \in Quote \ {0}, refPrice \in Quote :
                onFill(maker, taker, notional, makerFee, takerFee, makerPrice,
                       refPrice)
            BY <2>1 DEF Fill
        <3>2. /\ takerPoints(notional, takerFee) \in Nat
              /\ makerPoints(notional, makerFee, makerPrice, refPrice) \in Nat
            BY EarningsNat
        <3>3. /\ mints(taker, takerPoints(notional, takerFee), maker,
                       makerPoints(notional, makerFee, makerPrice, refPrice))
              /\ UNCHANGED <<redeemer, gov>>
            BY <3>1 DEF onFill
        <3> QED
            BY <3>2, <3>3, MintsOweNothing
    <2>2. ASSUME NEW u \in User, onLiquidation(u)
          PROVE  Owed' <= gov'
        <3>1. params.keeperPoints \in Nat
            BY DEF Typed, Params
        <3>2. /\ mints(u, params.keeperPoints, u, 0)
              /\ UNCHANGED <<redeemer, gov>>
            BY <2>2 DEF onLiquidation
        <3> QED
            BY <3>1, <3>2, MintsOweNothing
    <2>3. ASSUME NEW u \in User, swap(u)
          PROVE  Owed' <= gov'
        <3>1. gov - gov' = Owed - Owed'
            BY <2>3, SwapPaysOwed DEF Ledger
        <3>2. gov \in Nat /\ gov' \in Int /\ Owed \in Nat /\ Owed' \in Nat
            <4>1. Ledger'
                BY <2>3, SwapKeepsLedger
            <4> QED
                BY <4>1, OwedIsNat, OwedIsNatAfter DEF Ledger
        <3> QED
            BY <3>1, <3>2
    <2>4. CASE Tune
        <3>1. UNCHANGED <<points, redeemer, gov>>
            BY <2>4 DEF Tune, setWeights, setKeeperPoints, setMinFee,
                setPriceImprovement
        <3> QED
            BY <3>1, OwedUnmoved DEF points
    <2>5. CASE finalize
        <3>1. UNCHANGED <<balances, redeemer, gov>>
            BY <2>5 DEF finalize
        <3> QED
            BY <3>1, OwedUnmoved
    <2>6. ASSUME NEW amount \in 1 .. MaxGov, Fund(amount)
          PROVE  Owed' <= gov'
        <3>1. UNCHANGED <<balances, redeemer>> /\ gov' = gov + amount
            BY <2>6 DEF Fund, points
        <3>2. Owed' = Owed
            BY <3>1, OwedUnmoved
        <3>3. Owed \in Nat /\ gov \in Nat
            BY OwedIsNat DEF Ledger
        <3> QED
            BY <3>1, <3>2, <3>3
    <2>7. ASSUME NEW amount \in 1 .. MaxGov, enableRedemption(amount)
          PROVE  Owed' <= gov'
        <3>1. amount \in Nat
            OBVIOUS
        <3> QED
            BY <2>7, <3>1, PoolCoversShares
    <2> QED
        BY <2>1, <2>2, <2>3, <2>4, <2>5, <2>6, <2>7 DEF Next
<1> QED
    BY <1>1, InductiveInvariant, SupplyIsHeld, PTL DEF Spec, OnlyRecoveryUncovers
================================================================================
