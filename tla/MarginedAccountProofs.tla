-------------------------- MODULE MarginedAccountProofs --------------------------
(***************************************************************************)
(* Theorems about the engine and the account under it.  The first three    *)
(* are the claims that the natspec of contracts/contracts/                 *)
(* PortfolioMarginEngine.sol makes for its operators, for every scale,     *)
(* price, shock and portfolio.  The others are about behaviours, for every *)
(* set of markets, prices, shocks and options books and without the bounds *)
(* of the exploration: the types of the books, the order of the two        *)
(* requirements, and what fills, trades and cancels may do to the account. *)
(***************************************************************************)
EXTENDS MarginedAccount, OperatorFacts, TLAPS

Shock == [spot : Nat, vol : Nat]

--------------------------------------------------------------------------------
(* Arithmetic.                                                             *)

\* Signed division is division of the magnitude, with the sign kept.
LEMMA QuotientMagnitude ==
    ASSUME NEW n \in Int, NEW d \in Nat \ {0}
    PROVE  /\ Quotient(n, d) \in Int
           /\ Magnitude(n) \in Nat
           /\ Magnitude(Quotient(n, d)) = Magnitude(n) \div d
           /\ n <= 0 => Quotient(n, d) = -(Magnitude(n) \div d)
<1>1. CASE n < 0
    <2>1. -n \in Nat /\ (-n) \div d \in Nat
        BY <1>1, DivMonotone
    <2>2. Quotient(n, d) = -((-n) \div d) /\ Magnitude(n) = -n
        BY <1>1 DEF Quotient, Magnitude
    <2>3. Magnitude(-((-n) \div d)) = (-n) \div d
        BY <2>1 DEF Magnitude
    <2> QED
        BY <2>1, <2>2, <2>3
<1>2. CASE n >= 0
    <2>1. n \in Nat /\ n \div d \in Nat
        BY <1>2, DivMonotone
    <2>2. Quotient(n, d) = n \div d /\ Magnitude(n) = n
        BY <1>2 DEF Quotient, Magnitude
    <2>3. Magnitude(n \div d) = n \div d
        BY <2>1 DEF Magnitude
    <2>4. 0 \div d = 0
        BY Z3
    <2> QED
        BY <2>1, <2>2, <2>3, <2>4, <1>2
<1> QED
    BY <1>1, <1>2

\* The loss of an exposure is scaled from its magnitude.
LEMMA LinearLoss ==
    ASSUME NEW x \in Int, NEW s \in Nat, NEW d \in Nat \ {0}
    PROVE  /\ Magnitude(x) \in Nat
           /\ Magnitude(Quotient(x * s, d)) = (Magnitude(x) * s) \div d
           /\ x <= 0 => Quotient(x * s, d) = -((Magnitude(x) * s) \div d)
<1>1. x * s \in Int /\ Magnitude(x) \in Nat
    BY Z3 DEF Magnitude
<1>2. x >= 0 => x * s >= 0
    BY Z3
<1>3. x <= 0 => x * s <= 0
    BY Z3
<1>4. (-x) * s = -(x * s)
    BY Z3
<1>5. Magnitude(x * s) = Magnitude(x) * s
    <2>1. CASE x < 0
        <3>1. Magnitude(x) = -x
            BY <2>1 DEF Magnitude
        <3>2. Magnitude(x * s) = -(x * s)
            BY <1>1, <1>3, <2>1 DEF Magnitude
        <3> QED
            BY <3>1, <3>2, <1>4
    <2>2. CASE x >= 0
        BY <1>1, <1>2, <2>2 DEF Magnitude
    <2> QED
        BY <2>1, <2>2
<1> QED
    BY <1>1, <1>3, <1>5, QuotientMagnitude

LEMMA LinearLossMonotone ==
    ASSUME NEW x \in Int, NEW y \in Int, NEW s \in Nat, NEW t \in Nat,
           NEW d \in Nat \ {0},
           Magnitude(x) <= Magnitude(y), s <= t
    PROVE  /\ Magnitude(Quotient(x * s, d)) \in Nat
           /\ Magnitude(Quotient(x * s, d)) <= Magnitude(Quotient(y * t, d))
<1>1. Magnitude(x) \in Nat /\ Magnitude(y) \in Nat
    BY LinearLoss
<1>2. Magnitude(x) * s \in Nat /\ Magnitude(x) * s <= Magnitude(y) * t
    BY <1>1, TimesMonotone
<1>3. Magnitude(y) * t \in Nat
    BY <1>1, TimesMonotone
<1>4. (Magnitude(x) * s) \div d \in Nat
      /\ (Magnitude(x) * s) \div d <= (Magnitude(y) * t) \div d
    BY <1>2, <1>3, DivMonotone
<1>5. Magnitude(Quotient(x * s, d)) = (Magnitude(x) * s) \div d
    BY LinearLoss
<1>6. Magnitude(Quotient(y * t, d)) = (Magnitude(y) * t) \div d
    BY LinearLoss
<1> QED
    BY <1>4, <1>5, <1>6

--------------------------------------------------------------------------------
(* Stress.                                                                 *)

Move(shock, spotPrice) == (shock.spot * spotPrice) \div WAD

GammaTerm(greeks, s) ==
    Quotient(Quotient(greeks.gamma * s, WAD) * s, 2 * WAD)

LEMMA MoveNat ==
    ASSUME NEW shock \in Shock, NEW spotPrice \in Nat
    PROVE  Move(shock, spotPrice) \in Nat
<1>1. shock.spot \in Nat
    BY DEF Shock
<1>2. shock.spot * spotPrice \in Nat
    BY <1>1, TimesMonotone
<1> QED
    BY <1>2, DivMonotone, Scales DEF Move

LEMMA GammaInt ==
    ASSUME NEW greeks \in Options, NEW s \in Nat
    PROVE  GammaTerm(greeks, s) \in Int
<1>1. greeks.gamma \in Int /\ WAD \in Nat \ {0} /\ 2 * WAD \in Nat \ {0}
    BY Scales DEF Options
<1>2. greeks.gamma * s \in Int
    BY <1>1, Z3
<1>3. Quotient(greeks.gamma * s, WAD) \in Int
    BY <1>1, <1>2, QuotientMagnitude
<1>4. Quotient(greeks.gamma * s, WAD) * s \in Int
    BY <1>3, Z3
<1> QED
    BY <1>1, <1>4, QuotientMagnitude DEF GammaTerm

\* A short gamma loses more under the larger move.
LEMMA ShortGammaMonotone ==
    ASSUME NEW greeks \in Options, greeks.gamma <= 0,
           NEW s \in Nat, NEW t \in Nat, s <= t
    PROVE  GammaTerm(greeks, t) <= GammaTerm(greeks, s)
<1> DEFINE g == greeks.gamma
           A(u) == (Magnitude(g) * u) \div WAD
<1>1. g \in Int /\ g <= 0 /\ WAD \in Nat \ {0} /\ 2 * WAD \in Nat \ {0}
    BY Scales DEF Options
<1> HIDE DEF g
<1>2. Magnitude(g) \in Nat
    BY <1>1, LinearLoss
<1>3. Magnitude(g) * s \in Nat /\ Magnitude(g) * t \in Nat
      /\ Magnitude(g) * s <= Magnitude(g) * t
    BY <1>2, TimesMonotone
<1>4. A(s) \in Nat /\ A(t) \in Nat /\ A(s) <= A(t)
    BY <1>1, <1>3, DivMonotone
<1>5. Quotient(g * s, WAD) = -A(s) /\ Quotient(g * t, WAD) = -A(t)
    BY <1>1, LinearLoss
<1> HIDE DEF A
<1>6. ASSUME NEW u \in Nat, NEW a \in Nat
      PROVE  /\ Magnitude(-a) = a
             /\ Quotient((-a) * u, 2 * WAD) = -((a * u) \div (2 * WAD))
    <2>1. -a \in Int /\ -a <= 0 /\ Magnitude(-a) = a
        BY DEF Magnitude
    <2> QED
        BY <2>1, <1>1, LinearLoss
<1>7. A(s) * s \in Nat /\ A(t) * t \in Nat /\ A(s) * s <= A(t) * t
    BY <1>4, TimesMonotone
<1>8. (A(s) * s) \div (2 * WAD) \in Nat /\ (A(t) * t) \div (2 * WAD) \in Nat
      /\ (A(s) * s) \div (2 * WAD) <= (A(t) * t) \div (2 * WAD)
    BY <1>1, <1>7, DivMonotone
<1>9. Quotient((-A(s)) * s, 2 * WAD) = -((A(s) * s) \div (2 * WAD))
      /\ Quotient((-A(t)) * t, 2 * WAD) = -((A(t) * t) \div (2 * WAD))
    BY <1>4, <1>6
<1>10. GammaTerm(greeks, s) = Quotient((-A(s)) * s, 2 * WAD)
       /\ GammaTerm(greeks, t) = Quotient((-A(t)) * t, 2 * WAD)
    BY <1>5 DEF GammaTerm, g
<1> QED
    BY <1>8, <1>9, <1>10

\* More exposure, or more of a move against a short gamma, loses no less.
LEMMA StressMonotone ==
    ASSUME NEW greeks \in Options, NEW shock \in Shock, NEW harder \in Shock,
           NEW spotPrice \in Nat, NEW d \in Int, NEW e \in Int,
           Magnitude(d) <= Magnitude(e),
           \/ harder = shock
           \/ /\ greeks.gamma <= 0
              /\ shock.spot <= harder.spot
              /\ shock.vol <= harder.vol
    PROVE  /\ worstStressLoss(d, greeks, shock, spotPrice) \in Nat
           /\ worstStressLoss(d, greeks, shock, spotPrice)
                 <= worstStressLoss(e, greeks, harder, spotPrice)
<1> DEFINE s == Move(shock, spotPrice)
           t == Move(harder, spotPrice)
           DeltaLoss(x, m) == Magnitude(Quotient(x * m, WAD))
           VegaLoss(h) == Magnitude(Quotient(greeks.vega * h.vol, WAD))
<1>1. /\ WAD \in Nat \ {0} /\ greeks.vega \in Int
      /\ shock.spot \in Nat /\ harder.spot \in Nat
      /\ shock.vol \in Nat /\ harder.vol \in Nat
      /\ shock.spot <= harder.spot /\ shock.vol <= harder.vol
    BY Scales DEF Options, Shock
<1>2. s \in Nat /\ t \in Nat /\ s <= t
    <2>1. shock.spot * spotPrice \in Nat /\ harder.spot * spotPrice \in Nat
          /\ shock.spot * spotPrice <= harder.spot * spotPrice
        BY <1>1, TimesMonotone
    <2> QED
        BY <2>1, <1>1, DivMonotone DEF Move
<1>3. DeltaLoss(d, s) \in Nat /\ DeltaLoss(e, t) \in Nat
      /\ DeltaLoss(d, s) <= DeltaLoss(e, t)
    <2>1. DeltaLoss(d, s) \in Nat /\ DeltaLoss(d, s) <= DeltaLoss(e, t)
        BY <1>1, <1>2, LinearLossMonotone
    <2>2. Magnitude(e) <= Magnitude(e) /\ t <= t
        BY <1>2, LinearLoss
    <2>3. DeltaLoss(e, t) \in Nat
        BY <1>1, <1>2, <2>2, LinearLossMonotone
    <2> QED
        BY <2>1, <2>3
<1>4. VegaLoss(shock) \in Nat /\ VegaLoss(harder) \in Nat
      /\ VegaLoss(shock) <= VegaLoss(harder)
    <2>1. Magnitude(greeks.vega) <= Magnitude(greeks.vega)
        BY <1>1 DEF Magnitude
    <2>2. harder.vol <= harder.vol
        BY <1>1
    <2>3. VegaLoss(shock) \in Nat /\ VegaLoss(shock) <= VegaLoss(harder)
        BY <1>1, <2>1, LinearLossMonotone
    <2>4. VegaLoss(harder) \in Nat
        BY <1>1, <2>1, <2>2, LinearLossMonotone
    <2> QED
        BY <2>3, <2>4
<1>5. GammaTerm(greeks, s) \in Int /\ GammaTerm(greeks, t) \in Int
      /\ GammaTerm(greeks, t) <= GammaTerm(greeks, s)
    <2>1. GammaTerm(greeks, s) \in Int /\ GammaTerm(greeks, t) \in Int
        BY <1>2, GammaInt
    <2>2. CASE harder = shock
        BY <2>1, <2>2
    <2>3. CASE greeks.gamma <= 0
        BY <2>1, <2>3, <1>2, ShortGammaMonotone
    <2> QED
        BY <2>1, <2>2, <2>3
<1>6. worstStressLoss(d, greeks, shock, spotPrice)
        = NonNegative(DeltaLoss(d, s) + VegaLoss(shock) - GammaTerm(greeks, s))
    BY DEF worstStressLoss, GammaTerm, Move
<1>7. worstStressLoss(e, greeks, harder, spotPrice)
        = NonNegative(DeltaLoss(e, t) + VegaLoss(harder) - GammaTerm(greeks, t))
    BY DEF worstStressLoss, GammaTerm, Move
<1> HIDE DEF s, t, DeltaLoss, VegaLoss
<1> QED
    BY <1>3, <1>4, <1>5, <1>6, <1>7 DEF NonNegative
--------------------------------------------------------------------------------
(* Theorems.                                                               *)

\* The two legs bound the stress of every net delta between them: whatever
\* subset of the resting orders fills, and none of them, loses at most what the
\* worse leg does (PortfolioMarginEngine.sol, "stress is convex in delta").
THEOREM LegsBoundStress ==
    ASSUME NEW greeks \in Options, NEW shock \in Shock, NEW spotPrice \in Nat,
           NEW low \in Int, NEW d \in Int, NEW high \in Int,
           low <= d, d <= high
    PROVE  worstStressLoss(d, greeks, shock, spotPrice)
              <= Larger(worstStressLoss(high, greeks, shock, spotPrice),
                        worstStressLoss(low, greeks, shock, spotPrice))
<1> DEFINE Loss(x) == worstStressLoss(x, greeks, shock, spotPrice)
<1>1. ASSUME NEW x \in Int
      PROVE  Loss(x) \in Nat
    <2>1. Magnitude(x) <= Magnitude(x)
        BY DEF Magnitude
    <2> QED
        BY <2>1, StressMonotone
<1>2. ASSUME NEW x \in Int, NEW y \in Int, Magnitude(x) <= Magnitude(y)
      PROVE  Loss(x) <= Loss(y)
    BY <1>2, StressMonotone
<1>3. Magnitude(d) <= Magnitude(high) \/ Magnitude(d) <= Magnitude(low)
    BY DEF Magnitude
<1>4. Loss(d) <= Loss(high) \/ Loss(d) <= Loss(low)
    BY <1>2, <1>3
<1> HIDE DEF Loss
<1>5. Loss(d) <= Larger(Loss(high), Loss(low))
    BY <1>1, <1>4 DEF Larger
<1> QED
    BY <1>5 DEF Loss

AfterFills(linear, bought, sold) ==
    [linear EXCEPT !.netDelta = @ + bought - sold,
                   !.buyOrderDelta = @ - bought,
                   !.sellOrderDelta = @ - sold]

\* Filling any part of the resting orders never raises the stress that the
\* engine charges for them: it was reserved (_marginFromInputs).
THEOREM FillsNeverRaiseStress ==
    ASSUME NEW linear \in LinearAggregate, NEW greeks \in Options,
           NEW shock \in Shock, NEW spotPrice \in Nat,
           NEW bought \in Nat, NEW sold \in Nat,
           bought <= linear.buyOrderDelta, sold <= linear.sellOrderDelta
    PROVE  worstFillLoss(AfterFills(linear, bought, sold), greeks, shock, spotPrice)
              <= worstFillLoss(linear, greeks, shock, spotPrice)
<1> DEFINE Loss(x) == worstStressLoss(x, greeks, shock, spotPrice)
           n == linear.netDelta + greeks.delta
           high == n + linear.buyOrderDelta
           low == n - linear.sellOrderDelta
           high2 == n + linear.buyOrderDelta - sold
           low2 == n + bought - linear.sellOrderDelta
           after == AfterFills(linear, bought, sold)
<1>1. /\ linear.netDelta \in Int /\ linear.buyOrderDelta \in Nat
      /\ linear.sellOrderDelta \in Nat /\ greeks.delta \in Int
    BY DEF LinearAggregate, Options
<1>2. /\ after.netDelta = linear.netDelta + bought - sold
      /\ after.buyOrderDelta = linear.buyOrderDelta - bought
      /\ after.sellOrderDelta = linear.sellOrderDelta - sold
    BY DEF AfterFills, LinearAggregate
<1>3. /\ (after.netDelta + greeks.delta) + after.buyOrderDelta = high2
      /\ (after.netDelta + greeks.delta) - after.sellOrderDelta = low2
    BY <1>1, <1>2
<1>4. worstFillLoss(after, greeks, shock, spotPrice)
        = Larger(Loss(high2), Loss(low2))
    <2>1. worstFillLoss(after, greeks, shock, spotPrice)
            = Larger(Loss((after.netDelta + greeks.delta) + after.buyOrderDelta),
                     Loss((after.netDelta + greeks.delta) - after.sellOrderDelta))
        BY DEF worstFillLoss
    <2> QED
        BY <2>1, <1>3, Zenon
<1>5. worstFillLoss(linear, greeks, shock, spotPrice)
        = Larger(Loss(high), Loss(low))
    BY DEF worstFillLoss
<1>6. /\ low \in Int /\ high \in Int /\ low2 \in Int /\ high2 \in Int
      /\ low <= low2 /\ low2 <= high /\ low <= high2 /\ high2 <= high
    BY <1>1
<1> HIDE DEF n, high, low, high2, low2
<1>7. /\ Loss(high2) <= Larger(Loss(high), Loss(low))
      /\ Loss(low2) <= Larger(Loss(high), Loss(low))
    BY <1>6, LegsBoundStress
<1> HIDE DEF Loss
<1>8. Larger(Loss(high2), Loss(low2)) <= Larger(Loss(high), Loss(low))
    BY <1>7 DEF Larger
<1> QED
    BY <1>4, <1>5, <1>8 DEF Loss

LossesCoverNet(linear) == -linear.netUnrealizedPnl <= linear.unrealizedLossPerMarket

\* "It preserves IM >= MM": with the shocks in order and no long gamma, the
\* initial requirement covers the maintenance requirement of every portfolio.
THEOREM ImCoversMm ==
    ASSUME NEW linear \in LinearAggregate, NEW greeks \in Options,
           NEW levels \in ShockSet, NEW spotPrice \in Nat,
           greeks.gamma <= 0,
           levels.mmSpot <= levels.imSpot, levels.mmVol <= levels.imVol,
           LossesCoverNet(linear)
    PROVE  marginFromInputs(linear, greeks, levels, FALSE, spotPrice)
              <= marginFromInputs(linear, greeks, levels, TRUE, spotPrice)
<1> DEFINE im == ShockOf(levels, TRUE)
           mm == ShockOf(levels, FALSE)
           n == linear.netDelta + greeks.delta
           high == n + linear.buyOrderDelta
           low == n - linear.sellOrderDelta
           Loss(x, shock) == worstStressLoss(x, greeks, shock, spotPrice)
           Worst(shock) == worstFillLoss(linear, greeks, shock, spotPrice)
<1>1. /\ im \in Shock /\ mm \in Shock
      /\ mm.spot <= im.spot /\ mm.vol <= im.vol
    BY DEF ShockOf, Shock, ShockSet
<1>2. /\ high \in Int /\ low \in Int
      /\ linear.fillLoss \in Nat /\ linear.fundingOwed \in Nat
      /\ linear.unrealizedLossPerMarket \in Nat /\ linear.netUnrealizedPnl \in Int
      /\ greeks.reserved \in Nat
    BY DEF LinearAggregate, Options
<1>3. \A shock \in Shock : Worst(shock) = Larger(Loss(high, shock), Loss(low, shock))
    BY DEF worstFillLoss
<1> HIDE DEF im, mm, high, low
<1>4. ASSUME NEW x \in Int
      PROVE  /\ Loss(x, mm) \in Nat /\ Loss(x, im) \in Nat
             /\ Loss(x, mm) <= Loss(x, im)
    <2>1. Magnitude(x) <= Magnitude(x)
        BY DEF Magnitude
    <2>2. Loss(x, mm) \in Nat /\ Loss(x, mm) <= Loss(x, im)
        BY <1>1, <2>1, StressMonotone
    <2>3. Loss(x, im) \in Nat
        BY <1>1, <2>1, StressMonotone
    <2> QED
        BY <2>2, <2>3
<1> HIDE DEF Loss
<1>5. Larger(Loss(high, mm), Loss(low, mm)) <= Larger(Loss(high, im), Loss(low, im))
      /\ Larger(Loss(high, mm), Loss(low, mm)) \in Nat
      /\ Larger(Loss(high, im), Loss(low, im)) \in Nat
    BY <1>2, <1>4 DEF Larger
<1>6. Worst(mm) \in Nat /\ Worst(im) \in Nat /\ Worst(mm) <= Worst(im)
    BY <1>1, <1>3, <1>5
<1> HIDE DEF Worst
<1>7. fromWad(Worst(mm)) \in Nat /\ fromWad(Worst(im)) \in Nat
      /\ fromWad(Worst(mm)) <= fromWad(Worst(im))
    <2>1. LIFT \in Nat \ {0}
        BY Scales
    <2>2. fromWad(Worst(mm)) \in Nat /\ fromWad(Worst(mm)) <= fromWad(Worst(im))
        BY <1>6, <2>1, DivMonotone DEF fromWad
    <2>3. fromWad(Worst(im)) \in Nat
        BY <1>6, <2>1, DivMonotone DEF fromWad
    <2> QED
        BY <2>2, <2>3
<1>8. pnlTerm(linear, FALSE) \in Nat /\ pnlTerm(linear, TRUE) \in Nat
      /\ pnlTerm(linear, FALSE) <= pnlTerm(linear, TRUE)
    BY <1>2 DEF pnlTerm, NonNegative, LossesCoverNet
<1>9. marginFromInputs(linear, greeks, levels, FALSE, spotPrice)
        = fromWad(Worst(mm)) + linear.fillLoss + greeks.reserved
            + pnlTerm(linear, FALSE) + linear.fundingOwed
    BY DEF marginFromInputs, Worst, mm
<1>10. marginFromInputs(linear, greeks, levels, TRUE, spotPrice)
        = fromWad(Worst(im)) + linear.fillLoss + greeks.reserved
            + pnlTerm(linear, TRUE) + linear.fundingOwed
    BY DEF marginFromInputs, Worst, im
<1> DEFINE a == fromWad(Worst(mm))   b == fromWad(Worst(im))
           p == pnlTerm(linear, FALSE)   q == pnlTerm(linear, TRUE)
           c == linear.fillLoss   d == greeks.reserved   f == linear.fundingOwed
<1>11. /\ marginFromInputs(linear, greeks, levels, FALSE, spotPrice) = a + c + d + p + f
       /\ marginFromInputs(linear, greeks, levels, TRUE, spotPrice) = b + c + d + q + f
       /\ a \in Nat /\ b \in Nat /\ a <= b /\ p \in Nat /\ q \in Nat /\ p <= q
       /\ c \in Nat /\ d \in Nat /\ f \in Nat
    BY <1>2, <1>7, <1>8, <1>9, <1>10
<1> HIDE DEF a, b, p, q, c, d, f
<1>12. a + c + d + p + f <= b + c + d + q + f
    BY <1>11
<1> QED
    BY <1>11, <1>12

--------------------------------------------------------------------------------
(* The account.                                                             *)

LEMMA QuotientInt ==
    ASSUME NEW n \in Int, NEW d \in Nat \ {0}
    PROVE  Quotient(n, d) \in Int /\ Quotient(n, 1) = n
<1>1. n >= 0 => n \div d \in Int
    BY Z3
<1>2. n < 0 => (-n) \div d \in Int
    BY Z3
<1>3. n \div 1 = n /\ (-n) \div 1 = -n
    BY Z3
<1> QED
    BY <1>1, <1>2, <1>3 DEF Quotient

\* A fill keeps the books' types, and the fill that closes the last lot leaves
\* no cost behind: the division by one lot is exact.
LEMMA FilledTypes ==
    ASSUME TypeOK, NEW m \in Market, NEW side \in {Buy, Sell}, NEW price \in Price,
           Filled(m, side, price)
    PROVE  /\ position' \in [Market -> Int]
           /\ entry' \in [Market -> Int]
           /\ balance' \in Nat
           /\ \A k \in Market : position'[k] = 0 => entry'[k] = 0
<1> DEFINE closes == position[m] * side < 0
           share == Quotient(entry[m], Magnitude(position[m]))
<1>1. /\ side \in {1, -1} /\ price \in Int
      /\ position \in [Market -> Int] /\ position[m] \in Int
      /\ entry \in [Market -> Int] /\ entry[m] \in Int /\ balance \in Nat
    BY Prices DEF TypeOK, Buy, Sell
<1>2. position' = [position EXCEPT ![m] = @ + side]
    BY DEF Filled
<1>3. position' \in [Market -> Int]
    BY <1>1, <1>2
<1>4. \A k \in Market \ {m} : position'[k] = 0 => position[k] = 0
    BY <1>1, <1>2
<1>5. CASE ~closes
    <2>1. entry' = [entry EXCEPT ![m] = @ + side * price] /\ balance' = balance
        BY <1>5 DEF Filled
    <2>2. side * price \in Int
        BY <1>1
    <2>3. position'[m] # 0
        BY <1>1, <1>2, <1>5
    <2> QED
        BY <1>1, <1>3, <1>4, <2>1, <2>2, <2>3 DEF TypeOK
<1>6. CASE closes
    <2>1. /\ entry' = [entry EXCEPT ![m] = @ - share]
          /\ balance' = NonNegative(balance + (-side * price - share))
        BY <1>6 DEF Filled
    <2>2. Magnitude(position[m]) \in Nat \ {0}
        BY <1>1, <1>6 DEF Magnitude
    <2>3. share \in Int
        BY <1>1, <2>2, QuotientInt
    <2>4. position'[m] = 0 => share = entry[m]
        <3>1. position'[m] = 0 => Magnitude(position[m]) = 1
            BY <1>1, <1>2 DEF Magnitude
        <3> QED
            BY <1>1, <3>1, QuotientInt
    <2> HIDE DEF share
    <2>5. balance' \in Nat
        BY <1>1, <2>1, <2>3 DEF NonNegative
    <2>6. entry'[m] = entry[m] - share
        BY <1>1, <2>1
    <2>7. entry' \in [Market -> Int]
        BY <1>1, <2>1, <2>3
    <2>8. \A k \in Market \ {m} : entry'[k] = entry[k]
        BY <1>1, <2>1
    <2> QED
        BY <1>1, <1>3, <1>4, <2>3, <2>4, <2>5, <2>6, <2>7, <2>8 DEF TypeOK
<1> QED
    BY <1>5, <1>6

LEMMA TypesKept == TypeOK /\ [Next]_vars => TypeOK'
<1> SUFFICES ASSUME TypeOK, [Next]_vars
             PROVE  TypeOK'
    OBVIOUS
<1>1. ASSUME NEW m \in Market, NEW side \in {Buy, Sell}, NEW p \in Price,
             Trade(m, side, p)
      PROVE  TypeOK'
    <2>1. Filled(m, side, p) /\ UNCHANGED <<resting, spot, shocks, options>>
        BY <1>1 DEF Trade, market
    <2> QED
        BY <2>1, FilledTypes DEF TypeOK
<1>2. ASSUME NEW o \in Order, Rest(o)
      PROVE  TypeOK'
    BY <1>2 DEF Rest, TypeOK, market
<1>3. ASSUME NEW o \in resting, Cancel(o)
      PROVE  TypeOK'
    BY <1>3 DEF Cancel, TypeOK, market
<1>4. ASSUME NEW o \in resting, MakerFill(o)
      PROVE  TypeOK'
    <2>1. /\ o.market \in Market /\ o.side \in {Buy, Sell} /\ o.limit \in Price
        BY DEF TypeOK, Order
    <2>2. /\ Filled(o.market, o.side, o.limit)
          /\ resting' = resting \ {o} /\ UNCHANGED <<spot, shocks, options>>
        BY <1>4 DEF MakerFill, market
    <2> QED
        BY <2>1, <2>2, FilledTypes DEF TypeOK
<1>5. CASE Deposit
    BY <1>5 DEF Deposit, TypeOK, book, market
<1>6. CASE Withdraw
    BY <1>6 DEF Withdraw, TypeOK, book, market
<1>7. CASE setShocks
    BY <1>7 DEF setShocks, TypeOK, book
<1>8. CASE SpotMoves
    BY <1>8 DEF SpotMoves, TypeOK, book
<1>9. CASE OptionsMove
    BY <1>9 DEF OptionsMove, TypeOK, book
<1>10. CASE UNCHANGED vars
    BY <1>10 DEF vars, book, market, TypeOK
<1> QED
    BY <1>1, <1>2, <1>3, <1>4, <1>5, <1>6, <1>7, <1>8, <1>9, <1>10 DEF Next

\* The balance never goes below zero, the books stay in whole units and a
\* closed position carries no cost, through every trade, fill and transfer.
THEOREM TypeCorrect == Spec => []TypeOK
<1>1. Init => TypeOK
    BY DEF Init, TypeOK, Order
<1> QED
    BY <1>1, TypesKept, PTL DEF Spec

--------------------------------------------------------------------------------
(* The sums over the markets.                                              *)

\* The sum over the markets of what a market reports.
Summed(f) == SumFunctionOnSet(f, Market)

\* What the fields of an aggregate sum.
NetDeltas(view) == [m \in Market |-> toWad(view[m].netPositionDelta)]
BuyDeltas(view) == [m \in Market |-> toWad(view[m].buyOrderDelta)]
SellDeltas(view) == [m \in Market |-> toWad(view[m].sellOrderDelta)]
FillLosses(view) ==
    [m \in Market |-> view[m].buyOrderFillLoss + view[m].sellOrderFillLoss]
Pnls(view) == [m \in Market |-> view[m].unrealizedPnl]
Losses(view) == [m \in Market |-> NonNegative(-view[m].unrealizedPnl)]
Fundings(view) == [m \in Market |-> NonNegative(view[m].pendingFunding)]

\* A sum of whole numbers is one, and of natural numbers too.
LEMMA SummedType ==
    ASSUME NEW f, \A m \in Market : f[m] \in Int
    PROVE  /\ Summed(f) \in Int
           /\ (\A m \in Market : f[m] >= 0) => Summed(f) \in Nat
<1>1. Summed(f) \in Int
    BY SumType, Markets DEF Summed
<1>2. ASSUME \A m \in Market : f[m] >= 0 PROVE Summed(f) >= 0
    <2> DEFINE z == [m \in Market |-> 0]
    <2>1. \A m \in Market : z[m] = 0 /\ z[m] \in Int /\ z[m] <= f[m]
        BY <1>2
    <2> HIDE DEF z
    <2>2. SumFunctionOnSet(z, Market) = 0
        BY <2>1, SumOfZeros, Markets
    <2>3. SumFunctionOnSet(z, Market) <= Summed(f)
        BY <2>1, SumMonotone, Markets DEF Summed
    <2> QED
        BY <2>2, <2>3, <1>1
<1> QED
    BY <1>1, <1>2

LEMMA ToWadType ==
    ASSUME NEW n \in Int
    PROVE  toWad(n) \in Int /\ (n >= 0 => toWad(n) >= 0)
BY Scales, Z3 DEF toWad

LEMMA ViewFields ==
    ASSUME NEW view \in RiskViews, NEW m \in Market
    PROVE  /\ view[m].netPositionDelta \in Int /\ view[m].unrealizedPnl \in Int
           /\ view[m].pendingFunding \in Int
           /\ view[m].buyOrderDelta \in Nat /\ view[m].sellOrderDelta \in Nat
           /\ view[m].buyOrderFillLoss \in Nat /\ view[m].sellOrderFillLoss \in Nat
BY DEF RiskViews, RiskView

LEMMA ReportTypes ==
    ASSUME NEW view \in RiskViews
    PROVE  \A m \in Market :
             /\ NetDeltas(view)[m] \in Int
             /\ BuyDeltas(view)[m] \in Int /\ BuyDeltas(view)[m] >= 0
             /\ SellDeltas(view)[m] \in Int /\ SellDeltas(view)[m] >= 0
             /\ FillLosses(view)[m] \in Int /\ FillLosses(view)[m] >= 0
             /\ Pnls(view)[m] \in Int
             /\ Losses(view)[m] \in Int /\ Losses(view)[m] >= 0
             /\ Fundings(view)[m] \in Int /\ Fundings(view)[m] >= 0
<1> SUFFICES ASSUME NEW m \in Market
             PROVE  /\ NetDeltas(view)[m] \in Int
                    /\ BuyDeltas(view)[m] \in Int /\ BuyDeltas(view)[m] >= 0
                    /\ SellDeltas(view)[m] \in Int /\ SellDeltas(view)[m] >= 0
                    /\ FillLosses(view)[m] \in Int /\ FillLosses(view)[m] >= 0
                    /\ Pnls(view)[m] \in Int
                    /\ Losses(view)[m] \in Int /\ Losses(view)[m] >= 0
                    /\ Fundings(view)[m] \in Int /\ Fundings(view)[m] >= 0
    OBVIOUS
<1>1. /\ view[m].netPositionDelta \in Int /\ view[m].unrealizedPnl \in Int
      /\ view[m].pendingFunding \in Int
      /\ view[m].buyOrderDelta \in Int /\ view[m].sellOrderDelta \in Int
      /\ view[m].buyOrderFillLoss \in Int /\ view[m].sellOrderFillLoss \in Int
      /\ view[m].buyOrderDelta >= 0 /\ view[m].sellOrderDelta >= 0
      /\ view[m].buyOrderFillLoss >= 0 /\ view[m].sellOrderFillLoss >= 0
    BY ViewFields
<1>2. /\ NetDeltas(view)[m] \in Int
      /\ BuyDeltas(view)[m] \in Int /\ BuyDeltas(view)[m] >= 0
      /\ SellDeltas(view)[m] \in Int /\ SellDeltas(view)[m] >= 0
    BY <1>1, ToWadType DEF NetDeltas, BuyDeltas, SellDeltas
<1>3. /\ FillLosses(view)[m] \in Int /\ FillLosses(view)[m] >= 0
      /\ Pnls(view)[m] \in Int
    BY <1>1 DEF FillLosses, Pnls
<1>4. /\ Losses(view)[m] \in Int /\ Losses(view)[m] >= 0
      /\ Fundings(view)[m] \in Int /\ Fundings(view)[m] >= 0
    BY <1>1 DEF Losses, Fundings, NonNegative
<1> QED
    BY <1>2, <1>3, <1>4

\* An aggregate, field by field.
LEMMA AggregateOf ==
    ASSUME NEW view \in RiskViews
    PROVE  /\ linearAggregate[view] \in LinearAggregate
           /\ linearAggregate[view].netDelta = Summed(NetDeltas(view))
           /\ linearAggregate[view].buyOrderDelta = Summed(BuyDeltas(view))
           /\ linearAggregate[view].sellOrderDelta = Summed(SellDeltas(view))
           /\ linearAggregate[view].fillLoss = Summed(FillLosses(view))
           /\ linearAggregate[view].netUnrealizedPnl = Summed(Pnls(view))
           /\ linearAggregate[view].unrealizedLossPerMarket = Summed(Losses(view))
           /\ linearAggregate[view].fundingOwed = Summed(Fundings(view))
<1>1. linearAggregate[view] =
        [netDelta |-> Summed(NetDeltas(view)),
         buyOrderDelta |-> Summed(BuyDeltas(view)),
         sellOrderDelta |-> Summed(SellDeltas(view)),
         fillLoss |-> Summed(FillLosses(view)),
         netUnrealizedPnl |-> Summed(Pnls(view)),
         unrealizedLossPerMarket |-> Summed(Losses(view)),
         fundingOwed |-> Summed(Fundings(view))]
    BY DEF linearAggregate, SumOver, Summed, NetDeltas, BuyDeltas, SellDeltas, FillLosses,
           Pnls, Losses, Fundings
<1>2. /\ Summed(NetDeltas(view)) \in Int /\ Summed(Pnls(view)) \in Int
      /\ Summed(BuyDeltas(view)) \in Nat /\ Summed(SellDeltas(view)) \in Nat
      /\ Summed(FillLosses(view)) \in Nat /\ Summed(Losses(view)) \in Nat
      /\ Summed(Fundings(view)) \in Nat
    BY ReportTypes, SummedType
<1> QED
    BY <1>1, <1>2 DEF LinearAggregate

\* The losses market by market are at least the net of losses and gains.
LEMMA AggregateCovers ==
    ASSUME NEW view \in RiskViews
    PROVE  LossesCoverNet(linearAggregate[view])
<1> DEFINE zero == [m \in Market |-> 0]
           gains == [m \in Market |-> Pnls(view)[m] + Losses(view)[m]]
<1>1. \A m \in Market : /\ Pnls(view)[m] \in Int /\ Losses(view)[m] \in Int
                        /\ gains[m] = Pnls(view)[m] + Losses(view)[m]
                        /\ gains[m] \in Int /\ gains[m] >= 0
    <2> SUFFICES ASSUME NEW m \in Market
                 PROVE  Pnls(view)[m] + Losses(view)[m] >= 0
        BY ReportTypes
    <2>1. view[m].unrealizedPnl \in Int
        BY ViewFields
    <2> QED
        BY <2>1 DEF Pnls, Losses, NonNegative
<1> HIDE DEF gains
<1>2. Summed(gains) = Summed(Pnls(view)) + Summed(Losses(view))
    BY <1>1, SumOfSums, Markets DEF Summed
<1>3. Summed(gains) \in Nat
    BY <1>1, SummedType
<1>4. Summed(Pnls(view)) \in Int /\ Summed(Losses(view)) \in Int
    BY <1>1, SummedType
<1> QED
    BY <1>2, <1>3, <1>4, AggregateOf DEF LossesCoverNet
--------------------------------------------------------------------------------
(* The account before the engine.                                          *)

\* The books, with the number of resting orders finite: each was placed.
Books == TypeOK /\ IsFiniteSet(resting)

Views == [m \in Market |-> getRiskView(m)]
Linear == linearAggregate[Views]

LossesOf(m, side) == [o \in Side(m, side) |-> LossOf(o)]

LEMMA UnitIsWhole == Unit \in Nat /\ toWad(Unit) \in Nat
BY Scales, Z3 DEF Unit, toWad

LEMMA OrderTypes ==
    ASSUME Books, NEW o \in resting
    PROVE  /\ o.market \in Market /\ o.side \in {Buy, Sell} /\ o.limit \in Price
           /\ LossOf(o) \in Int
<1>1. o.market \in Market /\ o.side \in {Buy, Sell} /\ o.limit \in Price
    BY DEF Books, TypeOK, Order
<1>2. spot \in Price
    BY DEF Books, TypeOK
<1>3. \A p \in Price : p \in Int
    BY Prices
<1>4. o.side * (o.limit - spot) \in Int
    <2>1. Buy \in Int /\ Sell \in Int
        BY DEF Buy, Sell
    <2>2. o.side \in Int
        BY <1>1, <2>1
    <2> QED
        BY <1>1, <1>2, <1>3, <2>2, Z3
<1> QED
    BY <1>1, <1>4 DEF LossOf

LEMMA SideTypes ==
    ASSUME Books, NEW m \in Market, NEW side \in {Buy, Sell}
    PROVE  /\ IsFiniteSet(Side(m, side)) /\ Side(m, side) \subseteq resting
           /\ Lots(m, side) \in Nat
           /\ \A o \in Side(m, side) : LossesOf(m, side)[o] = LossOf(o) /\ LossOf(o) \in Int
           /\ SumFunctionOnSet(LossesOf(m, side), Side(m, side)) \in Int
           /\ FillLoss(m, side) \in Nat
<1>1. IsFiniteSet(Side(m, side)) /\ Side(m, side) \subseteq resting
    BY FS_Subset DEF Books, Side
<1>2. Lots(m, side) \in Nat
    BY <1>1, FS_CardinalityType DEF Lots
<1>3. \A o \in Side(m, side) : LossesOf(m, side)[o] = LossOf(o) /\ LossOf(o) \in Int
    BY <1>1, OrderTypes DEF LossesOf
<1>4. SumFunctionOnSet(LossesOf(m, side), Side(m, side)) \in Int
    BY <1>1, <1>3, SumType
<1>5. FillLoss(m, side)
        = NonNegative(SumFunctionOnSet(LossesOf(m, side), Side(m, side)))
    BY DEF FillLoss, SumOver, LossesOf
<1> QED
    BY <1>1, <1>2, <1>3, <1>4, <1>5 DEF NonNegative

LEMMA ViewTypes ==
    ASSUME Books
    PROVE  Views \in RiskViews
<1> SUFFICES ASSUME NEW m \in Market
             PROVE  getRiskView(m) \in RiskView
    BY DEF Views, RiskViews
<1>1. position[m] \in Int /\ entry[m] \in Int /\ spot \in Int
    BY Prices DEF Books, TypeOK
<1>2. position[m] * Unit \in Int /\ unrealizedPnl(m) \in Int
    BY <1>1, UnitIsWhole, Z3 DEF unrealizedPnl
<1>3. \A side \in {Buy, Sell} : Lots(m, side) * Unit \in Nat /\ FillLoss(m, side) \in Nat
    <2>1. \A n \in Nat : n * Unit \in Nat
        BY UnitIsWhole, Z3
    <2> QED
        BY <2>1, SideTypes
<1> QED
    BY <1>2, <1>3 DEF getRiskView, RiskView

\* What the engine answers, from the aggregate of the account's views.
Answers ==
    /\ Linear \in LinearAggregate
    /\ options \in Options /\ shocks \in ShockSet
    /\ spot \in Nat /\ toWad(spot) \in Nat
    /\ computePortfolioMargins.im
         = marginFromInputs(Linear, options, shocks, TRUE, toWad(spot))
    /\ computePortfolioMargins.mm
         = marginFromInputs(Linear, options, shocks, FALSE, toWad(spot))

LEMMA Answer == Books => Answers
<1> SUFFICES ASSUME Books PROVE Answers
    OBVIOUS
<1>1. Linear \in LinearAggregate
    BY ViewTypes, AggregateOf DEF Linear
<1>2. options \in Options /\ shocks \in ShockSet /\ spot \in Nat
    BY Inputs, Prices DEF Books, TypeOK
<1>3. toWad(spot) \in Nat
    BY <1>2, ToWadType
<1>4. computePortfolioMargins = marginsOf[Linear]
    BY DEF computePortfolioMargins, Linear, Views
<1> QED
    BY <1>1, <1>2, <1>3, <1>4 DEF marginsOf, Answers

LEMMA BooksKept == Books /\ [Next]_vars => Books'
<1> SUFFICES ASSUME Books, [Next]_vars
             PROVE  IsFiniteSet(resting')
    BY TypesKept DEF Books
<1>1. \/ UNCHANGED resting
      \/ \E o \in Order : resting' = resting \cup {o} \/ resting' = resting \ {o}
    BY DEF Next, Trade, Rest, Cancel, MakerFill, Deposit, Withdraw, setShocks, SpotMoves,
           OptionsMove, vars, book, Books, TypeOK
<1> QED
    BY <1>1, FS_AddElement, FS_RemoveElement DEF Books

\* Every state has books of the right types and finitely many resting orders: what
\* the sums of the engine range over.
THEOREM BooksHold == Spec => []Books
<1>1. Init => Books
    BY FS_EmptySet DEF Init, Books, TypeOK, Order
<1> QED
    BY <1>1, BooksKept, PTL DEF Spec

LEMMA ImAtLeastMmOfBooks == Books => ImAtLeastMm
<1> SUFFICES ASSUME Books, ShocksOrdered, options.gamma <= 0
             PROVE  computePortfolioMargins.im >= computePortfolioMargins.mm
    BY DEF ImAtLeastMm
<1>1. LossesCoverNet(Linear)
    BY ViewTypes, AggregateCovers DEF Linear
<1>2. shocks.mmSpot <= shocks.imSpot /\ shocks.mmVol <= shocks.imVol
    BY Answer DEF Answers, ShocksOrdered, ShockSet
<1>3. marginFromInputs(Linear, options, shocks, FALSE, toWad(spot))
        <= marginFromInputs(Linear, options, shocks, TRUE, toWad(spot))
    BY <1>1, <1>2, Answer, ImCoversMm DEF Answers
<1> QED
    BY <1>3, Answer DEF Answers

\* In every state the account can be in the initial requirement is at least the
\* maintenance requirement, as long as the owner keeps the shocks in order and the
\* options are not long gamma.
THEOREM ImIsAtLeastMm == Spec => []ImAtLeastMm
BY BooksHold, ImAtLeastMmOfBooks, PTL

--------------------------------------------------------------------------------
(* One market's report changes.                                            *)

\* Sums of reports that differ in market m only.
LEMMA SummedChange ==
    ASSUME NEW f, NEW e, NEW m \in Market,
           \A k \in Market : f[k] \in Int /\ e[k] \in Int,
           \A k \in Market \ {m} : e[k] = f[k]
    PROVE  Summed(e) = Summed(f) - f[m] + e[m]
BY SumOfChange, Markets DEF Summed

LEMMA AggregateChange ==
    ASSUME NEW view \in RiskViews, NEW after \in RiskViews, NEW m \in Market,
           \A k \in Market \ {m} : after[k] = view[k]
    PROVE  LET was == linearAggregate[view]
               is == linearAggregate[after]
           IN  /\ is.netDelta = was.netDelta - toWad(view[m].netPositionDelta)
                                  + toWad(after[m].netPositionDelta)
               /\ is.buyOrderDelta = was.buyOrderDelta - toWad(view[m].buyOrderDelta)
                                       + toWad(after[m].buyOrderDelta)
               /\ is.sellOrderDelta = was.sellOrderDelta - toWad(view[m].sellOrderDelta)
                                       + toWad(after[m].sellOrderDelta)
               /\ is.fillLoss = was.fillLoss - FillLosses(view)[m] + FillLosses(after)[m]
               /\ is.netUnrealizedPnl = was.netUnrealizedPnl - view[m].unrealizedPnl
                                          + after[m].unrealizedPnl
               /\ is.unrealizedLossPerMarket
                    = was.unrealizedLossPerMarket - NonNegative(-view[m].unrealizedPnl)
                        + NonNegative(-after[m].unrealizedPnl)
               /\ is.fundingOwed = was.fundingOwed - NonNegative(view[m].pendingFunding)
                                     + NonNegative(after[m].pendingFunding)
<1>1. ASSUME NEW k \in Market \ {m}
      PROVE  /\ NetDeltas(after)[k] = NetDeltas(view)[k]
             /\ BuyDeltas(after)[k] = BuyDeltas(view)[k]
             /\ SellDeltas(after)[k] = SellDeltas(view)[k]
             /\ FillLosses(after)[k] = FillLosses(view)[k]
             /\ Pnls(after)[k] = Pnls(view)[k]
             /\ Losses(after)[k] = Losses(view)[k]
             /\ Fundings(after)[k] = Fundings(view)[k]
    BY DEF NetDeltas, BuyDeltas, SellDeltas, FillLosses, Pnls, Losses, Fundings
<1>2. /\ Summed(NetDeltas(after)) = Summed(NetDeltas(view)) - NetDeltas(view)[m] + NetDeltas(after)[m]
      /\ Summed(BuyDeltas(after)) = Summed(BuyDeltas(view)) - BuyDeltas(view)[m] + BuyDeltas(after)[m]
      /\ Summed(SellDeltas(after)) = Summed(SellDeltas(view)) - SellDeltas(view)[m] + SellDeltas(after)[m]
      /\ Summed(FillLosses(after)) = Summed(FillLosses(view)) - FillLosses(view)[m] + FillLosses(after)[m]
    <2>1. Summed(NetDeltas(after)) = Summed(NetDeltas(view)) - NetDeltas(view)[m] + NetDeltas(after)[m]
        <3>1. \A k \in Market : NetDeltas(view)[k] \in Int /\ NetDeltas(after)[k] \in Int
            BY ReportTypes
        <3>2. \A k \in Market \ {m} : NetDeltas(after)[k] = NetDeltas(view)[k]
            BY <1>1
        <3> QED
            BY <3>1, <3>2, SummedChange
    <2>2. Summed(BuyDeltas(after)) = Summed(BuyDeltas(view)) - BuyDeltas(view)[m] + BuyDeltas(after)[m]
        <3>1. \A k \in Market : BuyDeltas(view)[k] \in Int /\ BuyDeltas(after)[k] \in Int
            BY ReportTypes
        <3>2. \A k \in Market \ {m} : BuyDeltas(after)[k] = BuyDeltas(view)[k]
            BY <1>1
        <3> QED
            BY <3>1, <3>2, SummedChange
    <2>3. Summed(SellDeltas(after)) = Summed(SellDeltas(view)) - SellDeltas(view)[m] + SellDeltas(after)[m]
        <3>1. \A k \in Market : SellDeltas(view)[k] \in Int /\ SellDeltas(after)[k] \in Int
            BY ReportTypes
        <3>2. \A k \in Market \ {m} : SellDeltas(after)[k] = SellDeltas(view)[k]
            BY <1>1
        <3> QED
            BY <3>1, <3>2, SummedChange
    <2>4. Summed(FillLosses(after)) = Summed(FillLosses(view)) - FillLosses(view)[m] + FillLosses(after)[m]
        <3>1. \A k \in Market : FillLosses(view)[k] \in Int /\ FillLosses(after)[k] \in Int
            BY ReportTypes
        <3>2. \A k \in Market \ {m} : FillLosses(after)[k] = FillLosses(view)[k]
            BY <1>1
        <3> QED
            BY <3>1, <3>2, SummedChange
    <2> QED
        BY <2>1, <2>2, <2>3, <2>4
<1>3. /\ Summed(Pnls(after)) = Summed(Pnls(view)) - Pnls(view)[m] + Pnls(after)[m]
      /\ Summed(Losses(after)) = Summed(Losses(view)) - Losses(view)[m] + Losses(after)[m]
      /\ Summed(Fundings(after)) = Summed(Fundings(view)) - Fundings(view)[m] + Fundings(after)[m]
    <2>1. Summed(Pnls(after)) = Summed(Pnls(view)) - Pnls(view)[m] + Pnls(after)[m]
        <3>1. \A k \in Market : Pnls(view)[k] \in Int /\ Pnls(after)[k] \in Int
            BY ReportTypes
        <3>2. \A k \in Market \ {m} : Pnls(after)[k] = Pnls(view)[k]
            BY <1>1
        <3> QED
            BY <3>1, <3>2, SummedChange
    <2>2. Summed(Losses(after)) = Summed(Losses(view)) - Losses(view)[m] + Losses(after)[m]
        <3>1. \A k \in Market : Losses(view)[k] \in Int /\ Losses(after)[k] \in Int
            BY ReportTypes
        <3>2. \A k \in Market \ {m} : Losses(after)[k] = Losses(view)[k]
            BY <1>1
        <3> QED
            BY <3>1, <3>2, SummedChange
    <2>3. Summed(Fundings(after)) = Summed(Fundings(view)) - Fundings(view)[m] + Fundings(after)[m]
        <3>1. \A k \in Market : Fundings(view)[k] \in Int /\ Fundings(after)[k] \in Int
            BY ReportTypes
        <3>2. \A k \in Market \ {m} : Fundings(after)[k] = Fundings(view)[k]
            BY <1>1
        <3> QED
            BY <3>1, <3>2, SummedChange
    <2> QED
        BY <2>1, <2>2, <2>3
<1>4. ASSUME NEW v \in RiskViews
      PROVE  /\ NetDeltas(v)[m] = toWad(v[m].netPositionDelta)
             /\ BuyDeltas(v)[m] = toWad(v[m].buyOrderDelta)
             /\ SellDeltas(v)[m] = toWad(v[m].sellOrderDelta)
             /\ Pnls(v)[m] = v[m].unrealizedPnl
             /\ Losses(v)[m] = NonNegative(-v[m].unrealizedPnl)
             /\ Fundings(v)[m] = NonNegative(v[m].pendingFunding)
    BY DEF NetDeltas, BuyDeltas, SellDeltas, Pnls, Losses, Fundings
<1> QED
    BY <1>2, <1>3, <1>4, AggregateOf

--------------------------------------------------------------------------------
(* An order leaves the book.                                               *)

LEMMA SideAfter ==
    ASSUME NEW o, resting' = resting \ {o}, NEW m, NEW side
    PROVE  Side(m, side)' = IF o.market = m /\ o.side = side
                            THEN Side(m, side) \ {o} ELSE Side(m, side)
BY DEF Side

\* The numbers behind Nets: when no loss nets with a gain, taking one order
\* away takes away what it alone would lose.
LEMMA NettingNothing ==
    ASSUME NEW S, IsFiniteSet(S), NEW o \in S, NEW f, \A x \in S : f[x] \in Int,
           NEW p, \A x \in S : p[x] = NonNegative(f[x]),
           NonNegative(SumFunctionOnSet(f, S)) = SumFunctionOnSet(p, S)
    PROVE  NonNegative(SumFunctionOnSet(f, S \ {o}))
              = NonNegative(SumFunctionOnSet(f, S)) - NonNegative(f[o])
<1> DEFINE R == S \ {o}
           A == SumFunctionOnSet(f, R)   B == SumFunctionOnSet(p, R)
           F == SumFunctionOnSet(f, S)   P == SumFunctionOnSet(p, S)
           zero == [x \in R |-> 0]
<1>1. \A x \in S : f[x] \in Int /\ p[x] \in Int /\ f[x] <= p[x] /\ 0 <= p[x]
    BY DEF NonNegative
<1>2. IsFiniteSet(R) /\ R \in SUBSET S /\ S \in SUBSET S
    BY FS_Subset
<1>3. A \in Int /\ B \in Int /\ F \in Int /\ P \in Int
    BY <1>1, <1>2, SumType
<1>4. F = f[o] + A /\ P = p[o] + B
    BY <1>1, SumOfElement
<1>5. A <= B
    BY <1>1, <1>2, SumMonotone
<1>6. 0 <= B
    <2>1. \A x \in R : zero[x] = 0 /\ zero[x] \in Int /\ zero[x] <= p[x]
        BY <1>1
    <2> HIDE DEF zero, R
    <2>2. SumFunctionOnSet(zero, R) = 0
        BY <1>2, <2>1, SumOfZeros
    <2>3. \A x \in R : p[x] \in Int
        BY <1>1, <1>2
    <2>4. SumFunctionOnSet(zero, R) <= B
        BY <1>2, <2>1, <2>3, SumMonotone
    <2> QED
        BY <2>2, <2>4
<1> HIDE DEF A, B, F, P
<1>7. NonNegative(F) = P /\ p[o] = NonNegative(f[o]) /\ f[o] \in Int /\ p[o] \in Int
    BY <1>1 DEF F, P
<1>8. NonNegative(A) = NonNegative(F) - NonNegative(f[o])
    BY <1>3, <1>4, <1>5, <1>6, <1>7 DEF NonNegative
<1> QED
    BY <1>8 DEF A, F

\* What the removal of an order changes in the reports.
LEMMA OrderLeaves ==
    ASSUME Books, Books', NEW o \in resting, resting' = resting \ {o}, UNCHANGED spot
    PROVE  /\ \A m \in Market, side \in {Buy, Sell} :
                ~(m = o.market /\ side = o.side) =>
                    /\ Lots(m, side)' = Lots(m, side)
                    /\ FillLoss(m, side)' = FillLoss(m, side)
           /\ Lots(o.market, o.side)' = Lots(o.market, o.side) - 1
           /\ ~Nets(o.market, o.side) =>
                 FillLoss(o.market, o.side)'
                    = FillLoss(o.market, o.side) - NonNegative(LossOf(o))
           /\ LossOf(o) >= 0 =>
                 FillLoss(o.market, o.side)' <= FillLoss(o.market, o.side)
<1>0. /\ o.market \in Market /\ o.side \in {Buy, Sell}
      /\ \A x : LossOf(x)' = LossOf(x)
    BY OrderTypes DEF LossOf
<1>1. ASSUME NEW m \in Market, NEW side \in {Buy, Sell},
             ~(m = o.market /\ side = o.side)
      PROVE  /\ Lots(m, side)' = Lots(m, side)
             /\ FillLoss(m, side)' = FillLoss(m, side)
    <2>1. Side(m, side)' = Side(m, side)
        BY <1>1, SideAfter
    <2>2. Lots(m, side)' = Lots(m, side)
        BY <2>1 DEF Lots
    <2>3. FillLoss(m, side)' = FillLoss(m, side)
        BY <2>1, <1>0 DEF FillLoss, SumOver, LossOf
    <2> QED
        BY <2>2, <2>3
<1> DEFINE m == o.market   side == o.side   S == Side(m, side)
           f == LossesOf(m, side)
<1>2. /\ IsFiniteSet(S) /\ o \in S
      /\ \A x \in S : f[x] = LossOf(x) /\ f[x] \in Int
    <2>1. o \in S
        BY DEF Side
    <2> QED
        BY <1>0, <2>1, SideTypes
<1>3. Side(m, side)' = S \ {o}
    BY SideAfter
<1>4. Lots(m, side)' = Lots(m, side) - 1
    BY <1>2, <1>3, FS_RemoveElement DEF Lots
<1>5. FillLoss(m, side) = NonNegative(SumFunctionOnSet(f, S))
    BY DEF FillLoss, SumOver, LossesOf
<1>6. FillLoss(m, side)' = NonNegative(SumFunctionOnSet(f, S \ {o}))
    <2> DEFINE e == [x \in S \ {o} |-> LossOf(x)]
    <2>1. FillLoss(m, side)' = NonNegative(SumFunctionOnSet(e, S \ {o}))
        BY <1>3 DEF FillLoss, SumOver, LossOf
    <2>2. /\ IsFiniteSet(S \ {o})
          /\ \A x \in S \ {o} : e[x] \in Int /\ e[x] = f[x]
        BY <1>2, FS_Subset
    <2> HIDE DEF e
    <2>3. SumFunctionOnSet(e, S \ {o}) = SumFunctionOnSet(f, S \ {o})
        BY <2>2, SumOfSame
    <2> QED
        BY <2>1, <2>3
<1>7. ASSUME ~Nets(m, side)
      PROVE  FillLoss(m, side)' = FillLoss(m, side) - NonNegative(LossOf(o))
    <2> DEFINE p == [x \in S |-> NonNegative(LossOf(x))]
    <2>1. FillLoss(m, side) = SumFunctionOnSet(p, S)
        BY <1>0, <1>7 DEF Nets, SumOver
    <2>2. \A x \in S : p[x] = NonNegative(f[x])
        BY <1>2
    <2> HIDE DEF p, S, f
    <2>3. NonNegative(SumFunctionOnSet(f, S)) = SumFunctionOnSet(p, S)
        BY <1>5, <2>1
    <2>4. \A x \in S : f[x] \in Int
        BY <1>2
    <2>5. NonNegative(SumFunctionOnSet(f, S \ {o}))
            = NonNegative(SumFunctionOnSet(f, S)) - NonNegative(f[o])
        BY <1>2, <2>2, <2>3, <2>4, NettingNothing
    <2> QED
        BY <1>2, <1>5, <1>6, <2>5
<1>8. ASSUME LossOf(o) >= 0
      PROVE  FillLoss(m, side)' <= FillLoss(m, side)
    <2> DEFINE whole == SumFunctionOnSet(f, S)   rest == SumFunctionOnSet(f, S \ {o})
    <2> HIDE DEF S, f
    <2>1. whole = f[o] + rest
        BY <1>2, SumOfElement
    <2>2. rest \in Int /\ whole \in Int
        BY <1>2, SumType, FS_Subset
    <2>3. f[o] = LossOf(o) /\ f[o] \in Int
        BY <1>2
    <2> HIDE DEF whole, rest
    <2>4. NonNegative(rest) <= NonNegative(whole)
        BY <1>8, <2>1, <2>2, <2>3 DEF NonNegative
    <2> QED
        BY <1>5, <1>6, <2>4 DEF whole, rest
<1> QED
    BY <1>1, <1>4, <1>7, <1>8

--------------------------------------------------------------------------------
(* What a fill takes from the balance, against what it frees.              *)

\* What signed division leaves is less than the divisor.
LEMMA QuotientRest ==
    ASSUME NEW n \in Int, NEW d \in Nat \ {0}
    PROVE  /\ Quotient(n, d) \in Int
           /\ n - d * Quotient(n, d) \in -(d - 1)..(d - 1)
<1>1. \A k \in Nat : k \div d \in Nat /\ k - d * (k \div d) \in 0..(d - 1)
    BY Z3
<1>2. CASE n >= 0
    BY <1>1, <1>2 DEF Quotient
<1>3. CASE n < 0
    <2> DEFINE k == -n   q == k \div d
    <2>1. k \in Nat
        BY <1>3
    <2>2. q \in Nat /\ k - d * q \in 0..(d - 1)
        BY <1>1, <2>1
    <2>3. Quotient(n, d) = -q /\ n = -k
        BY <1>3 DEF Quotient
    <2> HIDE DEF q, k
    <2>4. d * (-q) = -(d * q) /\ d * q \in Int
        BY <2>2, Z3
    <2>5. (-k) - d * (-q) = -(k - d * q)
        BY <2>1, <2>4
    <2> QED
        BY <2>1, <2>2, <2>3, <2>4, <2>5
<1> QED
    BY <1>2, <1>3

\* n lots that lost d each, up to the rest of a division: closing one of them
\* frees at least the d it realises.
LEMMA ClosingFrees ==
    ASSUME NEW n \in Nat \ {0}, NEW d \in Int, NEW r \in -(n - 1)..(n - 1)
    PROVE  NonNegative(n * d + r) >= NonNegative((n * d + r) - d) + d
<1>1. n * d \in Int
    BY Z3
<1>2. d >= 1 => n * d - d >= n - 1
    BY Z3
<1>3. d <= -1 => n * d <= -n
    BY Z3
<1>4. d = 0 => n * d = 0
    BY Z3
<1> QED
    BY <1>1, <1>2, <1>3, <1>4 DEF NonNegative

\* A lot that is bought or sold moves the balance by no less than it moves the loss
\* of its market, apart from what the order itself stood to lose.
LEMMA FillPaysForItself ==
    ASSUME Books, UNCHANGED spot,
           NEW m \in Market, NEW side \in {Buy, Sell}, NEW price \in Price,
           Filled(m, side, price)
    PROVE  /\ unrealizedPnl(m) \in Int /\ unrealizedPnl(m)' \in Int
           /\ balance' - balance
                 >= NonNegative(-unrealizedPnl(m)') - NonNegative(-unrealizedPnl(m))
                       - NonNegative(side * (price - spot))
<1> DEFINE closes == position[m] * side < 0
           share == Quotient(entry[m], Magnitude(position[m]))
           x == position[m]   e == entry[m]   s == spot
<1>1. /\ x \in Int /\ e \in Int /\ s \in Int /\ balance \in Int /\ price \in Int
      /\ side \in {1, -1}
      /\ position \in [Market -> Int] /\ entry \in [Market -> Int]
    BY Prices DEF Books, TypeOK, Buy, Sell
<1>2. position'[m] = x + side
    BY <1>1 DEF Filled
<1> DEFINE pnl == unrealizedPnl(m)   after == unrealizedPnl(m)'
           loss == side * (price - s)
<1>3. pnl = x * s - e /\ after = (x + side) * s - entry'[m]
    BY <1>2 DEF unrealizedPnl
<1>4. /\ x * s \in Int /\ (x + 1) * s = x * s + s /\ (x + (-1)) * s = x * s - s
    BY <1>1, Z3
<1>5. CASE ~closes
    <2>1. entry'[m] = e + side * price /\ balance' = balance
        BY <1>1, <1>5 DEF Filled
    <2>2. after = pnl - loss /\ pnl \in Int /\ loss \in Int
        BY <1>1, <1>3, <1>4, <2>1
    <2> HIDE DEF pnl, after, loss
    <2>3. balance' - balance >= NonNegative(-after) - NonNegative(-pnl) - NonNegative(loss)
        BY <1>1, <2>1, <2>2 DEF NonNegative
    <2> QED
        BY <2>2, <2>3 DEF pnl, after, loss
<1>6. CASE closes
    <2> DEFINE n == Magnitude(x)   q == share
               r == e - n * q
               realized == -side * price - q
    <2>1. /\ entry'[m] = e - q
          /\ balance' = NonNegative(balance + realized)
        BY <1>1, <1>6 DEF Filled
    <2>2. n \in Nat \ {0} /\ x = -side * n
        BY <1>1, <1>6 DEF Magnitude
    <2>3. q \in Int /\ r \in -(n - 1)..(n - 1)
        BY <1>1, <2>2, QuotientRest
    <2> HIDE DEF n, q
    <2>4. n * q \in Int /\ n * s \in Int /\ n * (q + s) = n * q + n * s
          /\ n * (q - s) = n * q - n * s /\ (-n) * s = -(n * s)
        BY <1>1, <2>2, <2>3, Z3
    <2> DEFINE D == IF side = 1 THEN q + s ELSE q - s
    <2>5. D \in Int /\ n * D \in Int
          /\ -pnl = n * D + r /\ -after = (n * D + r) - D
          /\ realized = -D - loss /\ loss \in Int /\ realized \in Int
        <3>1. CASE side = 1
            <4>1. x * s = -(n * s)
                BY <2>2, <2>4, <3>1
            <4> QED
                BY <1>1, <1>3, <1>4, <2>1, <2>3, <2>4, <3>1, <4>1
        <3>2. CASE side = -1
            <4>1. x * s = n * s
                BY <2>2, <2>4, <3>2
            <4> QED
                BY <1>1, <1>3, <1>4, <2>1, <2>3, <2>4, <3>2, <4>1
        <3> QED
            BY <1>1, <3>1, <3>2
    <2> HIDE DEF D, r, realized, loss, pnl, after
    <2>6. NonNegative(n * D + r) >= NonNegative((n * D + r) - D) + D
        BY <2>2, <2>3, <2>5, ClosingFrees
    <2>7. NonNegative(-pnl) >= NonNegative(-after) + D
        BY <2>5, <2>6
    <2>8. -pnl \in Int /\ -after \in Int /\ r \in Int
        BY <2>3, <2>5
    <2>9. balance' - balance >= NonNegative(-after) - NonNegative(-pnl) - NonNegative(loss)
        <3>1. balance' - balance >= realized
            BY <1>1, <2>1, <2>5 DEF NonNegative
        <3>2. NonNegative(loss) >= loss /\ NonNegative(loss) \in Int
              /\ NonNegative(-pnl) \in Int /\ NonNegative(-after) \in Int
              /\ balance' \in Int
            BY <1>1, <2>1, <2>5, <2>8 DEF NonNegative
        <3> DEFINE A == NonNegative(-after)   P == NonNegative(-pnl)
                   L == NonNegative(loss)   gain == balance' - balance
        <3>3. gain >= realized /\ gain \in Int
            BY <1>1, <3>1, <3>2
        <3>4. L >= loss /\ L \in Int /\ P \in Int /\ A \in Int
            BY <3>2
        <3>5. P >= A + D
            BY <2>7
        <3>6. /\ realized = -D - loss
              /\ D \in Int /\ realized \in Int /\ loss \in Int
            BY <2>5
        <3> HIDE DEF A, P, L, gain
        <3>7. gain >= A - P - L
            BY <3>3, <3>4, <3>5, <3>6
        <3> QED
            BY <3>7 DEF A, P, L, gain
    <2>10. after \in Int /\ pnl \in Int
        BY <1>1, <1>2, <1>3, <1>4, <2>1, <2>3 DEF pnl, after
    <2> QED
        BY <2>9, <2>10 DEF pnl, after, loss
<1> QED
    BY <1>5, <1>6

--------------------------------------------------------------------------------
(* Margins of two aggregates under the same shocks.                        *)

LEMMA WorstType ==
    ASSUME NEW linear \in LinearAggregate, NEW greeks \in Options, NEW shock \in Shock,
           NEW spotPrice \in Nat
    PROVE  worstFillLoss(linear, greeks, shock, spotPrice) \in Nat
<1> DEFINE n == linear.netDelta + greeks.delta
           high == n + linear.buyOrderDelta
           low == n - linear.sellOrderDelta
           Loss(x) == worstStressLoss(x, greeks, shock, spotPrice)
<1>1. high \in Int /\ low \in Int
    BY DEF LinearAggregate, Options
<1>2. worstFillLoss(linear, greeks, shock, spotPrice) = Larger(Loss(high), Loss(low))
    BY DEF worstFillLoss
<1> HIDE DEF high, low
<1>3. Loss(high) \in Nat /\ Loss(low) \in Nat
    <2>1. \A x \in Int : Magnitude(x) <= Magnitude(x)
        BY DEF Magnitude
    <2> QED
        BY <1>1, <2>1, StressMonotone
<1> HIDE DEF Loss
<1> QED
    BY <1>2, <1>3 DEF Larger

ShockTypes == \A levels \in ShockSet, isIM \in BOOLEAN : ShockOf(levels, isIM) \in Shock

LEMMA ShocksAreShocks == ShockTypes
BY DEF ShockTypes, ShockOf, Shock, ShockSet

\* A margin in its four parts, each of them natural.
LEMMA MarginParts ==
    ASSUME NEW linear \in LinearAggregate, NEW greeks \in Options, NEW levels \in ShockSet,
           NEW isIM \in BOOLEAN, NEW spotPrice \in Nat
    PROVE  LET worst == fromWad(worstFillLoss(linear, greeks, ShockOf(levels, isIM), spotPrice))
           IN  /\ worst \in Nat /\ pnlTerm(linear, isIM) \in Nat
               /\ linear.fillLoss \in Nat /\ linear.fundingOwed \in Nat
               /\ greeks.reserved \in Nat
               /\ marginFromInputs(linear, greeks, levels, isIM, spotPrice)
                    = worst + linear.fillLoss + greeks.reserved + pnlTerm(linear, isIM)
                        + linear.fundingOwed
               /\ marginFromInputs(linear, greeks, levels, isIM, spotPrice) \in Nat
<1> DEFINE w == worstFillLoss(linear, greeks, ShockOf(levels, isIM), spotPrice)
<1>1. w \in Nat
    BY WorstType, ShocksAreShocks DEF ShockTypes
<1>2. marginFromInputs(linear, greeks, levels, isIM, spotPrice)
        = fromWad(w) + linear.fillLoss + greeks.reserved + pnlTerm(linear, isIM)
            + linear.fundingOwed
    BY DEF marginFromInputs
<1> HIDE DEF w
<1>3. fromWad(w) \in Nat
    BY <1>1, Scales, DivMonotone DEF fromWad
<1>4. pnlTerm(linear, isIM) \in Nat
    BY DEF pnlTerm, LinearAggregate, NonNegative
<1>5. linear.fillLoss \in Nat /\ linear.fundingOwed \in Nat /\ greeks.reserved \in Nat
    BY DEF LinearAggregate, Options
<1>6. marginFromInputs(linear, greeks, levels, isIM, spotPrice) \in Nat
    BY <1>2, <1>3, <1>4, <1>5
<1> QED
    BY <1>2, <1>3, <1>4, <1>5, <1>6 DEF w

\* If the stress does not grow, the margin grows by no more than its other parts.
LEMMA MarginGrowth ==
    ASSUME NEW was \in LinearAggregate, NEW is \in LinearAggregate,
           NEW greeks \in Options, NEW levels \in ShockSet,
           NEW isIM \in BOOLEAN, NEW spotPrice \in Nat,
           worstFillLoss(is, greeks, ShockOf(levels, isIM), spotPrice)
              <= worstFillLoss(was, greeks, ShockOf(levels, isIM), spotPrice),
           is.fundingOwed = was.fundingOwed
    PROVE  marginFromInputs(is, greeks, levels, isIM, spotPrice)
              - marginFromInputs(was, greeks, levels, isIM, spotPrice)
             <= (is.fillLoss - was.fillLoss) + (pnlTerm(is, isIM) - pnlTerm(was, isIM))
<1> DEFINE w == worstFillLoss(was, greeks, ShockOf(levels, isIM), spotPrice)
           v == worstFillLoss(is, greeks, ShockOf(levels, isIM), spotPrice)
<1>1. w \in Nat /\ v \in Nat /\ v <= w
    BY WorstType, ShocksAreShocks DEF ShockTypes
<1> HIDE DEF w, v
<1>2. fromWad(v) <= fromWad(w)
    BY <1>1, Scales, DivMonotone DEF fromWad
<1> DEFINE a == fromWad(w)   b == fromWad(v)
           p == pnlTerm(was, isIM)   q == pnlTerm(is, isIM)
           c == was.fillLoss   d == is.fillLoss   f == was.fundingOwed
           g == greeks.reserved
           m == marginFromInputs(was, greeks, levels, isIM, spotPrice)
           n == marginFromInputs(is, greeks, levels, isIM, spotPrice)
<1>3. /\ a \in Nat /\ p \in Nat /\ c \in Nat /\ f \in Nat /\ g \in Nat
      /\ m = a + c + g + p + f
    BY MarginParts DEF w
<1>4. /\ b \in Nat /\ q \in Nat /\ d \in Nat
      /\ n = b + d + g + q + f
    BY MarginParts DEF v
<1>5. b <= a
    BY <1>2
<1> HIDE DEF a, b, p, q, c, d, f, g, m, n
<1>6. n - m <= (d - c) + (q - p)
    BY <1>3, <1>4, <1>5
<1> QED
    BY <1>6 DEF m, n, c, d, p, q

--------------------------------------------------------------------------------
(* A resting order is filled.                                              *)

LEMMA UnitsAdd ==
    ASSUME NEW n \in Int
    PROVE  /\ toWad(n * Unit) \in Int
           /\ toWad((n + 1) * Unit) = toWad(n * Unit) + toWad(Unit)
           /\ toWad((n - 1) * Unit) = toWad(n * Unit) - toWad(Unit)
<1>1. Unit \in Nat /\ LIFT \in Nat
    BY UnitIsWhole, Scales
<1>2. n * Unit \in Int /\ (n + 1) * Unit = n * Unit + Unit /\ (n - 1) * Unit = n * Unit - Unit
    BY <1>1, Z3
<1>3. ASSUME NEW a \in Int, NEW b \in Int
      PROVE  /\ a * LIFT \in Int
             /\ (a + b) * LIFT = a * LIFT + b * LIFT /\ (a - b) * LIFT = a * LIFT - b * LIFT
    BY <1>1, Z3
<1> QED
    BY <1>1, <1>2, <1>3 DEF toWad

LEMMA OtherViews ==
    ASSUME Books, Books', NEW o \in resting, resting' = resting \ {o}, UNCHANGED spot,
           NEW m \in Market, m # o.market,
           position'[m] = position[m], entry'[m] = entry[m]
    PROVE  Views'[m] = Views[m]
<1>1. \A side \in {Buy, Sell} : /\ Lots(m, side)' = Lots(m, side)
                                /\ FillLoss(m, side)' = FillLoss(m, side)
    BY OrderLeaves
<1> QED
    BY <1>1 DEF Views, getRiskView, unrealizedPnl

\* The same of the state after a step.
LEMMA ViewsFollow == Books => Views \in RiskViews
BY ViewTypes

LEMMA ViewTypesAfter == Books' => (Views \in RiskViews)'
BY ViewsFollow, PTL

LEMMA SideTypesAfter ==
    ASSUME Books', NEW m \in Market, NEW side \in {Buy, Sell}
    PROVE  FillLoss(m, side)' \in Nat
<1>1. Views'[m] \in RiskView
    BY ViewTypesAfter DEF RiskViews
<1>2. Views'[m].buyOrderFillLoss \in Nat /\ Views'[m].sellOrderFillLoss \in Nat
    BY <1>1 DEF RiskView
<1>3. /\ Views'[m].buyOrderFillLoss = FillLoss(m, Buy)'
      /\ Views'[m].sellOrderFillLoss = FillLoss(m, Sell)'
    BY DEF Views, getRiskView
<1> QED
    BY <1>2, <1>3

\* What the account's aggregate loses when a resting order leaves and, if the order
\* is filled, the lot it adds to the position.
LEMMA AggregateAfter ==
    ASSUME Books, Books', NEW o \in resting, resting' = resting \ {o}, UNCHANGED spot,
           NEW lot \in {-1, 0, 1},
           position'[o.market] = position[o.market] + lot,
           \A m \in Market \ {o.market} :
               position'[m] = position[m] /\ entry'[m] = entry[m]
    PROVE  LET pnl == unrealizedPnl(o.market)
               bought == IF o.side = Buy THEN toWad(Unit) ELSE 0
               sold == IF o.side = Sell THEN toWad(Unit) ELSE 0
               moved == IF lot = 0 THEN 0
                        ELSE IF lot = 1 THEN toWad(Unit) ELSE -toWad(Unit)
               freed == FillLoss(o.market, o.side) - FillLoss(o.market, o.side)'
           IN  /\ Linear' \in LinearAggregate
               /\ Linear'.netDelta = Linear.netDelta + moved
               /\ Linear'.buyOrderDelta = Linear.buyOrderDelta - bought
               /\ Linear'.sellOrderDelta = Linear.sellOrderDelta - sold
               /\ Linear'.fillLoss = Linear.fillLoss - freed
               /\ Linear'.netUnrealizedPnl = Linear.netUnrealizedPnl - pnl + pnl'
               /\ Linear'.unrealizedLossPerMarket
                    = Linear.unrealizedLossPerMarket - NonNegative(-pnl) + NonNegative(-pnl')
               /\ Linear'.fundingOwed = Linear.fundingOwed
<1> DEFINE m == o.market   view == Views[m]   after == Views'[m]
           u == toWad(Unit)
<1>1. m \in Market /\ o.side \in {Buy, Sell} /\ Buy # Sell /\ LossOf(o) \in Int
    BY OrderTypes DEF Buy, Sell
<1>2. Views \in RiskViews /\ Views' \in RiskViews
    BY ViewTypes, ViewTypesAfter
<1>3. \A k \in Market \ {m} : Views'[k] = Views[k]
    BY OtherViews
<1>4. /\ Linear'.netDelta = Linear.netDelta - toWad(view.netPositionDelta)
                              + toWad(after.netPositionDelta)
      /\ Linear'.buyOrderDelta = Linear.buyOrderDelta - toWad(view.buyOrderDelta)
                                   + toWad(after.buyOrderDelta)
      /\ Linear'.sellOrderDelta = Linear.sellOrderDelta - toWad(view.sellOrderDelta)
                                   + toWad(after.sellOrderDelta)
      /\ Linear'.fillLoss = Linear.fillLoss - FillLosses(Views)[m] + FillLosses(Views')[m]
      /\ Linear'.netUnrealizedPnl = Linear.netUnrealizedPnl - view.unrealizedPnl
                                      + after.unrealizedPnl
      /\ Linear'.unrealizedLossPerMarket
            = Linear.unrealizedLossPerMarket - NonNegative(-view.unrealizedPnl)
                + NonNegative(-after.unrealizedPnl)
      /\ Linear'.fundingOwed = Linear.fundingOwed - NonNegative(view.pendingFunding)
                                 + NonNegative(after.pendingFunding)
    BY <1>1, <1>2, <1>3, AggregateChange DEF Linear
<1>5. Linear \in LinearAggregate /\ Linear' \in LinearAggregate
    BY <1>2, AggregateOf DEF Linear
<1>6. /\ view.netPositionDelta = position[m] * Unit
      /\ view.unrealizedPnl = unrealizedPnl(m) /\ view.pendingFunding = 0
      /\ view.buyOrderDelta = Lots(m, Buy) * Unit
      /\ view.sellOrderDelta = Lots(m, Sell) * Unit
      /\ view.buyOrderFillLoss = FillLoss(m, Buy)
      /\ view.sellOrderFillLoss = FillLoss(m, Sell)
    BY <1>1 DEF Views, getRiskView
<1>7. /\ after.netPositionDelta = position'[m] * Unit
      /\ after.unrealizedPnl = unrealizedPnl(m)' /\ after.pendingFunding = 0
      /\ after.buyOrderDelta = Lots(m, Buy)' * Unit
      /\ after.sellOrderDelta = Lots(m, Sell)' * Unit
      /\ after.buyOrderFillLoss = FillLoss(m, Buy)'
      /\ after.sellOrderFillLoss = FillLoss(m, Sell)'
    BY <1>1 DEF Views, getRiskView
<1>8. /\ Lots(m, Buy) \in Int /\ Lots(m, Sell) \in Int
      /\ FillLoss(m, Buy) \in Int /\ FillLoss(m, Sell) \in Int
      /\ position[m] \in Int /\ u \in Int
    BY <1>1, SideTypes, UnitIsWhole DEF Books, TypeOK
<1> DEFINE bought == IF o.side = Buy THEN u ELSE 0
           sold == IF o.side = Sell THEN u ELSE 0
           moved == IF lot = 0 THEN 0 ELSE IF lot = 1 THEN u ELSE -u
           freed == FillLoss(m, o.side) - FillLoss(m, o.side)'
<1>9. toWad(after.netPositionDelta) = toWad(view.netPositionDelta) + moved
    <2>1. CASE lot = 0
        BY <1>6, <1>7, <1>8, <2>1, UnitsAdd
    <2>2. CASE lot = 1
        BY <1>6, <1>7, <1>8, <2>2, UnitsAdd
    <2>3. CASE lot = -1
        <3>1. position'[m] = position[m] - 1
            BY <1>8, <2>3
        <3> QED
            BY <1>6, <1>7, <1>8, <2>3, <3>1, UnitsAdd
    <2> QED
        BY <2>1, <2>2, <2>3
<1>10. /\ toWad(after.buyOrderDelta) = toWad(view.buyOrderDelta) - bought
       /\ toWad(after.sellOrderDelta) = toWad(view.sellOrderDelta) - sold
       /\ FillLosses(Views')[m] = FillLosses(Views)[m] - freed
    <2>1. /\ FillLosses(Views')[m] = after.buyOrderFillLoss + after.sellOrderFillLoss
          /\ FillLosses(Views)[m] = view.buyOrderFillLoss + view.sellOrderFillLoss
        BY <1>1 DEF FillLosses
    <2>2. FillLoss(m, Buy)' \in Int /\ FillLoss(m, Sell)' \in Int
        BY <1>1, SideTypesAfter
    <2>3. CASE o.side = Buy
        <3>1. /\ Lots(m, Buy)' = Lots(m, Buy) - 1 /\ Lots(m, Sell)' = Lots(m, Sell)
              /\ FillLoss(m, Sell)' = FillLoss(m, Sell)
            BY <1>1, <2>3, OrderLeaves
        <3> QED
            BY <1>1, <1>6, <1>7, <1>8, <2>1, <2>2, <2>3, <3>1, UnitsAdd
    <2>4. CASE o.side = Sell
        <3>1. /\ Lots(m, Sell)' = Lots(m, Sell) - 1 /\ Lots(m, Buy)' = Lots(m, Buy)
              /\ FillLoss(m, Buy)' = FillLoss(m, Buy)
            BY <1>1, <2>4, OrderLeaves
        <3> QED
            BY <1>1, <1>6, <1>7, <1>8, <2>1, <2>2, <2>4, <3>1, UnitsAdd
    <2> QED
        BY <1>1, <2>3, <2>4
<1>11. /\ toWad(view.netPositionDelta) \in Int /\ toWad(view.buyOrderDelta) \in Int
       /\ toWad(view.sellOrderDelta) \in Int /\ FillLosses(Views)[m] \in Int
       /\ moved \in Int /\ bought \in Int /\ sold \in Int
       /\ freed \in Int
    BY <1>1, <1>2, <1>8, ViewFields, ToWadType, ReportTypes, SideTypesAfter
<1>12. /\ Linear.netDelta \in Int /\ Linear.buyOrderDelta \in Int
       /\ Linear.sellOrderDelta \in Int /\ Linear.fillLoss \in Int
       /\ Linear.fundingOwed \in Int
    BY <1>5 DEF LinearAggregate
<1> HIDE DEF view, after, u, moved, bought, sold, freed
<1>13. /\ Linear'.netDelta = Linear.netDelta + moved
       /\ Linear'.buyOrderDelta = Linear.buyOrderDelta - bought
       /\ Linear'.sellOrderDelta = Linear.sellOrderDelta - sold
       /\ Linear'.fillLoss = Linear.fillLoss - freed
    BY <1>4, <1>9, <1>10, <1>11, <1>12
<1>14. Linear'.fundingOwed = Linear.fundingOwed
    BY <1>4, <1>6, <1>7, <1>12 DEF NonNegative
<1> QED
    BY <1>4, <1>5, <1>6, <1>7, <1>13, <1>14 DEF moved, bought, sold, freed, u


LEMMA AnswerAfter == Books' => Answers'
BY Answer, PTL

LEMMA ImAtLeastMmAfter == Books' => ImAtLeastMm'
BY ImAtLeastMmOfBooks, PTL

\* Filling a resting order does not raise the stress.
LEMMA FillStress ==
    ASSUME NEW was \in LinearAggregate, NEW is \in LinearAggregate,
           NEW greeks \in Options, NEW shock \in Shock, NEW spotPrice \in Nat,
           NEW bought \in Nat, NEW sold \in Nat,
           is.netDelta = was.netDelta + bought - sold,
           is.buyOrderDelta = was.buyOrderDelta - bought,
           is.sellOrderDelta = was.sellOrderDelta - sold
    PROVE  worstFillLoss(is, greeks, shock, spotPrice)
              <= worstFillLoss(was, greeks, shock, spotPrice)
<1> DEFINE after == AfterFills(was, bought, sold)
<1>1. bought <= was.buyOrderDelta /\ sold <= was.sellOrderDelta
    BY DEF LinearAggregate
<1>2. /\ after.netDelta = was.netDelta + bought - sold
      /\ after.buyOrderDelta = was.buyOrderDelta - bought
      /\ after.sellOrderDelta = was.sellOrderDelta - sold
    BY DEF AfterFills, LinearAggregate
<1>3. worstFillLoss(after, greeks, shock, spotPrice)
        <= worstFillLoss(was, greeks, shock, spotPrice)
    BY <1>1, FillsNeverRaiseStress
<1> HIDE DEF after
<1>4. worstFillLoss(is, greeks, shock, spotPrice)
        = worstFillLoss(after, greeks, shock, spotPrice)
    BY <1>2 DEF worstFillLoss
<1> QED
    BY <1>3, <1>4

\* Taking a resting order away does not raise it either: what is left of the legs
\* lies between what they were.
LEMMA CancelStress ==
    ASSUME NEW was \in LinearAggregate, NEW is \in LinearAggregate,
           NEW greeks \in Options, NEW shock \in Shock, NEW spotPrice \in Nat,
           is.netDelta = was.netDelta,
           is.buyOrderDelta <= was.buyOrderDelta,
           is.sellOrderDelta <= was.sellOrderDelta
    PROVE  worstFillLoss(is, greeks, shock, spotPrice)
              <= worstFillLoss(was, greeks, shock, spotPrice)
<1> DEFINE Loss(x) == worstStressLoss(x, greeks, shock, spotPrice)
           n == was.netDelta + greeks.delta
           high == n + was.buyOrderDelta   low == n - was.sellOrderDelta
           high2 == n + is.buyOrderDelta   low2 == n - is.sellOrderDelta
<1>1. /\ low \in Int /\ high \in Int /\ low2 \in Int /\ high2 \in Int
      /\ low <= low2 /\ low2 <= high /\ low <= high2 /\ high2 <= high
    BY DEF LinearAggregate, Options
<1>2. /\ worstFillLoss(was, greeks, shock, spotPrice) = Larger(Loss(high), Loss(low))
      /\ worstFillLoss(is, greeks, shock, spotPrice) = Larger(Loss(high2), Loss(low2))
    BY DEF worstFillLoss
<1> HIDE DEF n, high, low, high2, low2
<1>3. /\ Loss(high2) <= Larger(Loss(high), Loss(low))
      /\ Loss(low2) <= Larger(Loss(high), Loss(low))
    BY <1>1, LegsBoundStress
<1> HIDE DEF Loss
<1>4. Larger(Loss(high2), Loss(low2)) <= Larger(Loss(high), Loss(low))
    BY <1>3 DEF Larger
<1> QED
    BY <1>2, <1>4

LEMMA MarginNat ==
    ASSUME NEW linear \in LinearAggregate, NEW greeks \in Options, NEW levels \in ShockSet,
           NEW spotPrice \in Nat
    PROVE  /\ marginFromInputs(linear, greeks, levels, TRUE, spotPrice) \in Nat
           /\ marginFromInputs(linear, greeks, levels, FALSE, spotPrice) \in Nat
<1>1. TRUE \in BOOLEAN /\ FALSE \in BOOLEAN
    OBVIOUS
<1> QED
    BY <1>1, MarginParts

\* The two ways an order leaves the book, as the engine's answers see them.
LEMMA FillStep ==
    ASSUME Books, Books', NEW o \in resting, MakerFill(o), ~Nets(o.market, o.side)
    PROVE  balance' - computePortfolioMargins'.im >= balance - computePortfolioMargins.im
<1> DEFINE m == o.market   pnl == unrealizedPnl(m)   after == unrealizedPnl(m)'
           u == toWad(Unit)
           bought == IF o.side = Buy THEN u ELSE 0
           sold == IF o.side = Sell THEN u ELSE 0
           loss == NonNegative(LossOf(o))
<1>1. /\ m \in Market /\ o.side \in {Buy, Sell} /\ o.limit \in Price /\ LossOf(o) \in Int
    BY OrderTypes
<1>2. /\ resting' = resting \ {o} /\ Filled(m, o.side, o.limit)
      /\ UNCHANGED <<spot, shocks, options>>
    BY DEF MakerFill, market
<1>3. /\ position'[m] = position[m] + o.side
      /\ \A k \in Market \ {m} : position'[k] = position[k] /\ entry'[k] = entry[k]
    BY <1>1, <1>2 DEF Filled, Books, TypeOK
<1>4. /\ pnl \in Int /\ after \in Int
      /\ balance' - balance >= NonNegative(-after) - NonNegative(-pnl) - loss
    BY <1>1, <1>2, FillPaysForItself DEF LossOf
<1>5. /\ Linear' \in LinearAggregate
      /\ Linear'.netDelta = Linear.netDelta + bought - sold
      /\ Linear'.buyOrderDelta = Linear.buyOrderDelta - bought
      /\ Linear'.sellOrderDelta = Linear.sellOrderDelta - sold
      /\ Linear'.fillLoss = Linear.fillLoss - loss
      /\ Linear'.unrealizedLossPerMarket
            = Linear.unrealizedLossPerMarket - NonNegative(-pnl) + NonNegative(-after)
      /\ Linear'.fundingOwed = Linear.fundingOwed
    <2>1. u \in Int /\ Linear.netDelta \in Int
        BY UnitIsWhole, Answer DEF Answers, LinearAggregate
    <2>4. FillLoss(m, o.side) - FillLoss(m, o.side)' = loss
        <3>1. FillLoss(m, o.side)' = FillLoss(m, o.side) - loss
            BY <1>2, OrderLeaves
        <3>2. FillLoss(m, o.side) \in Int /\ loss \in Int
            BY <1>1, SideTypes DEF NonNegative
        <3> HIDE DEF loss
        <3> QED
            BY <3>1, <3>2
    <2>2. CASE o.side = Buy
        <3>1. o.side = 1 /\ 1 \in {-1, 0, 1} /\ o.side # Sell
            BY <2>2 DEF Buy, Sell
        <3>2. Linear'.netDelta = Linear.netDelta + u
            BY <1>1, <1>2, <1>3, <3>1, AggregateAfter
        <3> QED
            BY <1>1, <1>2, <1>3, <2>1, <2>2, <2>4, <3>1, <3>2, AggregateAfter
    <2>3. CASE o.side = Sell
        <3>1. o.side = -1 /\ -1 \in {-1, 0, 1} /\ o.side # Buy
            BY <2>3 DEF Buy, Sell
        <3>2. Linear'.netDelta = Linear.netDelta + (-u)
            BY <1>1, <1>2, <1>3, <3>1, AggregateAfter
        <3> QED
            BY <1>1, <1>2, <1>3, <2>1, <2>3, <2>4, <3>1, <3>2, AggregateAfter
    <2> QED
        BY <1>1, <2>2, <2>3
<1> HIDE DEF pnl, after, loss
<1>6. bought \in Nat /\ sold \in Nat
    BY UnitIsWhole
<1>7. /\ Linear \in LinearAggregate /\ options \in Options /\ shocks \in ShockSet
      /\ toWad(spot) \in Nat
      /\ computePortfolioMargins.im
           = marginFromInputs(Linear, options, shocks, TRUE, toWad(spot))
      /\ computePortfolioMargins'.im
           = marginFromInputs(Linear', options, shocks, TRUE, toWad(spot))
    BY <1>2, Answer, AnswerAfter DEF Answers
<1>8. worstFillLoss(Linear', options, ShockOf(shocks, TRUE), toWad(spot))
        <= worstFillLoss(Linear, options, ShockOf(shocks, TRUE), toWad(spot))
    BY <1>5, <1>6, <1>7, FillStress, ShocksAreShocks DEF ShockTypes
<1> DEFINE im == marginFromInputs(Linear, options, shocks, TRUE, toWad(spot))
           new == marginFromInputs(Linear', options, shocks, TRUE, toWad(spot))
<1>9. new - im <= (Linear'.fillLoss - Linear.fillLoss)
                     + (pnlTerm(Linear', TRUE) - pnlTerm(Linear, TRUE))
    BY <1>5, <1>7, <1>8, MarginGrowth
<1>10. /\ pnlTerm(Linear', TRUE) = Linear'.unrealizedLossPerMarket
       /\ pnlTerm(Linear, TRUE) = Linear.unrealizedLossPerMarket
    BY DEF pnlTerm
<1>11. new \in Int /\ im \in Int
    <2>1. new \in Nat
        BY <1>5, <1>7, MarginNat
    <2>2. im \in Nat
        BY <1>7, MarginNat
    <2> HIDE DEF new, im
    <2> QED
        BY <2>1, <2>2
<1> DEFINE fl == Linear.fillLoss   fl2 == Linear'.fillLoss
           ul == Linear.unrealizedLossPerMarket   ul2 == Linear'.unrealizedLossPerMarket
           p == NonNegative(-pnl)   q == NonNegative(-after)   b == balance   c == balance'
<1>12. fl \in Int /\ ul \in Int /\ b \in Int /\ c \in Int
    BY <1>7 DEF LinearAggregate, Books, TypeOK
<1>13. loss \in Int /\ p \in Int /\ q \in Int
    BY <1>1, <1>4 DEF NonNegative, loss
<1>14. fl2 = fl - loss /\ ul2 = ul - p + q
    BY <1>5
<1>15. new - im <= (fl2 - fl) + (ul2 - ul)
    BY <1>9, <1>10
<1>16. c - b >= q - p - loss
    BY <1>4
<1>17. balance' - computePortfolioMargins'.im = c - new
       /\ balance - computePortfolioMargins.im = b - im
    BY <1>7
<1> HIDE DEF im, new, fl, fl2, ul, ul2, p, q, b, c
<1>18. c - new >= b - im
    BY <1>11, <1>12, <1>13, <1>14, <1>15, <1>16
<1> QED
    BY <1>17, <1>18

\* What an order costs when it is filled was reserved while it rested: on every
\* portfolio, whatever the fill closes, its rounding included, and unless the gain
\* of another order of its side hides its loss, the balance falls by no more than
\* the initial requirement does.
THEOREM FillsAreReserved == Spec => FillIsReserved
<1> DEFINE Reserved ==
        \A o \in resting :
            MakerFill(o) /\ ~Nets(o.market, o.side) =>
                balance' - computePortfolioMargins'.im
                  >= balance - computePortfolioMargins.im
<1>1. Books /\ Books' => Reserved
    BY FillStep
<1> HIDE DEF Reserved
<1>2. Books /\ Books' => [Reserved]_vars
    BY <1>1
<1>3. Spec => [][Reserved]_vars
    BY <1>2, BooksHold, PTL
<1> QED
    BY <1>3 DEF FillIsReserved, Reserved

\* Nothing the engine answers is negative.
AnswersNat == computePortfolioMargins.im \in Nat /\ computePortfolioMargins.mm \in Nat

LEMMA AnswerNat == Books => AnswersNat
<1> SUFFICES ASSUME Books PROVE AnswersNat
    OBVIOUS
<1> DEFINE im == computePortfolioMargins.im   mm == computePortfolioMargins.mm
<1>1. im \in Nat
    BY Answer, MarginNat DEF Answers
<1>2. mm \in Nat
    BY Answer, MarginNat DEF Answers
<1> QED
    BY <1>1, <1>2 DEF AnswersNat

LEMMA AnswerNatAfter == Books' => AnswersNat'
BY AnswerNat, PTL

LEMMA CancelStep ==
    ASSUME Books, Books', NEW o \in resting, Cancel(o), ~HidesALoss(o)
    PROVE  computePortfolioMargins'.mm <= computePortfolioMargins.mm
<1> DEFINE m == o.market
<1>1. /\ resting' = resting \ {o}
      /\ UNCHANGED <<position, entry, spot, shocks, options>>
    BY DEF Cancel, market
<1>2. /\ m \in Market /\ LossOf(o) \in Int /\ 0 \in {-1, 0, 1}
      /\ position[m] \in Int /\ unrealizedPnl(m)' = unrealizedPnl(m)
    BY <1>1, OrderTypes DEF Books, TypeOK, unrealizedPnl
<1>3. unrealizedPnl(m) \in Int
    <2>1. position[m] \in Int /\ entry[m] \in Int /\ spot \in Int
        BY <1>2, Prices DEF Books, TypeOK
    <2> QED
        BY <2>1, Z3 DEF unrealizedPnl
<1>4. /\ Linear \in LinearAggregate /\ options \in Options /\ shocks \in ShockSet
      /\ toWad(spot) \in Nat
      /\ computePortfolioMargins.mm
           = marginFromInputs(Linear, options, shocks, FALSE, toWad(spot))
      /\ computePortfolioMargins'.mm
           = marginFromInputs(Linear', options, shocks, FALSE, toWad(spot))
    BY <1>1, Answer, AnswerAfter DEF Answers
<1>5. /\ Linear.netDelta \in Int /\ Linear.buyOrderDelta \in Int
      /\ Linear.sellOrderDelta \in Int /\ Linear.fillLoss \in Int
      /\ Linear.netUnrealizedPnl \in Int
      /\ toWad(Unit) \in Nat
    BY <1>4, UnitIsWhole DEF LinearAggregate
<1>6. /\ Linear' \in LinearAggregate
      /\ Linear'.netDelta = Linear.netDelta
      /\ Linear'.buyOrderDelta <= Linear.buyOrderDelta
      /\ Linear'.sellOrderDelta <= Linear.sellOrderDelta
      /\ Linear'.fillLoss <= Linear.fillLoss
      /\ Linear'.netUnrealizedPnl = Linear.netUnrealizedPnl
      /\ Linear'.fundingOwed = Linear.fundingOwed
    <2>1. position'[m] = position[m] + 0
          /\ \A k \in Market \ {m} : position'[k] = position[k] /\ entry'[k] = entry[k]
        BY <1>1, <1>2
    <2>2. Linear' \in LinearAggregate
        BY <1>1, <1>2, <2>1, AggregateAfter
    <2>3. Linear'.netDelta = Linear.netDelta + 0
          /\ Linear'.fundingOwed = Linear.fundingOwed
        BY <1>1, <1>2, <2>1, AggregateAfter
    <2>4. /\ Linear'.buyOrderDelta
                = Linear.buyOrderDelta - (IF o.side = Buy THEN toWad(Unit) ELSE 0)
          /\ Linear'.sellOrderDelta
                = Linear.sellOrderDelta - (IF o.side = Sell THEN toWad(Unit) ELSE 0)
        BY <1>1, <1>2, <2>1, AggregateAfter
    <2>5. Linear'.fillLoss <= Linear.fillLoss
        <3> DEFINE l == FillLoss(m, o.side)   l2 == FillLoss(m, o.side)'
        <3>1. l \in Int /\ l2 \in Int
            BY OrderTypes, SideTypes, SideTypesAfter
        <3>2. ASSUME LossOf(o) >= 0
              PROVE  l2 <= l
            BY <1>1, <3>2, OrderLeaves
        <3>3. ASSUME ~Nets(m, o.side)
              PROVE  l2 <= l
            <4>1. l2 = l - NonNegative(LossOf(o))
                BY <1>1, <3>3, OrderLeaves
            <4>2. NonNegative(LossOf(o)) \in Nat
                BY <1>2 DEF NonNegative
            <4> HIDE DEF l, l2
            <4>3. l2 <= l
                BY <3>1, <4>1, <4>2
            <4> QED
                BY <4>3
        <3>4. l2 <= l
            BY <1>2, <3>2, <3>3 DEF HidesALoss
        <3>5. Linear'.fillLoss = Linear.fillLoss - (l - l2)
            BY <1>1, <1>2, <2>1, AggregateAfter
        <3> HIDE DEF l, l2
        <3> QED
            BY <1>5, <3>1, <3>4, <3>5
    <2>6. Linear'.netUnrealizedPnl
            = Linear.netUnrealizedPnl - unrealizedPnl(m) + unrealizedPnl(m)
        BY <1>1, <1>2, <2>1, AggregateAfter
    <2> QED
        BY <1>3, <1>5, <2>2, <2>3, <2>4, <2>5, <2>6
<1>7. worstFillLoss(Linear', options, ShockOf(shocks, FALSE), toWad(spot))
        <= worstFillLoss(Linear, options, ShockOf(shocks, FALSE), toWad(spot))
    BY <1>4, <1>6, CancelStress, ShocksAreShocks DEF ShockTypes
<1> DEFINE mm == marginFromInputs(Linear, options, shocks, FALSE, toWad(spot))
           new == marginFromInputs(Linear', options, shocks, FALSE, toWad(spot))
           p == pnlTerm(Linear, FALSE)   q == pnlTerm(Linear', FALSE)
<1>8. new - mm <= (Linear'.fillLoss - Linear.fillLoss) + (q - p)
    BY <1>4, <1>6, <1>7, MarginGrowth
<1>9. q = p /\ p \in Int
    BY <1>5, <1>6 DEF pnlTerm, NonNegative
<1>10. new \in Nat /\ mm \in Nat
    BY <1>4, AnswerNat, AnswerNatAfter DEF AnswersNat
<1>11. Linear'.fillLoss \in Int
    BY <1>6 DEF LinearAggregate
<1>12. computePortfolioMargins'.mm = new /\ computePortfolioMargins.mm = mm
    BY <1>4
<1> HIDE DEF new, mm, p, q
<1>13. new <= mm
    BY <1>5, <1>6, <1>8, <1>9, <1>10, <1>11
<1> QED
    BY <1>12, <1>13

\* A trade or an order that passes the gate does not make a healthy account
\* liquidatable: it meets the initial requirement, or leaves no deficit of the
\* maintenance requirement where there was none.
LEMMA GateStep ==
    ASSUME Books, Books', UNCHANGED market, ShocksOrdered, options.gamma <= 0,
           ~isLiquidatable, NEW m, NEW side, Gated(m, side)
    PROVE  ~isLiquidatable'
<1> DEFINE im == computePortfolioMargins.im   mm == computePortfolioMargins.mm
           im2 == computePortfolioMargins'.im   mm2 == computePortfolioMargins'.mm
<1>1. im \in Nat /\ mm \in Nat /\ im2 \in Nat /\ mm2 \in Nat
    BY AnswerNat, AnswerNatAfter DEF AnswersNat
<1>2. im2 >= mm2
    BY ImAtLeastMmAfter DEF ImAtLeastMm, market, ShocksOrdered
<1>3. balance \in Nat /\ balance' \in Nat /\ balance >= mm
    BY <1>1 DEF Books, TypeOK, isLiquidatable
<1>4. \/ meetsTradeMargin(im2, mm2, balance', FullMargin)
      \/ meetsTradeMargin(im2, mm2, balance', reduceLimits(im, mm, balance))
    BY DEF Gated
<1> DEFINE b == balance   c == balance'
<1>5. b \in Nat /\ c \in Nat /\ b >= mm
    BY <1>3
<1>6. \/ meetsTradeMargin(im2, mm2, c, FullMargin)
      \/ meetsTradeMargin(im2, mm2, c, reduceLimits(im, mm, b))
    BY <1>4
<1> HIDE DEF im, mm, im2, mm2, b, c
<1>7. ASSUME meetsTradeMargin(im2, mm2, c, FullMargin)
      PROVE  c >= mm2
    <2>1. c >= im2 \/ im2 <= 0
        BY <1>7 DEF meetsTradeMargin, FullMargin
    <2> QED
        BY <1>1, <1>2, <1>5, <2>1
<1>8. ASSUME meetsTradeMargin(im2, mm2, c, reduceLimits(im, mm, b))
      PROVE  c >= mm2
    <2>1. NonNegative(mm - b) = 0
        BY <1>1, <1>5 DEF NonNegative
    <2>2. c >= im2 \/ mm2 <= c + 0
        BY <1>8, <2>1 DEF meetsTradeMargin, reduceLimits
    <2> QED
        BY <1>1, <1>2, <1>5, <2>2
<1>9. c >= mm2
    BY <1>6, <1>7, <1>8
<1> QED
    BY <1>1, <1>5, <1>9 DEF isLiquidatable, c, mm2

\* Trades, orders, withdrawals, cancels of orders that hide no loss, and reserved
\* fills of an account at its initial requirement keep a healthy account healthy,
\* with ordered shocks and options that are not long gamma.
THEOREM OnlyMarketLiquidates == Spec => OnlyTheMarketLiquidates
<1> DEFINE b == balance   c == balance'
           Calm == UNCHANGED market /\ ShocksOrdered /\ options.gamma <= 0
           Exposed(o) ==
                \/ Cancel(o) /\ HidesALoss(o)
                \/ /\ MakerFill(o)
                   /\ Nets(o.market, o.side) \/ balance < computePortfolioMargins.im
           Reserved == \A o \in resting : ~Exposed(o)
           im == computePortfolioMargins.im   mm == computePortfolioMargins.mm
           im2 == computePortfolioMargins'.im   mm2 == computePortfolioMargins'.mm
<1>1. ASSUME Books, Books', Next, Calm, ~isLiquidatable, Reserved
      PROVE  ~isLiquidatable'
    <2>1. im \in Nat /\ mm \in Nat /\ im2 \in Nat /\ mm2 \in Nat
        BY <1>1, AnswerNat, AnswerNatAfter DEF AnswersNat
    <2>2. im2 >= mm2
        BY <1>1, ImAtLeastMmAfter DEF ImAtLeastMm, market, ShocksOrdered
    <2>3. balance \in Nat /\ balance' \in Nat /\ balance >= mm
        BY <1>1, <2>1 DEF Books, TypeOK, isLiquidatable
    <2> SUFFICES balance' >= mm2
        BY <2>1, <2>3 DEF isLiquidatable
    <2>4. ASSUME NEW m \in Market, NEW side \in {Buy, Sell}, NEW p \in Price,
                 Trade(m, side, p)
          PROVE  balance' >= mm2
        <3>1. ~isLiquidatable'
            BY <1>1, <2>4, GateStep DEF Trade
        <3> QED
            BY <2>1, <2>3, <3>1 DEF isLiquidatable
    <2>5. ASSUME NEW o \in Order, Rest(o)
          PROVE  balance' >= mm2
        <3>1. ~isLiquidatable'
            BY <1>1, <2>5, GateStep DEF Rest
        <3> QED
            BY <2>1, <2>3, <3>1 DEF isLiquidatable
    <2>6. ASSUME NEW o \in resting, Cancel(o)
          PROVE  balance' >= mm2
        <3>1. mm2 <= mm
            BY <1>1, <2>6, CancelStep
        <3>2. balance' = balance
            BY <2>6 DEF Cancel
        <3> HIDE DEF mm, mm2
        <3> QED
            BY <2>1, <2>3, <3>1, <3>2
    <2>7. ASSUME NEW o \in resting, MakerFill(o)
          PROVE  balance' >= mm2
        <3>1. balance' - im2 >= balance - im
            BY <1>1, <2>7, FillStep
        <3>2. ~(balance < im)
            BY <1>1, <2>7
        <3>3. c - im2 >= b - im /\ ~(b < im) /\ b \in Nat /\ c \in Nat
            BY <2>3, <3>1, <3>2
        <3> HIDE DEF im, mm, im2, mm2, b, c
        <3>4. c >= mm2
            BY <2>1, <2>2, <3>3
        <3> QED
            BY <3>4 DEF c
    <2>8. CASE UNCHANGED vars \/ Deposit \/ Withdraw \/ setShocks \/ SpotMoves \/ OptionsMove
        <3>1. UNCHANGED <<book, market>>
            BY <1>1, <2>8 DEF vars, Deposit, Withdraw, setShocks, SpotMoves, OptionsMove,
                              market
        <3>2. computePortfolioMargins' = computePortfolioMargins
            <4>1. Views' = Views
                BY <3>1 DEF Views, getRiskView, unrealizedPnl, Lots, Side, FillLoss, SumOver,
                            LossOf, book, market
            <4> QED
                BY <3>1, <4>1 DEF computePortfolioMargins, marginsOf, Views, market
        <3>3. balance' >= balance \/ balance' >= im
            BY <2>3, <2>8 DEF vars, Deposit, Withdraw, setShocks, SpotMoves, OptionsMove
        <3>4. im2 = im /\ mm2 = mm
            BY <3>2
        <3> HIDE DEF im, mm, im2, mm2
        <3> QED
            BY <2>1, <2>2, <2>3, <3>3, <3>4
    <2> QED
        BY <1>1, <2>4, <2>5, <2>6, <2>7, <2>8 DEF Next
<1> DEFINE Kept ==
        UNCHANGED market /\ ShocksOrdered /\ options.gamma <= 0
         /\ ~isLiquidatable /\ isLiquidatable' =>
            \E o \in resting :
                \/ Cancel(o) /\ HidesALoss(o)
                \/ /\ MakerFill(o)
                   /\ Nets(o.market, o.side) \/ balance < computePortfolioMargins.im
<1>2. Books /\ Books' /\ [Next]_vars => [Kept]_vars
    BY <1>1
<1> HIDE DEF Kept, Calm, Exposed, Reserved, b, c, im, mm, im2, mm2
<1>3. Spec => [][Kept]_vars
    BY <1>2, BooksHold, PTL DEF Spec
<1> QED
    BY <1>3 DEF OnlyTheMarketLiquidates, Kept
================================================================================
