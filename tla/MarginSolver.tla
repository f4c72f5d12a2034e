------------------------------ MODULE MarginSolver ------------------------------
(***************************************************************************)
(* The keeper's copy of the margin engine and what it computes with it     *)
(* (portfolio-margin/src/mm.ts and solve.ts): both requirements of a       *)
(* snapshot at any price, the prices nearest to the current one where the  *)
(* account becomes liquidatable, and how much of a position to close so    *)
(* that the account ends between its two requirements.                     *)
(*                                                                         *)
(* A portfolio here is one perpetual position and one futures position per *)
(* expiry, without options.  JavaScript's bigint division is Solidity's.   *)
(***************************************************************************)
EXTENDS MarginEngine, SequencesExt

CONSTANT Expiry         \* futures expiries, as times

ASSUME Expiries == Expiry \subseteq Nat /\ IsFiniteSet(Expiry)

ASSUME WholeUnits == WAD % LIFT = 0

\* 10^tokenDecimals, which is also 10^QUANTITY_DECIMALS of the perpetual.
Unit == WAD \div LIFT

\* Division that rounds down, for a divisor of either sign.
floorDiv(a, b) == IF b > 0 THEN a \div b ELSE (-a) \div (-b)

straddle(root) == {root, root + 1}

--------------------------------------------------------------------------------
(* mm.ts: the requirements of a snapshot s at price P.                     *)

Legs(s) == s.futures.positions

Pinned(leg) == leg.settlementPrice # 0

Unpinned(s) == {e \in Expiry : ~Pinned(Legs(s)[e])}

netDeltaWad(s) ==
    Quotient(s.perp.netQty * WAD, Unit)
      + WAD * SumOver(Unpinned(s), LAMBDA e : Legs(s)[e].netQuantity)

orderDeltaWad(s) ==
    [buy |-> toWad(s.perp.orders.buyDelta + s.futures.orders.buyDelta),
     sell |-> toWad(s.perp.orders.sellDelta + s.futures.orders.sellDelta)]

stressLoss(delta, shock, P) ==
    fromWad((Magnitude(delta) * shock * toWad(P)) \div (WAD * WAD))

worseLeg(delta, order, shock, P) ==
    Larger(stressLoss(delta + order.buy, shock, P),
           stressLoss(delta - order.sell, shock, P))

worstLegStressLoss(s, shock, P) ==
    worseLeg(netDeltaWad(s), orderDeltaWad(s), shock, P)

venueFillLoss(orders, P) ==
    NonNegative(orders.buyValue - ((P * orders.buyDelta) \div Unit))
      + NonNegative(((P * orders.sellDelta) \div Unit) - orders.sellValue)

fillLoss(s, P) ==
    venueFillLoss(s.perp.orders, P) + venueFillLoss(s.futures.orders, P)

perpUnrealizedPnl(s, P) ==
    Quotient((P - s.perp.entryPrice) * s.perp.netQty, Unit)

\* A leg whose expiry is settled keeps the price it settled at.
Mark(leg, P) == IF Pinned(leg) THEN leg.settlementPrice ELSE P

futuresUnrealizedPnl(s, P) ==
    SumOver(Expiry, LAMBDA e :
        Mark(Legs(s)[e], P) * Legs(s)[e].netQuantity - Legs(s)[e].netEntryValue)

\* Variant: the maintenance requirement does not net the venues.
unrealizedLossUnnetted(s, P, isIM) ==
    NonNegative(-perpUnrealizedPnl(s, P))
      + NonNegative(-futuresUnrealizedPnl(s, P))

\* Clamped venue by venue for the initial requirement, once for the other.
lossOf(perp, futures, isIM) ==
    IF isIM THEN NonNegative(-perp) + NonNegative(-futures)
            ELSE NonNegative(-(perp + futures))

unrealizedLoss(s, P, isIM) ==
    lossOf(perpUnrealizedPnl(s, P), futuresUnrealizedPnl(s, P), isIM)

requiredAt(s, params, P, isIM) ==
    worstLegStressLoss(s, ShockOf(params, isIM).spot, P)
      + fillLoss(s, P) + unrealizedLoss(s, P, isIM) + s.perp.fundingOwed

mmRequired(s, params, P) == requiredAt(s, params, P, FALSE)
imRequired(s, params, P) == requiredAt(s, params, P, TRUE)

mmSurplus(s, params, P) == s.balance - mmRequired(s, params, P)
imSurplus(s, params, P) == s.balance - imRequired(s, params, P)

--------------------------------------------------------------------------------
(* solve.ts: thresholds.                                                   *)

fillLossBreakevens(orders) ==
    {(v[1] * Unit) \div v[2] :
        v \in {w \in {<<orders.buyValue, orders.buyDelta>>,
                      <<orders.sellValue, orders.sellDelta>>} : w[2] > 0}}

\* The futures profit at P is qty * P - value.
futuresPnlTerms(s) ==
    [qty |-> SumOver(Unpinned(s), LAMBDA e : Legs(s)[e].netQuantity),
     value |-> SumOver(Expiry, LAMBDA e : Legs(s)[e].netEntryValue)
                 - SumOver(Expiry, LAMBDA e : Legs(s)[e].settlementPrice
                                                * Legs(s)[e].netQuantity)]

\* Prices where the unrealized loss changes slope: each venue's breakeven when
\* each is clamped, the portfolio's when the sum is.
unrealizedPnlBreakevens(s, isIM) ==
    LET terms == futuresPnlTerms(s)
        coefficient == s.perp.netQty + Unit * terms.qty
        intercept == s.perp.entryPrice * s.perp.netQty + Unit * terms.value
        perp == IF s.perp.netQty # 0 THEN {s.perp.entryPrice} ELSE {}
        futures == IF terms.qty # 0
                   THEN straddle(floorDiv(terms.value, terms.qty)) ELSE {}
        netted == IF coefficient # 0
                  THEN straddle(floorDiv(intercept, coefficient)) ELSE {}
    IN  {k \in IF isIM THEN perp \cup futures ELSE netted : k > 0}

\* What a threshold solve wants the zeros of: the surplus over maintenance margin,
\* or what initial margin is over an alert's level.
objective(s, params, isIM, target, p) ==
    IF isIM THEN imRequired(s, params, p) - target ELSE mmSurplus(s, params, p)

\* Half of an interval, given the middle and the objective there.
halved(i, mid, value, rising) ==
    IF value = 0 THEN <<mid, mid>>
    ELSE IF (value < 0) = rising THEN <<mid, i[2]>> ELSE <<i[1], mid>>

\* The place where an objective, monotone on lo..hi, changes sign: the last point
\* on the positive side of it.
bisect(lo, hi, rising, s, params, isIM, target) ==
    LET root[i \in Int \X Int] ==
            LET mid == (i[1] + i[2]) \div 2
            IN  IF i[2] - i[1] <= 1 THEN IF rising THEN i[2] ELSE i[1]
                ELSE root[halved(i, mid, objective(s, params, isIM, target, mid),
                                 rising)]
    IN  root[<<lo, hi>>]

\* Neighbours in a finite set of integers.
Intervals(bounds) ==
    {i \in bounds \X bounds :
        i[1] < i[2] /\ \A k \in bounds : k <= i[1] \/ k >= i[2]}

CrossingBetween(lo, hi, atLo, atHi, s, params, isIM, target) ==
    IF atLo * atHi > 0 THEN {}
    ELSE IF atLo = 0 THEN {lo}
    ELSE IF atHi = 0 THEN {hi}
    ELSE {bisect(lo, hi, atLo < 0, s, params, isIM, target)}

Crossing(lo, hi, s, params, isIM, target) ==
    CrossingBetween(lo, hi, objective(s, params, isIM, target, lo),
                    objective(s, params, isIM, target, hi), s, params, isIM, target)

\* Variant: prices are searched up to the last kink.
searchedUpToNear(kinks) == Max(kinks) + 1

searchedUpTo(kinks) == Max(kinks) * 1024 + 1

searchBounds(kinks) ==
    kinks \cup (IF \E k \in kinks : k < 1 THEN {} ELSE {1}) \cup {searchedUpTo(kinks)}

\* The nearest below P and above it, as sets of at most one.
Nearest(crossings, P) ==
    LET below == {c \in crossings : c < P}
        above == {c \in crossings : c > P}
    IN  [down |-> IF below = {} THEN {} ELSE {Max(below)},
         up |-> IF above = {} THEN {} ELSE {Min(above)}]

findClosestCrossings(s, params, P, isIM, target) ==
    LET kinks == unrealizedPnlBreakevens(s, isIM)
                   \cup fillLossBreakevens(s.perp.orders)
                   \cup fillLossBreakevens(s.futures.orders) \cup {P}
    IN  Nearest(UNION {Crossing(i[1], i[2], s, params, isIM, target) :
                          i \in Intervals(searchBounds(kinks))},
                P)

NoThresholds == [down |-> {}, up |-> {}]

solveLiquidationThresholds(s, params, P) ==
    IF mmSurplus(s, params, P) < 0 THEN NoThresholds
    ELSE findClosestCrossings(s, params, P, FALSE, 0)

\* One level of initial margin, as a part of the balance.
solveAlertThresholds(s, params, P, target) ==
    IF s.balance <= 0 \/ imRequired(s, params, P) >= target THEN NoThresholds
    ELSE findClosestCrossings(s, params, P, TRUE, target)

--------------------------------------------------------------------------------
(* solve.ts: closes.  The liquidation fee is always given as zero.         *)

avgEntry(leg) ==
    IF leg.netQuantity = 0 THEN 0
    ELSE Magnitude(leg.netEntryValue) \div Magnitude(leg.netQuantity)

Sign(n) == IF n > 0 THEN 1 ELSE -1

\* close gives a quantity for each expiry.
simulateFuturesClose(s, close, P) ==
    LET closed(e) == Min({close[e], Magnitude(Legs(s)[e].netQuantity)})
        left(e) == Magnitude(Legs(s)[e].netQuantity) - closed(e)
        pnl(e) == (Mark(Legs(s)[e], P) - avgEntry(Legs(s)[e]))
                    * Sign(Legs(s)[e].netQuantity) * closed(e)
        reduced(e) ==
            [Legs(s)[e] EXCEPT
                !.netQuantity = Sign(@) * left(e),
                !.netEntryValue =
                    IF closed(e) = 0 THEN @
                    ELSE Quotient(@ * left(e), left(e) + closed(e))]
    IN  [s EXCEPT !.balance = @ + SumOver(Expiry, pnl),
                  !.futures.positions = [e \in Expiry |-> reduced(e)]]

\* Variant: what the close realizes is not settled.
simulatePerpCloseUnsettled(s, closeQty, P) ==
    [s EXCEPT !.perp.netQty =
        @ - Sign(s.perp.netQty) * Min({closeQty, Magnitude(s.perp.netQty)})]

simulatePerpClose(s, closeQty, P) ==
    LET closed == Sign(s.perp.netQty) * Min({closeQty, Magnitude(s.perp.netQty)})
    IN  [s EXCEPT !.balance = @ + Quotient((P - s.perp.entryPrice) * closed, Unit),
                  !.perp.netQty = @ - closed]

coalesceUnitPrefix(units, k) ==
    [e \in Expiry |-> Cardinality({i \in 1..k : units[i] = e})]

Held(s) == {e \in Expiry : Legs(s)[e].netQuantity # 0}

\* The members of a set in the order of a relation, the first one first.
InOrder(S, before(_, _)) ==
    [i \in 1..Cardinality(S) |->
        CHOOSE x \in S : Cardinality({y \in S : before(y, x)}) = i - 1]

\* One contract of each expiry in turn, the expiries in order of how much one
\* contract less lowers the maintenance requirement.
rankUnitClosesBalancedAcrossExpirations(s, params, P) ==
    LET unitClosed(e) ==
            simulateFuturesClose(s, [x \in Expiry |-> IF x = e THEN 1 ELSE 0], P)
        drop == [e \in Held(s) |->
                    mmRequired(s, params, P) - mmRequired(unitClosed(e), params, P)]
        contracts(e) == Magnitude(Legs(s)[e].netQuantity)
        notional(e) == contracts(e) * avgEntry(Legs(s)[e])
        worthMore(d, e) ==
            \/ drop[d] > drop[e]
            \/ drop[d] = drop[e] /\ notional(d) > notional(e)
            \/ drop[d] = drop[e] /\ notional(d) = notional(e) /\ d < e
        turns == UNION {(1..contracts(e)) \X {e} : e \in Held(s)}
        sooner(t, u) == t[1] < u[1] \/ (t[1] = u[1] /\ worthMore(t[2], u[2]))
    IN  [i \in 1..Cardinality(turns) |-> InOrder(turns, sooner)[i][2]]

hasBuffer(params) == params.imSpot > params.mmSpot

\* Where a close leaves the account: healthy, and not above its initial
\* requirement when the two requirements differ.
InBand(after, params, P) ==
    /\ mmSurplus(after, params, P) >= 0
    /\ hasBuffer(params) => imSurplus(after, params, P) <= 0

UnitLeg(e) == [expirationAt |-> e, closeQty |-> 1]

\* How many of the unit closes: as many as end in the band, or as few.
prefixesInBand(s, units, params, P) ==
    {k \in DOMAIN units :
        InBand(simulateFuturesClose(s, coalesceUnitPrefix(units, k), P), params, P)}

PrefixLength(prefixes, params) == IF hasBuffer(params) THEN Max(prefixes) ELSE Min(prefixes)

WholeLegs(s) ==
    LET all == InOrder(Held(s), <)
    IN  [i \in 1..Cardinality(Held(s)) |->
            [expirationAt |-> all[i], closeQty |-> Magnitude(Legs(s)[all[i]].netQuantity)]]

legsOf(s, units, prefixes, params) ==
    IF prefixes = {} THEN WholeLegs(s)
    ELSE [i \in 1..PrefixLength(prefixes, params) |-> UnitLeg(units[i])]

closesOf(s, units, params, P) ==
    legsOf(s, units, prefixesInBand(s, units, params, P), params)

\* The legs to close, in order: the longest prefix of unit closes that ends in
\* the band, everything when none does.
solveFuturesClosesToTarget(s, params, P) ==
    IF Held(s) = {} \/ mmSurplus(s, params, P) >= 0 THEN <<>>
    ELSE closesOf(s, rankUnitClosesBalancedAcrossExpirations(s, params, P), params, P)

\* Variant: without the quantity at which the portfolio's profit turns.
perpCloseKinksUnnetted(s, P) ==
    LET delta == netDeltaWad(s)
        order == orderDeltaWad(s)
        qtyAtDelta(target) ==
            Quotient(Sign(s.perp.netQty) * (delta - target), LIFT)
    IN  {q \in UNION {straddle(qtyAtDelta(d)) :
                        d \in {-order.buy, order.sell,
                               Quotient(order.sell - order.buy, 2)}} :
            q > 0 /\ q < Magnitude(s.perp.netQty)}
          \cup {0, Magnitude(s.perp.netQty)}

\* Closed quantities at which the requirement stops being linear.
perpCloseKinks(s, P) ==
    LET netQty == s.perp.netQty
        delta == netDeltaWad(s)
        order == orderDeltaWad(s)
        qtyAtDelta(target) == Quotient(Sign(netQty) * (delta - target), LIFT)
        priceDiff == P - s.perp.entryPrice
        turn == IF priceDiff = 0 THEN {}
                ELSE {floorDiv(priceDiff * netQty + futuresUnrealizedPnl(s, P) * Unit,
                               priceDiff * Sign(netQty))}
        roots == {qtyAtDelta(d) : d \in {-order.buy, order.sell,
                                         Quotient(order.sell - order.buy, 2)}}
    IN  {q \in UNION {straddle(r) : r \in roots \cup turn} :
            q > 0 /\ q < Magnitude(netQty)}
          \cup {0, Magnitude(netQty)}

\* What a close of q must not make negative: the surplus over maintenance margin,
\* and what the balance is short of initial margin.
closeGoal(s, params, P, isIM, q) ==
    LET closed == simulatePerpClose(s, q, P)
    IN  IF isIM THEN -imSurplus(closed, params, P) ELSE mmSurplus(closed, params, P)

\* The neighbours between which a goal changes sign.
edge(lo, hi, rising, s, params, P, isIM) ==
    LET around[i \in Nat \X Nat] ==
            LET mid == (i[1] + i[2]) \div 2
                good == closeGoal(s, params, P, isIM, mid) >= 0
            IN  IF i[2] - i[1] <= 1 THEN i
                ELSE around[IF good = rising THEN <<i[1], mid>> ELSE <<mid, i[2]>>]
    IN  around[<<lo, hi>>]

RangeBetween(lo, hi, atLo, atHi, s, params, P, isIM) ==
    IF atLo >= 0 /\ atHi >= 0 THEN {<<lo, hi>>}
    ELSE IF atLo < 0 /\ atHi < 0 THEN {}
    ELSE IF atLo < 0 THEN {<<edge(lo, hi, TRUE, s, params, P, isIM)[2], hi>>}
    ELSE {<<lo, edge(lo, hi, FALSE, s, params, P, isIM)[1]>>}

\* The part of lo..hi where a goal, monotone on it, is not negative: a set of at
\* most one interval.
nonNegativeRange(lo, hi, s, params, P, isIM) ==
    RangeBetween(lo, hi, closeGoal(s, params, P, isIM, lo),
                 closeGoal(s, params, P, isIM, hi), s, params, P, isIM)

\* The deepest close of all, the shallowest, or the whole position.
Deepest(ranges, whole) == IF ranges = {} THEN whole ELSE Max({r[2] : r \in ranges})
Shallowest(ranges, whole) == IF ranges = {} THEN whole ELSE Min({r[1] : r \in ranges})

\* The quantity to close: the deepest close in the band of any interval, the
\* shallowest healthy one when the requirements are the same, everything when
\* there is none.
solvePerpCloseToTarget(s, params, P) ==
    LET whole == Magnitude(s.perp.netQty)
        healthy == UNION {nonNegativeRange(i[1], i[2], s, params, P, FALSE) :
                            i \in Intervals(perpCloseKinks(s, P))}
    IN  IF whole = 0 \/ mmSurplus(s, params, P) >= 0 THEN 0
        ELSE IF ~hasBuffer(params) THEN Shallowest(healthy, whole)
        ELSE Deepest(UNION {nonNegativeRange(h[1], h[2], s, params, P, TRUE) :
                               h \in healthy},
                     whole)
================================================================================
