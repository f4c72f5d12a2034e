----------------------------- MODULE LiquidationPlan -----------------------------
(***************************************************************************)
(* One plan of the keeper for one account (keeper/src/coordinator/         *)
(* planner.ts) through the two venue adapters (venues/perps.ts,            *)
(* venues/futures.ts) and sendLiquidate (tx/liquidate.ts): cancel the      *)
(* account's orders, then close positions venue by venue, worst first,     *)
(* reading the health again after every transaction.                       *)
(*                                                                         *)
(* Every answer of an await is a step, and between two steps the market    *)
(* moves: what was read may be stale when it is used.  The engine on chain *)
(* is MarginEngine, the keeper's own arithmetic is MarginSolver.  The      *)
(* venues' contracts are in other repositories; of them there is what      *)
(* venues/types.ts and docs/liquidation-orchestration.md rely on.          *)
(***************************************************************************)
EXTENDS MarginSolver

CONSTANTS
    Params,             \* the engine's shocks, cached by the keeper
    Price,
    Start,              \* accounts, spot prices and bounds to begin with
    Orders,             \* orders the owner may place meanwhile
    MAX_POSITION_ITERATIONS,
    maxLotsPerLiquidationTx

ASSUME Venues == Market = {"perps", "futures"}

VARIABLES
    acct,               \* the account on chain
    spot,
    moves,              \* bound: how often the market may still move
    moved,              \* history: whether it has
    traded,             \* history: venues where an order of the account was filled
                        \* since the plan last read its positions there
    plan

chain == <<acct, spot, moves, moved, traded>>
vars == <<chain, plan>>

\* An order is for one contract.
Order == [venue : Market, side : {1, -1}, limit : Price]

Leg == [netQuantity : Int, netEntryValue : Int, settlementPrice : Nat]

Account ==
    [balance : Nat, perp : [netQuantity : Int, netEntryValue : Int],
     legs : [Expiry -> Leg], orders : SUBSET Order, pendingFunding : Int,
     matured : SUBSET Expiry]

\* The entry value of a position has the sign of its quantity.
Entered(position) ==
    /\ position.netQuantity >= 0 => position.netEntryValue >= 0
    /\ position.netQuantity <= 0 => position.netEntryValue <= 0

Booked(a) == a \in Account /\ IsFiniteSet(a.orders) /\ Entered(a.perp)

ASSUME Inputs ==
    /\ Params \in ShockSet
    /\ Price \subseteq Nat
    /\ Orders \subseteq Order
    /\ maxLotsPerLiquidationTx \in Nat
    /\ \A s \in Start : Booked(s.acct) /\ s.spot \in Price

ReadHealth == [at |-> "start"]

Init ==
    /\ \E s \in Start : acct = s.acct /\ spot = s.spot /\ moves = s.moves
    /\ moved = FALSE
    /\ traded = {}
    /\ plan = ReadHealth

--------------------------------------------------------------------------------
(* The account on chain.                                                   *)

OrdersOf(a, venue) == {o \in a.orders : o.venue = venue}

OrdersOn(a, venue, side) == {o \in OrdersOf(a, venue) : o.side = side}

Limits(S) == SumOver(S, LAMBDA o : o.limit)

getOrderAggregate(a, venue) ==
    LET side(d) == OrdersOn(a, venue, d)
    IN  [buyDelta |-> Unit * Cardinality(side(1)), buyValue |-> Limits(side(1)),
         sellDelta |-> Unit * Cardinality(side(-1)), sellValue |-> Limits(side(-1))]

LegPnl(leg, p) == Mark(leg, p) * leg.netQuantity - leg.netEntryValue

PerpPnl(a, p) == Quotient(p * a.perp.netQuantity, Unit) - a.perp.netEntryValue

getRiskView(a, p, venue) ==
    LET orders == getOrderAggregate(a, venue)
        live == {e \in Expiry : ~Pinned(a.legs[e])}
    IN  [netPositionDelta |->
            IF venue = "perps" THEN a.perp.netQuantity
            ELSE Unit * SumOver(live, LAMBDA e : a.legs[e].netQuantity),
         unrealizedPnl |->
            IF venue = "perps" THEN PerpPnl(a, p)
            ELSE SumOver(Expiry, LAMBDA e : LegPnl(a.legs[e], p)),
         pendingFunding |-> IF venue = "perps" THEN a.pendingFunding ELSE 0,
         buyOrderDelta |-> orders.buyDelta,
         sellOrderDelta |-> orders.sellDelta,
         buyOrderFillLoss |->
            NonNegative(orders.buyValue - ((p * orders.buyDelta) \div Unit)),
         sellOrderFillLoss |->
            NonNegative(((p * orders.sellDelta) \div Unit) - orders.sellValue)]

NoOptions == [delta |-> 0, gamma |-> 0, vega |-> 0, reserved |-> 0]

\* computePortfolioIM and computePortfolioMM.
Required(a, p, isIM) ==
    marginFromInputs(linearAggregate[[v \in Market |-> getRiskView(a, p, v)]],
                     NoOptions, Params, isIM, toWad(p))

Surplus(a, p) == a.balance - Required(a, p, FALSE)

Liquidatable(a, p) == Surplus(a, p) < 0

Exposed(a, venue) ==
    IF venue = "perps" THEN a.perp.netQuantity # 0
    ELSE \E e \in Expiry : a.legs[e].netQuantity # 0

\* The average price a position was entered at.
EntryPrice(perp) ==
    IF perp.netQuantity = 0 THEN 0
    ELSE (Magnitude(perp.netEntryValue) * Unit) \div Magnitude(perp.netQuantity)

\* Closes settle as simulatePerpClose and simulateFuturesClose mirror them, and
\* a loss as far as the balance goes: the insurance fund takes the rest.
PerpClosed(a, p, qty) ==
    LET held == Magnitude(a.perp.netQuantity)
        closed == Min({qty, held})
        signed == Sign(a.perp.netQuantity) * closed
    IN  [a EXCEPT !.perp.netQuantity = @ - signed,
                  !.perp.netEntryValue = Quotient(@ * (held - closed), held),
                  !.balance = NonNegative(
                      @ + Quotient((p - EntryPrice(a.perp)) * signed, Unit))]

LegClosed(a, p, e, qty) ==
    LET leg == a.legs[e]
        held == Magnitude(leg.netQuantity)
        closed == Min({qty, held})
        signed == Sign(leg.netQuantity) * closed
    IN  IF held = 0 \/ e \in a.matured THEN a
        ELSE [a EXCEPT !.legs[e].netQuantity = @ - signed,
                       !.legs[e].netEntryValue = Quotient(@ * (held - closed), held),
                       !.balance = NonNegative(
                           @ + (Mark(leg, p) - avgEntry(leg)) * signed)]

\* All that was asked for is closed, as docs/liquidation-orchestration.md has it
\* (no margin is computed per contract), and not until the account is healthy, as a
\* comment of solve.ts does.
Closed(a, p, venue, close) ==
    IF venue = "perps"
    THEN IF a.perp.netQuantity = 0 THEN a ELSE PerpClosed(a, p, close)
    ELSE FoldLeft(LAMBDA b, leg : LegClosed(b, p, leg.expirationAt, leg.closeQty),
                  a, close)

\* The orders before the first that is gone already.
Resting(a, ids) ==
    LET gone == {i \in DOMAIN ids : ids[i] \notin a.orders}
    IN  [i \in {j \in DOMAIN ids : \A k \in gone : j < k} |-> ids[i]]

\* Orders are cancelled in the order given, until the account is healthy or one
\* cannot be cancelled: what was cancelled before stays so.
OrdersCancelled(a, p, ids) ==
    FoldLeft(LAMBDA b, o : IF Liquidatable(b, p)
                           THEN [b EXCEPT !.orders = @ \ {o}] ELSE b,
             a, Resting(a, ids))

\* What a call of the keeper does to the account, and why it reverts.
LiquidateOrders(a, p, ids) ==
    IF ~Liquidatable(a, p) THEN [error |-> "NotLiquidatable", acct |-> a]
    ELSE [error |-> "none", acct |-> OrdersCancelled(a, p, ids)]

OverLiquidated(a, p, venue) ==
    /\ Exposed(a, venue)
    /\ Required(a, p, TRUE) > Required(a, p, FALSE)
    /\ a.balance > Required(a, p, TRUE)

LiquidatePositions(a, p, venue, close) ==
    LET after == Closed(a, p, venue, close)
        Reverts(e) == [error |-> e, acct |-> a]
    IN  IF ~Liquidatable(a, p) THEN Reverts("NotLiquidatable")
        ELSE IF a.orders # {} THEN Reverts("OrdersStillOpen")
        ELSE IF OverLiquidated(after, p, venue) THEN Reverts("OverLiquidation")
        ELSE [error |-> "none", acct |-> after]

Call(a, p, tx) ==
    IF tx.call = "orders" THEN LiquidateOrders(a, p, tx.close)
    ELSE LiquidatePositions(a, p, tx.venue, tx.close)

--------------------------------------------------------------------------------
(* The adapters.                                                           *)

venues == <<"perps", "futures">>

readOpenOrders(venue) == SetToSeq(OrdersOf(acct, venue))

\* Summed over the venue's positions; nothing for a venue without any.
readPositions(venue) ==
    IF ~Exposed(acct, venue) THEN {}
    ELSE IF venue = "perps"
    THEN {[venue |-> venue, loss |-> NonNegative(-PerpPnl(acct, spot)),
           notional |-> (spot * Magnitude(acct.perp.netQuantity)) \div Unit]}
    ELSE {[venue |-> venue,
           loss |-> SumOver(Expiry, LAMBDA e : NonNegative(
                acct.legs[e].netEntryValue - spot * acct.legs[e].netQuantity)),
           notional |-> SumOver(Expiry, LAMBDA e :
                avgEntry(acct.legs[e]) * Magnitude(acct.legs[e].netQuantity))]}

readAccountSnapshot(a) ==
    [balance |-> a.balance,
     perp |-> [netQty |-> a.perp.netQuantity,
               entryPrice |-> EntryPrice(a.perp),
               orders |-> getOrderAggregate(a, "perps"),
               fundingOwed |-> NonNegative(a.pendingFunding)],
     futures |-> [positions |-> a.legs,
                  orders |-> getOrderAggregate(a, "futures")]]

\* The snapshot takes two calls: an account b found between them has its futures
\* positions and the values of its futures orders in it, of the expiries that
\* were active at first.
secondCall(s, b) ==
    LET orders == getOrderAggregate(b, "futures")
        leg(e) == IF Legs(s)[e].netQuantity = 0 THEN Legs(s)[e] ELSE b.legs[e]
    IN  [s EXCEPT !.futures.positions = [e \in Expiry |-> leg(e)],
                  !.futures.orders.buyValue = orders.buyValue,
                  !.futures.orders.sellValue = orders.sellValue]

Chunk(legs) ==
    IF maxLotsPerLiquidationTx > 0 /\ Len(legs) > maxLotsPerLiquidationTx
    THEN SubSeq(legs, 1, maxLotsPerLiquidationTx) ELSE legs

\* Sized on a snapshot, without the legs that wait for their settlement.
FuturesCloses(snapshot, p) ==
    LET legs == solveFuturesClosesToTarget(snapshot, Params, p)
        live == {i \in DOMAIN legs : legs[i].expirationAt \notin acct.matured}
    IN  Chunk([i \in 1..Cardinality(live) |-> legs[InOrder(live, <)[i]]])

CloseOf(venue, snapshot, p) ==
    IF venue = "perps" THEN solvePerpCloseToTarget(snapshot, Params, p)
    ELSE FuturesCloses(snapshot, p)

\* Variant: a close of a single lot is taken for nothing.
NothingToCloseDust(venue, close) ==
    IF venue = "perps" THEN Magnitude(close) <= 1 ELSE Len(close) <= 1

NothingToClose(venue, close) ==
    IF venue = "perps" THEN close = 0 ELSE close = <<>>

--------------------------------------------------------------------------------
(* The plan.                                                               *)

Ends(kind, reason) == plan' = [at |-> "ended", kind |-> kind, reason |-> reason]

\* Where the plan goes after the orders of venue i, in iteration iter.
OrdersLeg(i, iter, exhausted) ==
    IF i > Len(venues)
    THEN [at |-> "recheck", iter |-> iter, exhausted |-> exhausted]
    ELSE [at |-> "orders", i |-> i, iter |-> iter, exhausted |-> exhausted]

Recheck == [at |-> "recheck", iter |-> plan.iter, exhausted |-> plan.exhausted]

\* Iteration 0 follows the first orders leg.
readHealth ==
    /\ plan.at = "start"
    /\ \/ Surplus(acct, spot) >= 0 /\ Ends("healthy", "none")
       \/ Surplus(acct, spot) < 0 /\ plan' = OrdersLeg(1, -1, {})
    /\ UNCHANGED chain

runOrdersLeg ==
    /\ plan.at = "orders"
    /\ LET venue == venues[plan.i]
           ids == readOpenOrders(venue)
       IN  plan' = IF ids = <<>>
                   THEN OrdersLeg(plan.i + 1, plan.iter, plan.exhausted)
                   ELSE [at |-> "simulate", call |-> "orders", venue |-> venue,
                         close |-> ids, i |-> plan.i, iter |-> plan.iter,
                         exhausted |-> plan.exhausted]
    /\ UNCHANGED chain

\* Variant: only a close that was sent counts as an iteration.
NextIterationUncounted ==
    plan' = [at |-> "rank", i |-> 1, ranked |-> {},
             iter |-> 0, exhausted |-> plan.exhausted]

NextIteration ==
    IF plan.iter + 1 = MAX_POSITION_ITERATIONS
    THEN Ends("stalled", "iterationCap")
    ELSE plan' = [at |-> "rank", i |-> 1, ranked |-> {},
                  iter |-> plan.iter + 1, exhausted |-> plan.exhausted]

readHealthAgain ==
    /\ plan.at = "recheck"
    /\ \/ Surplus(acct, spot) >= 0 /\ Ends("liquidated", "none")
       \/ Surplus(acct, spot) < 0 /\ NextIteration
    /\ UNCHANGED chain

\* Most underwater first, then the larger book.
Worse(v, w) ==
    \/ v.loss > w.loss
    \/ v.loss = w.loss /\ v.notional > w.notional
    \/ v.loss = w.loss /\ v.notional = w.notional /\ v.venue = venues[1]

rankVenuesByLoss ==
    /\ plan.at = "rank"
    /\ plan.i <= Len(venues)
    /\ plan' = [plan EXCEPT !.i = @ + 1,
                            !.ranked = @ \cup readPositions(venues[plan.i])]
    /\ traded' = traded \ {venues[plan.i]}
    /\ UNCHANGED <<acct, spot, moves, moved>>

\* Variant: parked venues are counted as sold out.
PickWorstUnparked ==
    LET actionable == {v \in plan.ranked : v.venue \notin plan.exhausted}
        worst == CHOOSE v \in actionable : \A w \in actionable \ {v} : Worse(v, w)
    IN  /\ plan.at = "rank"
        /\ plan.i > Len(venues)
        /\ \/ actionable = {} /\ Ends("badDebt", "none")
           \/ /\ actionable # {}
              /\ plan' = [at |-> "snapshot", venue |-> worst.venue,
                          iter |-> plan.iter, exhausted |-> plan.exhausted]
        /\ UNCHANGED chain

PickWorst ==
    LET actionable == {v \in plan.ranked : v.venue \notin plan.exhausted}
        worst == CHOOSE v \in actionable : \A w \in actionable \ {v} : Worse(v, w)
    IN  /\ plan.at = "rank"
        /\ plan.i > Len(venues)
        /\ \/ plan.ranked = {} /\ Ends("badDebt", "none")
           \/ /\ plan.ranked # {}
              /\ actionable = {}
              /\ Ends("stalled", "nothingToClose")
           \/ /\ actionable # {}
              /\ plan' = [at |-> "snapshot", venue |-> worst.venue,
                          iter |-> plan.iter, exhausted |-> plan.exhausted]
        /\ UNCHANGED chain

\* reduceToTarget reads the account in two calls, and the price beside them.
SnapshotRead ==
    /\ plan.at = "snapshot"
    /\ plan' = [at |-> "size", venue |-> plan.venue, iter |-> plan.iter,
                exhausted |-> plan.exhausted,
                snapshot |-> readAccountSnapshot(acct), price |-> spot]
    /\ UNCHANGED chain

Sized(close) ==
    IF NothingToClose(plan.venue, close)
    THEN [Recheck EXCEPT !.exhausted = @ \cup {plan.venue}]
    ELSE [at |-> "simulate", call |-> "positions", venue |-> plan.venue,
          close |-> close, iter |-> plan.iter, exhausted |-> plan.exhausted]

reduceToTarget ==
    /\ plan.at = "size"
    /\ \E p \in {plan.price, spot} :
          plan' = Sized(CloseOf(plan.venue, secondCall(plan.snapshot, acct), p))
    /\ UNCHANGED chain

\* After a call: the next venue's orders, or the health.
AfterCall ==
    IF plan.call = "orders" THEN OrdersLeg(plan.i + 1, plan.iter, plan.exhausted)
    ELSE Recheck

\* sendLiquidate simulates first; a recoverable revert skips the call, and
\* orders that are still open have the orders leg run again.
Simulate ==
    /\ plan.at = "simulate"
    /\ LET error == Call(acct, spot, plan).error
       IN  plan' = IF error = "none" THEN [plan EXCEPT !.at = "sent"]
                   ELSE IF error = "OrdersStillOpen"
                   THEN OrdersLeg(1, plan.iter, plan.exhausted)
                   ELSE AfterCall
    /\ UNCHANGED chain

\* The transaction is mined; whether it reverted is not looked at.
Mined ==
    /\ plan.at = "sent"
    /\ acct' = Call(acct, spot, plan).acct
    /\ plan' = AfterCall
    /\ UNCHANGED <<spot, moves, moved, traded>>

\* A call to the node fails.
Throws ==
    /\ plan.at # "ended"
    /\ Ends("threw", "none")
    /\ UNCHANGED chain

Step ==
    \/ Throws
    \/ readHealth \/ runOrdersLeg \/ readHealthAgain \/ rankVenuesByLoss
    \/ PickWorst \/ SnapshotRead \/ reduceToTarget \/ Simulate \/ Mined

--------------------------------------------------------------------------------
(* The market, between any two steps of the plan.                          *)

Lot(venue) == IF venue = "perps" THEN Unit ELSE 1

\* A resting order is taken by somebody else, at its limit; a futures order of
\* the expiry e.  Bound: no fill turns a position over.
Filled(a, o, e) ==
    LET held == IF o.venue = "perps" THEN a.perp.netQuantity
                ELSE a.legs[e].netQuantity
        open == [a EXCEPT !.orders = @ \ {o}]
        lot == Lot(o.venue)
    IN  IF held * o.side >= 0
        THEN IF o.venue = "perps"
             THEN [open EXCEPT !.perp.netQuantity = @ + o.side * lot,
                               !.perp.netEntryValue = @ + o.side * o.limit]
             ELSE [open EXCEPT !.legs[e].netQuantity = @ + o.side,
                               !.legs[e].netEntryValue = @ + o.side * o.limit]
        ELSE IF o.venue = "perps" THEN PerpClosed(open, o.limit, lot)
        ELSE LegClosed(open, o.limit, e, lot)

CanFill(a, o, e) ==
    LET held == IF o.venue = "perps" THEN a.perp.netQuantity
                ELSE a.legs[e].netQuantity
    IN  /\ e \notin a.matured
        /\ held * o.side >= 0 \/ Magnitude(held) >= Lot(o.venue)

MakerFill ==
    /\ \E o \in acct.orders, e \in Expiry :
          /\ CanFill(acct, o, e)
          /\ acct' = Filled(acct, o, e)
          /\ traded' = traded \cup {o.venue}
    /\ UNCHANGED spot

SpotMoves ==
    /\ \E p \in Price \ {spot} : spot' = p
    /\ UNCHANGED <<acct, traded>>

Deposit ==
    /\ acct' = [acct EXCEPT !.balance = @ + 1]
    /\ UNCHANGED <<spot, traded>>

\* The owner places an order, which the venue holds to the initial requirement.
Rests ==
    /\ \E o \in Orders \ acct.orders : acct' = [acct EXCEPT !.orders = @ \cup {o}]
    /\ acct.balance >= Required(acct', spot, TRUE)
    /\ UNCHANGED <<spot, traded>>

MarketMoves ==
    /\ moves > 0
    /\ plan.at # "ended"
    /\ MakerFill \/ SpotMoves \/ Deposit \/ Rests
    /\ moves' = moves - 1
    /\ moved' = TRUE
    /\ UNCHANGED plan

Next == Step \/ MarketMoves

\* The process goes on with the plan.
Fairness == WF_vars(Step)

Spec == Init /\ [][Next]_vars /\ Fairness

--------------------------------------------------------------------------------
(* Properties.                                                             *)

Ended(kind) == plan.at = "ended" /\ plan.kind = kind

\* What the truncation of a perpetual's entry price is worth.
Truncation(a) == Magnitude(a.perp.netQuantity) \div Unit + 2

\* The keeper's two requirements of an account, at any price, are those of the
\* engine, up to that truncation.
RequirementsAgree ==
    plan.at = "start" =>
        \A isIM \in BOOLEAN, p \in Price :
            Magnitude(requiredAt(readAccountSnapshot(acct), Params, p, isIM)
                        - Required(acct, p, isIM))
                <= Truncation(acct)

\* Between two prices a surplus may round down by the stress and, when the
\* maintenance requirement nets the venues, by the profit on both sides of the
\* perpetual's entry price.
Rounding(isIM) == IF isIM THEN 1 ELSE 2

\* No price between the thresholds makes an account liquidatable, and none between
\* the thresholds of an alert takes its initial requirement past the balance, when
\* no single step of the price does: up to the rounding, and to a thousand times the
\* current price.
ThresholdsBracket ==
    LET s == readAccountSnapshot(acct)
        Around(f(_)) == \A p \in spot - 1 .. spot + 1 : f(p) > 0
        Bracketed(t, f(_), isIM) ==
            \A p \in {x \in Price : 1 <= x /\ x <= 1024 * spot} :
                \/ \E d \in t.down : p <= d
                \/ \E u \in t.up : p >= u
                \/ f(p) >= -Rounding(isIM)
        surplus(p) == mmSurplus(s, Params, p)
        slack(p) == imSurplus(s, Params, p)
    IN  plan.at = "start" =>
            /\ Around(surplus)
                => Bracketed(solveLiquidationThresholds(s, Params, spot), surplus, FALSE)
            /\ Around(slack)
                => Bracketed(solveAlertThresholds(s, Params, spot, s.balance), slack, TRUE)

\* When some close of the perpetual leaves the account in its band, by a unit of
\* margin that no rounding takes away, the close that is sent is no smaller, and
\* ends in the band too up to one such unit: what hedges the position never hides
\* that close from the bisections.
DeepestCloseIsFound ==
    LET s == readAccountSnapshot(acct)
        after(q) == simulatePerpClose(s, q, spot)
        sent == solvePerpCloseToTarget(s, Params, spot)
        inBand == {q \in 0..Magnitude(s.perp.netQty) :
                      /\ mmSurplus(after(q), Params, spot) >= 1
                      /\ imSurplus(after(q), Params, spot) <= -1}
    IN  /\ plan.at = "start"
        /\ hasBuffer(Params)
        /\ mmSurplus(s, Params, spot) < 0
        => \A q \in inBand :
              /\ sent >= q
              /\ mmSurplus(after(sent), Params, spot) >= -1
              /\ imSurplus(after(sent), Params, spot) <= 0

\* What the sizing of a close rests on: the keeper's arithmetic sees the deficit,
\* every leg can still be liquidated and is paid for by the balance, and a close
\* fits one transaction.
Sizable(a, p) ==
    LET s == readAccountSnapshot(a)
    IN  /\ mmSurplus(s, Params, p) < 0
        /\ \A e \in a.matured : a.legs[e].netQuantity = 0
        /\ \A e \in Expiry : a.balance + LegPnl(a.legs[e], p) >= 0
        /\ Len(solveFuturesClosesToTarget(s, Params, p)) <= maxLotsPerLiquidationTx

\* A futures close is sized as a whole and settled contract by contract: each may
\* truncate its entry price once more.  A perpetual's is found by bisecting what is
\* monotone only up to one unit.
SettledApart == IF plan.venue = "perps" THEN 1 ELSE Len(plan.close)

\* A close that leaves some of the venue's position and was sized on the state it
\* finds makes the account healthy, up to what the truncations are worth.
PartialCloseRestores ==
    [][/\ Mined
       /\ plan.call = "positions"
       /\ Sizable(acct, spot)
       /\ plan.close = CloseOf(plan.venue, readAccountSnapshot(acct), spot)
       /\ Exposed(acct', plan.venue)
       => Surplus(acct', spot) >= -(Truncation(acct') + SettledApart)]_vars

\* In a market that stands still a plan never gives up on an account it can size:
\* whichever venue ranks first, it ends healthy or sold out.
QuietPlanFinishes ==
    Ended("stalled") => moved \/ ~Sizable(acct, spot)

\* An account is called bad debt only when none of its positions was left to close
\* when its venues were read: a position that is open nevertheless was opened by a
\* fill after the read of its venue.  What the plan has parked counts as a position.
BadDebtIsReal ==
    Ended("badDebt") => \A v \in Market : Exposed(acct, v) => v \in traded

\* Every plan comes to an end, although orders reappear and calls revert: each return
\* to the orders leg counts as an iteration.
EveryPlanEnds == <>(plan.at = "ended")
================================================================================
