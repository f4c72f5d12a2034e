------------------------------- MODULE OrderDiff -------------------------------
(***************************************************************************)
(* What one market of the market maker wants to rest, and what it must     *)
(* cancel, reduce and create to get there: the quoter's grid               *)
(* (market-maker/src/core/quoter.ts) and the executor's diff               *)
(* (core/orderExecutor.ts, docs/stale-order-policy.md).                    *)
(*                                                                         *)
(* An intent has a side, a price and a size; a resting order an id too.    *)
(* Own orders are a sequence, in the order of the tracker's Map.  The      *)
(* pricing strategies are left to the caller: a quote is the price they    *)
(* start from, the two mids they return and the sides risk allows.         *)
(***************************************************************************)
EXTENDS Integers, SequencesExt

CONSTANTS
    tick,
    sizes,              \* size of each level, best first
    levelSpacingTicks,
    staleBandAllowance, \* price outside the grid that still counts as kept
    staleSizeAllowance, \* notional a level may be off by
    quantityScale,
    urgentRequoteThresholdTicks

ASSUME Quotable ==
    /\ {tick, levelSpacingTicks, quantityScale} \subseteq Nat \ {0}
    /\ {staleBandAllowance, staleSizeAllowance, urgentRequoteThresholdTicks} \subseteq Nat
    /\ sizes \in Seq(Nat \ {0})

Opposite(side) == IF side = "buy" THEN "sell" ELSE "buy"

\* A filter: those of a sequence that are in S, in their order.
Among(orders, S) ==
    LET kept[n \in 0 .. Len(orders)] ==
            IF n = 0 THEN <<>>
            ELSE IF orders[n] \in S THEN Append(kept[n - 1], orders[n]) ELSE kept[n - 1]
    IN  kept[Len(orders)]

Without(orders, ids) == Among(orders, {o \in Range(orders) : o.id \notin ids})

PricesOf(intents, side) == {i.price : i \in {x \in Range(intents) : x.side = side}}

LevelOf(orders, o) == SelectSeq(orders, LAMBDA x : x.side = o.side /\ x.price = o.price)

TotalSize(orders) == FoldLeft(LAMBDA sum, o : sum + o.size, 0, orders)

--------------------------------------------------------------------------------
(* Quoter.                                                                 *)

\* Of a bid, which is above zero.
roundDownToTick(price) == (price \div tick) * tick

\* The remainder has the sign of the price: one below zero goes up a tick too far.
roundUpToTick(price) ==
    LET remainder == IF price < 0 THEN -((-price) % tick) ELSE price % tick
    IN  IF remainder = 0 THEN price ELSE price + tick - remainder

\* A book that rounding locked is opened by one tick.
widenLockedBook(intents) ==
    LET bids == PricesOf(intents, "buy")
        asks == PricesOf(intents, "sell")
        best == SelectInSeq(intents, LAMBDA i : i.side = "sell" /\ i.price = Min(asks))
    IN  IF bids = {} \/ asks = {} THEN intents
        ELSE IF Max(bids) < Min(asks) THEN intents
        ELSE [intents EXCEPT ![best].price = Max(bids) + tick]

computeQuotes(quote) ==
    LET offset(level) == (level - 1) * levelSpacingTicks * tick
        bid(level) == IF quote.bid > offset(level) THEN quote.bid - offset(level) ELSE tick
        bids == [level \in DOMAIN sizes |->
                    [side |-> "buy", price |-> roundDownToTick(bid(level)), size |-> sizes[level]]]
        asks == [level \in DOMAIN sizes |->
                    [side |-> "sell", price |-> roundUpToTick(quote.ask + offset(level)), size |-> sizes[level]]]
    IN  IF quote.price = 0 THEN <<>>
        ELSE widenLockedBook((IF "buy" \in quote.sides THEN bids ELSE <<>>)
                             \o (IF "sell" \in quote.sides
                                 THEN Among(asks, {a \in Range(asks) : a.price > 0}) ELSE <<>>))

--------------------------------------------------------------------------------
(* OrderExecutor.                                                          *)

notionalToSize(price, notional) ==
    IF price <= 0 THEN 0 ELSE (notional * quantityScale + price \div 2) \div price

sizeDeltaAboveThreshold(price, delta) ==
    delta > notionalToSize(price, staleSizeAllowance)

\* Past the least aggressive price wanted, by more than the band.
OutsideBand(o, desired) ==
    LET mine == PricesOf(desired, o.side)
    IN  \/ mine = {}
        \/ o.side = "buy" /\ o.price + staleBandAllowance < Min(mine)
        \/ o.side = "sell" /\ o.price > Max(mine) + staleBandAllowance

\* Variant: an order left at a price better than the grid is kept.
WouldSelfMatchNever(o, desired) == FALSE

\* Better than the grid, or locking or crossing its other side.
WouldSelfMatch(o, desired) ==
    LET mine == PricesOf(desired, o.side)
        other == PricesOf(desired, Opposite(o.side))
        within(p, q) == IF o.side = "buy" THEN p <= q ELSE p >= q
    IN  \/ \A p \in mine : ~within(o.price, p)
        \/ \E p \in other : within(p, o.price)

Stale(o, desired) == OutsideBand(o, desired) \/ WouldSelfMatch(o, desired)

\* What its level holds too much.
Excess(own, desired, o) ==
    LET excess == TotalSize(LevelOf(own, o)) - TotalSize(LevelOf(desired, o))
    IN  IF LevelOf(desired, o) # <<>> /\ sizeDeltaAboveThreshold(o.price, excess)
        THEN excess ELSE 0

\* The part of it that falls on the order: those behind it are trimmed first.
Trim(own, desired, o) ==
    LET level == LevelOf(own, o)
        at == SelectInSeq(level, LAMBDA x : x.id = o.id)
    IN  Excess(own, desired, o) - TotalSize(SubSeq(level, at + 1, Len(level)))

findStaleOrders(own, desired) ==
    LET over == {o \in Range(own) : ~Stale(o, desired) /\ Trim(own, desired, o) > 0}
    IN  [cancels |-> {o.id : o \in {x \in Range(own) : Stale(x, desired)}}
                     \cup {o.id : o \in {x \in over : x.size <= Trim(own, desired, x)}},
         reduces |-> {[id |-> o.id, newSize |-> o.size - Trim(own, desired, o)] :
                         o \in {x \in over : x.size > Trim(own, desired, x)}}]

\* Own orders once a diff is done.
Reduced(o, reduces) ==
    [o EXCEPT !.size = IF \E r \in reduces : r.id = o.id
                       THEN (CHOOSE r \in reduces : r.id = o.id).newSize ELSE @]

After(own, diff) ==
    LET kept == Without(own, diff.cancels)
    IN  [i \in DOMAIN kept |-> Reduced(kept[i], diff.reduces)]

Deficit(existing, i) == i.size - TotalSize(LevelOf(existing, i))

findNewOrders(desired, existing) ==
    LET short == {i \in Range(desired) : sizeDeltaAboveThreshold(i.price, Deficit(existing, i))}
        missing == Among(desired, short)
    IN  [k \in DOMAIN missing |-> [missing[k] EXCEPT !.size = Deficit(existing, missing[k])]]

NoDiff == [cancels |-> {}, reduces |-> {}, creates |-> <<>>]

\* plan, past the cooldown: NoDiff where the code returns null.
planDiff(own, desired) ==
    LET stale == findStaleOrders(own, desired)
    IN  [cancels |-> stale.cancels, reduces |-> stale.reduces,
         creates |-> findNewOrders(desired, After(own, stale))]

shouldRequote(own, desired) ==
    LET stale == findStaleOrders(own, desired)
    IN  \/ Len(own) < Len(desired)
        \/ findNewOrders(desired, own) # <<>>
        \/ stale.cancels # {} \/ stale.reduces # {}

\* While gas spikes only a drift of the price makes a requote urgent.
Urgent(quote, lastQuoteMidPrice) ==
    LET diff == quote.price - lastQuoteMidPrice
    IN  \/ lastQuoteMidPrice = 0
        \/ (IF diff < 0 THEN -diff ELSE diff) \div tick >= urgentRequoteThresholdTicks
================================================================================
