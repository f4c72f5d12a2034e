---------------------------- MODULE MCLiquidationPlan ----------------------------
(* Small instances of LiquidationPlan for TLC.                             *)
EXTENDS LiquidationPlan

\* In quarters: the whole price against half of it.
MCParams == [imSpot |-> 4, mmSpot |-> 2, imVol |-> 0, mmVol |-> 0]

PerpOf(q, entry) ==
    [netQuantity |-> q, netEntryValue |-> Quotient(entry * q, Unit)]

LegOf(q, entry, settled) ==
    [netQuantity |-> q, netEntryValue |-> entry * q, settlementPrice |-> settled]

Perps == {PerpOf(0, 0)} \cup {PerpOf(q, e) : q \in {-3, -2, 2}, e \in {1, 4}}
Near == {LegOf(0, 0, 0), LegOf(1, 3, 2)}
          \cup {LegOf(q, e, 0) : q \in {-1, 1, 2}, e \in {1, 4}}
Far == {LegOf(0, 0, 0)} \cup {LegOf(q, e, 0) : q \in {-2, -1, 1}, e \in {2, 4}}

Bid == [venue |-> "perps", side |-> 1, limit |-> 2]
Ask == [venue |-> "futures", side |-> -1, limit |-> 2]
MCOrders == {Bid, Ask}

\* The near expiry is over when it is settled, and may be over before that.
AccountOf(balance, perp, near, far, orders, funding, over) ==
    [balance |-> balance, perp |-> perp, legs |-> (1 :> near @@ 2 :> far),
     orders |-> orders, pendingFunding |-> funding,
     matured |-> IF over \/ Pinned(near) THEN {1} ELSE {}]

\* Every book, at several balances and two prices, in a market that stands still.
CalmStart ==
    {[acct |-> AccountOf(b, p, n, f, o, 0, FALSE), spot |-> s, moves |-> 0] :
        b \in {0, 1, 2, 4, 7}, p \in Perps, n \in Near, f \in Far,
        o \in {{}, {Bid, Ask}}, s \in {2, 3}}

\* A larger perpetual position against a futures leg, hedged or not.
HedgedStart ==
    {[acct |-> AccountOf(b, PerpOf(q, e), LegOf(0, 0, 0), LegOf(n, f, 0), {}, 0, FALSE),
      spot |-> 3, moves |-> 0] :
        b \in {0, 5}, q \in {-8, 6}, e \in {1, 4, 6, 8}, n \in {-4, 4, 5}, f \in {1, 4, 6}}

\* A few books with orders, funding to pay or to get, and a market that moves twice.
RestlessStart ==
    {[acct |-> AccountOf(b, p, n, LegOf(1, 3, 0), o, d, over), spot |-> 2,
      moves |-> 2] :
        b \in {0, 2}, p \in {PerpOf(0, 0), PerpOf(2, 4), PerpOf(-2, 1)},
        n \in {LegOf(0, 0, 0), LegOf(-1, 1, 0)}, o \in {{Bid}, {Bid, Ask}},
        d \in {-1, 1}, over \in BOOLEAN}

\* Nothing but orders, and a price that turns back before one of them is filled.
OrdersOnlyStart ==
    {[acct |-> AccountOf(b, PerpOf(0, 0), LegOf(0, 0, 0), LegOf(0, 0, 0), o, 0, FALSE),
      spot |-> 2, moves |-> 4] :
        b \in {0, 1}, o \in {{Bid}, {Bid, Ask}}}

MCStart == CalmStart \cup HedgedStart \cup RestlessStart \cup OrdersOnlyStart
================================================================================
