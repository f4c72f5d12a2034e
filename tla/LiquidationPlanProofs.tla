-------------------------- MODULE LiquidationPlanProofs --------------------------
(***************************************************************************)
(* Theorems about the keeper's plans for one account, for every set of     *)
(* expiries, prices, shocks and starting books.                            *)
(***************************************************************************)
EXTENDS LiquidationPlan, OperatorFacts, SequenceTheorems, TLAPS

--------------------------------------------------------------------------------
(* Arithmetic.                                                             *)

LEMMA UnitFacts ==
    /\ WAD \in Nat \ {0} /\ LIFT \in Nat \ {0} /\ Unit \in Nat \ {0}
    /\ WAD = LIFT * Unit
<1>1. WAD \in Nat \ {0} /\ LIFT \in Nat \ {0} /\ WAD % LIFT = 0
    BY Scales, WholeUnits
<1>2. ASSUME NEW w \in Nat \ {0}, NEW l \in Nat \ {0}, w % l = 0
      PROVE  w \div l \in Nat \ {0} /\ w = l * (w \div l)
    BY <1>2, Z3
<1> QED
    BY <1>1, <1>2 DEF Unit

LEMMA DivBounds ==
    ASSUME NEW n \in Nat, NEW d \in Nat \ {0}
    PROVE  /\ n \div d \in Nat
           /\ d * (n \div d) \in Nat
           /\ d * (n \div d) <= n
           /\ n < d * (n \div d) + d
BY Z3

LEMMA DivUnique ==
    ASSUME NEW n \in Nat, NEW d \in Nat \ {0}, NEW q \in Nat,
           d * q <= n, n < d * q + d
    PROVE  n \div d = q
<1> DEFINE r == n \div d
<1>1. r \in Nat /\ d * r <= n /\ n < d * r + d
    BY DivBounds
<1> HIDE DEF r
<1>2. CASE r < q
    <2>1. d * (r + 1) <= d * q
        BY <1>1, <1>2, TimesMonotone
    <2>2. d * (r + 1) = d * r + d
        BY <1>1, Z3
    <2>3. d * r \in Int /\ d * q \in Int
        BY <1>1, Z3
    <2> QED
        BY <1>1, <2>1, <2>2, <2>3
<1>3. CASE q < r
    <2>1. d * (q + 1) <= d * r
        BY <1>1, <1>3, TimesMonotone
    <2>2. d * (q + 1) = d * q + d
        BY Z3
    <2>3. d * r \in Int /\ d * q \in Int
        BY <1>1, Z3
    <2> QED
        BY <1>1, <2>1, <2>2, <2>3
<1> QED
    BY <1>1, <1>2, <1>3 DEF r

\* A factor of both drops out.
LEMMA DivCancel ==
    ASSUME NEW n \in Nat, NEW d \in Nat \ {0}, NEW k \in Nat \ {0}
    PROVE  (n * k) \div (d * k) = n \div d
<1> DEFINE q == n \div d
<1>0. q \in Nat /\ d * q \in Nat /\ d * q <= n /\ n < d * q + d
    BY DivBounds
<1> HIDE DEF q
<1>1. q \in Nat /\ d * q <= n /\ n + 1 <= d * q + d /\ d * q \in Nat
    BY <1>0
<1>2. (d * q) * k <= n * k /\ (n + 1) * k <= (d * q + d) * k
    BY <1>1, TimesMonotone
<1>3. /\ (d * q) * k = (d * k) * q
      /\ (n + 1) * k = n * k + k
      /\ (d * q + d) * k = (d * k) * q + d * k
    BY <1>1, Z3
<1>4. n * k \in Nat /\ d * k \in Nat \ {0} /\ (d * k) * q \in Nat
    BY <1>1, Z3
<1>5. (d * k) * q <= n * k /\ n * k < (d * k) * q + d * k
    BY <1>2, <1>3, <1>4
<1> QED
    BY <1>1, <1>4, <1>5, DivUnique DEF q

LEMMA DivOfMultiple ==
    ASSUME NEW n \in Nat, NEW d \in Nat \ {0}
    PROVE  (n * d) \div d = n
<1>1. n * d \in Nat /\ d * n <= n * d /\ n * d < d * n + d
    BY Z3
<1> QED
    BY <1>1, DivUnique

\* Signed division misses by less than its divisor, and keeps the sign.
LEMMA QuotientBounds ==
    ASSUME NEW n \in Int, NEW d \in Nat \ {0}
    PROVE  /\ Quotient(n, d) \in Int
           /\ d * Quotient(n, d) \in Int
           /\ d * Quotient(n, d) < n + d
           /\ n - d < d * Quotient(n, d)
           /\ n >= 0 => d * Quotient(n, d) <= n
           /\ Quotient(-n, d) = -Quotient(n, d)
           /\ Magnitude(n) \in Nat
           /\ Magnitude(Quotient(n, d)) = Magnitude(n) \div d
<1>0. 0 \div d = 0
    BY Z3
<1>1. CASE n >= 0
    <2>1. n \div d \in Nat /\ d * (n \div d) \in Nat
          /\ d * (n \div d) <= n /\ n < d * (n \div d) + d
        BY <1>1, DivBounds
    <2>2. Quotient(n, d) = n \div d /\ Magnitude(n) = n
        BY <1>1 DEF Quotient, Magnitude
    <2>3. Quotient(-n, d) = -(n \div d)
        <3>1. CASE n = 0
            BY <3>1, <1>0 DEF Quotient
        <3>2. CASE n # 0
            <4>1. -n < 0 /\ -(-n) = n
                BY <1>1, <3>2
            <4> QED
                BY <4>1 DEF Quotient
        <3> QED
            BY <3>1, <3>2
    <2>4. Magnitude(n \div d) = n \div d
        BY <2>1 DEF Magnitude
    <2> QED
        BY <1>1, <2>1, <2>2, <2>3, <2>4
<1>2. CASE n < 0
    <2> DEFINE q == (-n) \div d
    <2>1. q \in Nat /\ d * q \in Nat /\ d * q <= -n /\ -n < d * q + d
        BY <1>2, DivBounds
    <2>2. Quotient(n, d) = -q /\ Magnitude(n) = -n
        BY <1>2 DEF Quotient, Magnitude
    <2>3. Quotient(-n, d) = q
        BY <1>2 DEF Quotient
    <2> HIDE DEF q
    <2>4. d * (-q) = -(d * q)
        BY <2>1, Z3
    <2>5. Magnitude(-q) = q
        BY <2>1 DEF Magnitude
    <2>6. -(-q) = q
        BY <2>1
    <2> QED
        BY <1>2, <2>1, <2>2, <2>3, <2>4, <2>5, <2>6 DEF q
<1> QED
    BY <1>1, <1>2

LEMMA MagnitudeOfProduct ==
    ASSUME NEW x \in Int, NEW s \in Nat
    PROVE  /\ x * s \in Int
           /\ Magnitude(x * s) = Magnitude(x) * s
<1>1. x * s \in Int
    BY Z3
<1>2. CASE x >= 0
    <2>1. x * s >= 0
        BY <1>2, Z3
    <2> QED
        BY <1>1, <1>2, <2>1 DEF Magnitude
<1>3. CASE x < 0
    <2>1. x * s <= 0 /\ (-x) * s = -(x * s)
        BY <1>3, Z3
    <2>2. Magnitude(x) = -x
        BY <1>3 DEF Magnitude
    <2>3. Magnitude(x * s) = -(x * s)
        BY <1>1, <2>1 DEF Magnitude
    <2> QED
        BY <1>1, <2>1, <2>2, <2>3
<1> QED
    BY <1>2, <1>3

LEMMA QuotientOfMultiple ==
    ASSUME NEW n \in Int, NEW d \in Nat \ {0}
    PROVE  Quotient(n * d, d) = n
<1>1. CASE n >= 0
    <2>1. n * d >= 0 /\ n * d \in Int
        BY <1>1, Z3
    <2> QED
        BY <1>1, <2>1, DivOfMultiple DEF Quotient
<1>2. CASE n < 0
    <2>1. n * d < 0 /\ n * d \in Int /\ -(n * d) = (-n) * d
        BY <1>2, Z3
    <2>2. ((-n) * d) \div d = -n
        BY <1>2, DivOfMultiple
    <2>3. -(-n) = n
        OBVIOUS
    <2> QED
        BY <2>1, <2>2, <2>3 DEF Quotient
<1> QED
    BY <1>1, <1>2

--------------------------------------------------------------------------------
(* What the engine and the keeper make of a book.                          *)

\* The shocks are multiples of the smallest fraction that a unit of quantity can
\* resolve; a percentage is.
WholeShocks == Params.imSpot % Unit = 0 /\ Params.mmSpot % Unit = 0

\* The profit of the perpetual, as the keeper has it and as the engine has it.
KeeperPnl(perp, p) == Quotient((p - EntryPrice(perp)) * perp.netQuantity, Unit)

EnginePnl(perp, p) == Quotient(p * perp.netQuantity, Unit) - perp.netEntryValue

LEMMA PerpPnlsAgree ==
    ASSUME NEW perp \in [netQuantity : Int, netEntryValue : Int], Entered(perp),
           NEW p \in Nat
    PROVE  /\ KeeperPnl(perp, p) \in Int /\ EnginePnl(perp, p) \in Int
           /\ Magnitude(perp.netQuantity) \div Unit \in Nat
           /\ KeeperPnl(perp, p) - EnginePnl(perp, p)
                 <= Magnitude(perp.netQuantity) \div Unit + 2
           /\ EnginePnl(perp, p) - KeeperPnl(perp, p)
                 <= Magnitude(perp.netQuantity) \div Unit + 2
<1> DEFINE q == perp.netQuantity
           n == perp.netEntryValue
           U == Unit
           Q == Magnitude(q)
           N == Magnitude(n)
           price == (N * U) \div Q
           x == Quotient((p - price) * Q, U)
           y == Quotient(p * Q, U)
<1>1. /\ q \in Int /\ n \in Int /\ Q \in Nat /\ N \in Nat
      /\ (q >= 0 => n >= 0) /\ (q <= 0 => n <= 0)
    BY DEF Entered, Magnitude
<1>2. U \in Nat \ {0}
    BY UnitFacts
<1>3. Q \div U \in Nat
    BY <1>1, <1>2, DivBounds
<1>4. CASE q = 0
    <2>1. n = 0 /\ Q = 0
        BY <1>1, <1>4 DEF Magnitude
    <2>2. p * 0 = 0 /\ (p - 0) * 0 = 0 /\ 0 \div U = 0
        BY <1>2, Z3
    <2>3. EntryPrice(perp) = 0
        BY <1>4 DEF EntryPrice
    <2>4. Quotient(0, U) = 0
        BY <2>2 DEF Quotient
    <2>5. KeeperPnl(perp, p) = 0 /\ EnginePnl(perp, p) = 0
        <3>1. Quotient((p - 0) * 0, U) = 0 /\ Quotient(p * 0, U) - 0 = 0
            BY <2>2, <2>4
        <3> QED
            BY <3>1, <2>1, <2>3, <1>4 DEF KeeperPnl, EnginePnl
    <2> QED
        BY <1>3, <2>5
<1>5. CASE q # 0
    <2>0. Q \in Nat \ {0} /\ EntryPrice(perp) = price
        BY <1>1, <1>5 DEF Magnitude, EntryPrice
    <2>1. N * U \in Nat
        BY <1>1, <1>2, TimesMonotone
    <2>2. price \in Nat /\ Q * price \in Nat /\ Q * price <= N * U
          /\ N * U < Q * price + Q
        BY <2>0, <2>1, DivBounds
    <2> DEFINE a == (p - price) * Q
               b == p * Q
    <2> HIDE DEF q, n, U, Q, N, price
    <2>3. a \in Int /\ b \in Nat /\ a = b - Q * price
        BY <1>1, <2>2, Z3
    <2> HIDE DEF a, b
    <2>4. x \in Int /\ U * x \in Int /\ U * x < a + U /\ a - U < U * x
        BY <1>2, <2>3, QuotientBounds DEF a
    <2>5. y \in Int /\ U * y \in Int /\ U * y <= b /\ b - U < U * y
        BY <1>2, <2>3, QuotientBounds DEF b
    <2> HIDE DEF x, y
    <2> DEFINE d == x - (y - N)
               t == Q \div U
    <2>6. d \in Int /\ U * d \in Int /\ U * d = U * x - U * y + U * N
        BY <1>1, <1>2, <2>4, <2>5, Z3
    <2>7. U * N = N * U
        BY <1>1, <1>2, Z3
    <2>8. U * d < Q + 2 * U /\ -U < U * d
        BY <1>1, <1>2, <2>1, <2>2, <2>3, <2>4, <2>5, <2>6, <2>7
    <2>9. t \in Nat /\ U * t \in Nat /\ Q < U * t + U
        BY <1>1, <1>2, DivBounds
    <2> HIDE DEF d, t
    <2>10. U * (t + 3) = U * t + 3 * U /\ U * (-1) = -U
        BY <1>2, <2>9, Z3
    <2>11. U * d < U * (t + 3) /\ U * (-1) < U * d
        BY <1>1, <1>2, <2>6, <2>8, <2>9, <2>10
    <2>12. d < t + 3 /\ -1 < d
        BY <1>2, <2>6, <2>9, <2>11, Z3
    <2>13. 0 <= d /\ d <= t + 2
        BY <2>6, <2>9, <2>12
    <2>14. CASE q > 0
        <3>1. Q = q /\ N = n
            BY <1>1, <2>14 DEF Q, N, Magnitude
        <3>2. KeeperPnl(perp, p) = x /\ EnginePnl(perp, p) = y - n
            BY <2>0, <3>1 DEF KeeperPnl, EnginePnl, x, y, a, b, q, n, U
        <3>3. y - n \in Int /\ x - (y - n) = d
            BY <1>1, <2>5, <3>1 DEF d
        <3> QED
            BY <2>4, <2>9, <2>13, <2>6, <3>2, <3>3 DEF t, Q, q, U
    <2>15. CASE q < 0
        <3>1. Q = -q /\ N = -n
            BY <1>1, <2>15 DEF Q, N, Magnitude
        <3>2. (p - price) * q = -a /\ p * q = -b
            BY <1>1, <2>2, <3>1, Z3 DEF a, b
        <3>3. Quotient((p - price) * q, U) = -x /\ Quotient(p * q, U) = -y
            BY <1>2, <2>3, <3>2, QuotientBounds DEF x, y, a, b
        <3>4. KeeperPnl(perp, p) = -x /\ EnginePnl(perp, p) = -y - n
            BY <2>0, <3>3 DEF KeeperPnl, EnginePnl, q, n, U
        <3>5. -x \in Int /\ -y - n \in Int /\ (-x) - (-y - n) = -d
            BY <1>1, <2>4, <2>5, <3>1 DEF d
        <3> QED
            BY <2>6, <2>9, <2>13, <3>4, <3>5 DEF t, Q, q, U
    <2> QED
        BY <1>1, <1>5, <2>14, <2>15
<1> QED
    BY <1>1, <1>4, <1>5

--------------------------------------------------------------------------------
(* The views of the two venues, and their sum.                             *)

Views(a, p) == [v \in Market |-> getRiskView(a, p, v)]

Shares(a, p) == linearAggregate[Views(a, p)]

LEMMA TwoVenues ==
    ASSUME NEW f, f["perps"] \in Int, f["futures"] \in Int
    PROVE  SumFunctionOnSet(f, Market) = f["perps"] + f["futures"]
<1>1. /\ Market = {"perps", "futures"} /\ Market \ {"perps"} = {"futures"}
      /\ {"futures"} \ {"futures"} = {}
    BY Venues
<1>2. IsFiniteSet(Market) /\ IsFiniteSet({"futures"})
    BY Markets, FS_Singleton
<1>3. SumFunctionOnSet(f, Market) = f["perps"] + SumFunctionOnSet(f, {"futures"})
    <2>1. \A x \in Market : f[x] \in Int
        BY <1>1
    <2>2. "perps" \in Market
        BY <1>1
    <2>3. SumFunctionOnSet(f, Market)
            = f["perps"] + SumFunctionOnSet(f, Market \ {"perps"})
        BY <1>2, <2>1, <2>2, SumOfElement
    <2> QED
        BY <1>1, <2>3
<1>4. SumFunctionOnSet(f, {"futures"}) = f["futures"] + SumFunctionOnSet(f, {})
    <2>1. \A x \in {"futures"} : f[x] \in Int
        OBVIOUS
    <2>2. SumFunctionOnSet(f, {"futures"})
            = f["futures"] + SumFunctionOnSet(f, {"futures"} \ {"futures"})
        BY <1>2, <2>1, SumOfElement
    <2> QED
        BY <1>1, <2>2
<1>5. SumFunctionOnSet(f, {}) = 0
    BY SumOfNone
<1> QED
    BY <1>3, <1>4, <1>5

LEMMA OrderFields ==
    ASSUME NEW a, Booked(a), NEW v \in Market
    PROVE  LET agg == getOrderAggregate(a, v)
           IN  /\ agg.buyDelta \in Nat /\ agg.sellDelta \in Nat
               /\ agg.buyValue \in Int /\ agg.sellValue \in Int
<1>1. ASSUME NEW d \in {1, -1}
      PROVE  /\ Cardinality(OrdersOn(a, v, d)) \in Nat
             /\ Limits(OrdersOn(a, v, d)) \in Int
    <2> DEFINE S == OrdersOn(a, v, d)
               f == [o \in S |-> o.limit]
    <2>1. S \in SUBSET a.orders /\ S \subseteq Order
        BY DEF OrdersOn, OrdersOf, Booked, Account
    <2>2. IsFiniteSet(S)
        BY <2>1, FS_Subset DEF Booked
    <2>3. \A o \in S : f[o] \in Int
        <3>1. \A o \in Order : o.limit \in Price
            BY DEF Order
        <3>2. \A o \in S : f[o] = o.limit
            OBVIOUS
        <3>3. \A n \in Price : n \in Int
            BY Inputs
        <3> HIDE DEF S, f
        <3> QED
            BY <2>1, <3>1, <3>2, <3>3
    <2>4. S \in SUBSET S
        OBVIOUS
    <2> HIDE DEF S, f
    <2>5. SumFunctionOnSet(f, S) \in Int
        BY <2>2, <2>3, <2>4, SumType
    <2>6. Cardinality(S) \in Nat
        BY <2>2, FS_CardinalityType
    <2> QED
        BY <2>5, <2>6 DEF Limits, SumOver, S, f
<1>2. Unit \in Nat
    BY UnitFacts
<1>3. ASSUME NEW n \in Nat
      PROVE  Unit * n \in Nat
    BY <1>2, TimesMonotone
<1>4. /\ Cardinality(OrdersOn(a, v, 1)) \in Nat /\ Limits(OrdersOn(a, v, 1)) \in Int
      /\ Cardinality(OrdersOn(a, v, -1)) \in Nat /\ Limits(OrdersOn(a, v, -1)) \in Int
    BY <1>1
<1>5. /\ Unit * Cardinality(OrdersOn(a, v, 1)) \in Nat
      /\ Unit * Cardinality(OrdersOn(a, v, -1)) \in Nat
    BY <1>3, <1>4
<1> QED
    BY <1>4, <1>5 DEF getOrderAggregate

\* The live futures quantity, and the profit of all futures.
Live(a) == {e \in Expiry : ~Pinned(a.legs[e])}

LiveQuantity(a) == SumOver(Live(a), LAMBDA e : a.legs[e].netQuantity)

FuturesPnl(a, p) == SumOver(Expiry, LAMBDA e : LegPnl(a.legs[e], p))

LEMMA FuturesFields ==
    ASSUME NEW a, Booked(a), NEW p \in Nat
    PROVE  LiveQuantity(a) \in Int /\ FuturesPnl(a, p) \in Int
<1> DEFINE f == [e \in Live(a) |-> a.legs[e].netQuantity]
           g == [e \in Expiry |-> LegPnl(a.legs[e], p)]
<1>1. ASSUME NEW e \in Expiry
      PROVE  /\ a.legs[e].netQuantity \in Int
             /\ a.legs[e].netEntryValue \in Int
             /\ Mark(a.legs[e], p) \in Nat
    BY DEF Booked, Account, Leg, Mark
<1>2. ASSUME NEW e \in Expiry
      PROVE  LegPnl(a.legs[e], p) \in Int
    <2>1. Mark(a.legs[e], p) * a.legs[e].netQuantity \in Int
        BY <1>1, Z3
    <2> QED
        BY <1>1, <2>1 DEF LegPnl
<1>3. IsFiniteSet(Expiry) /\ IsFiniteSet(Live(a)) /\ Live(a) \subseteq Expiry
    BY Expiries, FS_Subset DEF Live
<1>4. (\A e \in Live(a) : f[e] \in Int) /\ (\A e \in Expiry : g[e] \in Int)
    BY <1>1, <1>2, <1>3
<1>5. Live(a) \in SUBSET Live(a) /\ Expiry \in SUBSET Expiry
    OBVIOUS
<1> HIDE DEF f, g
<1>6. SumFunctionOnSet(f, Live(a)) \in Int
    BY <1>3, <1>4, <1>5, SumType
<1>7. SumFunctionOnSet(g, Expiry) \in Int
    BY <1>3, <1>4, <1>5, SumType
<1> QED
    BY <1>6, <1>7 DEF LiveQuantity, FuturesPnl, SumOver, f, g

\* What each venue reports.
LEMMA PerpView ==
    ASSUME NEW a, NEW p
    PROVE  LET agg == getOrderAggregate(a, "perps")
           IN  getRiskView(a, p, "perps") =
                 [netPositionDelta |-> a.perp.netQuantity,
                  unrealizedPnl |-> EnginePnl(a.perp, p),
                  pendingFunding |-> a.pendingFunding,
                  buyOrderDelta |-> agg.buyDelta,
                  sellOrderDelta |-> agg.sellDelta,
                  buyOrderFillLoss |->
                     NonNegative(agg.buyValue - ((p * agg.buyDelta) \div Unit)),
                  sellOrderFillLoss |->
                     NonNegative(((p * agg.sellDelta) \div Unit) - agg.sellValue)]
BY DEF getRiskView, PerpPnl, EnginePnl

LEMMA FuturesView ==
    ASSUME NEW a, NEW p
    PROVE  LET agg == getOrderAggregate(a, "futures")
           IN  getRiskView(a, p, "futures") =
                 [netPositionDelta |-> Unit * LiveQuantity(a),
                  unrealizedPnl |-> FuturesPnl(a, p),
                  pendingFunding |-> 0,
                  buyOrderDelta |-> agg.buyDelta,
                  sellOrderDelta |-> agg.sellDelta,
                  buyOrderFillLoss |->
                     NonNegative(agg.buyValue - ((p * agg.buyDelta) \div Unit)),
                  sellOrderFillLoss |->
                     NonNegative(((p * agg.sellDelta) \div Unit) - agg.sellValue)]
<1>1. "futures" # "perps"
    OBVIOUS
<1> QED
    BY <1>1 DEF getRiskView, LiveQuantity, FuturesPnl, Live

LEMMA FillLossType ==
    ASSUME NEW a, Booked(a), NEW v \in Market, NEW p \in Nat
    PROVE  LET agg == getOrderAggregate(a, v)
           IN  /\ NonNegative(agg.buyValue - ((p * agg.buyDelta) \div Unit)) \in Nat
               /\ NonNegative(((p * agg.sellDelta) \div Unit) - agg.sellValue) \in Nat
<1> DEFINE agg == getOrderAggregate(a, v)
<1>1. /\ agg.buyDelta \in Nat /\ agg.sellDelta \in Nat
      /\ agg.buyValue \in Int /\ agg.sellValue \in Int
    BY OrderFields
<1> HIDE DEF agg
<1>2. p * agg.buyDelta \in Nat /\ p * agg.sellDelta \in Nat
    BY <1>1, TimesMonotone
<1>3. (p * agg.buyDelta) \div Unit \in Nat /\ (p * agg.sellDelta) \div Unit \in Nat
    BY <1>2, UnitFacts, DivBounds
<1>4. ASSUME NEW n \in Int PROVE NonNegative(n) \in Nat
    BY DEF NonNegative
<1>5. /\ agg.buyValue - ((p * agg.buyDelta) \div Unit) \in Int
      /\ ((p * agg.sellDelta) \div Unit) - agg.sellValue \in Int
    BY <1>1, <1>3
<1> QED
    BY <1>4, <1>5 DEF agg

LEMMA ViewsAreViews ==
    ASSUME NEW a, Booked(a), NEW p \in Nat
    PROVE  Views(a, p) \in RiskViews
<1>1. "perps" \in Market /\ "futures" \in Market
    BY Venues
<1>2. a.perp \in [netQuantity : Int, netEntryValue : Int] /\ a.pendingFunding \in Int
      /\ a.perp.netQuantity \in Int /\ Entered(a.perp)
    BY DEF Booked, Account
<1>3. EnginePnl(a.perp, p) \in Int
    BY <1>2, PerpPnlsAgree
<1>4. LiveQuantity(a) \in Int /\ FuturesPnl(a, p) \in Int
    BY FuturesFields
<1>5. Unit * LiveQuantity(a) \in Int
    BY <1>4, UnitFacts, Z3
<1>6. getRiskView(a, p, "perps") \in RiskView
    <2> DEFINE agg == getOrderAggregate(a, "perps")
    <2>1. agg.buyDelta \in Nat /\ agg.sellDelta \in Nat
        BY <1>1, OrderFields
    <2>2. /\ NonNegative(agg.buyValue - ((p * agg.buyDelta) \div Unit)) \in Nat
          /\ NonNegative(((p * agg.sellDelta) \div Unit) - agg.sellValue) \in Nat
        BY <1>1, FillLossType
    <2> QED
        BY <1>2, <1>3, <2>1, <2>2, PerpView DEF RiskView
<1>7. getRiskView(a, p, "futures") \in RiskView
    <2> DEFINE agg == getOrderAggregate(a, "futures")
    <2>1. agg.buyDelta \in Nat /\ agg.sellDelta \in Nat
        BY <1>1, OrderFields
    <2>2. /\ NonNegative(agg.buyValue - ((p * agg.buyDelta) \div Unit)) \in Nat
          /\ NonNegative(((p * agg.sellDelta) \div Unit) - agg.sellValue) \in Nat
        BY <1>1, FillLossType
    <2> QED
        BY <1>4, <1>5, <2>1, <2>2, FuturesView DEF RiskView
<1>8. \A v \in Market : getRiskView(a, p, v) \in RiskView
    BY <1>6, <1>7, Venues
<1> QED
    BY <1>8 DEF Views, RiskViews

\* The sum of what the two venues report.
LEMMA SharesOf ==
    ASSUME NEW a, Booked(a), NEW p \in Nat
    PROVE  LET perps == getOrderAggregate(a, "perps")
               futures == getOrderAggregate(a, "futures")
           IN  /\ Shares(a, p).netDelta
                    = toWad(a.perp.netQuantity) + toWad(Unit * LiveQuantity(a))
               /\ Shares(a, p).buyOrderDelta
                    = toWad(perps.buyDelta) + toWad(futures.buyDelta)
               /\ Shares(a, p).sellOrderDelta
                    = toWad(perps.sellDelta) + toWad(futures.sellDelta)
               /\ Shares(a, p).fillLoss
                    = venueFillLoss(perps, p) + venueFillLoss(futures, p)
               /\ Shares(a, p).netUnrealizedPnl
                    = EnginePnl(a.perp, p) + FuturesPnl(a, p)
               /\ Shares(a, p).unrealizedLossPerMarket
                    = NonNegative(-EnginePnl(a.perp, p)) + NonNegative(-FuturesPnl(a, p))
               /\ Shares(a, p).fundingOwed = NonNegative(a.pendingFunding)
<1> DEFINE perps == getOrderAggregate(a, "perps")
           futures == getOrderAggregate(a, "futures")
           view == Views(a, p)
           v == view["perps"]
           w == view["futures"]
           NetDeltas == [m \in Market |-> toWad(view[m].netPositionDelta)]
           BuyDeltas == [m \in Market |-> toWad(view[m].buyOrderDelta)]
           SellDeltas == [m \in Market |-> toWad(view[m].sellOrderDelta)]
           FillLosses == [m \in Market |->
                            view[m].buyOrderFillLoss + view[m].sellOrderFillLoss]
           Pnls == [m \in Market |-> view[m].unrealizedPnl]
           Losses == [m \in Market |-> NonNegative(-view[m].unrealizedPnl)]
           Fundings == [m \in Market |-> NonNegative(view[m].pendingFunding)]
           Summed(f) == SumFunctionOnSet(f, Market)
<1>0. "perps" \in Market /\ "futures" \in Market
    BY Venues
<1>1. Shares(a, p) =
        [netDelta |-> Summed(NetDeltas),
         buyOrderDelta |-> Summed(BuyDeltas),
         sellOrderDelta |-> Summed(SellDeltas),
         fillLoss |-> Summed(FillLosses),
         netUnrealizedPnl |-> Summed(Pnls),
         unrealizedLossPerMarket |-> Summed(Losses),
         fundingOwed |-> Summed(Fundings)]
    BY ViewsAreViews DEF Shares, linearAggregate, SumOver
<1>2. v = getRiskView(a, p, "perps") /\ w = getRiskView(a, p, "futures")
    BY <1>0 DEF Views
<1>3. ASSUME NEW m \in Market
      PROVE  /\ view[m].netPositionDelta \in Int /\ view[m].unrealizedPnl \in Int
             /\ view[m].pendingFunding \in Int
             /\ view[m].buyOrderDelta \in Int /\ view[m].sellOrderDelta \in Int
             /\ view[m].buyOrderFillLoss \in Int /\ view[m].sellOrderFillLoss \in Int
    BY ViewsAreViews DEF RiskViews, RiskView
<1>4. ASSUME NEW n \in Int
      PROVE  toWad(n) \in Int /\ NonNegative(n) \in Int
    BY UnitFacts, Z3 DEF toWad, NonNegative
<1> HIDE DEF view
<1>5. ASSUME NEW m \in Market
      PROVE  /\ NetDeltas[m] = toWad(view[m].netPositionDelta) /\ NetDeltas[m] \in Int
             /\ BuyDeltas[m] = toWad(view[m].buyOrderDelta) /\ BuyDeltas[m] \in Int
             /\ SellDeltas[m] = toWad(view[m].sellOrderDelta) /\ SellDeltas[m] \in Int
             /\ FillLosses[m] = view[m].buyOrderFillLoss + view[m].sellOrderFillLoss
             /\ FillLosses[m] \in Int
             /\ Pnls[m] = view[m].unrealizedPnl /\ Pnls[m] \in Int
             /\ Losses[m] = NonNegative(-view[m].unrealizedPnl) /\ Losses[m] \in Int
             /\ Fundings[m] = NonNegative(view[m].pendingFunding) /\ Fundings[m] \in Int
    BY <1>3, <1>4
<1> HIDE DEF NetDeltas, BuyDeltas, SellDeltas, FillLosses, Pnls, Losses, Fundings
<1>6. /\ Summed(NetDeltas) = toWad(v.netPositionDelta) + toWad(w.netPositionDelta)
      /\ Summed(BuyDeltas) = toWad(v.buyOrderDelta) + toWad(w.buyOrderDelta)
      /\ Summed(SellDeltas) = toWad(v.sellOrderDelta) + toWad(w.sellOrderDelta)
      /\ Summed(FillLosses) = (v.buyOrderFillLoss + v.sellOrderFillLoss)
                                + (w.buyOrderFillLoss + w.sellOrderFillLoss)
    BY <1>0, <1>5, TwoVenues
<1>7. /\ Summed(Pnls) = v.unrealizedPnl + w.unrealizedPnl
      /\ Summed(Losses) = NonNegative(-v.unrealizedPnl) + NonNegative(-w.unrealizedPnl)
      /\ Summed(Fundings)
            = NonNegative(v.pendingFunding) + NonNegative(w.pendingFunding)
    BY <1>0, <1>5, TwoVenues
<1>8. /\ v.netPositionDelta = a.perp.netQuantity
      /\ v.unrealizedPnl = EnginePnl(a.perp, p)
      /\ v.pendingFunding = a.pendingFunding
      /\ v.buyOrderDelta = perps.buyDelta /\ v.sellOrderDelta = perps.sellDelta
      /\ v.buyOrderFillLoss + v.sellOrderFillLoss = venueFillLoss(perps, p)
    BY <1>2, PerpView DEF venueFillLoss
<1>9. /\ w.netPositionDelta = Unit * LiveQuantity(a)
      /\ w.unrealizedPnl = FuturesPnl(a, p)
      /\ w.pendingFunding = 0
      /\ w.buyOrderDelta = futures.buyDelta /\ w.sellOrderDelta = futures.sellDelta
      /\ w.buyOrderFillLoss + w.sellOrderFillLoss = venueFillLoss(futures, p)
    BY <1>2, FuturesView DEF venueFillLoss
<1>10. NonNegative(v.pendingFunding) + NonNegative(w.pendingFunding)
            = NonNegative(a.pendingFunding)
    <2>1. NonNegative(0) = 0 /\ NonNegative(a.pendingFunding) \in Int
        BY <1>0, <1>3, <1>4, <1>8 DEF NonNegative
    <2> QED
        BY <1>8, <1>9, <2>1
<1> HIDE DEF v, w, perps, futures, Summed
<1> QED
    BY <1>1, <1>6, <1>7, <1>8, <1>9, <1>10 DEF perps, futures

--------------------------------------------------------------------------------
(* The requirements.                                                       *)

\* What the keeper reads of the two venues adds up to the same deltas, losses of
\* orders, futures profit and funding; only the perpetual's profit is its own.
LEMMA KeeperReads ==
    ASSUME NEW a, Booked(a), NEW p \in Nat
    PROVE  LET s == readAccountSnapshot(a)
           IN  /\ netDeltaWad(s) = Shares(a, p).netDelta
               /\ orderDeltaWad(s).buy = Shares(a, p).buyOrderDelta
               /\ orderDeltaWad(s).sell = Shares(a, p).sellOrderDelta
               /\ fillLoss(s, p) = Shares(a, p).fillLoss
               /\ perpUnrealizedPnl(s, p) = KeeperPnl(a.perp, p)
               /\ futuresUnrealizedPnl(s, p) = FuturesPnl(a, p)
               /\ s.perp.fundingOwed = Shares(a, p).fundingOwed
<1> DEFINE s == readAccountSnapshot(a)
           perps == getOrderAggregate(a, "perps")
           futures == getOrderAggregate(a, "futures")
           q == a.perp.netQuantity
<1>1. /\ s.perp.netQty = q
      /\ s.perp.entryPrice = EntryPrice(a.perp)
      /\ s.perp.orders = perps
      /\ s.perp.fundingOwed = NonNegative(a.pendingFunding)
      /\ s.futures.orders = futures
      /\ Legs(s) = a.legs
    BY DEF readAccountSnapshot, Legs
<1>2. q \in Int /\ LiveQuantity(a) \in Int
    BY FuturesFields DEF Booked, Account
<1>3. /\ perps.buyDelta \in Int /\ futures.buyDelta \in Int
      /\ perps.sellDelta \in Int /\ futures.sellDelta \in Int
    BY OrderFields, Venues
<1> HIDE DEF s, perps, futures
<1>4. netDeltaWad(s) = Quotient(q * WAD, Unit) + WAD * LiveQuantity(a)
    BY <1>1 DEF netDeltaWad, LiveQuantity, Live, Unpinned
<1> HIDE DEF q
<1>5. Quotient(q * WAD, Unit) = toWad(q)
    <2>1. q * WAD = (q * LIFT) * Unit /\ q * LIFT \in Int
        BY <1>2, UnitFacts, Z3
    <2> QED
        BY <2>1, UnitFacts, QuotientOfMultiple DEF toWad
<1>6. WAD * LiveQuantity(a) = toWad(Unit * LiveQuantity(a))
    BY <1>2, UnitFacts, Z3 DEF toWad
<1>7. netDeltaWad(s) = Shares(a, p).netDelta
    BY <1>4, <1>5, <1>6, SharesOf DEF q
<1>8. /\ orderDeltaWad(s).buy = toWad(perps.buyDelta + futures.buyDelta)
      /\ orderDeltaWad(s).sell = toWad(perps.sellDelta + futures.sellDelta)
    BY <1>1 DEF orderDeltaWad
<1>9. ASSUME NEW m \in Int, NEW n \in Int
      PROVE  toWad(m + n) = toWad(m) + toWad(n)
    BY UnitFacts, Z3 DEF toWad
<1>10. /\ orderDeltaWad(s).buy = Shares(a, p).buyOrderDelta
       /\ orderDeltaWad(s).sell = Shares(a, p).sellOrderDelta
    BY <1>3, <1>8, <1>9, SharesOf DEF perps, futures
<1>11. fillLoss(s, p) = Shares(a, p).fillLoss
    BY <1>1, SharesOf DEF fillLoss, perps, futures
<1>12. perpUnrealizedPnl(s, p) = KeeperPnl(a.perp, p)
    BY <1>1 DEF perpUnrealizedPnl, KeeperPnl, q
<1>13. futuresUnrealizedPnl(s, p) = FuturesPnl(a, p)
    BY <1>1 DEF futuresUnrealizedPnl, FuturesPnl, LegPnl, SumOver
<1>14. s.perp.fundingOwed = Shares(a, p).fundingOwed
    BY <1>1, SharesOf
<1> QED
    BY <1>7, <1>10, <1>11, <1>12, <1>13, <1>14 DEF s

LEMMA FactorsMove ==
    ASSUME NEW x \in Int, NEW y \in Int, NEW u \in Int, NEW p \in Int, NEW l \in Int
    PROVE  (x * (y * u)) * (p * l) = ((x * y) * p) * (l * u)
BY Z3

\* The keeper divides once where the engine divides twice.
LEMMA StressAgrees ==
    ASSUME NEW d \in Int, NEW shock \in [spot : Nat, vol : Nat],
           shock.spot % Unit = 0, NEW p \in Nat
    PROVE  /\ worstStressLoss(d, NoOptions, shock, toWad(p)) \in Nat
           /\ stressLoss(d, shock.spot, p)
                 = fromWad(worstStressLoss(d, NoOptions, shock, toWad(p)))
<1> DEFINE h == shock.spot \div Unit
           m == (Magnitude(d) * h) * p
           deltaS == (shock.spot * toWad(p)) \div WAD
<1>1. h \in Nat /\ shock.spot = h * Unit
    <2>1. shock.spot \in Nat
        OBVIOUS
    <2>2. ASSUME NEW n \in Nat, NEW u \in Nat \ {0}, n % u = 0
          PROVE  n \div u \in Nat /\ n = (n \div u) * u
        BY <2>2, Z3
    <2> QED
        BY <2>1, <2>2, UnitFacts
<1>2. Magnitude(d) \in Nat
    BY DEF Magnitude
<1> HIDE DEF h
<1>3. m \in Nat /\ h * p \in Nat /\ Magnitude(d) * (h * p) = m
    BY <1>1, <1>2, Z3
<1>4. deltaS = h * p
    <2>1. shock.spot * toWad(p) = (h * p) * WAD
        BY <1>1, UnitFacts, Z3 DEF toWad
    <2> QED
        BY <1>3, <2>1, UnitFacts, DivOfMultiple
<1>5. Magnitude(Quotient(d * deltaS, WAD)) = m \div WAD
    <2>1. d * (h * p) \in Int /\ Magnitude(d * (h * p)) = m
        BY <1>3, MagnitudeOfProduct
    <2> QED
        BY <1>4, <2>1, UnitFacts, QuotientBounds
<1>6. m \div WAD \in Nat
    BY <1>3, UnitFacts, DivBounds
<1> HIDE DEF m
<1>7. worstStressLoss(d, NoOptions, shock, toWad(p)) = m \div WAD
    <2>1. shock.vol \in Nat /\ 0 * (h * p) = 0 /\ 0 * shock.vol = 0
        BY <1>3, Z3
    <2>2. Quotient(0, WAD) = 0 /\ Quotient(0 * (h * p), 2 * WAD) = 0
        <3>1. 0 \div WAD = 0 /\ 0 \div (2 * WAD) = 0
            BY UnitFacts, Z3
        <3> QED
            BY <2>1, <3>1 DEF Quotient
    <2>3. Magnitude(0) = 0
        BY DEF Magnitude
    <2>4. worstStressLoss(d, NoOptions, shock, toWad(p))
            = NonNegative(Magnitude(Quotient(d * deltaS, WAD))
                + Magnitude(Quotient(0 * shock.vol, WAD))
                - Quotient(Quotient(0 * deltaS, WAD) * deltaS, 2 * WAD))
        BY DEF worstStressLoss, NoOptions
    <2>5. Quotient(Quotient(0 * deltaS, WAD) * deltaS, 2 * WAD) = 0
        BY <1>4, <2>1, <2>2
    <2>6. Magnitude(Quotient(0 * shock.vol, WAD)) = 0
        BY <2>1, <2>2, <2>3
    <2>7. worstStressLoss(d, NoOptions, shock, toWad(p)) = NonNegative(m \div WAD + 0 - 0)
        BY <1>5, <2>4, <2>5, <2>6
    <2> QED
        BY <1>6, <2>7 DEF NonNegative
<1>8. stressLoss(d, shock.spot, p) = fromWad(m \div WAD)
    <2>1. (Magnitude(d) * shock.spot) * toWad(p) = m * WAD
        <3>2. Unit \in Int /\ LIFT \in Int /\ h \in Int /\ Magnitude(d) \in Int
            BY <1>1, <1>2, UnitFacts
        <3>3. (Magnitude(d) * (h * Unit)) * (p * LIFT)
                = ((Magnitude(d) * h) * p) * (LIFT * Unit)
            BY <3>2, FactorsMove
        <3> QED
            BY <1>1, <3>3, UnitFacts, Zenon DEF toWad, m
    <2>2. (m * WAD) \div (WAD * WAD) = m \div WAD
        BY <1>3, UnitFacts, DivCancel
    <2> QED
        BY <2>1, <2>2 DEF stressLoss
<1> QED
    BY <1>6, <1>7, <1>8

LEMMA LargerFromWad ==
    ASSUME NEW m \in Nat, NEW n \in Nat
    PROVE  /\ fromWad(Larger(m, n)) = Larger(fromWad(m), fromWad(n))
           /\ fromWad(Larger(m, n)) \in Int
<1>1. m <= n => m \div LIFT <= n \div LIFT
    BY UnitFacts, DivMonotone
<1>2. n <= m => n \div LIFT <= m \div LIFT
    BY UnitFacts, DivMonotone
<1>3. m \div LIFT \in Nat /\ n \div LIFT \in Nat
    BY UnitFacts, DivBounds
<1> QED
    BY <1>1, <1>2, <1>3 DEF Larger, fromWad

\* The two clamps move no more than the profit they clamp.
LEMMA LossMoves ==
    ASSUME NEW k \in Int, NEW e \in Int, NEW f \in Int, NEW t \in Int,
           k - e <= t, e - k <= t, NEW isIM \in BOOLEAN
    PROVE  LET keeper == lossOf(k, f, isIM)
               engine == IF isIM THEN NonNegative(-e) + NonNegative(-f)
                                 ELSE NonNegative(-(e + f))
           IN  /\ keeper \in Int /\ engine \in Int
               /\ keeper - engine <= t /\ engine - keeper <= t
<1>1. CASE isIM
    BY <1>1 DEF lossOf, NonNegative
<1>2. CASE ~isIM
    BY <1>2 DEF lossOf, NonNegative
<1> QED
    BY <1>1, <1>2

LEMMA RequirementsOfBook ==
    ASSUME WholeShocks, NEW a, Booked(a), NEW p \in Nat, NEW isIM \in BOOLEAN
    PROVE  Magnitude(requiredAt(readAccountSnapshot(a), Params, p, isIM)
                       - Required(a, p, isIM))
              <= Truncation(a)
<1> DEFINE s == readAccountSnapshot(a)
           shares == Shares(a, p)
           shock == ShockOf(Params, isIM)
           D == netDeltaWad(s)
           B == orderDeltaWad(s).buy
           S == orderDeltaWad(s).sell
           stress == fromWad(worstFillLoss(shares, NoOptions, shock, toWad(p)))
           fills == fillLoss(s, p)
           fund == s.perp.fundingOwed
           k == KeeperPnl(a.perp, p)
           e == EnginePnl(a.perp, p)
           f == FuturesPnl(a, p)
           keeper == lossOf(k, f, isIM)
           engine == IF isIM THEN NonNegative(-e) + NonNegative(-f)
                             ELSE NonNegative(-(e + f))
           t == Truncation(a)
<1>1. shock \in [spot : Nat, vol : Nat] /\ shock.spot % Unit = 0
    BY Inputs DEF ShockOf, ShockSet, WholeShocks
<1>2. /\ a.perp \in [netQuantity : Int, netEntryValue : Int] /\ Entered(a.perp)
      /\ a.pendingFunding \in Int /\ a.perp.netQuantity \in Int
    BY DEF Booked, Account
<1>3. /\ k \in Int /\ e \in Int /\ t \in Int /\ k - e <= t /\ e - k <= t
    BY <1>2, PerpPnlsAgree DEF Truncation
<1>4. f \in Int /\ LiveQuantity(a) \in Int
    BY FuturesFields
<1>5. /\ D = shares.netDelta /\ B = shares.buyOrderDelta /\ S = shares.sellOrderDelta
      /\ fills = shares.fillLoss /\ fund = shares.fundingOwed
    BY KeeperReads
<1>6. D \in Int /\ B \in Int /\ S \in Int
    <2>1. ASSUME NEW n \in Int PROVE toWad(n) \in Int
        BY UnitFacts, Z3 DEF toWad
    <2>2. Unit * LiveQuantity(a) \in Int
        BY <1>4, UnitFacts, Z3
    <2>3. /\ getOrderAggregate(a, "perps").buyDelta \in Int
          /\ getOrderAggregate(a, "futures").buyDelta \in Int
          /\ getOrderAggregate(a, "perps").sellDelta \in Int
          /\ getOrderAggregate(a, "futures").sellDelta \in Int
        BY OrderFields, Venues
    <2>4. /\ toWad(a.perp.netQuantity) \in Int /\ toWad(Unit * LiveQuantity(a)) \in Int
          /\ toWad(getOrderAggregate(a, "perps").buyDelta) \in Int
          /\ toWad(getOrderAggregate(a, "futures").buyDelta) \in Int
          /\ toWad(getOrderAggregate(a, "perps").sellDelta) \in Int
          /\ toWad(getOrderAggregate(a, "futures").sellDelta) \in Int
        BY <1>2, <2>1, <2>2, <2>3
    <2>5. /\ D = toWad(a.perp.netQuantity) + toWad(Unit * LiveQuantity(a))
          /\ B = toWad(getOrderAggregate(a, "perps").buyDelta)
                    + toWad(getOrderAggregate(a, "futures").buyDelta)
          /\ S = toWad(getOrderAggregate(a, "perps").sellDelta)
                    + toWad(getOrderAggregate(a, "futures").sellDelta)
        BY <1>5, SharesOf
    <2> HIDE DEF D, B, S
    <2> QED
        BY <2>4, <2>5
<1>7. fills \in Int /\ fund \in Int
    <2>1. /\ venueFillLoss(getOrderAggregate(a, "perps"), p) \in Int
          /\ venueFillLoss(getOrderAggregate(a, "futures"), p) \in Int
        BY FillLossType, Venues DEF venueFillLoss
    <2>2. fills = venueFillLoss(getOrderAggregate(a, "perps"), p)
                    + venueFillLoss(getOrderAggregate(a, "futures"), p)
        BY <1>5, SharesOf
    <2>3. fund = NonNegative(a.pendingFunding)
        BY <1>5, SharesOf
    <2>4. NonNegative(a.pendingFunding) \in Int
        BY <1>2 DEF NonNegative
    <2> QED
        BY <2>1, <2>2, <2>3, <2>4
<1>8. keeper \in Int /\ engine \in Int /\ keeper - engine <= t /\ engine - keeper <= t
    <2> HIDE DEF k, e, f, t
    <2> QED
        BY <1>3, <1>4, LossMoves
<1>9. worstLegStressLoss(s, shock.spot, p) = stress /\ stress \in Int
    <2> DEFINE up == worstStressLoss(D + B, NoOptions, shock, toWad(p))
               down == worstStressLoss(D - S, NoOptions, shock, toWad(p))
    <2>1. D + B \in Int /\ D - S \in Int
        BY <1>6
    <2>2. up \in Nat /\ stressLoss(D + B, shock.spot, p) = fromWad(up)
        <3> HIDE DEF D, B, shock
        <3> QED
            BY <1>1, <2>1, StressAgrees
    <2>3. down \in Nat /\ stressLoss(D - S, shock.spot, p) = fromWad(down)
        <3> HIDE DEF D, S, shock
        <3> QED
            BY <1>1, <2>1, StressAgrees
    <2>4. worstFillLoss(shares, NoOptions, shock, toWad(p)) = Larger(up, down)
        <3>1. NoOptions.delta = 0
            BY DEF NoOptions
        <3>2. shares.netDelta + NoOptions.delta = D
            BY <1>5, <1>6, <3>1
        <3> HIDE DEF D, B, S, shares, shock
        <3>3. worstFillLoss(shares, NoOptions, shock, toWad(p))
                = Larger(worstStressLoss((shares.netDelta + NoOptions.delta)
                                            + shares.buyOrderDelta,
                                         NoOptions, shock, toWad(p)),
                         worstStressLoss((shares.netDelta + NoOptions.delta)
                                            - shares.sellOrderDelta,
                                         NoOptions, shock, toWad(p)))
            BY DEF worstFillLoss
        <3> QED
            BY <1>5, <3>2, <3>3, Zenon
    <2>5. worstLegStressLoss(s, shock.spot, p)
            = Larger(stressLoss(D + B, shock.spot, p), stressLoss(D - S, shock.spot, p))
        BY DEF worstLegStressLoss, worseLeg
    <2> HIDE DEF up, down
    <2> QED
        BY <2>2, <2>3, <2>4, <2>5, LargerFromWad
<1>10. requiredAt(s, Params, p, isIM) = stress + fills + keeper + fund
    <2>1. unrealizedLoss(s, p, isIM) = keeper
        BY KeeperReads DEF unrealizedLoss
    <2>2. requiredAt(s, Params, p, isIM)
            = worstLegStressLoss(s, shock.spot, p) + fills
                + unrealizedLoss(s, p, isIM) + fund
        BY DEF requiredAt
    <2> QED
        BY <1>9, <2>1, <2>2
<1>11. Required(a, p, isIM) = stress + fills + 0 + engine + fund
    <2>1. pnlTerm(shares, isIM) = engine
        BY SharesOf DEF pnlTerm
    <2>2. Required(a, p, isIM)
            = stress + shares.fillLoss + NoOptions.reserved + pnlTerm(shares, isIM)
                + shares.fundingOwed
        BY DEF Required, marginFromInputs, Shares, Views
    <2>3. NoOptions.reserved = 0
        BY DEF NoOptions
    <2> QED
        BY <1>5, <2>1, <2>2, <2>3
<1> HIDE DEF stress, fills, keeper, engine, fund, t, s
<1>12. /\ requiredAt(s, Params, p, isIM) - Required(a, p, isIM) = keeper - engine
       /\ keeper - engine \in Int
    BY <1>7, <1>8, <1>9, <1>10, <1>11
<1> QED
    BY <1>3, <1>8, <1>12 DEF Magnitude, s, t

--------------------------------------------------------------------------------
(* The book stays well-formed until a plan reads it.                       *)

LEMMA MinOfTwo ==
    ASSUME NEW m \in Int, NEW n \in Int
    PROVE  Min({m, n}) = IF m <= n THEN m ELSE n
<1> DEFINE least == IF m <= n THEN m ELSE n
<1>1. least \in {m, n} /\ \A y \in {m, n} : least <= y
    OBVIOUS
<1>2. \A x \in {m, n} : (\A y \in {m, n} : x <= y) => x = least
    OBVIOUS
<1> QED
    BY <1>1, <1>2 DEF Min

\* What is left of a value when some of the quantity is closed.
LEMMA RestOfValue ==
    ASSUME NEW n \in Int, NEW held \in Nat \ {0}, NEW left \in Nat
    PROVE  /\ Quotient(n * left, held) \in Int
           /\ n >= 0 => Quotient(n * left, held) >= 0
           /\ n <= 0 => Quotient(n * left, held) <= 0
           /\ Quotient(n * 0, held) = 0
<1>1. n * left \in Int /\ (n >= 0 => n * left >= 0) /\ (n <= 0 => n * left <= 0)
      /\ n * 0 = 0 /\ 0 \div held = 0
    BY Z3
<1>2. ASSUME NEW x \in Int
      PROVE  /\ Quotient(x, held) \in Int
             /\ x >= 0 => Quotient(x, held) >= 0
             /\ x <= 0 => Quotient(x, held) <= 0
    <2>1. x >= 0 => x \div held \in Nat
        BY DivBounds
    <2>2. x < 0 => (-x) \div held \in Nat
        <3>1. x < 0 => -x \in Nat
            OBVIOUS
        <3> QED
            BY <3>1, DivBounds
    <2>3. 0 \div held = 0
        BY <1>1
    <2> QED
        BY <2>1, <2>2, <2>3 DEF Quotient
<1>3. Quotient(0, held) = 0
    BY <1>1 DEF Quotient
<1> QED
    BY <1>1, <1>2, <1>3

LEMMA PerpClosedBooked ==
    ASSUME NEW a, Booked(a), a.perp.netQuantity # 0, NEW p \in Nat, NEW qty \in Nat
    PROVE  Booked(PerpClosed(a, p, qty))
<1> DEFINE q == a.perp.netQuantity
           n == a.perp.netEntryValue
           held == Magnitude(q)
           closed == Min({qty, held})
           signed == Sign(q) * closed
           left == held - closed
           value == Quotient(n * left, held)
           paid == NonNegative(a.balance
                      + Quotient((p - EntryPrice(a.perp)) * signed, Unit))
<1>1. /\ q \in Int /\ q # 0 /\ n \in Int /\ a.balance \in Nat
      /\ (q >= 0 => n >= 0) /\ (q <= 0 => n <= 0)
      /\ a.perp \in [netQuantity : Int, netEntryValue : Int]
    BY DEF Booked, Account, Entered
<1>2. held \in Nat \ {0} /\ (q > 0 => held = q) /\ (q < 0 => held = -q)
    BY <1>1 DEF Magnitude
<1>3. closed \in Nat /\ closed <= held
    <2> HIDE DEF held
    <2> QED
        BY <1>2, MinOfTwo
<1>4. EntryPrice(a.perp) \in Int
    <2>1. Magnitude(n) * Unit \in Nat
        <3>1. Magnitude(n) \in Nat /\ Unit \in Nat
            BY <1>1, UnitFacts DEF Magnitude
        <3> QED
            BY <3>1, TimesMonotone
    <2> QED
        BY <1>1, <1>2, <2>1, DivBounds DEF EntryPrice
<1> HIDE DEF held, closed
<1>5. signed \in Int /\ left \in Nat /\ (signed = closed \/ signed = -closed)
      /\ (q > 0 => signed = closed) /\ (q < 0 => signed = -closed)
    BY <1>1, <1>2, <1>3 DEF Sign
<1> HIDE DEF signed
<1>6. q - signed \in Int
      /\ (q > 0 => q - signed = left) /\ (q < 0 => q - signed = -left)
    <2> HIDE DEF q
    <2> QED
        BY <1>1, <1>2, <1>3, <1>5
<1>7. /\ value \in Int /\ (n >= 0 => value >= 0) /\ (n <= 0 => value <= 0)
      /\ (left = 0 => value = 0)
    <2> HIDE DEF left, n
    <2>1. /\ value \in Int /\ (n >= 0 => value >= 0) /\ (n <= 0 => value <= 0)
          /\ Quotient(n * 0, held) = 0
        BY <1>1, <1>2, <1>5, RestOfValue DEF n, left
    <2> QED
        BY <2>1
<1>8. paid \in Nat
    <2>1. (p - EntryPrice(a.perp)) * signed \in Int
        BY <1>4, <1>5, Z3
    <2>2. Quotient((p - EntryPrice(a.perp)) * signed, Unit) \in Int
        BY <2>1, UnitFacts, QuotientBounds
    <2> QED
        BY <1>1, <2>2 DEF NonNegative
<1> DEFINE b == PerpClosed(a, p, qty)
<1>9. b = [a EXCEPT !.perp.netQuantity = q - signed,
                    !.perp.netEntryValue = value, !.balance = paid]
    BY <1>1 DEF PerpClosed, held, closed, signed, Booked, Account
<1> HIDE DEF q, n, left, value, paid, b
<1>10. /\ b \in Account /\ b.orders = a.orders
       /\ b.perp.netQuantity = q - signed /\ b.perp.netEntryValue = value
    BY <1>6, <1>7, <1>8, <1>9 DEF Booked, Account
<1>11. Entered(b.perp)
    BY <1>1, <1>5, <1>6, <1>7, <1>10 DEF Entered
<1> QED
    BY <1>10, <1>11 DEF Booked, b

LEMMA LegClosedBooked ==
    ASSUME NEW a, Booked(a), NEW p \in Nat, NEW e \in Expiry, NEW qty \in Nat
    PROVE  Booked(LegClosed(a, p, e, qty))
<1> DEFINE leg == a.legs[e]
           q == leg.netQuantity
           n == leg.netEntryValue
           held == Magnitude(q)
           closed == Min({qty, held})
           signed == Sign(q) * closed
           value == Quotient(n * (held - closed), held)
           paid == NonNegative(a.balance + (Mark(leg, p) - avgEntry(leg)) * signed)
           b == [a EXCEPT !.legs[e].netQuantity = q - signed,
                          !.legs[e].netEntryValue = value, !.balance = paid]
<1>1. /\ q \in Int /\ n \in Int /\ a.balance \in Nat /\ a.legs \in [Expiry -> Leg]
      /\ leg \in Leg /\ leg.settlementPrice \in Nat
    BY DEF Booked, Account, Leg
<1>2. held \in Nat /\ Magnitude(n) \in Nat
    BY <1>1 DEF Magnitude
<1>3. CASE held = 0 \/ e \in a.matured
    BY <1>3 DEF LegClosed
<1>4. CASE held # 0 /\ e \notin a.matured
    <2>1. LegClosed(a, p, e, qty) = b
        BY <1>1, <1>4 DEF LegClosed, Booked, Account
    <2> HIDE DEF held
    <2>2. closed \in Nat /\ closed <= held
        BY <1>2, MinOfTwo
    <2> HIDE DEF closed
    <2>3. signed \in Int /\ held - closed \in Nat
        BY <1>2, <2>2 DEF Sign
    <2>4. value \in Int
        <3> HIDE DEF n
        <3> QED
            BY <1>1, <1>2, <1>4, <2>3, RestOfValue DEF n
    <2>5. Mark(leg, p) \in Int
        BY <1>1 DEF Mark
    <2>6. avgEntry(leg) \in Int
        BY <1>2, <1>4, DivBounds DEF avgEntry, held
    <2>7. paid \in Nat
        <3>1. (Mark(leg, p) - avgEntry(leg)) * signed \in Int
            BY <2>3, <2>5, <2>6, Z3
        <3> HIDE DEF signed
        <3> QED
            BY <1>1, <3>1 DEF NonNegative
    <2>8. q - signed \in Int
        BY <1>1, <2>3
    <2> HIDE DEF q, n, signed, value, paid
    <2>9. [leg EXCEPT !.netQuantity = q - signed, !.netEntryValue = value] \in Leg
        BY <1>1, <2>4, <2>8 DEF Leg
    <2>10. b \in Account /\ b.orders = a.orders /\ b.perp = a.perp
        BY <1>1, <2>4, <2>7, <2>8, <2>9 DEF Booked, Account, Leg
    <2> QED
        BY <2>1, <2>10 DEF Booked
<1> QED
    BY <1>2, <1>3, <1>4

LEMMA FilledBooked ==
    ASSUME NEW a, Booked(a), NEW o \in a.orders, NEW e \in Expiry, CanFill(a, o, e)
    PROVE  Booked(Filled(a, o, e))
<1> DEFINE open == [a EXCEPT !.orders = a.orders \ {o}]
           q == a.perp.netQuantity
           n == a.perp.netEntryValue
           leg == a.legs[e]
<1>1. /\ o.venue \in Market /\ o.side \in {1, -1} /\ o.limit \in Price
    BY DEF Booked, Account, Order
<1>2. o.limit \in Nat
    BY <1>1, Inputs
<1>3. /\ q \in Int /\ n \in Int /\ (q >= 0 => n >= 0) /\ (q <= 0 => n <= 0)
      /\ leg \in Leg /\ leg.netQuantity \in Int /\ leg.netEntryValue \in Int
    BY DEF Booked, Account, Entered, Leg
<1>4. Booked(open) /\ open.perp = a.perp /\ open.legs = a.legs
    <2>1. open \in Account /\ open.orders = a.orders \ {o} /\ open.perp = a.perp
          /\ open.legs = a.legs
        BY DEF Booked, Account
    <2>2. IsFiniteSet(a.orders \ {o})
        BY FS_RemoveElement DEF Booked
    <2> QED
        BY <2>1, <2>2 DEF Booked
<1>5. Unit \in Nat
    BY UnitFacts
<1> HIDE DEF open
<1>6. CASE o.venue = "perps" /\ q * o.side >= 0
    <2> DEFINE added == q + o.side * Unit
               value == n + o.side * o.limit
               b == [open EXCEPT !.perp.netQuantity = added, !.perp.netEntryValue = value]
    <2>1. Filled(a, o, e) = b
        BY <1>4, <1>6 DEF Filled, Lot, open, Booked, Account
    <2>2. /\ o.side = 1 => q >= 0 /\ n >= 0
          /\ o.side = -1 => q <= 0 /\ n <= 0
        BY <1>1, <1>3, <1>6
    <2> HIDE DEF q, n
    <2>3. /\ added \in Int /\ value \in Int
          /\ (added >= 0 => value >= 0) /\ (added <= 0 => value <= 0)
        <3>1. CASE o.side = 1
            <4>1. added = q + Unit /\ value = n + o.limit
                BY <1>2, <1>3, <1>5, <3>1
            <4> QED
                BY <1>2, <1>3, <1>5, <2>2, <3>1, <4>1, UnitFacts
        <3>2. CASE o.side = -1
            <4>1. added = q - Unit /\ value = n - o.limit
                BY <1>2, <1>3, <1>5, <3>2
            <4> QED
                BY <1>2, <1>3, <1>5, <2>2, <3>2, <4>1, UnitFacts
        <3> QED
            BY <1>1, <3>1, <3>2
    <2> HIDE DEF added, value
    <2>4. b \in Account /\ b.orders = open.orders
          /\ b.perp.netQuantity = added /\ b.perp.netEntryValue = value
        BY <1>4, <2>3 DEF Booked, Account
    <2>5. Entered(b.perp)
        BY <2>3, <2>4 DEF Entered
    <2> QED
        BY <1>4, <2>1, <2>4, <2>5 DEF Booked
<1>7. CASE o.venue # "perps" /\ leg.netQuantity * o.side >= 0
    <2> DEFINE added == leg.netQuantity + o.side
               value == leg.netEntryValue + o.side * o.limit
               b == [open EXCEPT !.legs[e].netQuantity = added,
                                 !.legs[e].netEntryValue = value]
    <2>1. Filled(a, o, e) = b
        BY <1>4, <1>7 DEF Filled, Lot, open, Booked, Account
    <2>2. added \in Int /\ value \in Int
        BY <1>1, <1>2, <1>3
    <2> HIDE DEF added, value
    <2>3. [leg EXCEPT !.netQuantity = added, !.netEntryValue = value] \in Leg
        BY <1>3, <2>2 DEF Leg
    <2>4. b \in Account /\ b.orders = open.orders /\ b.perp = open.perp
        BY <1>4, <2>2, <2>3 DEF Booked, Account, Leg
    <2> QED
        BY <1>4, <2>1, <2>4 DEF Booked
<1>8. CASE o.venue = "perps" /\ ~(q * o.side >= 0)
    <2>1. q # 0
        BY <1>1, <1>3, <1>8
    <2>2. Filled(a, o, e) = PerpClosed(open, o.limit, Unit)
        BY <1>8 DEF Filled, Lot, open
    <2> QED
        BY <1>2, <1>4, <1>5, <2>1, <2>2, PerpClosedBooked
<1>9. CASE o.venue # "perps" /\ ~(leg.netQuantity * o.side >= 0)
    <2>1. Filled(a, o, e) = LegClosed(open, o.limit, e, 1)
        BY <1>9 DEF Filled, Lot, open
    <2> QED
        BY <1>2, <1>4, <2>1, LegClosedBooked
<1> QED
    BY <1>6, <1>7, <1>8, <1>9

\* What the market does to an account keeps it one that the program can have.
LEMMA MarketKeepsBooked ==
    ASSUME Booked(acct), MakerFill \/ SpotMoves \/ Deposit \/ Rests
    PROVE  Booked(acct')
<1>1. CASE MakerFill
    BY <1>1, FilledBooked DEF MakerFill
<1>2. CASE SpotMoves
    BY <1>2 DEF SpotMoves
<1>3. CASE Deposit
    <2>1. acct' = [acct EXCEPT !.balance = acct.balance + 1]
        BY <1>3 DEF Deposit
    <2>2. acct.balance + 1 \in Nat
        BY DEF Booked, Account
    <2>3. acct' \in Account /\ acct'.orders = acct.orders /\ acct'.perp = acct.perp
        BY <2>1, <2>2 DEF Booked, Account
    <2> QED
        BY <2>3 DEF Booked
<1>4. CASE Rests
    <2>1. PICK o \in Orders : acct' = [acct EXCEPT !.orders = acct.orders \cup {o}]
        BY <1>4 DEF Rests
    <2>2. acct \in Account /\ IsFiniteSet(acct.orders) /\ o \in Order
        BY Inputs DEF Booked
    <2>3. IsFiniteSet(acct.orders \cup {o})
        BY <2>2, FS_AddElement
    <2>4. acct.orders \cup {o} \in SUBSET Order
        BY <2>2 DEF Account
    <2>5. /\ acct' \in Account /\ acct'.perp = acct.perp
          /\ acct'.orders = acct.orders \cup {o}
        BY <2>1, <2>2, <2>4 DEF Account
    <2> QED
        BY <2>3, <2>5 DEF Booked
<1> QED
    BY <1>1, <1>2, <1>3, <1>4

--------------------------------------------------------------------------------
(* What the keeper reads and computes has its type.                        *)

OrderAggregate == [buyDelta : Nat, buyValue : Int, sellDelta : Nat, sellValue : Int]

Snapshot ==
    [balance : Int,
     perp : [netQty : Int, entryPrice : Nat, orders : OrderAggregate, fundingOwed : Nat],
     futures : [positions : [Expiry -> Leg], orders : OrderAggregate]]

LEMMA NumberTypes ==
    /\ \A n \in Int : NonNegative(n) \in Nat /\ Magnitude(n) \in Nat /\ Sign(n) \in Int
    /\ \A m \in Int, n \in Int : Larger(m, n) \in Int /\ m * n \in Int
    /\ \A m \in Nat, n \in Nat : m * n \in Nat
    /\ \A n \in Int, d \in Nat \ {0} : Quotient(n, d) \in Int
    /\ \A n \in Nat, d \in Nat \ {0} : n \div d \in Nat
    /\ \A n \in Int : toWad(n) \in Int
<1>1. ASSUME NEW n \in Int
      PROVE  NonNegative(n) \in Nat /\ Magnitude(n) \in Nat /\ Sign(n) \in Int
    BY DEF NonNegative, Magnitude, Sign
<1>2. ASSUME NEW m \in Int, NEW n \in Int
      PROVE  Larger(m, n) \in Int /\ m * n \in Int
    <2>1. m * n \in Int
        BY Z3
    <2> QED
        BY <2>1 DEF Larger
<1>3. ASSUME NEW m \in Nat, NEW n \in Nat PROVE m * n \in Nat
    BY TimesMonotone
<1>4. ASSUME NEW n \in Int, NEW d \in Nat \ {0} PROVE Quotient(n, d) \in Int
    BY QuotientBounds
<1>5. ASSUME NEW n \in Nat, NEW d \in Nat \ {0} PROVE n \div d \in Nat
    BY DivBounds
<1>6. ASSUME NEW n \in Int PROVE toWad(n) \in Int
    BY <1>2, UnitFacts DEF toWad
<1> QED
    BY <1>1, <1>2, <1>3, <1>4, <1>5, <1>6

LEMMA SnapshotType ==
    ASSUME NEW a, Booked(a)
    PROVE  readAccountSnapshot(a) \in Snapshot
<1>1. /\ a.perp.netQuantity \in Int /\ a.perp.netEntryValue \in Int
      /\ a.pendingFunding \in Int /\ a.balance \in Nat /\ a.legs \in [Expiry -> Leg]
    BY DEF Booked, Account
<1>2. ASSUME NEW v \in Market PROVE getOrderAggregate(a, v) \in OrderAggregate
    <2>1. /\ getOrderAggregate(a, v).buyDelta \in Nat
          /\ getOrderAggregate(a, v).sellDelta \in Nat
          /\ getOrderAggregate(a, v).buyValue \in Int
          /\ getOrderAggregate(a, v).sellValue \in Int
        BY OrderFields
    <2> QED
        BY <2>1 DEF getOrderAggregate, OrderAggregate
<1>3. EntryPrice(a.perp) \in Nat
    <2> DEFINE q == Magnitude(a.perp.netQuantity)
               n == Magnitude(a.perp.netEntryValue)
    <2>1. a.perp.netQuantity # 0 => q \in Nat \ {0}
        BY <1>1 DEF Magnitude
    <2>2. n * Unit \in Nat
        BY <1>1, NumberTypes, UnitFacts
    <2>3. a.perp.netQuantity # 0 => (n * Unit) \div q \in Nat
        BY <2>1, <2>2, NumberTypes
    <2> HIDE DEF q, n
    <2> QED
        BY <2>3 DEF EntryPrice, q, n
<1>4. NonNegative(a.pendingFunding) \in Nat
    BY <1>1, NumberTypes
<1>5. /\ getOrderAggregate(a, "perps") \in OrderAggregate
      /\ getOrderAggregate(a, "futures") \in OrderAggregate
    BY <1>2, Venues
<1> QED
    BY <1>1, <1>3, <1>4, <1>5 DEF readAccountSnapshot, Snapshot

LEMMA SecondCallType ==
    ASSUME NEW s \in Snapshot, NEW a, Booked(a)
    PROVE  secondCall(s, a) \in Snapshot
<1> DEFINE read == getOrderAggregate(a, "futures")
           leg(e) == IF Legs(s)[e].netQuantity = 0 THEN Legs(s)[e] ELSE a.legs[e]
           legs == [e \in Expiry |-> leg(e)]
           mixed == [s.futures.orders EXCEPT !.buyValue = read.buyValue,
                                             !.sellValue = read.sellValue]
<1>1. s.futures.positions \in [Expiry -> Leg] /\ s.futures.orders \in OrderAggregate
    BY DEF Snapshot
<1>2. legs \in [Expiry -> Leg]
    BY <1>1 DEF Legs, Booked, Account
<1>3. read.buyValue \in Int /\ read.sellValue \in Int
    BY OrderFields, Venues
<1> HIDE DEF read
<1>4. mixed \in OrderAggregate
    BY <1>1, <1>3 DEF OrderAggregate
<1>5. s.futures \in [positions : [Expiry -> Leg], orders : OrderAggregate]
    BY DEF Snapshot
<1> DEFINE t == secondCall(s, a)
           first == [s.futures EXCEPT !.positions = legs]
           second == [first EXCEPT !.orders = mixed]
<1>6. second \in [positions : [Expiry -> Leg], orders : OrderAggregate]
    <2> HIDE DEF legs, mixed
    <2> QED
        BY <1>2, <1>4, <1>5
<1>7. t = [s EXCEPT !.futures = second]
    BY DEF secondCall, read
<1> HIDE DEF second
<1> QED
    BY <1>6, <1>7 DEF Snapshot

LEMMA ProductType ==
    ASSUME NEW m \in Int, NEW n \in Int
    PROVE  m * n \in Int
BY Z3

\* The sums that the requirements are made of.
LEMMA SnapshotSums ==
    ASSUME NEW s \in Snapshot, NEW p \in Nat
    PROVE  /\ s.perp.netQty \in Int /\ s.perp.entryPrice \in Nat
           /\ s.perp.fundingOwed \in Nat
           /\ s.perp.orders \in OrderAggregate /\ s.futures.orders \in OrderAggregate
           /\ netDeltaWad(s) \in Int
           /\ orderDeltaWad(s).buy \in Int /\ orderDeltaWad(s).sell \in Int
           /\ perpUnrealizedPnl(s, p) \in Int /\ futuresUnrealizedPnl(s, p) \in Int
<1> DEFINE legs == Legs(s)
           quantity == [e \in Unpinned(s) |-> legs[e].netQuantity]
           profit == [e \in Expiry |->
                         Mark(legs[e], p) * legs[e].netQuantity - legs[e].netEntryValue]
<1>1. /\ s.perp.netQty \in Int /\ s.perp.entryPrice \in Nat /\ s.perp.fundingOwed \in Nat
      /\ s.perp.orders \in OrderAggregate /\ s.futures.orders \in OrderAggregate
    BY DEF Snapshot
<1>2. ASSUME NEW e \in Expiry
      PROVE  /\ legs[e].netQuantity \in Int /\ legs[e].netEntryValue \in Int
             /\ Mark(legs[e], p) \in Nat
    <2>1. legs[e] \in Leg
        BY DEF Snapshot, Legs
    <2> HIDE DEF legs
    <2> QED
        BY <2>1 DEF Leg, Mark
<1> HIDE DEF legs
<1>3. IsFiniteSet(Unpinned(s)) /\ Unpinned(s) \subseteq Expiry /\ IsFiniteSet(Expiry)
    BY Expiries, FS_Subset DEF Unpinned
<1>4. SumFunctionOnSet(quantity, Unpinned(s)) \in Int
    <2>1. \A e \in Unpinned(s) : quantity[e] \in Int
        BY <1>2, <1>3
    <2>2. Unpinned(s) \in SUBSET Unpinned(s)
        OBVIOUS
    <2> HIDE DEF quantity
    <2> QED
        BY <1>3, <2>1, <2>2, SumType
<1>5. SumFunctionOnSet(profit, Expiry) \in Int
    <2>1. ASSUME NEW e \in Expiry PROVE profit[e] \in Int
        <3>1. Mark(legs[e], p) * legs[e].netQuantity \in Int
            BY <1>2, ProductType
        <3> QED
            BY <1>2, <3>1
    <2>2. Expiry \in SUBSET Expiry
        OBVIOUS
    <2> HIDE DEF profit
    <2> QED
        BY <1>3, <2>1, <2>2, SumType
<1>6. netDeltaWad(s) \in Int
    <2>1. s.perp.netQty * WAD \in Int
        BY <1>1, ProductType, UnitFacts
    <2>4. Quotient(s.perp.netQty * WAD, Unit) \in Int
        BY <2>1, NumberTypes, UnitFacts
    <2>2. WAD * SumFunctionOnSet(quantity, Unpinned(s)) \in Int
        BY <1>4, NumberTypes, UnitFacts
    <2>3. netDeltaWad(s) = Quotient(s.perp.netQty * WAD, Unit)
                              + WAD * SumFunctionOnSet(quantity, Unpinned(s))
        BY DEF netDeltaWad, SumOver, legs, quantity
    <2> QED
        BY <2>4, <2>2, <2>3
<1>7. orderDeltaWad(s).buy \in Int /\ orderDeltaWad(s).sell \in Int
    <2>1. /\ s.perp.orders.buyDelta + s.futures.orders.buyDelta \in Int
          /\ s.perp.orders.sellDelta + s.futures.orders.sellDelta \in Int
        BY <1>1 DEF OrderAggregate
    <2> QED
        BY <2>1, NumberTypes DEF orderDeltaWad
<1>8. perpUnrealizedPnl(s, p) \in Int
    <2>1. p - s.perp.entryPrice \in Int
        BY <1>1
    <2>2. (p - s.perp.entryPrice) * s.perp.netQty \in Int
        BY <1>1, <2>1, NumberTypes
    <2> QED
        BY <2>2, NumberTypes, UnitFacts DEF perpUnrealizedPnl
<1>9. futuresUnrealizedPnl(s, p) \in Int
    BY <1>5 DEF futuresUnrealizedPnl, SumOver, legs, profit
<1> QED
    BY <1>1, <1>6, <1>7, <1>8, <1>9

LEMMA RequiredType ==
    ASSUME NEW s \in Snapshot, NEW p \in Nat, NEW isIM \in BOOLEAN
    PROVE  requiredAt(s, Params, p, isIM) \in Int
<1> DEFINE shock == ShockOf(Params, isIM).spot
<1>1. shock \in Nat
    BY Inputs DEF ShockOf, ShockSet
<1> HIDE DEF shock
<1>2. ASSUME NEW d \in Int PROVE stressLoss(d, shock, p) \in Int
    <2>1. Magnitude(d) \in Nat /\ toWad(p) \in Nat /\ WAD * WAD \in Nat \ {0}
        <3>1. toWad(p) \in Nat
            BY TimesMonotone, UnitFacts DEF toWad
        <3>2. WAD * WAD \in Nat \ {0}
            BY UnitFacts, Z3
        <3> QED
            BY <3>1, <3>2, NumberTypes
    <2>2. (Magnitude(d) * shock) * toWad(p) \in Nat
        BY <1>1, <2>1, NumberTypes
    <2>3. ((Magnitude(d) * shock) * toWad(p)) \div (WAD * WAD) \in Nat
        BY <2>1, <2>2, NumberTypes
    <2> QED
        BY <2>3, NumberTypes, UnitFacts DEF stressLoss, fromWad
<1>3. worstLegStressLoss(s, shock, p) \in Int
    <2>1. /\ netDeltaWad(s) + orderDeltaWad(s).buy \in Int
          /\ netDeltaWad(s) - orderDeltaWad(s).sell \in Int
        BY SnapshotSums
    <2> QED
        BY <1>2, <2>1, NumberTypes DEF worstLegStressLoss, worseLeg
<1>4. ASSUME NEW o \in OrderAggregate PROVE venueFillLoss(o, p) \in Int
    <2>1. /\ o.buyDelta \in Nat /\ o.sellDelta \in Nat
          /\ o.buyValue \in Int /\ o.sellValue \in Int
        BY DEF OrderAggregate
    <2>2. (p * o.buyDelta) \div Unit \in Nat /\ (p * o.sellDelta) \div Unit \in Nat
        BY <2>1, NumberTypes, UnitFacts
    <2>3. /\ o.buyValue - ((p * o.buyDelta) \div Unit) \in Int
          /\ ((p * o.sellDelta) \div Unit) - o.sellValue \in Int
        BY <2>1, <2>2
    <2>4. /\ NonNegative(o.buyValue - ((p * o.buyDelta) \div Unit)) \in Nat
          /\ NonNegative(((p * o.sellDelta) \div Unit) - o.sellValue) \in Nat
        BY <2>3, NumberTypes
    <2> QED
        BY <2>4 DEF venueFillLoss
<1>5. fillLoss(s, p) \in Int
    BY <1>4, SnapshotSums DEF fillLoss
<1>6. unrealizedLoss(s, p, isIM) \in Int
    <2>1. ASSUME NEW m \in Int, NEW n \in Int PROVE lossOf(m, n, isIM) \in Int
        <3>1. -m \in Int /\ -n \in Int /\ -(m + n) \in Int
            OBVIOUS
        <3>2. /\ NonNegative(-m) \in Nat /\ NonNegative(-n) \in Nat
              /\ NonNegative(-(m + n)) \in Nat
            BY <3>1, NumberTypes
        <3> QED
            BY <3>2 DEF lossOf
    <2> QED
        BY <2>1, SnapshotSums DEF unrealizedLoss
<1>7. requiredAt(s, Params, p, isIM)
        = worstLegStressLoss(s, shock, p) + fillLoss(s, p) + unrealizedLoss(s, p, isIM)
            + s.perp.fundingOwed
    BY DEF requiredAt, shock
<1> QED
    BY <1>3, <1>5, <1>6, <1>7, SnapshotSums

LEMMA FuturesCloseType ==
    ASSUME NEW s \in Snapshot, NEW close \in [Expiry -> Nat], NEW p \in Nat
    PROVE  simulateFuturesClose(s, close, p) \in Snapshot
<1> DEFINE legs == Legs(s)
           closed(e) == Min({close[e], Magnitude(legs[e].netQuantity)})
           left(e) == Magnitude(legs[e].netQuantity) - closed(e)
           pnl(e) == (Mark(legs[e], p) - avgEntry(legs[e]))
                       * Sign(legs[e].netQuantity) * closed(e)
           value(e) == IF closed(e) = 0 THEN legs[e].netEntryValue
                       ELSE Quotient(legs[e].netEntryValue * left(e), left(e) + closed(e))
           reduced(e) == [legs[e] EXCEPT
                            !.netQuantity = Sign(legs[e].netQuantity) * left(e),
                            !.netEntryValue = value(e)]
           settled == [e \in Expiry |-> pnl(e)]
           after == [e \in Expiry |-> reduced(e)]
<1>1. ASSUME NEW e \in Expiry
      PROVE  /\ legs[e] \in Leg /\ legs[e].netQuantity \in Int
             /\ legs[e].netEntryValue \in Int /\ Mark(legs[e], p) \in Nat
    <2>1. legs[e] \in Leg
        BY DEF Snapshot, Legs
    <2> HIDE DEF legs
    <2> QED
        BY <2>1 DEF Leg, Mark
<1> HIDE DEF legs
<1>2. ASSUME NEW e \in Expiry
      PROVE  /\ closed(e) \in Nat /\ left(e) \in Nat
             /\ closed(e) # 0 => left(e) + closed(e) \in Nat \ {0}
    <2>1. close[e] \in Nat /\ Magnitude(legs[e].netQuantity) \in Nat
        BY <1>1, NumberTypes
    <2>2. closed(e) = IF close[e] <= Magnitude(legs[e].netQuantity) THEN close[e]
                      ELSE Magnitude(legs[e].netQuantity)
        BY <2>1, MinOfTwo
    <2> QED
        BY <2>1, <2>2
<1>3. ASSUME NEW e \in Expiry PROVE avgEntry(legs[e]) \in Nat
    <2>1. Magnitude(legs[e].netEntryValue) \in Nat
        BY <1>1, NumberTypes
    <2>2. legs[e].netQuantity # 0 => Magnitude(legs[e].netQuantity) \in Nat \ {0}
        BY <1>1 DEF Magnitude
    <2> QED
        BY <2>1, <2>2, NumberTypes DEF avgEntry
<1> HIDE DEF closed, left
<1>4. ASSUME NEW e \in Expiry PROVE pnl(e) \in Int /\ reduced(e) \in Leg
    <2>1. Sign(legs[e].netQuantity) \in Int
        BY <1>1, NumberTypes
    <2>2. Mark(legs[e], p) - avgEntry(legs[e]) \in Int
        BY <1>1, <1>3
    <2>3. (Mark(legs[e], p) - avgEntry(legs[e])) * Sign(legs[e].netQuantity) \in Int
        BY <2>1, <2>2, NumberTypes
    <2>4. pnl(e) \in Int
        BY <1>2, <2>3, NumberTypes
    <2>5. Sign(legs[e].netQuantity) * left(e) \in Int
        BY <1>2, <2>1, NumberTypes
    <2>6. value(e) \in Int
        <3>1. legs[e].netEntryValue * left(e) \in Int
            <4>1. legs[e].netEntryValue \in Int /\ left(e) \in Int
                BY <1>1, <1>2
            <4> QED
                BY <4>1, ProductType
        <3> QED
            BY <1>1, <1>2, <3>1, NumberTypes
    <2> HIDE DEF value
    <2> QED
        BY <1>1, <2>4, <2>5, <2>6 DEF Leg
<1>5. after \in [Expiry -> Leg]
    <2> HIDE DEF reduced
    <2> QED
        BY <1>4
<1>6. SumFunctionOnSet(settled, Expiry) \in Int
    <2>1. \A e \in Expiry : settled[e] \in Int
        <3> HIDE DEF pnl
        <3> QED
            BY <1>4
    <2>2. IsFiniteSet(Expiry) /\ Expiry \in SUBSET Expiry
        BY Expiries
    <2> HIDE DEF settled
    <2> QED
        BY <2>1, <2>2, SumType
<1>7. simulateFuturesClose(s, close, p)
        = [s EXCEPT !.balance = s.balance + SumFunctionOnSet(settled, Expiry),
                    !.futures = [s.futures EXCEPT !.positions = after]]
    BY DEF simulateFuturesClose, SumOver, settled, after, pnl, reduced, value, closed, left,
           legs
<1>8. s.balance + SumFunctionOnSet(settled, Expiry) \in Int
    BY <1>6 DEF Snapshot
<1>9. [s.futures EXCEPT !.positions = after]
        \in [positions : [Expiry -> Leg], orders : OrderAggregate]
    <2> HIDE DEF after
    <2> QED
        BY <1>5 DEF Snapshot
<1> HIDE DEF settled, after
<1> QED
    BY <1>7, <1>8, <1>9 DEF Snapshot

\* The k-th smallest of a set of numbers is one of them.
LEMMA NumbersInOrder ==
    ASSUME NEW S, IsFiniteSet(S), S \subseteq Int, NEW i \in 1 .. Cardinality(S)
    PROVE  (CHOOSE x \in S : Cardinality({y \in S : y < x}) = i - 1) \in S
<1> DEFINE R == {r \in S \X S : r[1] < r[2]}
<1>1. StrictlyOrders(R, S)
    BY DEF StrictlyOrders
<1>2. PICK x \in S : Cardinality(Before(x, R, S)) = i - 1
    <2> HIDE DEF R
    <2> QED
        BY <1>1, PlacesTaken
<1>3. Before(x, R, S) = {y \in S : y < x}
    BY DEF Before
<1>4. Cardinality({y \in S : y < x}) = i - 1
    BY <1>2, <1>3
<1> QED
    BY <1>4

\* The closes of single contracts, one for each contract that is held.
CloseLeg == [expirationAt : Expiry, closeQty : Nat]

LEMMA UnitCloses ==
    ASSUME NEW s \in Snapshot, NEW p \in Nat
    PROVE  \E n \in Nat :
              rankUnitClosesBalancedAcrossExpirations(s, Params, p) \in [1 .. n -> Expiry]
<1> DEFINE unitClosed(e) ==
               simulateFuturesClose(s, [x \in Expiry |-> IF x = e THEN 1 ELSE 0], p)
           drop == [e \in Held(s) |->
                       mmRequired(s, Params, p) - mmRequired(unitClosed(e), Params, p)]
           contracts(e) == Magnitude(Legs(s)[e].netQuantity)
           notional(e) == contracts(e) * avgEntry(Legs(s)[e])
           worthMore(d, e) ==
               \/ drop[d] > drop[e]
               \/ drop[d] = drop[e] /\ notional(d) > notional(e)
               \/ drop[d] = drop[e] /\ notional(d) = notional(e) /\ d < e
           Turns(T) == UNION {(1 .. contracts(e)) \X {e} : e \in T}
           sooner(t, u) == t[1] < u[1] \/ (t[1] = u[1] /\ worthMore(t[2], u[2]))
           turns == Turns(Held(s))
           R == {r \in turns \X turns : sooner(r[1], r[2])}
           n == Cardinality(turns)
<1>1. ASSUME NEW e \in Held(s)
      PROVE  /\ e \in Expiry /\ e \in Nat
             /\ drop[e] \in Int /\ contracts(e) \in Nat /\ notional(e) \in Int
    <2>1. e \in Expiry /\ e \in Nat
        BY Expiries DEF Held
    <2>2. /\ Legs(s)[e] \in Leg
          /\ Legs(s)[e].netQuantity \in Int /\ Legs(s)[e].netEntryValue \in Int
        BY <2>1 DEF Snapshot, Legs, Leg
    <2>3. contracts(e) \in Nat /\ Magnitude(Legs(s)[e].netEntryValue) \in Nat
        BY <2>2, NumberTypes
    <2>4. avgEntry(Legs(s)[e]) \in Nat
        <3>1. Legs(s)[e].netQuantity # 0 => Magnitude(Legs(s)[e].netQuantity) \in Nat \ {0}
            BY <2>2 DEF Magnitude
        <3> QED
            BY <2>3, <3>1, NumberTypes DEF avgEntry
    <2>5. [x \in Expiry |-> IF x = e THEN 1 ELSE 0] \in [Expiry -> Nat]
        OBVIOUS
    <2>6. unitClosed(e) \in Snapshot
        BY <2>5, FuturesCloseType
    <2>7. mmRequired(s, Params, p) \in Int /\ mmRequired(unitClosed(e), Params, p) \in Int
        <3> HIDE DEF unitClosed
        <3> QED
            BY <2>6, RequiredType DEF mmRequired
    <2>8. notional(e) \in Nat
        <3> HIDE DEF contracts
        <3> QED
            BY <2>3, <2>4, TimesMonotone
    <2> HIDE DEF unitClosed, contracts, notional
    <2> QED
        BY <2>1, <2>3, <2>7, <2>8
<1> HIDE DEF drop, contracts, notional
<1>2. IsFiniteSet(turns)
    <2> DEFINE G == {T \in SUBSET Held(s) : IsFiniteSet(Turns(T))}
    <2>1. IsFiniteSet(Held(s))
        BY Expiries, FS_Subset DEF Held
    <2>2. {} \in G
        <3>1. Turns({}) = {}
            OBVIOUS
        <3> QED
            BY <3>1, FS_EmptySet
    <2>3. ASSUME NEW T \in SUBSET Held(s), T # {}, \A e \in T : T \ {e} \in G
          PROVE  T \in G
        <3>1. PICK e \in T : TRUE
            BY <2>3
        <3> DEFINE own == (1 .. contracts(e)) \X {e}
        <3>2. Turns(T) = Turns(T \ {e}) \cup own
            OBVIOUS
        <3>3. IsFiniteSet(Turns(T \ {e}))
            BY <2>3
        <3>4. IsFiniteSet(own)
            <4>1. contracts(e) \in Int
                BY <1>1, <3>1
            <4>2. IsFiniteSet(1 .. contracts(e))
                BY <4>1, FS_Interval
            <4>3. IsFiniteSet({e})
                BY FS_Singleton
            <4> QED
                BY <4>2, <4>3, FS_Product
        <3> HIDE DEF Turns, own
        <3>5. IsFiniteSet(Turns(T))
            BY <3>2, <3>3, <3>4, FS_Union
        <3> QED
            BY <3>5
    <2>4. \A T \in SUBSET Held(s) : T # {} /\ (\A e \in T : T \ {e} \in G) => T \in G
        BY <2>3
    <2> HIDE DEF G, Turns
    <2>5. SUBSET Held(s) \subseteq G
        BY <2>1, <2>2, <2>4, SubsetsByInduction
    <2> QED
        BY <2>5 DEF G
<1>3. ASSUME NEW t \in turns
      PROVE  /\ t = <<t[1], t[2]>> /\ t[1] \in Int /\ t[2] \in Held(s)
             /\ drop[t[2]] \in Int /\ notional(t[2]) \in Int /\ t[2] \in Int
    <2>1. PICK e \in Held(s) : t \in (1 .. contracts(e)) \X {e}
        OBVIOUS
    <2>2. t = <<t[1], t[2]>> /\ t[1] \in Int /\ t[2] = e
        BY <1>1, <2>1
    <2> QED
        BY <1>1, <2>2
<1>4. StrictlyOrders(R, turns)
    <2>1. ASSUME NEW x \in turns, NEW y \in turns, NEW z \in turns,
                 sooner(x, y), sooner(y, z)
          PROVE  sooner(x, z)
        <3> HIDE DEF turns
        <3> QED
            BY <1>3, <2>1
    <2>2. ASSUME NEW x \in turns PROVE ~sooner(x, x)
        <3> HIDE DEF turns
        <3> QED
            BY <1>3
    <2>3. ASSUME NEW x \in turns, NEW y \in turns
          PROVE  x = y \/ sooner(x, y) \/ sooner(y, x)
        <3> HIDE DEF turns
        <3> QED
            BY <1>3
    <2>4. \A x, y \in turns : <<x, y>> \in R <=> sooner(x, y)
        <3> HIDE DEF turns, sooner
        <3> QED
            OBVIOUS
    <2> HIDE DEF turns, sooner, R
    <2> QED
        BY <2>1, <2>2, <2>3, <2>4 DEF StrictlyOrders
<1>5. ASSUME NEW i \in 1 .. n
      PROVE  (CHOOSE t \in turns : Cardinality({u \in turns : sooner(u, t)}) = i - 1)
                \in turns
    <2>1. PICK t \in turns : Cardinality(Before(t, R, turns)) = i - 1
        <3> HIDE DEF turns, R
        <3> QED
            BY <1>2, <1>4, PlacesTaken
    <2>2. Before(t, R, turns) = {u \in turns : sooner(u, t)}
        <3> HIDE DEF turns, sooner
        <3> QED
            BY DEF Before
    <2>3. Cardinality({u \in turns : sooner(u, t)}) = i - 1
        BY <2>1, <2>2
    <2> HIDE DEF turns, sooner
    <2> QED
        BY <2>3
<1>6. n \in Nat
    <2> HIDE DEF turns
    <2> QED
        BY <1>2, FS_CardinalityType
<1> DEFINE picked(i) == CHOOSE t \in turns : Cardinality({u \in turns : sooner(u, t)}) = i - 1
<1>7. rankUnitClosesBalancedAcrossExpirations(s, Params, p) = [i \in 1 .. n |-> picked(i)[2]]
    BY DEF rankUnitClosesBalancedAcrossExpirations, InOrder, drop, contracts, notional
<1>8. ASSUME NEW i \in 1 .. n PROVE picked(i)[2] \in Expiry
    <2>1. picked(i) \in turns
        <3> HIDE DEF turns, sooner
        <3> QED
            BY <1>5
    <2> HIDE DEF turns, sooner, picked
    <2> QED
        BY <1>1, <1>3, <2>1
<1> HIDE DEF picked, n
<1> QED
    BY <1>6, <1>7, <1>8

\* The legs that a close of the futures names are legs of the account.
LEMMA FuturesLegs ==
    ASSUME NEW s \in Snapshot, NEW p \in Nat
    PROVE  \E n \in Nat :
              solveFuturesClosesToTarget(s, Params, p) \in [1 .. n -> CloseLeg]
<1> DEFINE units == rankUnitClosesBalancedAcrossExpirations(s, Params, p)
           prefixes == prefixesInBand(s, units, Params, p)
<1>1. PICK n \in Nat : units \in [1 .. n -> Expiry]
    BY UnitCloses
<1> HIDE DEF units
<1>2. CASE Held(s) = {} \/ mmSurplus(s, Params, p) >= 0
    <2>1. solveFuturesClosesToTarget(s, Params, p) = <<>>
        BY <1>2 DEF solveFuturesClosesToTarget
    <2> QED
        BY <2>1
<1>3. CASE ~(Held(s) = {} \/ mmSurplus(s, Params, p) >= 0) /\ prefixes = {}
    <2> DEFINE c == Cardinality(Held(s))
               all(i) == CHOOSE e \in Held(s) : Cardinality({d \in Held(s) : d < e}) = i - 1
    <2>1. solveFuturesClosesToTarget(s, Params, p)
            = [i \in 1 .. c |-> [expirationAt |-> all(i),
                                 closeQty |-> Magnitude(Legs(s)[all(i)].netQuantity)]]
        BY <1>3 DEF solveFuturesClosesToTarget, closesOf, legsOf, WholeLegs, InOrder,
                    units
    <2>2. IsFiniteSet(Held(s)) /\ Held(s) \subseteq Int
        <3>1. Held(s) \in SUBSET Expiry
            BY DEF Held
        <3>2. \A e \in Expiry : e \in Int
            BY Expiries
        <3> QED
            BY <3>1, <3>2, Expiries, FS_Subset
    <2>3. ASSUME NEW i \in 1 .. c
          PROVE  all(i) \in Held(s)
        BY <2>2, NumbersInOrder
    <2>4. ASSUME NEW e \in Held(s)
          PROVE  e \in Expiry /\ Magnitude(Legs(s)[e].netQuantity) \in Nat
        <3>1. e \in Expiry /\ Legs(s)[e].netQuantity \in Int
            BY DEF Held, Snapshot, Legs, Leg
        <3> QED
            BY <3>1, NumberTypes
    <2>5. c \in Nat
        BY <2>2, FS_CardinalityType
    <2> HIDE DEF c, all
    <2> QED
        BY <2>1, <2>3, <2>4, <2>5 DEF CloseLeg
<1>4. CASE ~(Held(s) = {} \/ mmSurplus(s, Params, p) >= 0) /\ prefixes # {}
    <2> DEFINE k == PrefixLength(prefixes, Params)
    <2>1. prefixes \in SUBSET (1 .. n) /\ prefixes \subseteq Nat
        BY <1>1 DEF prefixesInBand
    <2> HIDE DEF prefixes
    <2>2. Max(prefixes) \in prefixes
        BY <1>1, <1>4, <2>1, GreatestNumber DEF Max
    <2>3. Min(prefixes) \in prefixes
        BY <1>4, <2>1, LeastNumber DEF Min
    <2>4. k \in 1 .. n
        BY <2>1, <2>2, <2>3 DEF PrefixLength
    <2>5. solveFuturesClosesToTarget(s, Params, p) = [i \in 1 .. k |-> UnitLeg(units[i])]
        BY <1>4 DEF solveFuturesClosesToTarget, closesOf, legsOf, units, prefixes
    <2> HIDE DEF k
    <2>6. ASSUME NEW i \in 1 .. k
          PROVE  UnitLeg(units[i]) \in CloseLeg
        BY <1>1, <2>4 DEF UnitLeg, CloseLeg
    <2> QED
        BY <2>4, <2>5, <2>6
<1> QED
    BY <1>2, <1>3, <1>4

LEMMA FuturesClosesType ==
    ASSUME NEW s \in Snapshot, NEW p \in Nat
    PROVE  FuturesCloses(s, p) \in Seq(CloseLeg)
<1> DEFINE legs == solveFuturesClosesToTarget(s, Params, p)
           live == {i \in DOMAIN legs : legs[i].expirationAt \notin acct.matured}
           c == Cardinality(live)
           at(i) == CHOOSE j \in live : Cardinality({k \in live : k < j}) = i - 1
           left == [i \in 1 .. c |-> legs[at(i)]]
<1>1. PICK n \in Nat : legs \in [1 .. n -> CloseLeg]
    BY FuturesLegs
<1> HIDE DEF legs
<1>2. IsFiniteSet(live) /\ live \subseteq 1 .. n /\ live \subseteq Int
    <2>1. live \in SUBSET (1 .. n) /\ live \subseteq Int
        BY <1>1
    <2>2. IsFiniteSet(1 .. n)
        BY <1>1, FS_Interval
    <2> HIDE DEF live
    <2> QED
        BY <2>1, <2>2, FS_Subset
<1>3. c \in Nat
    <2> HIDE DEF live
    <2> QED
        BY <1>2, FS_CardinalityType
<1>4. ASSUME NEW i \in 1 .. c
      PROVE  at(i) \in live
    <2> HIDE DEF live
    <2> QED
        BY <1>2, NumbersInOrder
<1>5. FuturesCloses(s, p) = Chunk(left)
    <2>1. [i \in 1 .. c |-> legs[[k \in 1 .. c |-> at(k)][i]]] = left
        <3> HIDE DEF c, at
        <3> QED
            OBVIOUS
    <2>2. FuturesCloses(s, p) = Chunk([i \in 1 .. c |-> legs[[k \in 1 .. c |-> at(k)][i]]])
        BY Zenon DEF FuturesCloses, InOrder, legs
    <2> QED
        BY <2>1, <2>2
<1>6. left \in [1 .. c -> CloseLeg]
    <2> HIDE DEF live, at, c
    <2> QED
        BY <1>1, <1>2, <1>4
<1> HIDE DEF left
<1>7. left \in Seq(CloseLeg) /\ Len(left) = c
    <2> HIDE DEF c
    <2> QED
        BY <1>3, <1>6, SeqDef, LenProperties
<1>8. Chunk(left) \in Seq(CloseLeg)
    <2>1. maxLotsPerLiquidationTx \in Nat
        BY Inputs
    <2>2. CASE maxLotsPerLiquidationTx > 0 /\ Len(left) > maxLotsPerLiquidationTx
        <3>1. \A i \in 1 .. maxLotsPerLiquidationTx : left[i] \in CloseLeg
            <4> HIDE DEF c
            <4> QED
                BY <1>3, <1>6, <1>7, <2>1, <2>2
        <3>2. SubSeq(left, 1, maxLotsPerLiquidationTx) \in Seq(CloseLeg)
            BY <2>1, <3>1, SubSeqProperties
        <3> QED
            BY <2>2, <3>2 DEF Chunk
    <2> QED
        BY <1>7, <2>2 DEF Chunk
<1> QED
    BY <1>5, <1>8

\* The bisection of a close ends inside the interval it started with.
Within(lo, hi) == {r \in Nat \X Nat : lo <= r[1] /\ r[1] <= r[2] /\ r[2] <= hi}

LEMMA EdgeWithin ==
    ASSUME NEW lo \in Nat, NEW hi \in Nat, lo <= hi, NEW rising, NEW s, NEW p, NEW isIM
    PROVE  edge(lo, hi, rising, s, Params, p, isIM) \in Within(lo, hi)
<1> DEFINE D == Nat \X Nat
           mid(i) == (i[1] + i[2]) \div 2
           good(i) == closeGoal(s, Params, p, isIM, mid(i)) >= 0
           half(i) == IF good(i) = rising THEN <<i[1], mid(i)>> ELSE <<mid(i), i[2]>>
           Stop == {i \in D : i[2] - i[1] <= 1}
           final == [i \in D |-> i]
           next == [i \in D |-> half(i)]
           m == [i \in D |-> IF i[1] < i[2] THEN i[2] - i[1] ELSE 0]
           V == [i \in D |-> IF i[1] <= i[2] THEN Within(i[1], i[2]) ELSE D]
<1>1. ASSUME NEW i \in D
      PROVE  i = <<i[1], i[2]>> /\ i[1] \in Nat /\ i[2] \in Nat /\ m[i] \in Nat
    OBVIOUS
<1>2. ASSUME NEW i \in D \ Stop
      PROVE  /\ i[1] < mid(i) /\ mid(i) < i[2] /\ mid(i) \in Nat
             /\ half(i) \in D /\ next[i] = half(i)
             /\ half(i) = <<i[1], mid(i)>> \/ half(i) = <<mid(i), i[2]>>
    <2>1. i \in D /\ i[1] \in Nat /\ i[2] \in Nat /\ i[2] > i[1] + 1
        BY <1>1
    <2>2. i[1] < mid(i) /\ mid(i) < i[2] /\ mid(i) \in Nat
        <3> HIDE DEF D
        <3> QED
            BY <2>1
    <2> HIDE DEF mid, good
    <2> QED
        BY <2>1, <2>2
<1> HIDE DEF half
<1>3. Descending(D, Stop, next, m)
    <2>1. ASSUME NEW i \in D \ Stop
          PROVE  next[i] \in D /\ m[next[i]] < m[i]
        <3> HIDE DEF mid
        <3> QED
            BY <1>1, <1>2
    <2>2. m \in [D -> Nat]
        BY <1>1
    <2> HIDE DEF D, Stop, next, m
    <2> QED
        BY <2>1, <2>2 DEF Descending
<1> DEFINE Around(f) == f = [i \in Nat \X Nat |-> IF i[2] - i[1] <= 1 THEN i ELSE f[half(i)]]
           around == CHOOSE f : Around(f)
<1>4. ASSUME NEW f PROVE Around(f) <=> Descent(f, D, Stop, final, next)
    <2>1. [i \in Nat \X Nat |-> IF i[2] - i[1] <= 1 THEN i ELSE f[half(i)]]
            = [i \in D |-> IF i \in Stop THEN final[i] ELSE f[next[i]]]
        OBVIOUS
    <2> QED
        BY <2>1 DEF Descent
<1>5. Descent(around, D, Stop, final, next)
    <2>1. \E f : Descent(f, D, Stop, final, next)
        <3> HIDE DEF D, Stop, final, next, m
        <3> QED
            BY <1>3, DescentExists
    <2>2. \E f : Around(f)
        <3> HIDE DEF D, Stop, final, next, Around
        <3> QED
            BY <1>4, <2>1
    <2>3. Around(around)
        <3> HIDE DEF Around
        <3> QED
            BY <2>2
    <2> HIDE DEF D, Stop, final, next, Around, around
    <2> QED
        BY <1>4, <2>3
<1>6. \A i \in D \cap Stop : final[i] \in V[i]
    BY <1>1 DEF Within
<1>7. ASSUME NEW i \in D \ Stop PROVE V[next[i]] \subseteq V[i]
    <2>1. V[i] = Within(i[1], i[2]) /\ i[1] \in Nat /\ i[2] \in Nat
        <3> HIDE DEF mid
        <3> QED
            BY <1>1, <1>2
    <2>2. \/ V[next[i]] = Within(i[1], mid(i))
          \/ V[next[i]] = Within(mid(i), i[2])
        <3>1. CASE half(i) = <<i[1], mid(i)>>
            <4> HIDE DEF mid
            <4> QED
                BY <1>1, <1>2, <3>1
        <3>2. CASE half(i) = <<mid(i), i[2]>>
            <4> HIDE DEF mid
            <4> QED
                BY <1>1, <1>2, <3>2
        <3> QED
            BY <1>2, <3>1, <3>2
    <2> HIDE DEF mid, V
    <2> QED
        BY <1>2, <2>1, <2>2 DEF Within
<1>8. \A i \in D : around[i] \in V[i]
    <2> HIDE DEF D, Stop, final, next, m, V, around
    <2> QED
        BY <1>3, <1>5, <1>6, <1>7, DescentStays
<1>9. edge(lo, hi, rising, s, Params, p, isIM) = around[<<lo, hi>>]
    BY Zenon DEF edge, half
<1>10. <<lo, hi>> \in D /\ V[<<lo, hi>>] = Within(lo, hi)
    OBVIOUS
<1> HIDE DEF V, D, around
<1> QED
    BY <1>8, <1>9, <1>10

LEMMA RangeWithin ==
    ASSUME NEW lo \in Nat, NEW hi \in Nat, lo <= hi, NEW s, NEW p, NEW isIM
    PROVE  nonNegativeRange(lo, hi, s, Params, p, isIM) \subseteq Within(lo, hi)
<1>1. ASSUME NEW r \in Within(lo, hi)
      PROVE  <<r[2], hi>> \in Within(lo, hi) /\ <<lo, r[1]>> \in Within(lo, hi)
    BY DEF Within
<1>2. <<lo, hi>> \in Within(lo, hi)
    BY DEF Within
<1>3. \A rising \in BOOLEAN : edge(lo, hi, rising, s, Params, p, isIM) \in Within(lo, hi)
    BY EdgeWithin
<1>4. /\ <<edge(lo, hi, TRUE, s, Params, p, isIM)[2], hi>> \in Within(lo, hi)
      /\ <<lo, edge(lo, hi, FALSE, s, Params, p, isIM)[1]>> \in Within(lo, hi)
    BY <1>1, <1>3
<1> QED
    BY <1>2, <1>4 DEF nonNegativeRange, RangeBetween

LEMMA FloorDivType ==
    ASSUME NEW m \in Int, NEW d \in Int, d # 0
    PROVE  floorDiv(m, d) \in Int
<1>1. d > 0 => m \div d \in Int
    BY Z3
<1>2. d < 0 => (-m) \div (-d) \in Int
    BY Z3
<1> QED
    BY <1>1, <1>2 DEF floorDiv

\* Where the requirement of a perpetual's close turns lies inside the close.
LEMMA KinksWithin ==
    ASSUME NEW s \in Snapshot, NEW p \in Nat
    PROVE  perpCloseKinks(s, p) \subseteq 0 .. Magnitude(s.perp.netQty)
<1> DEFINE netQty == s.perp.netQty
           whole == Magnitude(netQty)
           delta == netDeltaWad(s)
           order == orderDeltaWad(s)
           qtyAtDelta(target) == Quotient(Sign(netQty) * (delta - target), LIFT)
           priceDiff == p - s.perp.entryPrice
           profit == futuresUnrealizedPnl(s, p)
           turn == IF priceDiff = 0 THEN {}
                   ELSE {floorDiv(priceDiff * netQty + profit * Unit,
                                  priceDiff * Sign(netQty))}
           roots == {qtyAtDelta(d) : d \in {-order.buy, order.sell,
                                            Quotient(order.sell - order.buy, 2)}}
<1>1. /\ netQty \in Int /\ delta \in Int /\ order.buy \in Int /\ order.sell \in Int
      /\ priceDiff \in Int /\ profit \in Int
    BY SnapshotSums
<1>2. perpCloseKinks(s, p)
        = {q \in UNION {straddle(r) : r \in roots \cup turn} : q > 0 /\ q < whole}
            \cup {0, whole}
    BY Zenon DEF perpCloseKinks
<1> HIDE DEF netQty, delta, order, priceDiff, profit
<1>3. whole \in Nat /\ Sign(netQty) \in Int /\ Sign(netQty) # 0
    <2>1. whole \in Nat
        BY <1>1, NumberTypes
    <2>2. Sign(netQty) \in Int /\ Sign(netQty) # 0
        BY DEF Sign
    <2> QED
        BY <2>1, <2>2
<1>4. ASSUME NEW d \in Int PROVE qtyAtDelta(d) \in Int
    <2>1. delta - d \in Int
        BY <1>1
    <2>2. Sign(netQty) * (delta - d) \in Int
        BY <1>3, <2>1, ProductType
    <2> QED
        BY <2>2, NumberTypes, UnitFacts
<1>5. ASSUME NEW r \in roots PROVE r \in Int
    <2>1. order.sell - order.buy \in Int /\ -order.buy \in Int
        BY <1>1
    <2>2. 2 \in Nat \ {0}
        OBVIOUS
    <2>3. Quotient(order.sell - order.buy, 2) \in Int
        BY <2>1, <2>2, NumberTypes
    <2> HIDE DEF qtyAtDelta
    <2> QED
        BY <1>1, <1>4, <2>1, <2>3
<1>6. ASSUME NEW r \in turn PROVE r \in Int
    <2> DEFINE m == priceDiff * netQty + profit * Unit
               d == priceDiff * Sign(netQty)
    <2>1. priceDiff # 0 /\ r = floorDiv(m, d)
        OBVIOUS
    <2>2. d \in Int /\ d # 0
        <3>1. Sign(netQty) = 1 \/ Sign(netQty) = -1
            BY DEF Sign
        <3> QED
            BY <1>1, <2>1, <3>1
    <2>3. priceDiff * netQty \in Int /\ profit * Unit \in Int
        BY <1>1, ProductType, UnitFacts
    <2>4. m \in Int
        BY <2>3
    <2> HIDE DEF m, d
    <2> QED
        BY <2>1, <2>2, <2>4, FloorDivType
<1> HIDE DEF roots, turn
<1>7. ASSUME NEW q \in UNION {straddle(r) : r \in roots \cup turn}
      PROVE  q \in Int
    <2>1. PICK r \in roots \cup turn : q \in straddle(r)
        OBVIOUS
    <2>2. r \in Int
        BY <1>5, <1>6, <2>1
    <2> QED
        BY <2>1, <2>2 DEF straddle
<1> HIDE DEF whole
<1>8. ASSUME NEW q \in perpCloseKinks(s, p) PROVE q \in 0 .. whole
    BY <1>2, <1>3, <1>7
<1> QED
    BY <1>8 DEF whole, netQty

\* A close of the perpetual is of a part of it.
LEMMA PerpCloseType ==
    ASSUME NEW s \in Snapshot, NEW p \in Nat
    PROVE  solvePerpCloseToTarget(s, Params, p) \in 0 .. Magnitude(s.perp.netQty)
<1> DEFINE whole == Magnitude(s.perp.netQty)
           kinks == perpCloseKinks(s, p)
           All == Within(0, whole)
           Found(isIM, S) ==
               UNION {nonNegativeRange(i[1], i[2], s, Params, p, isIM) : i \in S}
           healthy == Found(FALSE, Intervals(kinks))
           inBand == Found(TRUE, healthy)
<1>1. whole \in Nat
    BY NumberTypes DEF Snapshot
<1>2. Intervals(kinks) \subseteq All
    <2>1. kinks \subseteq 0 .. whole
        BY KinksWithin
    <2> HIDE DEF kinks, whole
    <2>2. ASSUME NEW i \in Intervals(kinks) PROVE i \in All
        <3>1. i \in kinks \X kinks /\ i[1] < i[2]
            BY DEF Intervals
        <3>2. i = <<i[1], i[2]>> /\ i[1] \in 0 .. whole /\ i[2] \in 0 .. whole
            <4>1. \A j \in kinks \X kinks : j = <<j[1], j[2]>> /\ j[1] \in kinks /\ j[2] \in kinks
                OBVIOUS
            <4> QED
                BY <2>1, <3>1, <4>1
        <3>3. i \in Nat \X Nat /\ 0 <= i[1] /\ i[1] <= i[2] /\ i[2] <= whole
            BY <1>1, <3>1, <3>2
        <3> QED
            BY <3>3 DEF Within
    <2> QED
        BY <2>2
<1> HIDE DEF whole, kinks
<1>3. ASSUME NEW isIM, NEW S, S \subseteq All
      PROVE  Found(isIM, S) \subseteq All
    <2>1. ASSUME NEW i \in S
          PROVE  nonNegativeRange(i[1], i[2], s, Params, p, isIM) \subseteq All
        <3>1. /\ i[1] \in Nat /\ i[2] \in Nat /\ i[1] <= i[2] /\ i[2] <= whole
            BY <1>3 DEF Within
        <3>2. nonNegativeRange(i[1], i[2], s, Params, p, isIM) \subseteq Within(i[1], i[2])
            BY <3>1, RangeWithin
        <3>3. Within(i[1], i[2]) \subseteq All
            BY <1>1, <3>1 DEF Within
        <3> QED
            BY <3>2, <3>3
    <2> HIDE DEF All
    <2> QED
        BY <2>1
<1>4. healthy \subseteq All /\ inBand \subseteq All
    <2> HIDE DEF Found, All
    <2> QED
        BY <1>2, <1>3
<1> HIDE DEF healthy, inBand
<1>5. ASSUME NEW S, S \subseteq All
      PROVE  Shallowest(S, whole) \in 0 .. whole /\ Deepest(S, whole) \in 0 .. whole
    <2> DEFINE first == {r[1] : r \in S}
               last == {r[2] : r \in S}
    <2>1. first \in SUBSET (0 .. whole) /\ last \in SUBSET (0 .. whole)
        BY <1>1, <1>5 DEF Within
    <2>2. first \subseteq Nat
        BY <2>1
    <2>3. S # {} => first # {} /\ last # {}
        OBVIOUS
    <2> HIDE DEF first, last
    <2>4. S # {} => Min(first) \in first
        BY <2>2, <2>3, LeastNumber DEF Min
    <2>5. S # {} => Max(last) \in last
        <3>1. S # {} => \E m \in last : \A k \in last : k <= m
            BY <1>1, <2>1, <2>3, GreatestOfBounded
        <3>2. \A m \in last, k \in last : k <= m => m >= k
            BY <2>1
        <3> QED
            BY <3>1, <3>2 DEF Max
    <2> QED
        BY <1>1, <2>1, <2>4, <2>5 DEF Shallowest, Deepest, first, last
<1>6. solvePerpCloseToTarget(s, Params, p)
        = IF whole = 0 \/ mmSurplus(s, Params, p) >= 0 THEN 0
          ELSE IF ~hasBuffer(Params) THEN Shallowest(healthy, whole)
          ELSE Deepest(inBand, whole)
    BY Zenon DEF solvePerpCloseToTarget, healthy, inBand, kinks, whole
<1> HIDE DEF All
<1>7. /\ Shallowest(healthy, whole) \in 0 .. whole
      /\ Deepest(inBand, whole) \in 0 .. whole
    BY <1>4, <1>5
<1> QED
    BY <1>1, <1>6, <1>7 DEF whole

--------------------------------------------------------------------------------
(* A call goes through its legs, or its orders, one by one.                *)

LEMMA LastIndex ==
    ASSUME NEW n \in Nat, NEW T \in SUBSET (1 .. n), T # {}
    PROVE  Max(T) \in T /\ \A k \in T : k <= Max(T)
<1>1. \E m \in T : \A k \in T : m >= k
    <2>1. PICK m \in T : \A k \in T : k <= m
        BY GreatestNumber
    <2>2. \A k \in T : m >= k
        BY <2>1
    <2> QED
        BY <2>2
<1>2. Max(T) \in T /\ \A k \in T : Max(T) >= k
    BY <1>1 DEF Max
<1> QED
    BY <1>2

\* What a close of the futures leaves of the account's other parts.
SameButLegs(a) == {b \in Account : b.orders = a.orders /\ b.perp = a.perp}

LEMMA LegClosedStays ==
    ASSUME NEW a, Booked(a), NEW b \in SameButLegs(a), NEW p \in Nat,
           NEW leg \in CloseLeg
    PROVE  LegClosed(b, p, leg.expirationAt, leg.closeQty) \in SameButLegs(a)
<1>1. Booked(b) /\ b.orders = a.orders /\ b.perp = a.perp
    BY DEF SameButLegs, Booked
<1>2. leg.expirationAt \in Expiry /\ leg.closeQty \in Nat
    BY DEF CloseLeg
<1> DEFINE c == LegClosed(b, p, leg.expirationAt, leg.closeQty)
<1>3. Booked(c)
    BY <1>1, <1>2, LegClosedBooked
<1>4. c.orders = b.orders /\ c.perp = b.perp
    BY <1>1 DEF LegClosed, Booked, Account
<1> QED
    BY <1>1, <1>3, <1>4 DEF SameButLegs, Booked

LegCloses(a, p, close) ==
    [i \in DOMAIN close |->
        [b \in SameButLegs(a) |->
            LegClosed(b, p, close[i].expirationAt, close[i].closeQty)]]

LEMMA ClosedInSteps ==
    ASSUME NEW a, Booked(a), NEW p \in Nat, NEW close \in Seq(CloseLeg),
           NEW venue, venue # "perps"
    PROVE  \E h : /\ InSteps(h, Len(close), SameButLegs(a), a, LegCloses(a, p, close))
                  /\ Closed(a, p, venue, close) = h[Len(close)]
<1> DEFINE n == Len(close)
           V == SameButLegs(a)
           step == LegCloses(a, p, close)
           pick == [T \in SUBSET (1 .. n) |-> Max(T)]
           By(b, i) == LegClosed(b, p, close[i].expirationAt, close[i].closeQty)
           Iterates(g) ==
              g = [T \in SUBSET (1 .. n) |->
                     IF T = {} THEN a ELSE By(g[T \ {Max(T)}], Max(T))]
           g == CHOOSE g : Iterates(g)
<1>1. n \in Nat /\ DOMAIN close = 1 .. n /\ IsFiniteSet(1 .. n)
    BY FS_Interval
<1>2. ASSUME NEW i \in 1 .. n, NEW b \in V
      PROVE  step[i][b] = By(b, i) /\ step[i][b] \in V
    <2>1. close[i] \in CloseLeg
        BY <1>1
    <2>2. step[i][b] = By(b, i)
        BY <1>1 DEF LegCloses
    <2> QED
        BY <2>1, <2>2, LegClosedStays
<1>3. \A T \in SUBSET (1 .. n) :
          T # {} => /\ pick[T] = Max(T) /\ pick[T] \in T /\ pick[T] \in 1 .. n
                    /\ \A k \in T : k <= pick[T]
    BY <1>1, LastIndex
<1>4. a \in V
    BY DEF SameButLegs, Booked
<1>5. Closed(a, p, venue, close) = g[1 .. n]
    BY <1>1 DEF Closed, FoldLeft, MapThenFoldSet
<1> HIDE DEF n, V, step, pick, By
<1>6. Iterates(g)
    <2>1. PICK f : Folded(f, 1 .. n, V, a, step, pick)
        <3>1. Foldable(1 .. n, V, a, step, pick)
            BY <1>1, <1>2, <1>3, <1>4 DEF Foldable
        <3> QED
            BY <3>1, FoldExists
    <2>2. \A T \in SUBSET (1 .. n) : T # {} => f[T] = By(f[T \ {Max(T)}], Max(T))
        BY <1>2, <1>3, <2>1 DEF Folded
    <2>3. Iterates(f)
        BY <2>1, <2>2 DEF Folded
    <2> HIDE DEF Iterates
    <2> QED
        BY <2>3
<1> HIDE DEF g
<1>7. g[{}] = a
    BY <1>6
<1>8. ASSUME NEW T \in SUBSET (1 .. n), T # {}, g[T \ {pick[T]}] \in V
      PROVE  g[T] = step[pick[T]][g[T \ {pick[T]}]]
    <2>1. pick[T] = Max(T) /\ pick[T] \in 1 .. n
        BY <1>3, <1>8
    <2>2. g[T] = By(g[T \ {Max(T)}], Max(T))
        BY <1>6, <1>8
    <2> QED
        BY <1>2, <1>8, <2>1, <2>2
<1>9. InSteps([i \in 0 .. n |-> g[1 .. i]], n, V, a, step)
    <2>1. FoldsWith(g, n, V, a, step, pick)
        BY <1>2, <1>7, <1>8 DEF FoldsWith
    <2>2. PicksLast(pick, n)
        BY <1>3 DEF PicksLast
    <2> QED
        BY <1>1, <1>4, <2>1, <2>2, FoldInOrder
<1>10. Closed(a, p, venue, close) = [i \in 0 .. n |-> g[1 .. i]][n]
    BY <1>1, <1>5
<1> QED
    BY <1>9, <1>10 DEF n, V, step

LEMMA FuturesClosedBooked ==
    ASSUME NEW a, Booked(a), NEW p \in Nat, NEW close \in Seq(CloseLeg),
           NEW venue, venue # "perps"
    PROVE  /\ Booked(Closed(a, p, venue, close))
           /\ Closed(a, p, venue, close).orders = a.orders
<1>1. PICK h : /\ InSteps(h, Len(close), SameButLegs(a), a, LegCloses(a, p, close))
               /\ Closed(a, p, venue, close) = h[Len(close)]
    BY ClosedInSteps
<1>2. Closed(a, p, venue, close) \in SameButLegs(a)
    BY <1>1 DEF InSteps
<1> QED
    BY <1>2 DEF SameButLegs, Booked

LEMMA PerpsClosedBooked ==
    ASSUME NEW a, Booked(a), NEW p \in Nat, NEW close \in Nat
    PROVE  /\ Booked(Closed(a, p, "perps", close))
           /\ Closed(a, p, "perps", close).orders = a.orders
<1>1. CASE a.perp.netQuantity = 0
    BY <1>1 DEF Closed
<1>2. CASE a.perp.netQuantity # 0
    <2>1. Closed(a, p, "perps", close) = PerpClosed(a, p, close)
        BY <1>2 DEF Closed
    <2>2. PerpClosed(a, p, close).orders = a.orders
        BY DEF PerpClosed, Booked, Account
    <2> QED
        BY <1>2, <2>1, <2>2, PerpClosedBooked
<1> QED
    BY <1>1, <1>2

\* What a cancellation leaves of the account.
SameButOrders(a) == {b \in Account : b.orders \subseteq a.orders /\ b.perp = a.perp}

Cancelled(b, p, o) == IF Liquidatable(b, p) THEN [b EXCEPT !.orders = b.orders \ {o}] ELSE b

LEMMA CancelledStays ==
    ASSUME NEW a, NEW b \in SameButOrders(a), NEW p, NEW o
    PROVE  /\ Cancelled(b, p, o) \in SameButOrders(a)
           /\ Cancelled(b, p, o).orders \subseteq b.orders
           /\ Liquidatable(b, p) => o \notin Cancelled(b, p, o).orders
           /\ ~Liquidatable(b, p) => Cancelled(b, p, o) = b
<1>1. b \in Account /\ b.orders \subseteq a.orders /\ b.perp = a.perp
    BY DEF SameButOrders
<1> DEFINE c == [b EXCEPT !.orders = b.orders \ {o}]
<1>2. c \in Account /\ c.orders = b.orders \ {o} /\ c.perp = b.perp
    BY <1>1 DEF Account
<1> HIDE DEF c
<1>3. Cancelled(b, p, o) = IF Liquidatable(b, p) THEN c ELSE b
    BY DEF Cancelled, c
<1> QED
    BY <1>1, <1>2, <1>3 DEF SameButOrders

CancelEach(a, p, ids) ==
    FoldLeft(LAMBDA b, o : IF Liquidatable(b, p)
                           THEN [b EXCEPT !.orders = @ \ {o}] ELSE b, a, ids)

Cancellations(a, p, ids) ==
    [i \in DOMAIN ids |-> [b \in SameButOrders(a) |-> Cancelled(b, p, ids[i])]]

LEMMA CancelledInSteps ==
    ASSUME NEW a, Booked(a), NEW p, NEW n \in Nat, NEW ids, DOMAIN ids = 1 .. n
    PROVE  \E h : /\ InSteps(h, n, SameButOrders(a), a, Cancellations(a, p, ids))
                  /\ CancelEach(a, p, ids) = h[n]
<1> DEFINE V == SameButOrders(a)
           step == Cancellations(a, p, ids)
           pick == [T \in SUBSET (1 .. n) |-> Max(T)]
           Iterates(g) ==
              g = [T \in SUBSET (1 .. n) |->
                     IF T = {} THEN a ELSE Cancelled(g[T \ {Max(T)}], p, ids[Max(T)])]
           g == CHOOSE g : Iterates(g)
<1>1. IsFiniteSet(1 .. n)
    BY FS_Interval
<1>2. ASSUME NEW i \in 1 .. n, NEW b \in V
      PROVE  step[i][b] = Cancelled(b, p, ids[i]) /\ step[i][b] \in V
    <2>1. step[i][b] = Cancelled(b, p, ids[i])
        BY DEF Cancellations
    <2> QED
        BY <2>1, CancelledStays
<1>3. \A T \in SUBSET (1 .. n) :
          T # {} => /\ pick[T] = Max(T) /\ pick[T] \in T /\ pick[T] \in 1 .. n
                    /\ \A k \in T : k <= pick[T]
    BY LastIndex
<1>4. a \in V
    BY DEF SameButOrders, Booked
<1>5. CancelEach(a, p, ids) = g[1 .. n]
    BY DEF CancelEach, Cancelled, FoldLeft, MapThenFoldSet
<1> HIDE DEF V, step, pick
<1>6. Iterates(g)
    <2>1. PICK f : Folded(f, 1 .. n, V, a, step, pick)
        <3>1. Foldable(1 .. n, V, a, step, pick)
            BY <1>1, <1>2, <1>3, <1>4 DEF Foldable
        <3> QED
            BY <3>1, FoldExists
    <2>2. \A T \in SUBSET (1 .. n) :
              T # {} => f[T] = Cancelled(f[T \ {Max(T)}], p, ids[Max(T)])
        BY <1>2, <1>3, <2>1 DEF Folded
    <2>3. Iterates(f)
        BY <2>1, <2>2 DEF Folded
    <2> HIDE DEF Iterates
    <2> QED
        BY <2>3
<1> HIDE DEF g
<1>7. g[{}] = a
    BY <1>6
<1>8. ASSUME NEW T \in SUBSET (1 .. n), T # {}, g[T \ {pick[T]}] \in V
      PROVE  g[T] = step[pick[T]][g[T \ {pick[T]}]]
    <2>1. pick[T] = Max(T) /\ pick[T] \in 1 .. n
        BY <1>3, <1>8
    <2>2. g[T] = Cancelled(g[T \ {Max(T)}], p, ids[Max(T)])
        BY <1>6, <1>8
    <2> QED
        BY <1>2, <1>8, <2>1, <2>2
<1>9. InSteps([i \in 0 .. n |-> g[1 .. i]], n, V, a, step)
    <2>1. FoldsWith(g, n, V, a, step, pick)
        BY <1>2, <1>7, <1>8 DEF FoldsWith
    <2>2. PicksLast(pick, n)
        BY <1>3 DEF PicksLast
    <2> QED
        BY <1>4, <2>1, <2>2, FoldInOrder
<1>10. CancelEach(a, p, ids) = [i \in 0 .. n |-> g[1 .. i]][n]
    BY <1>5
<1> QED
    BY <1>9, <1>10 DEF V, step

\* Cancellation stops early only when the account is healthy.
LEMMA AllCancelled ==
    ASSUME NEW a, Booked(a), NEW p, NEW n \in Nat, NEW ids, DOMAIN ids = 1 .. n
    PROVE  LET b == CancelEach(a, p, ids)
           IN  /\ Booked(b) /\ b.orders \subseteq a.orders
               /\ Liquidatable(b, p) => \A i \in 1 .. n : ids[i] \notin b.orders
<1> DEFINE V == SameButOrders(a)
           step == Cancellations(a, p, ids)
<1>1. PICK h : InSteps(h, n, V, a, step) /\ CancelEach(a, p, ids) = h[n]
    BY CancelledInSteps
<1>2. ASSUME NEW i \in 1 .. n
      PROVE  /\ i - 1 \in 0 .. n /\ i \in 0 .. n
             /\ h[i - 1] \in V /\ h[i] = Cancelled(h[i - 1], p, ids[i])
    <2>1. i - 1 \in 0 .. n /\ i \in 0 .. n
        OBVIOUS
    <2>2. h[i - 1] \in V /\ h[i] = step[i][h[i - 1]]
        BY <1>1, <2>1 DEF InSteps
    <2>3. step[i][h[i - 1]] = Cancelled(h[i - 1], p, ids[i])
        BY <2>2 DEF Cancellations
    <2> QED
        BY <2>1, <2>2, <2>3
<1> DEFINE Off == {i \in 0 .. n : /\ Liquidatable(h[i], p)
                                  /\ \E j \in 1 .. i : ids[j] \in h[i].orders}
<1>3. Off = {}
    <2> SUFFICES ASSUME Off # {} PROVE FALSE
        OBVIOUS
    <2>1. Off \subseteq Nat
        OBVIOUS
    <2>2. PICK i \in Off : \A k \in Off : i <= k
        <3> HIDE DEF Off
        <3> QED
            BY <2>1, LeastNumber
    <2>3. i \in 0 .. n /\ Liquidatable(h[i], p)
        BY <2>2
    <2>4. PICK j \in 1 .. i : ids[j] \in h[i].orders
        BY <2>2
    <2>5. i \in 1 .. n /\ i \in Nat /\ i - 1 \in 0 .. n
        BY <2>3, <2>4
    <2>6. h[i - 1] \in V /\ h[i] = Cancelled(h[i - 1], p, ids[i])
        BY <1>2, <2>5
    <2> DEFINE c == Cancelled(h[i - 1], p, ids[i])
    <2>7. /\ c.orders \subseteq h[i - 1].orders
          /\ Liquidatable(h[i - 1], p) => ids[i] \notin c.orders
          /\ ~Liquidatable(h[i - 1], p) => c = h[i - 1]
        BY <2>6, CancelledStays
    <2>8. Liquidatable(h[i - 1], p)
        BY <2>3, <2>6, <2>7
    <2>9. j # i /\ j \in 1 .. i - 1 /\ ids[j] \in h[i - 1].orders
        <3>1. j # i /\ ids[j] \in h[i - 1].orders
            BY <2>4, <2>6, <2>7, <2>8
        <3>2. j \in 1 .. i - 1
            BY <2>4, <2>5, <3>1
        <3> QED
            BY <3>1, <3>2
    <2>10. i - 1 \in Off
        BY <2>5, <2>8, <2>9
    <2> QED
        BY <2>2, <2>5, <2>10
<1>4. h[n] \in V
    BY <1>1 DEF InSteps
<1>5. Booked(h[n]) /\ h[n].orders \subseteq a.orders
    <2>1. h[n] \in Account /\ h[n].orders \in SUBSET a.orders /\ h[n].perp = a.perp
        BY <1>4 DEF SameButOrders
    <2>2. IsFiniteSet(h[n].orders)
        BY <2>1, FS_Subset DEF Booked
    <2> QED
        BY <2>1, <2>2 DEF Booked
<1>6. Liquidatable(h[n], p) => \A i \in 1 .. n : ids[i] \notin h[n].orders
    <2>1. n \in 0 .. n /\ n \notin Off
        BY <1>3
    <2> QED
        BY <2>1
<1> QED
    BY <1>1, <1>5, <1>6

\* What is left of the list when an order of it is gone already.
LEMMA RestingPrefix ==
    ASSUME NEW a, NEW n \in Nat, NEW ids, DOMAIN ids = 1 .. n
    PROVE  \E m \in Nat :
              /\ DOMAIN Resting(a, ids) = 1 .. m
              /\ \A i \in 1 .. m : Resting(a, ids)[i] = ids[i]
              /\ (\A i \in 1 .. n : ids[i] \in a.orders) => m = n
<1> DEFINE gone == {i \in DOMAIN ids : ids[i] \notin a.orders}
           kept == {j \in DOMAIN ids : \A k \in gone : j < k}
<1>1. Resting(a, ids) = [i \in kept |-> ids[i]]
    BY DEF Resting
<1>2. CASE gone = {}
    <2>1. kept = 1 .. n
        BY <1>2
    <2> HIDE DEF kept
    <2> QED
        BY <1>1, <2>1
<1>3. CASE gone # {}
    <2>1. gone \subseteq Nat
        OBVIOUS
    <2>2. PICK k \in gone : \A j \in gone : k <= j
        <3> HIDE DEF gone
        <3> QED
            BY <1>3, <2>1, LeastNumber
    <2>3. k \in 1 .. n /\ ids[k] \notin a.orders
        BY <2>2
    <2>4. gone \subseteq 1 .. n
        OBVIOUS
    <2> HIDE DEF gone
    <2>5. kept = 1 .. (k - 1)
        BY <2>2, <2>3, <2>4
    <2> HIDE DEF kept
    <2>6. k - 1 \in Nat
        BY <2>3
    <2>7. /\ DOMAIN Resting(a, ids) = 1 .. (k - 1)
          /\ \A i \in 1 .. (k - 1) : Resting(a, ids)[i] = ids[i]
        BY <1>1, <2>5
    <2> QED
        BY <2>3, <2>6, <2>7
<1> QED
    BY <1>2, <1>3

\* A read of a venue's orders names each of them and nothing else.
LEMMA OrdersEnumerated ==
    ASSUME NEW S, IsFiniteSet(S)
    PROVE  \E n \in Nat :
              /\ DOMAIN SetToSeq(S) = 1 .. n
              /\ \A x \in S : \E i \in 1 .. n : SetToSeq(S)[i] = x
              /\ \A i \in 1 .. n : SetToSeq(S)[i] \in S
              /\ n = 0 <=> S = {}
<1> DEFINE n == Cardinality(S)
           f == SetToSeq(S)
<1>1. n \in Nat /\ ExistsBijection(1 .. n, S)
    BY FS_CardinalityType
<1>2. \E g : g \in [1 .. n -> S] /\ IsInjective(g)
    BY <1>1 DEF ExistsBijection, Bijection, Injection
<1>3. f \in [1 .. n -> S] /\ IsInjective(f)
    <2>1. f = CHOOSE g \in [1 .. n -> S] : IsInjective(g)
        BY DEF SetToSeq
    <2> HIDE DEF f, n
    <2> QED
        BY <1>2, <2>1
<1> HIDE DEF f
<1>4. f \in Injection(1 .. n, S)
    BY <1>3 DEF Injection
<1>5. Cardinality(1 .. n) = n
    <2> HIDE DEF n
    <2> QED
        BY <1>1, FS_Interval
<1>6. f \in Surjection(1 .. n, S)
    BY <1>4, <1>5, FS_Injection
<1>7. n = 0 <=> S = {}
    BY FS_EmptySet
<1> HIDE DEF n
<1>8. /\ DOMAIN f = 1 .. n /\ \A x \in S : \E i \in 1 .. n : f[i] = x
      /\ \A i \in 1 .. n : f[i] \in S
    BY <1>3, <1>6 DEF Surjection
<1> QED
    BY <1>1, <1>7, <1>8 DEF f

--------------------------------------------------------------------------------
(* Bad debt is real.                                                       *)

\* No order is left at the venues before the k-th, while the account is liquidatable.
OrdersGone(a, p, k) ==
    Liquidatable(a, p) => \A j \in {1, 2} : j < k => OrdersOf(a, venues[j]) = {}

OrdersCall(pl) ==
    /\ pl.call = "orders"
    /\ "i" \in DOMAIN pl
    /\ pl.i \in {1, 2}
    /\ \E n \in Nat : DOMAIN pl.close = 1 .. n

PositionsCall(pl) ==
    /\ pl.call = "positions"
    /\ IF pl.venue = "perps" THEN pl.close \in Nat ELSE pl.close \in Seq(CloseLeg)

\* What the plan remembers has its type.
TypedPlan(pl) ==
    /\ pl.at = "orders" => pl.i \in {1, 2}
    /\ pl.at = "size" => pl.snapshot \in Snapshot /\ pl.price \in Price
    /\ pl.at \in {"simulate", "sent"} =>
          /\ {"at", "call", "venue", "close"} \subseteq DOMAIN pl
          /\ OrdersCall(pl) \/ PositionsCall(pl)
    /\ pl.at = "rank" => {"at", "i", "ranked"} \subseteq DOMAIN pl /\ pl.i \in {1, 2, 3}

\* As long as the market has not moved, the orders of a liquidatable account are
\* gone where the plan has been, and all gone when it closes positions.
Undisturbed(a, p, pl) ==
    /\ pl.at = "orders" => OrdersGone(a, p, pl.i)
    /\ pl.at \in {"simulate", "sent"} /\ pl.call = "orders" =>
          /\ OrdersGone(a, p, pl.i)
          /\ \A o \in OrdersOf(a, venues[pl.i]) : \E k \in DOMAIN pl.close : pl.close[k] = o
          /\ \A k \in DOMAIN pl.close : pl.close[k] \in a.orders
    /\ pl.at \in {"simulate", "sent"} /\ pl.call = "positions" => a.orders = {}
    /\ pl.at = "recheck" => OrdersGone(a, p, 3)
    /\ pl.at \in {"rank", "snapshot", "size"} => a.orders = {}

\* The venues that were read so far and had a position are ranked; a position that
\* was not read was opened after the read.
RanksExposed(a, pl, late) ==
    pl.at = "rank" =>
        \A j \in {1, 2} : j < pl.i /\ Exposed(a, venues[j]) =>
            pl.ranked # {} \/ venues[j] \in late

NoneExposed(a, pl, late) ==
    pl.at = "ended" /\ pl.kind = "badDebt" =>
        \A v \in Market : Exposed(a, v) => v \in late

PlanInv ==
    /\ Booked(acct) /\ spot \in Price
    /\ TypedPlan(plan)
    /\ ~moved => Undisturbed(acct, spot, plan)
    /\ RanksExposed(acct, plan, traded)
    /\ NoneExposed(acct, plan, traded)

LEMMA VenuesInOrder == Len(venues) = 2 /\ venues[1] = "perps" /\ venues[2] = "futures"
BY DEF venues

LEMMA NoOrderLeft ==
    ASSUME NEW a, Booked(a), NEW p, OrdersGone(a, p, 3), Liquidatable(a, p)
    PROVE  a.orders = {}
<1>1. OrdersOf(a, "perps") = {} /\ OrdersOf(a, "futures") = {}
    BY VenuesInOrder DEF OrdersGone
<1>2. \A o \in a.orders : o.venue \in Market
    BY DEF Booked, Account, Order
<1> QED
    BY <1>1, <1>2, Venues DEF OrdersOf

\* What the invariant asks of the records that the plan's steps leave behind.
LEMMA OrdersLegKeeps ==
    ASSUME NEW a, NEW p, NEW late, NEW i \in {1, 2, 3}, NEW iter, NEW exhausted
    PROVE  LET pl == OrdersLeg(i, iter, exhausted)
           IN  /\ TypedPlan(pl) /\ RanksExposed(a, pl, late) /\ NoneExposed(a, pl, late)
               /\ OrdersGone(a, p, i) => Undisturbed(a, p, pl)
<1>1. CASE i = 3
    <2> DEFINE pl == [at |-> "recheck", iter |-> iter, exhausted |-> exhausted]
    <2>1. OrdersLeg(i, iter, exhausted) = pl
        BY <1>1, VenuesInOrder DEF OrdersLeg
    <2>2. pl.at = "recheck"
        OBVIOUS
    <2> HIDE DEF pl
    <2> QED
        BY <1>1, <2>1, <2>2 DEF TypedPlan, Undisturbed, RanksExposed, NoneExposed
<1>2. CASE i # 3
    <2> DEFINE pl == [at |-> "orders", i |-> i, iter |-> iter, exhausted |-> exhausted]
    <2>1. OrdersLeg(i, iter, exhausted) = pl
        BY <1>2, VenuesInOrder DEF OrdersLeg
    <2>2. pl.at = "orders" /\ pl.i = i /\ i \in {1, 2}
        BY <1>2
    <2> HIDE DEF pl
    <2> QED
        BY <2>1, <2>2 DEF TypedPlan, Undisturbed, RanksExposed, NoneExposed
<1> QED
    BY <1>1, <1>2

LEMMA RecheckKeeps ==
    ASSUME NEW a, NEW p, NEW late, NEW pl, pl.at = "recheck"
    PROVE  /\ TypedPlan(pl) /\ RanksExposed(a, pl, late) /\ NoneExposed(a, pl, late)
           /\ OrdersGone(a, p, 3) => Undisturbed(a, p, pl)
BY DEF TypedPlan, Undisturbed, RanksExposed, NoneExposed

LEMMA EndKeeps ==
    ASSUME NEW a, NEW p, NEW late, NEW kind, NEW reason, Ends(kind, reason),
           kind = "badDebt" => \A v \in Market : Exposed(a, v) => v \in late
    PROVE  /\ TypedPlan(plan') /\ Undisturbed(a, p, plan')
           /\ RanksExposed(a, plan', late) /\ NoneExposed(a, plan', late)
<1>1. plan'.at = "ended" /\ plan'.kind = kind
    BY DEF Ends
<1> QED
    BY <1>1 DEF TypedPlan, Undisturbed, RanksExposed, NoneExposed

LEMMA GoneFromFirst ==
    ASSUME NEW a, NEW p
    PROVE  /\ OrdersGone(a, p, 1)
           /\ a.orders = {} => OrdersGone(a, p, 3)
           /\ ~Liquidatable(a, p) => \A k \in {1, 2, 3} : OrdersGone(a, p, k)
BY DEF OrdersGone, OrdersOf

\* A step that leaves the account and the market keeps the invariant when the plan's
\* record does.
Kept(a, p, pl, late) ==
    TypedPlan(pl) /\ (~moved => Undisturbed(a, p, pl))
      /\ RanksExposed(a, pl, late) /\ NoneExposed(a, pl, late)

LEMMA ReadHealthKeeps ==
    ASSUME PlanInv, readHealth
    PROVE  Kept(acct, spot, plan', traded)
<1>1. \/ Ends("healthy", "none")
      \/ plan' = OrdersLeg(1, -1, {})
    BY DEF readHealth
<1>2. CASE Ends("healthy", "none")
    BY <1>2, EndKeeps DEF Kept
<1>3. CASE plan' = OrdersLeg(1, -1, {})
    BY <1>3, OrdersLegKeeps, GoneFromFirst DEF Kept
<1> QED
    BY <1>1, <1>2, <1>3

LEMMA ThrowsKeeps ==
    ASSUME PlanInv, Throws
    PROVE  Kept(acct, spot, plan', traded)
<1>1. Ends("threw", "none")
    BY DEF Throws
<1> QED
    BY <1>1, EndKeeps DEF Kept

LEMMA OrdersLegRunKeeps ==
    ASSUME PlanInv, runOrdersLeg
    PROVE  Kept(acct, spot, plan', traded)
<1> DEFINE venue == venues[plan.i]
           S == OrdersOf(acct, venue)
           ids == SetToSeq(S)
           pl == [at |-> "simulate", call |-> "orders", venue |-> venue, close |-> ids,
                  i |-> plan.i, iter |-> plan.iter, exhausted |-> plan.exhausted]
<1>1. /\ plan.at = "orders"
      /\ plan' = IF ids = <<>> THEN OrdersLeg(plan.i + 1, plan.iter, plan.exhausted) ELSE pl
    BY DEF runOrdersLeg, readOpenOrders
<1>2. /\ plan.i \in {1, 2}
      /\ ~moved => OrdersGone(acct, spot, plan.i)
    BY <1>1 DEF PlanInv, TypedPlan, Undisturbed
<1>3. PICK n \in Nat : /\ DOMAIN ids = 1 .. n
                       /\ \A x \in S : \E i \in 1 .. n : ids[i] = x
                       /\ \A i \in 1 .. n : ids[i] \in S
                       /\ n = 0 <=> S = {}
    <2>1. S \in SUBSET acct.orders
        BY DEF OrdersOf
    <2>2. IsFiniteSet(S)
        BY <2>1, FS_Subset DEF PlanInv, Booked
    <2> HIDE DEF S
    <2> QED
        BY <2>2, OrdersEnumerated
<1> HIDE DEF ids
<1>4. CASE ids = <<>>
    <2>1. S = {}
        <3>1. n = 0
            BY <1>3, <1>4
        <3> QED
            BY <1>3, <3>1
    <2>2. plan.i + 1 \in {1, 2, 3}
        BY <1>2
    <2>3. ~moved => OrdersGone(acct, spot, plan.i + 1)
        <3>1. \A j \in {1, 2} : j < plan.i + 1 => j < plan.i \/ j = plan.i
            BY <1>2
        <3> QED
            BY <1>2, <2>1, <3>1 DEF OrdersGone
    <2> DEFINE next == OrdersLeg(plan.i + 1, plan.iter, plan.exhausted)
    <2>4. plan' = next
        BY <1>1, <1>4
    <2>5. Kept(acct, spot, next, traded)
        BY <2>2, <2>3, OrdersLegKeeps DEF Kept
    <2> HIDE DEF next
    <2> QED
        BY <2>4, <2>5
<1>5. CASE ids # <<>>
    <2>1. plan' = pl
        BY <1>1, <1>5
    <2>2. /\ pl.at = "simulate" /\ pl.call = "orders" /\ pl.close = ids /\ pl.i = plan.i
          /\ {"at", "call", "venue", "close", "i"} \subseteq DOMAIN pl
        OBVIOUS
    <2> HIDE DEF pl
    <2>3. OrdersCall(pl)
        BY <1>2, <1>3, <2>2 DEF OrdersCall
    <2>4. TypedPlan(pl)
        BY <2>2, <2>3 DEF TypedPlan
    <2>5. ~moved => Undisturbed(acct, spot, pl)
        <3>1. \A k \in DOMAIN ids : ids[k] \in acct.orders
            BY <1>3 DEF OrdersOf
        <3> QED
            BY <1>2, <1>3, <2>2, <3>1 DEF Undisturbed
    <2> QED
        BY <2>1, <2>2, <2>4, <2>5 DEF Kept, RanksExposed, NoneExposed
<1> QED
    BY <1>4, <1>5

LEMMA ReadHealthAgainKeeps ==
    ASSUME PlanInv, readHealthAgain
    PROVE  Kept(acct, spot, plan', traded)
<1>1. plan.at = "recheck"
    BY DEF readHealthAgain
<1>2. CASE Ends("liquidated", "none") \/ Ends("stalled", "iterationCap")
    BY <1>2, EndKeeps DEF Kept
<1>3. CASE ~(Ends("liquidated", "none") \/ Ends("stalled", "iterationCap"))
    <2> DEFINE pl == [at |-> "rank", i |-> 1, ranked |-> {}, iter |-> plan.iter + 1,
                      exhausted |-> plan.exhausted]
    <2>1. Liquidatable(acct, spot) /\ plan' = pl
        BY <1>3 DEF readHealthAgain, NextIteration, Liquidatable
    <2>2. /\ pl.at = "rank" /\ pl.i = 1
          /\ {"at", "i", "ranked"} \subseteq DOMAIN pl
        OBVIOUS
    <2>3. ~moved => acct.orders = {}
        BY <1>1, <2>1, NoOrderLeft DEF PlanInv, Undisturbed
    <2> HIDE DEF pl
    <2>4. RanksExposed(acct, pl, traded)
        BY <2>2 DEF RanksExposed
    <2> QED
        BY <2>1, <2>2, <2>3, <2>4 DEF Kept, TypedPlan, Undisturbed, NoneExposed
<1> QED
    BY <1>2, <1>3

LEMMA RankKeeps ==
    ASSUME PlanInv, rankVenuesByLoss
    PROVE  Kept(acct, spot, plan', traded')
<1> DEFINE found == readPositions(venues[plan.i])
           pl == [plan EXCEPT !.i = plan.i + 1, !.ranked = plan.ranked \cup found]
<1>1. /\ plan.at = "rank" /\ plan.i <= 2 /\ plan' = pl
      /\ traded' = traded \ {venues[plan.i]}
    BY VenuesInOrder DEF rankVenuesByLoss
<1>2. /\ {"at", "i", "ranked"} \subseteq DOMAIN plan /\ plan.i \in {1, 2, 3}
      /\ ~moved => acct.orders = {}
      /\ \A j \in {1, 2} : j < plan.i /\ Exposed(acct, venues[j]) =>
            plan.ranked # {} \/ venues[j] \in traded
    BY <1>1 DEF PlanInv, TypedPlan, Undisturbed, RanksExposed
<1>3. Exposed(acct, venues[plan.i]) => found # {}
    BY DEF readPositions
<1> HIDE DEF found
<1>4. /\ pl.at = "rank" /\ pl.i = plan.i + 1 /\ pl.ranked = plan.ranked \cup found
      /\ {"at", "i", "ranked"} \subseteq DOMAIN pl
    BY <1>1, <1>2
<1> HIDE DEF pl
<1>5. pl.i \in {1, 2, 3}
    BY <1>1, <1>2, <1>4
<1>6. RanksExposed(acct, pl, traded')
    <2> SUFFICES ASSUME NEW j \in {1, 2}, j < plan.i + 1, Exposed(acct, venues[j])
                 PROVE  pl.ranked # {} \/ venues[j] \in traded'
        BY <1>4 DEF RanksExposed
    <2>1. CASE j = plan.i
        BY <1>3, <1>4, <2>1
    <2>2. CASE j # plan.i
        <3>1. j < plan.i /\ j = 1 /\ plan.i = 2
            BY <1>1, <1>2, <2>2
        <3>2. venues[j] # venues[plan.i]
            BY <3>1, VenuesInOrder
        <3> QED
            BY <1>1, <1>2, <1>4, <3>1, <3>2
    <2> QED
        BY <2>1, <2>2
<1>7. plan' = pl
    BY <1>1 DEF pl
<1> QED
    BY <1>2, <1>4, <1>5, <1>6, <1>7 DEF Kept, TypedPlan, Undisturbed, NoneExposed

LEMMA PickWorstKeeps ==
    ASSUME PlanInv, PickWorst
    PROVE  Kept(acct, spot, plan', traded)
<1>1. plan.at = "rank" /\ plan.i > 2
    BY VenuesInOrder DEF PickWorst
<1>2. /\ plan.i \in {1, 2, 3}
      /\ ~moved => acct.orders = {}
      /\ \A j \in {1, 2} : j < plan.i /\ Exposed(acct, venues[j]) =>
            plan.ranked # {} \/ venues[j] \in traded
    BY <1>1 DEF PlanInv, TypedPlan, Undisturbed, RanksExposed
<1>3. CASE plan.ranked = {} /\ Ends("badDebt", "none")
    <2>1. plan.i = 3
        BY <1>1, <1>2
    <2>2. \A j \in {1, 2} : Exposed(acct, venues[j]) => venues[j] \in traded
        BY <1>2, <1>3, <2>1
    <2>3. \A v \in Market : Exposed(acct, v) => v \in traded
        BY <2>2, Venues, VenuesInOrder
    <2> QED
        BY <1>3, <2>3, EndKeeps DEF Kept
<1>4. CASE Ends("stalled", "nothingToClose")
    BY <1>4, EndKeeps DEF Kept
<1>5. CASE \E v : plan' = [at |-> "snapshot", venue |-> v,
                           iter |-> plan.iter, exhausted |-> plan.exhausted]
    <2>1. plan'.at = "snapshot"
        BY <1>5
    <2> QED
        BY <1>2, <2>1 DEF Kept, TypedPlan, Undisturbed, RanksExposed, NoneExposed
<1> QED
    BY <1>3, <1>4, <1>5 DEF PickWorst

LEMMA SnapshotKeeps ==
    ASSUME PlanInv, SnapshotRead
    PROVE  Kept(acct, spot, plan', traded)
<1>1. /\ plan.at = "snapshot" /\ plan'.at = "size"
      /\ plan'.snapshot = readAccountSnapshot(acct) /\ plan'.price = spot
    BY DEF SnapshotRead
<1>2. plan'.snapshot \in Snapshot /\ plan'.price \in Price
    BY <1>1, SnapshotType DEF PlanInv
<1>3. ~moved => acct.orders = {}
    BY <1>1 DEF PlanInv, Undisturbed
<1> QED
    BY <1>1, <1>2, <1>3 DEF Kept, TypedPlan, Undisturbed, RanksExposed, NoneExposed

LEMMA SizeKeeps ==
    ASSUME PlanInv, reduceToTarget
    PROVE  Kept(acct, spot, plan', traded)
<1>1. plan.at = "size"
    BY DEF reduceToTarget
<1>2. PICK p \in {plan.price, spot} :
          plan' = Sized(CloseOf(plan.venue, secondCall(plan.snapshot, acct), p))
    BY DEF reduceToTarget
<1> DEFINE s == secondCall(plan.snapshot, acct)
           close == CloseOf(plan.venue, s, p)
           pl == [at |-> "simulate", call |-> "positions", venue |-> plan.venue,
                  close |-> close, iter |-> plan.iter, exhausted |-> plan.exhausted]
<1>3. s \in Snapshot /\ p \in Nat
    <2>1. plan.snapshot \in Snapshot /\ plan.price \in Price /\ spot \in Price /\ Booked(acct)
        BY <1>1 DEF PlanInv, TypedPlan
    <2>2. \A q \in Price : q \in Nat
        BY Inputs
    <2> QED
        BY <1>2, <2>1, <2>2, SecondCallType
<1>4. ~moved => acct.orders = {}
    BY <1>1 DEF PlanInv, Undisturbed
<1> HIDE DEF s
<1>5. IF plan.venue = "perps" THEN close \in Nat ELSE close \in Seq(CloseLeg)
    <2>1. solvePerpCloseToTarget(s, Params, p) \in Nat
        BY <1>3, PerpCloseType
    <2>2. FuturesCloses(s, p) \in Seq(CloseLeg)
        BY <1>3, FuturesClosesType
    <2> QED
        BY <2>1, <2>2 DEF CloseOf
<1>6. plan' = Sized(close)
    BY <1>2 DEF s
<1> HIDE DEF close
<1>7. CASE NothingToClose(plan.venue, close)
    <2>1. plan'.at = "recheck"
        BY <1>6, <1>7 DEF Sized, Recheck
    <2>2. ~moved => OrdersGone(acct, spot, 3)
        BY <1>4, GoneFromFirst
    <2> QED
        BY <2>1, <2>2, RecheckKeeps DEF Kept
<1>8. CASE ~NothingToClose(plan.venue, close)
    <2>1. plan' = pl
        BY <1>6, <1>8 DEF Sized
    <2>2. /\ pl.at = "simulate" /\ pl.call = "positions" /\ pl.venue = plan.venue
          /\ pl.close = close /\ {"at", "call", "venue", "close"} \subseteq DOMAIN pl
        OBVIOUS
    <2> HIDE DEF pl
    <2>3. PositionsCall(pl)
        BY <1>5, <2>2 DEF PositionsCall
    <2>4. TypedPlan(pl)
        BY <2>2, <2>3 DEF TypedPlan
    <2> QED
        BY <1>4, <2>1, <2>2, <2>4 DEF Kept, Undisturbed, RanksExposed, NoneExposed
<1> QED
    BY <1>7, <1>8

LEMMA AfterOrdersKeeps ==
    ASSUME PlanInv, plan.at \in {"simulate", "sent"}, OrdersCall(plan), NEW a, NEW p,
           ~moved => OrdersGone(a, p, plan.i + 1)
    PROVE  Kept(a, p, AfterCall, traded)
<1> DEFINE pl == OrdersLeg(plan.i + 1, plan.iter, plan.exhausted)
<1>1. plan.i + 1 \in {1, 2, 3} /\ plan.call = "orders"
    BY DEF OrdersCall
<1>2. Kept(a, p, pl, traded)
    BY <1>1, OrdersLegKeeps DEF Kept
<1>3. AfterCall = pl
    BY <1>1 DEF AfterCall
<1> HIDE DEF pl
<1> QED
    BY <1>2, <1>3

LEMMA AfterPositionsKeeps ==
    ASSUME PlanInv, plan.at \in {"simulate", "sent"}, PositionsCall(plan), NEW a, NEW p,
           ~moved => a.orders = {}
    PROVE  Kept(a, p, AfterCall, traded)
<1>1. AfterCall = Recheck /\ Recheck.at = "recheck"
    BY DEF AfterCall, Recheck, PositionsCall
<1>2. ~moved => OrdersGone(a, p, 3)
    BY GoneFromFirst
<1> HIDE DEF Recheck
<1>3. Kept(a, p, Recheck, traded)
    BY <1>1, <1>2, RecheckKeeps DEF Kept
<1> QED
    BY <1>1, <1>3

LEMMA SentKeeps ==
    ASSUME PlanInv, plan.at = "simulate"
    PROVE  Kept(acct, spot, [plan EXCEPT !.at = "sent"], traded)
<1> DEFINE pl == [plan EXCEPT !.at = "sent"]
<1>1. /\ {"at", "call", "venue", "close"} \subseteq DOMAIN plan
      /\ OrdersCall(plan) \/ PositionsCall(plan)
      /\ ~moved => Undisturbed(acct, spot, plan)
    BY DEF PlanInv, TypedPlan
<1>2. /\ DOMAIN pl = DOMAIN plan /\ pl.at = "sent" /\ pl.call = plan.call
      /\ pl.venue = plan.venue /\ pl.close = plan.close
      /\ "i" \in DOMAIN plan => pl.i = plan.i
    BY <1>1
<1> HIDE DEF pl
<1>3. OrdersCall(plan) => OrdersCall(pl)
    BY <1>2 DEF OrdersCall
<1>4. PositionsCall(plan) => PositionsCall(pl)
    BY <1>2 DEF PositionsCall
<1>5. TypedPlan(pl)
    BY <1>1, <1>2, <1>3, <1>4 DEF TypedPlan
<1>6. ~moved => Undisturbed(acct, spot, pl)
    <2>1. CASE OrdersCall(plan)
        <3>1. plan.call = "orders" /\ pl.i = plan.i
            BY <1>2, <2>1 DEF OrdersCall
        <3> QED
            BY <1>1, <1>2, <3>1 DEF Undisturbed
    <2>2. CASE PositionsCall(plan)
        <3>1. plan.call = "positions"
            BY <2>2 DEF PositionsCall
        <3> QED
            BY <1>1, <1>2, <3>1 DEF Undisturbed
    <2> QED
        BY <1>1, <2>1, <2>2
<1> QED
    BY <1>2, <1>5, <1>6 DEF Kept, RanksExposed, NoneExposed, pl

LEMMA SimulateKeeps ==
    ASSUME PlanInv, Simulate
    PROVE  Kept(acct, spot, plan', traded)
<1> DEFINE error == Call(acct, spot, plan).error
           again == OrdersLeg(1, plan.iter, plan.exhausted)
           sent == [plan EXCEPT !.at = "sent"]
<1>1. /\ plan.at = "simulate"
      /\ plan' = IF error = "none" THEN sent
                 ELSE IF error = "OrdersStillOpen" THEN again ELSE AfterCall
    BY DEF Simulate
<1>2. Kept(acct, spot, sent, traded)
    BY <1>1, SentKeeps
<1>3. Kept(acct, spot, again, traded)
    BY OrdersLegKeeps, GoneFromFirst DEF Kept
<1>4. ASSUME error # "none" PROVE Kept(acct, spot, AfterCall, traded)
    <2>1. OrdersCall(plan) \/ PositionsCall(plan)
        BY <1>1 DEF PlanInv, TypedPlan
    <2>2. CASE OrdersCall(plan)
        <3>1. plan.call = "orders"
            BY <2>2 DEF OrdersCall
        <3>2. ~Liquidatable(acct, spot)
            BY <1>4, <3>1 DEF Call, LiquidateOrders
        <3>3. OrdersGone(acct, spot, plan.i + 1)
            BY <3>2 DEF OrdersGone
        <3> QED
            BY <1>1, <2>2, <3>3, AfterOrdersKeeps
    <2>3. CASE PositionsCall(plan)
        <3>1. ~moved => acct.orders = {}
            BY <1>1, <2>3 DEF PlanInv, Undisturbed, PositionsCall
        <3> QED
            BY <1>1, <2>3, <3>1, AfterPositionsKeeps
    <2> QED
        BY <2>1, <2>2, <2>3
<1> HIDE DEF error, again, sent
<1> QED
    BY <1>1, <1>2, <1>3, <1>4

\* What a mined call leaves: a booked account without the orders it was sent for,
\* or without any.
LEMMA OrdersMined ==
    ASSUME PlanInv, plan.at = "sent", OrdersCall(plan)
    PROVE  LET b == Call(acct, spot, plan).acct
           IN  /\ Booked(b)
               /\ ~moved => OrdersGone(b, spot, plan.i + 1)
<1>1. plan.call = "orders" /\ plan.i \in {1, 2}
    BY DEF OrdersCall
<1>2. PICK n \in Nat : DOMAIN plan.close = 1 .. n
    BY DEF OrdersCall
<1>3. Booked(acct)
    BY DEF PlanInv
<1>4. CASE ~Liquidatable(acct, spot)
    <2>1. Call(acct, spot, plan).acct = acct
        BY <1>1, <1>4 DEF Call, LiquidateOrders
    <2> QED
        BY <1>3, <1>4, <2>1 DEF OrdersGone
<1>5. CASE Liquidatable(acct, spot)
    <2> DEFINE sent == Resting(acct, plan.close)
               b == CancelEach(acct, spot, sent)
    <2>1. Call(acct, spot, plan).acct = b
        BY <1>1, <1>5 DEF Call, LiquidateOrders, OrdersCancelled, CancelEach
    <2>0. PICK m \in Nat :
              /\ DOMAIN sent = 1 .. m
              /\ \A k \in 1 .. m : sent[k] = plan.close[k]
              /\ (\A k \in 1 .. n : plan.close[k] \in acct.orders) => m = n
        BY <1>2, RestingPrefix
    <2> HIDE DEF sent
    <2>2. /\ Booked(b) /\ b.orders \subseteq acct.orders
          /\ Liquidatable(b, spot) => \A k \in 1 .. m : sent[k] \notin b.orders
        BY <1>3, <2>0, AllCancelled
    <2> HIDE DEF b
    <2>3. ASSUME ~moved, Liquidatable(b, spot), NEW j \in {1, 2}, j < plan.i + 1
          PROVE  OrdersOf(b, venues[j]) = {}
        <3>1. Undisturbed(acct, spot, plan)
            BY <2>3 DEF PlanInv
        <3>2. /\ OrdersGone(acct, spot, plan.i)
              /\ \A o \in OrdersOf(acct, venues[plan.i]) :
                    \E k \in 1 .. n : plan.close[k] = o
              /\ \A k \in 1 .. n : plan.close[k] \in acct.orders
            BY <1>1, <1>2, <3>1 DEF Undisturbed
        <3>3. OrdersOf(b, venues[j]) \subseteq OrdersOf(acct, venues[j])
            BY <2>2 DEF OrdersOf
        <3>4. CASE j < plan.i
            BY <1>5, <3>2, <3>3, <3>4 DEF OrdersGone
        <3>5. CASE j = plan.i
            <4>1. \A o \in OrdersOf(b, venues[j]) : o \in b.orders
                BY DEF OrdersOf
            <4>2. \A o \in OrdersOf(b, venues[j]) : o \notin b.orders
                BY <2>0, <2>2, <2>3, <3>2, <3>3, <3>5
            <4> QED
                BY <4>1, <4>2
        <3> QED
            BY <1>1, <2>3, <3>4, <3>5
    <2>4. ~moved => OrdersGone(b, spot, plan.i + 1)
        BY <2>3 DEF OrdersGone
    <2> QED
        BY <2>1, <2>2, <2>4
<1> QED
    BY <1>4, <1>5

LEMMA PositionsMined ==
    ASSUME PlanInv, plan.at = "sent", PositionsCall(plan)
    PROVE  LET b == Call(acct, spot, plan).acct
           IN  Booked(b) /\ b.orders = acct.orders
<1> DEFINE after == Closed(acct, spot, plan.venue, plan.close)
<1>1. plan.call = "positions"
    BY DEF PositionsCall
<1>2. Booked(acct) /\ spot \in Nat
    <2>1. \A q \in Price : q \in Nat
        BY Inputs
    <2> QED
        BY <2>1 DEF PlanInv
<1>3. Booked(after) /\ after.orders = acct.orders
    <2>1. CASE plan.venue = "perps"
        <3>1. plan.close \in Nat
            BY <2>1 DEF PositionsCall
        <3> QED
            BY <1>2, <2>1, <3>1, PerpsClosedBooked, ZenonT(60)
    <2>2. CASE plan.venue # "perps"
        <3>1. plan.close \in Seq(CloseLeg)
            BY <2>2 DEF PositionsCall
        <3> QED
            BY <1>2, <2>2, <3>1, FuturesClosedBooked, ZenonT(60)
    <2> QED
        BY <2>1, <2>2
<1>4. Call(acct, spot, plan).acct \in {acct, after}
    BY <1>1 DEF Call, LiquidatePositions
<1> HIDE DEF after
<1> QED
    BY <1>2, <1>3, <1>4

LEMMA MinedKeeps ==
    ASSUME PlanInv, Mined
    PROVE  Booked(acct') /\ Kept(acct', spot, plan', traded)
<1> DEFINE b == Call(acct, spot, plan).acct
<1>1. plan.at = "sent" /\ acct' = b /\ plan' = AfterCall
    BY DEF Mined
<1>2. OrdersCall(plan) \/ PositionsCall(plan)
    BY <1>1 DEF PlanInv, TypedPlan
<1>3. CASE OrdersCall(plan)
    <2>1. Booked(b) /\ (~moved => OrdersGone(b, spot, plan.i + 1))
        BY <1>1, <1>3, OrdersMined
    <2> HIDE DEF b
    <2>2. Kept(b, spot, AfterCall, traded)
        BY <1>1, <1>3, <2>1, AfterOrdersKeeps
    <2> QED
        BY <1>1, <2>1, <2>2
<1>4. CASE PositionsCall(plan)
    <2>1. Booked(b) /\ b.orders = acct.orders
        BY <1>1, <1>4, PositionsMined
    <2> HIDE DEF b
    <2>2. ~moved => acct.orders = {}
        BY <1>1, <1>4 DEF PlanInv, Undisturbed, PositionsCall
    <2>3. Kept(b, spot, AfterCall, traded)
        BY <1>1, <1>4, <2>1, <2>2, AfterPositionsKeeps
    <2> QED
        BY <1>1, <2>1, <2>3
<1> QED
    BY <1>2, <1>3, <1>4

\* A fill touches the position of the order's venue only.
LEMMA FilledElsewhere ==
    ASSUME NEW a, Booked(a), NEW o \in a.orders, NEW e \in Expiry, NEW v \in Market,
           v # o.venue
    PROVE  Exposed(Filled(a, o, e), v) <=> Exposed(a, v)
<1> DEFINE b == Filled(a, o, e)   open == [a EXCEPT !.orders = a.orders \ {o}]
<1>1. o.venue \in Market /\ o.venue \in {"perps", "futures"} /\ v \in {"perps", "futures"}
    BY Venues DEF Booked, Account, Order
<1>2. /\ open.perp = a.perp /\ open.legs = a.legs
      /\ {"perp", "legs", "balance", "orders"} \subseteq DOMAIN open
    BY DEF Booked, Account
<1>3. CASE o.venue = "perps"
    <2>1. b.legs = open.legs
        <3> HIDE DEF open
        <3> QED
            BY <1>3 DEF Filled, PerpClosed, open
    <2> QED
        BY <1>1, <1>2, <1>3, <2>1 DEF Exposed
<1>4. CASE o.venue = "futures"
    <2>1. b.perp = open.perp
        BY <1>4 DEF Filled, LegClosed, open
    <2> QED
        BY <1>1, <1>2, <1>4, <2>1 DEF Exposed
<1> QED
    BY <1>1, <1>3, <1>4

\* A move of the market opens a position only by a fill.
LEMMA MarketOpens ==
    ASSUME Booked(acct), MakerFill \/ SpotMoves \/ Deposit \/ Rests, NEW v \in Market,
           Exposed(acct', v)
    PROVE  v \in traded' \/ (Exposed(acct, v) /\ traded \subseteq traded')
<1>1. CASE MakerFill
    <2>1. PICK o \in acct.orders, e \in Expiry :
              acct' = Filled(acct, o, e) /\ traded' = traded \cup {o.venue}
        BY <1>1 DEF MakerFill
    <2> QED
        BY <2>1, FilledElsewhere
<1>2. CASE SpotMoves
    BY <1>2 DEF SpotMoves
<1>3. CASE Deposit \/ Rests
    <2>1. acct'.perp = acct.perp /\ acct'.legs = acct.legs /\ traded' = traded
        BY <1>3 DEF Deposit, Rests, Booked, Account
    <2> QED
        BY <2>1 DEF Exposed
<1> QED
    BY <1>1, <1>2, <1>3

LEMMA MarketMovesKeeps ==
    ASSUME PlanInv, MarketMoves
    PROVE  PlanInv'
<1>1. /\ moved' = TRUE /\ plan' = plan /\ plan.at # "ended"
      /\ MakerFill \/ SpotMoves \/ Deposit \/ Rests
    BY DEF MarketMoves
<1>2. Booked(acct')
    BY <1>1, MarketKeepsBooked DEF PlanInv
<1>3. spot' \in Price
    BY <1>1 DEF PlanInv, MakerFill, SpotMoves, Deposit, Rests
<1>4. RanksExposed(acct', plan, traded')
    <2> SUFFICES ASSUME plan.at = "rank", NEW j \in {1, 2}, j < plan.i,
                        Exposed(acct', venues[j])
                 PROVE  plan.ranked # {} \/ venues[j] \in traded'
        BY DEF RanksExposed
    <2>1. venues[j] \in Market
        BY Venues, VenuesInOrder
    <2>2. \/ venues[j] \in traded'
          \/ Exposed(acct, venues[j]) /\ traded \subseteq traded'
        BY <1>1, <2>1, MarketOpens DEF PlanInv
    <2> QED
        BY <2>2 DEF PlanInv, RanksExposed
<1>5. NoneExposed(acct', plan, traded')
    BY <1>1 DEF NoneExposed
<1>6. TypedPlan(plan)
    BY DEF PlanInv
<1> QED
    BY <1>1, <1>2, <1>3, <1>4, <1>5, <1>6 DEF PlanInv

LEMMA PlanInitially ==
    ASSUME Init
    PROVE  PlanInv
<1>1. plan.at = "start"
    BY DEF Init, ReadHealth
<1>2. Booked(acct) /\ spot \in Price
    BY Inputs DEF Init
<1> QED
    BY <1>1, <1>2 DEF PlanInv, TypedPlan, Undisturbed, RanksExposed, NoneExposed

LEMMA StepKeeps ==
    ASSUME PlanInv, Step
    PROVE  PlanInv'
<1>1. ASSUME UNCHANGED chain, Kept(acct, spot, plan', traded) PROVE PlanInv'
    BY <1>1 DEF PlanInv, Kept, chain
<1>2. CASE Throws
    BY <1>1, <1>2, ThrowsKeeps DEF Throws
<1>3. CASE readHealth
    BY <1>1, <1>3, ReadHealthKeeps DEF readHealth
<1>4. CASE runOrdersLeg
    BY <1>1, <1>4, OrdersLegRunKeeps DEF runOrdersLeg
<1>5. CASE readHealthAgain
    BY <1>1, <1>5, ReadHealthAgainKeeps DEF readHealthAgain
<1>6. CASE rankVenuesByLoss
    <2>1. Kept(acct, spot, plan', traded')
        BY <1>6, RankKeeps
    <2>2. acct' = acct /\ spot' = spot /\ moved' = moved
        BY <1>6 DEF rankVenuesByLoss
    <2> QED
        BY <2>1, <2>2 DEF PlanInv, Kept
<1>7. CASE PickWorst
    BY <1>1, <1>7, PickWorstKeeps DEF PickWorst
<1>8. CASE SnapshotRead
    BY <1>1, <1>8, SnapshotKeeps DEF SnapshotRead
<1>9. CASE reduceToTarget
    BY <1>1, <1>9, SizeKeeps DEF reduceToTarget
<1>10. CASE Simulate
    BY <1>1, <1>10, SimulateKeeps DEF Simulate
<1>11. CASE Mined
    <2>1. Booked(acct') /\ Kept(acct', spot, plan', traded)
        BY <1>11, MinedKeeps
    <2>2. spot' = spot /\ moved' = moved /\ traded' = traded
        BY <1>11 DEF Mined
    <2> QED
        BY <2>1, <2>2 DEF PlanInv, Kept
<1> QED
    BY <1>2, <1>3, <1>4, <1>5, <1>6, <1>7, <1>8, <1>9, <1>10, <1>11 DEF Step

\* The invariant of a plan: the account stays one the venues can book, what the plan
\* remembers can be sent as it is, and until the market moves the orders of the
\* account are gone where the plan has been.
THEOREM PlanConsistent == Spec => []PlanInv
<1>1. Init => PlanInv
    BY PlanInitially
<1>2. PlanInv /\ [Next]_vars => PlanInv'
    <2> SUFFICES ASSUME PlanInv, [Next]_vars
                 PROVE  PlanInv'
        OBVIOUS
    <2>1. CASE Step
        BY <2>1, StepKeeps
    <2>2. CASE MarketMoves
        BY <2>2, MarketMovesKeeps
    <2>3. CASE UNCHANGED vars
        BY <2>3 DEF vars, chain, PlanInv
    <2> QED
        BY <2>1, <2>2, <2>3 DEF Next
<1> QED
    BY <1>1, <1>2, PTL DEF Spec

\* The keeper never writes off an account with a position it could have seen:
\* planner.ts calls bad debt only an account none of whose venues had a position when
\* each was read, whatever the market did before, between and after the reads and
\* however often, and what the ranking parks as exhausted is not counted as sold out.
THEOREM NoFalseBadDebt == Spec => []BadDebtIsReal
<1>1. PlanInv => BadDebtIsReal
    BY DEF PlanInv, NoneExposed, BadDebtIsReal, Ended
<1> QED
    BY <1>1, PlanConsistent, PTL

\* The keeper decides on its own arithmetic whom to liquidate and how much to close.
\* At every price, for every book of positions, orders and funding, its two
\* requirements are those of PortfolioMarginEngine up to the truncation of the
\* perpetual's entry price, when the shocks are whole multiples of the quantity unit,
\* as a percentage is: each venue is summed by itself and the two offset.
THEOREM KeeperAgrees == WholeShocks => (Spec => []RequirementsAgree)
<1>1. ASSUME WholeShocks PROVE PlanInv => RequirementsAgree
    <2> SUFFICES ASSUME plan.at = "start", Booked(acct),
                        NEW isIM \in BOOLEAN, NEW p \in Price
                 PROVE  Magnitude(requiredAt(readAccountSnapshot(acct), Params, p, isIM)
                                    - Required(acct, p, isIM))
                            <= Truncation(acct)
        BY DEF PlanInv, RequirementsAgree
    <2>1. p \in Nat
        BY Inputs
    <2> QED
        BY <1>1, <2>1, RequirementsOfBook
<1>2. CASE WholeShocks
    <2>1. PlanInv => RequirementsAgree
        BY <1>1, <1>2
    <2> QED
        BY <2>1, PlanConsistent, PTL
<1> QED
    BY <1>2

--------------------------------------------------------------------------------
(* Values at three places, the one in the middle weighted by how far the   *)
(* two others are: what is between its ends, up to e.                      *)

\* x, y and z are values at three places, y at the one that divides the way from x
\* to z as b to a: y is not above the line from x to z by more than e.
Under(a, b, x, y, z, e) == (a + b) * y <= a * x + b * z + e

Weights(a, b) == a \in Nat \ {0} /\ b \in Nat \ {0}

LEMMA UnderSum ==
    ASSUME NEW a, NEW b, Weights(a, b), NEW e \in Int, NEW f \in Int,
           NEW x \in Int, NEW y \in Int, NEW z \in Int,
           NEW u \in Int, NEW v \in Int, NEW w \in Int,
           Under(a, b, x, y, z, e), Under(a, b, u, v, w, f)
    PROVE  Under(a, b, x + u, y + v, z + w, e + f)
<1>1. a \in Int /\ b \in Int
    BY DEF Weights
<1>2. /\ (a + b) * (y + v) = (a + b) * y + (a + b) * v
      /\ a * (x + u) = a * x + a * u /\ b * (z + w) = b * z + b * w
    BY <1>1, Z3
<1>3. /\ (a + b) * y \in Int /\ (a + b) * v \in Int /\ a * x \in Int /\ a * u \in Int
      /\ b * z \in Int /\ b * w \in Int
    BY <1>1, Z3
<1>4. /\ (a + b) * y <= a * x + b * z + e
      /\ (a + b) * v <= a * u + b * w + f
    BY DEF Under
<1>5. (a + b) * (y + v) <= a * (x + u) + b * (z + w) + (e + f)
    BY <1>2, <1>3, <1>4
<1> QED
    BY <1>5 DEF Under

\* The larger of two, and what is cut off at zero.
LEMMA UnderLarger ==
    ASSUME NEW a, NEW b, Weights(a, b), NEW e \in Int,
           NEW x \in Int, NEW y \in Int, NEW z \in Int,
           NEW u \in Int, NEW v \in Int, NEW w \in Int,
           Under(a, b, x, y, z, e), Under(a, b, u, v, w, e)
    PROVE  Under(a, b, Larger(x, u), Larger(y, v), Larger(z, w), e)
<1>1. a \in Nat /\ b \in Nat
    BY DEF Weights
<1>2. ASSUME NEW m \in Int, NEW n \in Int, NEW k \in Nat, m <= n
      PROVE  k * m \in Int /\ k * n \in Int /\ k * m <= k * n
    BY <1>2, Z3
<1> DEFINE X == Larger(x, u)
           Z == Larger(z, w)
<1>3. X \in Int /\ Z \in Int /\ x <= X /\ u <= X /\ z <= Z /\ w <= Z
    BY DEF Larger
<1> HIDE DEF X, Z
<1>4. /\ a * x <= a * X /\ a * u <= a * X /\ b * z <= b * Z /\ b * w <= b * Z
      /\ a * x \in Int /\ a * u \in Int /\ b * z \in Int /\ b * w \in Int
      /\ a * X \in Int /\ b * Z \in Int
    BY <1>1, <1>2, <1>3
<1>5. /\ (a + b) * y <= a * x + b * z + e
      /\ (a + b) * v <= a * u + b * w + e
    BY DEF Under
<1>6. (a + b) * y \in Int /\ (a + b) * v \in Int
    BY <1>1, Z3
<1>7. (a + b) * y <= a * X + b * Z + e /\ (a + b) * v <= a * X + b * Z + e
    BY <1>4, <1>5, <1>6
<1> QED
    BY <1>7 DEF Under, Larger, X, Z

LEMMA UnderCut ==
    ASSUME NEW a, NEW b, Weights(a, b), NEW e \in Nat,
           NEW x \in Int, NEW y \in Int, NEW z \in Int,
           Under(a, b, x, y, z, e)
    PROVE  Under(a, b, NonNegative(x), NonNegative(y), NonNegative(z), e)
<1>1. Under(a, b, 0, 0, 0, e)
    <2>1. a \in Int /\ b \in Int
        BY DEF Weights
    <2>2. (a + b) * 0 = 0 /\ a * 0 = 0 /\ b * 0 = 0
        BY <2>1, Z3
    <2> QED
        BY <2>2 DEF Under
<1>2. \A n \in Int : Larger(n, 0) = NonNegative(n)
    BY DEF Larger, NonNegative
<1>3. Under(a, b, Larger(x, 0), Larger(y, 0), Larger(z, 0), e)
    BY <1>1, UnderLarger
<1> QED
    BY <1>2, <1>3

\* A line, and what is rounded down from below one.
LEMMA UnderLine ==
    ASSUME NEW a, NEW b, Weights(a, b), NEW x \in Int, NEW y \in Int, NEW z \in Int,
           (a + b) * y = a * x + b * z, NEW k \in Int, NEW c \in Int,
           NEW u, u = k * x + c, NEW v, v = k * y + c, NEW w, w = k * z + c
    PROVE  Under(a, b, u, v, w, 0) /\ Under(a, b, -u, -v, -w, 0)
<1>1. a \in Int /\ b \in Int
    BY DEF Weights
<1>2. k * ((a + b) * y) = k * (a * x + b * z)
    OBVIOUS
<1>3. (a + b) * (k * y + c) = a * (k * x + c) + b * (k * z + c)
    BY <1>1, <1>2, Z3
<1>4. (a + b) * (-(k * y + c)) = a * (-(k * x + c)) + b * (-(k * z + c))
    BY <1>1, <1>2, Z3
<1>5. /\ k * x + c \in Int /\ k * y + c \in Int /\ k * z + c \in Int
    BY Z3
<1>6. /\ a * (k * x + c) + b * (k * z + c) \in Int
      /\ a * (-(k * x + c)) + b * (-(k * z + c)) \in Int
    BY <1>1, <1>5, Z3
<1> QED
    BY <1>3, <1>4, <1>6 DEF Under

LEMMA UnderDiv ==
    ASSUME NEW a, NEW b, Weights(a, b), NEW d \in Nat \ {0},
           NEW x \in Nat, NEW y \in Nat, NEW z \in Nat, Under(a, b, x, y, z, 0)
    PROVE  /\ x \div d \in Nat /\ y \div d \in Nat /\ z \div d \in Nat
           /\ Under(a, b, x \div d, y \div d, z \div d, a + b - 1)
<1> DEFINE X == x \div d
           Y == y \div d
           Z == z \div d
<1>1. /\ X \in Nat /\ Y \in Nat /\ Z \in Nat
      /\ d * X \in Nat /\ d * Y \in Nat /\ d * Z \in Nat
      /\ d * Y <= y /\ x <= d * X + (d - 1) /\ z <= d * Z + (d - 1)
    <2>1. ASSUME NEW n \in Nat, NEW q, q = n \div d
          PROVE  q \in Nat /\ d * q \in Nat /\ d * q <= n /\ n <= d * q + (d - 1)
        <3>1. q \in Nat /\ d * q \in Nat /\ d * q <= n /\ n < d * q + d
            BY <2>1, DivBounds
        <3> QED
            BY <3>1
    <2> QED
        BY <2>1
<1>2. a \in Nat \ {0} /\ b \in Nat \ {0}
    BY DEF Weights
<1> HIDE DEF X, Y, Z
<1>3. ASSUME NEW m \in Int, NEW n \in Int, NEW k \in Nat, m <= n
      PROVE  k * m \in Int /\ k * n \in Int /\ k * m <= k * n
    BY <1>3, Z3
<1>4. /\ (a + b) * (d * Y) <= (a + b) * y
      /\ a * x <= a * (d * X + (d - 1)) /\ b * z <= b * (d * Z + (d - 1))
    BY <1>1, <1>2, <1>3
<1>5. (a + b) * y <= a * x + b * z + 0
    BY DEF Under
<1>6. /\ (a + b) * (d * Y) = d * ((a + b) * Y)
      /\ a * (d * X + (d - 1)) = d * (a * X) + a * d - a
      /\ b * (d * Z + (d - 1)) = d * (b * Z) + b * d - b
      /\ d * ((a * X + b * Z) + (a + b)) = d * (a * X) + d * (b * Z) + a * d + b * d
    BY <1>1, <1>2, Z3
<1>7. /\ d * ((a + b) * Y) \in Int /\ (a + b) * y \in Int /\ a * x \in Int /\ b * z \in Int
      /\ d * (a * X) \in Int /\ d * (b * Z) \in Int /\ a * d \in Int /\ b * d \in Int
      /\ (a + b) * Y \in Int /\ a * X \in Int /\ b * Z \in Int
    BY <1>1, <1>2, Z3
<1>8. d * ((a + b) * Y) < d * ((a * X + b * Z) + (a + b))
    BY <1>2, <1>4, <1>5, <1>6, <1>7
<1>9. (a + b) * Y < (a * X + b * Z) + (a + b)
    <2>1. ASSUME NEW m \in Int, NEW n \in Int, d * m < d * n
          PROVE  m < n
        BY <2>1, Z3
    <2>2. (a * X + b * Z) + (a + b) \in Int
        BY <1>2, <1>7
    <2> QED
        BY <1>7, <1>8, <2>1, <2>2
<1>10. (a + b) * Y <= a * X + b * Z + (a + b - 1)
    BY <1>2, <1>7, <1>9
<1> QED
    BY <1>1, <1>10 DEF Under, X, Y, Z

\* Signed division misses the line by less than one on either side, and where all
\* three have the same sign by less than one in all.
LEMMA UnderQuotient ==
    ASSUME NEW a, NEW b, Weights(a, b), NEW d \in Nat \ {0},
           NEW x \in Int, NEW y \in Int, NEW z \in Int, Under(a, b, x, y, z, 0)
    PROVE  Under(a, b, Quotient(x, d), Quotient(y, d), Quotient(z, d), 2 * (a + b) - 1)
<1> DEFINE X == Quotient(x, d)
           Y == Quotient(y, d)
           Z == Quotient(z, d)
<1>1. /\ X \in Int /\ Y \in Int /\ Z \in Int
      /\ d * X \in Int /\ d * Y \in Int /\ d * Z \in Int
      /\ d * Y <= y + (d - 1) /\ x <= d * X + (d - 1) /\ z <= d * Z + (d - 1)
    <2>1. ASSUME NEW n \in Int, NEW q, q = Quotient(n, d)
          PROVE  /\ q \in Int /\ d * q \in Int
                 /\ d * q <= n + (d - 1) /\ n <= d * q + (d - 1)
        <3>1. q \in Int /\ d * q \in Int /\ d * q < n + d /\ n - d < d * q
            BY <2>1, QuotientBounds
        <3> QED
            BY <3>1
    <2> QED
        BY <2>1
<1>2. a \in Nat \ {0} /\ b \in Nat \ {0}
    BY DEF Weights
<1> HIDE DEF X, Y, Z
<1>3. ASSUME NEW m \in Int, NEW n \in Int, NEW k \in Nat, m <= n
      PROVE  k * m \in Int /\ k * n \in Int /\ k * m <= k * n
    BY <1>3, Z3
<1>4. /\ (a + b) * (d * Y) <= (a + b) * (y + (d - 1))
      /\ a * x <= a * (d * X + (d - 1)) /\ b * z <= b * (d * Z + (d - 1))
    BY <1>1, <1>2, <1>3
<1>5. (a + b) * y <= a * x + b * z + 0
    BY DEF Under
<1>6. /\ (a + b) * (d * Y) = d * ((a + b) * Y)
      /\ (a + b) * (y + (d - 1)) = (a + b) * y + a * d + b * d - a - b
      /\ a * (d * X + (d - 1)) = d * (a * X) + a * d - a
      /\ b * (d * Z + (d - 1)) = d * (b * Z) + b * d - b
      /\ d * ((a * X + b * Z) + 2 * (a + b))
            = d * (a * X) + d * (b * Z) + 2 * (a * d) + 2 * (b * d)
    BY <1>1, <1>2, Z3
<1>7. /\ d * ((a + b) * Y) \in Int /\ (a + b) * y \in Int /\ a * x \in Int /\ b * z \in Int
      /\ d * (a * X) \in Int /\ d * (b * Z) \in Int /\ a * d \in Int /\ b * d \in Int
      /\ (a + b) * Y \in Int /\ a * X \in Int /\ b * Z \in Int
    BY <1>1, <1>2, Z3
<1>8. d * ((a + b) * Y) < d * ((a * X + b * Z) + 2 * (a + b))
    BY <1>2, <1>4, <1>5, <1>6, <1>7
<1>9. (a + b) * Y < (a * X + b * Z) + 2 * (a + b)
    <2>1. ASSUME NEW m \in Int, NEW n \in Int, d * m < d * n
          PROVE  m < n
        BY <2>1, Z3
    <2>2. (a * X + b * Z) + 2 * (a + b) \in Int
        BY <1>2, <1>7
    <2> QED
        BY <1>7, <1>8, <2>1, <2>2
<1>10. (a + b) * Y <= a * X + b * Z + (2 * (a + b) - 1)
    BY <1>2, <1>7, <1>9
<1> QED
    BY <1>10 DEF Under, X, Y, Z

\* What is under a bound at both ends is under it in between, up to the errors.
LEMMA UnderBound ==
    ASSUME NEW a, NEW b, Weights(a, b), NEW e \in Int, NEW k \in Int, NEW n \in Int,
           NEW x \in Int, NEW y \in Int, NEW z \in Int, Under(a, b, x, y, z, e),
           e < k * (a + b), x <= n, z <= n
    PROVE  y < n + k
<1>1. a \in Nat \ {0} /\ b \in Nat \ {0} /\ a + b \in Nat \ {0}
    BY DEF Weights
<1>2. /\ a * x <= a * n /\ b * z <= b * n
    BY <1>1, Z3
<1>3. /\ (a + b) * (n + k) = a * n + b * n + k * (a + b)
    BY <1>1, Z3
<1>4. /\ a * x \in Int /\ b * z \in Int /\ a * n \in Int /\ b * n \in Int
      /\ k * (a + b) \in Int /\ (a + b) * y \in Int
    BY <1>1, Z3
<1>5. (a + b) * y <= a * x + b * z + e
    BY DEF Under
<1>6. (a + b) * y < (a + b) * (n + k)
    BY <1>2, <1>3, <1>4, <1>5
<1>7. ASSUME NEW w \in Nat \ {0}, NEW m \in Int, w * y < w * m
      PROVE  y < m
    BY <1>7, Z3
<1> QED
    BY <1>1, <1>6, <1>7
--------------------------------------------------------------------------------
(* The requirements between two prices.                                    *)

LEMMA DivOfDiv ==
    ASSUME NEW n \in Nat, NEW d \in Nat \ {0}, NEW e \in Nat \ {0}
    PROVE  (n \div d) \div e = n \div (d * e)
<1> DEFINE q == n \div d
           r == q \div e
<1>1. q \in Nat /\ d * q \in Nat /\ d * q <= n /\ n < d * q + d
    BY DivBounds
<1> HIDE DEF q
<1>2. r \in Nat /\ e * r \in Nat /\ e * r <= q /\ q < e * r + e
    BY <1>1, DivBounds
<1> HIDE DEF r
<1>3. q + 1 <= e * r + e
    BY <1>1, <1>2
<1>4. d * (e * r) <= d * q /\ d * (q + 1) <= d * (e * r + e)
    BY <1>1, <1>2, <1>3, TimesMonotone
<1>5. /\ d * (e * r) = (d * e) * r /\ d * (q + 1) = d * q + d
      /\ d * (e * r + e) = (d * e) * r + d * e
    BY <1>1, <1>2, Z3
<1>6. d * e \in Nat \ {0} /\ (d * e) * r \in Nat
    BY <1>2, Z3
<1>7. (d * e) * r <= n /\ n < (d * e) * r + d * e
    BY <1>1, <1>4, <1>5, <1>6
<1> QED
    BY <1>2, <1>6, <1>7, DivUnique DEF q, r

\* The scale of the token drops out of the stress of a delta.
LEMMA StressIs ==
    ASSUME NEW d \in Int, NEW shock \in Nat, NEW p \in Nat
    PROVE  /\ Magnitude(d) * shock * p \in Nat
           /\ stressLoss(d, shock, p) = (Magnitude(d) * shock * p) \div (WAD * WAD)
           /\ stressLoss(d, shock, p) \in Nat
<1> DEFINE m == Magnitude(d) * shock
           n == m * p
           w == WAD * WAD
<1>1. m \in Nat /\ n \in Nat
    <2>1. Magnitude(d) \in Nat
        BY NumberTypes
    <2>2. m \in Nat
        BY <2>1, NumberTypes
    <2> HIDE DEF m
    <2> QED
        BY <2>2, NumberTypes
<1>2. w \in Nat \ {0} /\ LIFT \in Nat \ {0} /\ n * LIFT \in Nat
    <2>1. WAD * WAD \in Nat \ {0}
        BY UnitFacts, Z3
    <2> HIDE DEF n
    <2> QED
        BY <1>1, <2>1, NumberTypes, UnitFacts
<1>3. m * (p * LIFT) = n * LIFT
    <2> HIDE DEF m
    <2> QED
        BY <1>1, UnitFacts, Z3
<1>4. stressLoss(d, shock, p) = ((n * LIFT) \div w) \div LIFT
    BY <1>3, Zenon DEF stressLoss, fromWad, toWad
<1> HIDE DEF n, w
<1>5. ((n * LIFT) \div w) \div LIFT = n \div w
    <2>1. ((n * LIFT) \div w) \div LIFT = (n * LIFT) \div (w * LIFT)
        BY <1>2, DivOfDiv
    <2>2. n \in Nat
        BY <1>1 DEF n
    <2>3. (n * LIFT) \div (w * LIFT) = n \div w
        BY <1>2, <2>2, DivCancel
    <2> QED
        BY <2>1, <2>3
<1>6. n \div w \in Nat
    BY <1>1, <1>2, DivBounds
<1> QED
    BY <1>1, <1>4, <1>5, <1>6 DEF n, w

\* An order is for one contract, so its fill loss is a line cut off at zero.
FillLossAlong(a, v, m, n, u, w) ==
    \A p \in Nat : venueFillLoss(getOrderAggregate(a, v), p)
                       = NonNegative((-m) * p + u) + NonNegative(n * p + w)

LEMMA FillLossIs ==
    ASSUME NEW a, Booked(a), NEW v \in Market
    PROVE  \E m \in Nat, n \in Nat, u \in Int, w \in Int : FillLossAlong(a, v, m, n, u, w)
<1> DEFINE agg == getOrderAggregate(a, v)
           m == Cardinality(OrdersOn(a, v, 1))
           n == Cardinality(OrdersOn(a, v, -1))
           u == agg.buyValue
           w == agg.sellValue
<1>1. m \in Nat /\ n \in Nat
    <2>1. ASSUME NEW d \in {1, -1} PROVE Cardinality(OrdersOn(a, v, d)) \in Nat
        <3>1. OrdersOn(a, v, d) \in SUBSET a.orders /\ IsFiniteSet(a.orders)
            BY DEF OrdersOn, OrdersOf, Booked
        <3>2. IsFiniteSet(OrdersOn(a, v, d))
            BY <3>1, FS_Subset
        <3> QED
            BY <3>2, FS_CardinalityType
    <2> QED
        BY <2>1
<1>2. agg.buyDelta = Unit * m /\ agg.sellDelta = Unit * n /\ u \in Int /\ w \in Int
    BY OrderFields DEF getOrderAggregate
<1> HIDE DEF m, n, u, w, agg
<1>3. ASSUME NEW p \in Nat, NEW k \in Nat
      PROVE  p * k \in Nat /\ (p * (Unit * k)) \div Unit = p * k
    <2>1. p * k \in Nat
        BY NumberTypes
    <2>2. p * (Unit * k) = (p * k) * Unit
        BY UnitFacts, Z3
    <2> QED
        BY <2>1, <2>2, UnitFacts, DivOfMultiple
<1>4. ASSUME NEW p \in Nat
      PROVE  venueFillLoss(agg, p) = NonNegative((-m) * p + u) + NonNegative(n * p + (-w))
    <2>1. (p * agg.buyDelta) \div Unit = p * m /\ (p * agg.sellDelta) \div Unit = p * n
        BY <1>1, <1>2, <1>3
    <2>2. u - p * m = (-m) * p + u /\ p * n - w = n * p + (-w)
        BY <1>1, <1>2, Z3
    <2>3. venueFillLoss(agg, p)
            = NonNegative(u - ((p * agg.buyDelta) \div Unit))
                + NonNegative(((p * agg.sellDelta) \div Unit) - w)
        BY Zenon DEF venueFillLoss, u, w
    <2> QED
        BY <2>1, <2>2, <2>3, Zenon
<1>5. -w \in Int
    BY <1>2
<1>6. FillLossAlong(a, v, m, n, u, -w)
    BY <1>4 DEF FillLossAlong, agg
<1> QED
    BY <1>1, <1>2, <1>5, <1>6

\* The futures' profit is a line: a leg either follows the price or is settled.
LEMMA FuturesPnlIs ==
    ASSUME NEW s \in Snapshot
    PROVE  \E k \in Int, c \in Int : \A p \in Nat :
              futuresUnrealizedPnl(s, p) = k * p + c
<1> DEFINE legs == Legs(s)
           quantity == [e \in Expiry |-> IF Pinned(legs[e]) THEN 0 ELSE legs[e].netQuantity]
           rest == [e \in Expiry |->
                       (IF Pinned(legs[e]) THEN legs[e].settlementPrice * legs[e].netQuantity
                                           ELSE 0) - legs[e].netEntryValue]
           k == SumFunctionOnSet(quantity, Expiry)
           c == SumFunctionOnSet(rest, Expiry)
<1>1. ASSUME NEW e \in Expiry
      PROVE  /\ legs[e].netQuantity \in Int /\ legs[e].netEntryValue \in Int
             /\ legs[e].settlementPrice \in Nat
             /\ legs[e].settlementPrice * legs[e].netQuantity \in Int
    <2>1. legs[e] \in Leg
        BY DEF Snapshot, Legs
    <2> HIDE DEF legs
    <2>2. /\ legs[e].netQuantity \in Int /\ legs[e].netEntryValue \in Int
          /\ legs[e].settlementPrice \in Nat
        BY <2>1 DEF Leg
    <2> QED
        BY <2>2, ProductType
<1> HIDE DEF legs
<1>2. \A e \in Expiry : quantity[e] \in Int /\ rest[e] \in Int
    BY <1>1
<1>3. IsFiniteSet(Expiry) /\ Expiry \in SUBSET Expiry
    BY Expiries
<1>4. k \in Int /\ c \in Int
    <2> HIDE DEF quantity, rest
    <2> QED
        BY <1>2, <1>3, SumType
<1>5. ASSUME NEW p \in Nat PROVE futuresUnrealizedPnl(s, p) = k * p + c
    <2> DEFINE profit == [e \in Expiry |->
                  Mark(legs[e], p) * legs[e].netQuantity - legs[e].netEntryValue]
               priced == [e \in Expiry |-> p * quantity[e]]
    <2>1. ASSUME NEW e \in Expiry PROVE profit[e] = priced[e] + rest[e]
        <3>1. CASE Pinned(legs[e])
            <4>1. quantity[e] = 0 /\ p * 0 = 0 /\ Mark(legs[e], p) = legs[e].settlementPrice
                BY <3>1 DEF Mark
            <4> QED
                BY <1>1, <3>1, <4>1
        <3>2. CASE ~Pinned(legs[e])
            <4>1. quantity[e] = legs[e].netQuantity /\ Mark(legs[e], p) = p
                BY <3>2 DEF Mark
            <4>2. p * legs[e].netQuantity \in Int
                BY <1>1, ProductType
            <4> QED
                BY <1>1, <3>2, <4>1, <4>2
        <3> QED
            BY <3>1, <3>2
    <2>2. \A e \in Expiry : priced[e] \in Int /\ priced[e] = p * quantity[e]
        <3>1. ASSUME NEW e \in Expiry PROVE priced[e] \in Int /\ priced[e] = p * quantity[e]
            <4>1. priced[e] = p * quantity[e]
                OBVIOUS
            <4> HIDE DEF priced, quantity
            <4> QED
                BY <1>2, <4>1, ProductType
        <3> QED
            BY <3>1
    <2> HIDE DEF profit, priced, quantity, rest
    <2>3. SumFunctionOnSet(profit, Expiry)
            = SumFunctionOnSet(priced, Expiry) + SumFunctionOnSet(rest, Expiry)
        BY <1>2, <1>3, <2>1, <2>2, SumOfSums
    <2>4. SumFunctionOnSet(priced, Expiry) = p * SumFunctionOnSet(quantity, Expiry)
        BY <1>2, <1>3, <2>2, SumOfMultiples
    <2>5. futuresUnrealizedPnl(s, p) = SumFunctionOnSet(profit, Expiry)
        BY DEF futuresUnrealizedPnl, SumOver, profit, legs
    <2> HIDE DEF k, c
    <2>6. p * k = k * p
        BY <1>4, Z3
    <2> QED
        BY <2>3, <2>4, <2>5, <2>6 DEF k, c
<1> QED
    BY <1>4, <1>5
\* The four parts of a requirement, each under the line between two prices up to what
\* it rounds.
Between(a, b, x, y, z) == (a + b) * y = a * x + b * z

LEMMA StressUnder ==
    ASSUME NEW a, NEW b, Weights(a, b), NEW x \in Nat, NEW y \in Nat, NEW z \in Nat,
           Between(a, b, x, y, z), NEW d \in Int, NEW shock \in Nat
    PROVE  Under(a, b, stressLoss(d, shock, x), stressLoss(d, shock, y),
                 stressLoss(d, shock, z), a + b - 1)
<1> DEFINE m == Magnitude(d) * shock
<1>1. m \in Nat
    <2>1. Magnitude(d) \in Nat
        BY NumberTypes
    <2> QED
        BY <2>1, NumberTypes
<1>2. /\ m * x \in Nat /\ m * y \in Nat /\ m * z \in Nat
      /\ stressLoss(d, shock, x) = (m * x) \div (WAD * WAD)
      /\ stressLoss(d, shock, y) = (m * y) \div (WAD * WAD)
      /\ stressLoss(d, shock, z) = (m * z) \div (WAD * WAD)
    BY StressIs
<1>3. WAD * WAD \in Nat \ {0}
    BY UnitFacts, Z3
<1> HIDE DEF m
<1>4. Under(a, b, m * x, m * y, m * z, 0)
    <2> DEFINE u == m * x
               v == m * y
               w == m * z
    <2>1. u = m * x + 0 /\ v = m * y + 0 /\ w = m * z + 0
        BY <1>2
    <2>2. m \in Int /\ 0 \in Int /\ x \in Int /\ y \in Int /\ z \in Int
          /\ (a + b) * y = a * x + b * z
        BY <1>1 DEF Between
    <2> HIDE DEF u, v, w
    <2>3. Under(a, b, u, v, w, 0)
        BY <2>1, <2>2, UnderLine
    <2> QED
        BY <2>3 DEF u, v, w
<1> DEFINE w == WAD * WAD
           u == m * x
           v == m * y
           t == m * z
<1>5. Under(a, b, u, v, t, 0) /\ u \in Nat /\ v \in Nat /\ t \in Nat /\ w \in Nat \ {0}
    BY <1>2, <1>3, <1>4
<1> HIDE DEF u, v, t, w
<1>6. Under(a, b, u \div w, v \div w, t \div w, a + b - 1)
    BY <1>5, UnderDiv
<1> QED
    BY <1>2, <1>6 DEF u, v, t, w

LEMMA FillLossUnder ==
    ASSUME NEW a, NEW b, Weights(a, b), NEW x \in Nat, NEW y \in Nat, NEW z \in Nat,
           Between(a, b, x, y, z), NEW book, Booked(book), NEW v \in Market
    PROVE  LET loss(p) == venueFillLoss(getOrderAggregate(book, v), p)
           IN  /\ loss(x) \in Int /\ loss(y) \in Int /\ loss(z) \in Int
               /\ Under(a, b, loss(x), loss(y), loss(z), 0)
<1> DEFINE loss(p) == venueFillLoss(getOrderAggregate(book, v), p)
<1>1. PICK m \in Nat, n \in Nat, u \in Int, w \in Int : FillLossAlong(book, v, m, n, u, w)
    BY FillLossIs
<1> DEFINE f(p) == (-m) * p + u
           g(p) == n * p + w
<1>2. ASSUME NEW p \in Nat
      PROVE  f(p) \in Int /\ g(p) \in Int
             /\ NonNegative(f(p)) \in Nat /\ NonNegative(g(p)) \in Nat
    <2>1. -m \in Int /\ (-m) * p \in Int /\ n * p \in Int
        BY Z3
    <2>2. f(p) \in Int /\ g(p) \in Int
        BY <2>1
    <2> HIDE DEF f, g
    <2> QED
        BY <2>2, NumberTypes
<1>3. Under(a, b, f(x), f(y), f(z), 0) /\ Under(a, b, g(x), g(y), g(z), 0)
    <2>1. -m \in Int /\ n \in Int /\ x \in Int /\ y \in Int /\ z \in Int
          /\ (a + b) * y = a * x + b * z
        BY DEF Between
    <2>2. /\ f(x) = (-m) * x + u /\ f(y) = (-m) * y + u /\ f(z) = (-m) * z + u
          /\ g(x) = n * x + w /\ g(y) = n * y + w /\ g(z) = n * z + w
        OBVIOUS
    <2> HIDE DEF f, g
    <2>3. Under(a, b, f(x), f(y), f(z), 0)
        BY <2>1, <2>2, UnderLine
    <2>4. Under(a, b, g(x), g(y), g(z), 0)
        BY <2>1, <2>2, UnderLine
    <2> QED
        BY <2>3, <2>4
<1>0. loss(x) = NonNegative(f(x)) + NonNegative(g(x))
      /\ loss(y) = NonNegative(f(y)) + NonNegative(g(y))
      /\ loss(z) = NonNegative(f(z)) + NonNegative(g(z))
    BY <1>1 DEF FillLossAlong
<1> HIDE DEF f, g, loss
<1>4. /\ Under(a, b, NonNegative(f(x)), NonNegative(f(y)), NonNegative(f(z)), 0)
      /\ Under(a, b, NonNegative(g(x)), NonNegative(g(y)), NonNegative(g(z)), 0)
    BY <1>2, <1>3, UnderCut
<1>5. Under(a, b, NonNegative(f(x)) + NonNegative(g(x)), NonNegative(f(y)) + NonNegative(g(y)),
            NonNegative(f(z)) + NonNegative(g(z)), 0 + 0)
    <2>1. 0 \in Int
        OBVIOUS
    <2> QED
        BY <1>2, <1>4, <2>1, UnderSum
<1>6. loss(x) \in Int /\ loss(y) \in Int /\ loss(z) \in Int
    BY <1>0, <1>2
<1>7. 0 + 0 = 0
    OBVIOUS
<1> QED
    BY <1>0, <1>5, <1>6, <1>7 DEF loss

\* Twice the weights less one, where a profit counts across its zero.
LEMMA LossUnder ==
    ASSUME NEW a, NEW b, Weights(a, b), NEW x \in Nat, NEW y \in Nat, NEW z \in Nat,
           Between(a, b, x, y, z), NEW s \in Snapshot, NEW isIM \in BOOLEAN
    PROVE  Under(a, b, unrealizedLoss(s, x, isIM), unrealizedLoss(s, y, isIM),
                 unrealizedLoss(s, z, isIM), IF isIM THEN a + b - 1 ELSE 2 * (a + b) - 1)
<1> DEFINE q == s.perp.netQty
           e == s.perp.entryPrice
           n(p) == (-q) * p + e * q
           g(p) == perpUnrealizedPnl(s, p)
           f(p) == futuresUnrealizedPnl(s, p)
           r == a + b - 1
           r2 == 2 * (a + b) - 1
<1>1. q \in Int /\ e \in Nat /\ -q \in Int /\ e * q \in Int
    <2>1. q \in Int /\ e \in Nat
        BY SnapshotSums
    <2> QED
        BY <2>1, ProductType
<1>2. PICK k \in Int, c \in Int : \A p \in Nat : f(p) = k * p + c
    BY FuturesPnlIs
<1>3. ASSUME NEW p \in Nat
      PROVE  /\ n(p) \in Int /\ g(p) \in Int /\ f(p) \in Int
             /\ -g(p) = Quotient(n(p), Unit)
             /\ NonNegative(-g(p)) = NonNegative(n(p)) \div Unit
    <2>1. n(p) \in Int /\ g(p) \in Int /\ f(p) \in Int
        <3>1. (-q) * p \in Int
            BY <1>1, ProductType
        <3> QED
            BY <1>1, <3>1, SnapshotSums
    <2>2. -n(p) = (p - e) * q
        <3> HIDE DEF q, e
        <3> QED
            BY <1>1, Z3
    <2>3. g(p) = Quotient(-n(p), Unit)
        BY <2>2 DEF perpUnrealizedPnl
    <2> HIDE DEF n, g
    <2>4. g(p) = -Quotient(n(p), Unit) /\ Quotient(n(p), Unit) \in Int
        BY <2>1, <2>3, UnitFacts, QuotientBounds
    <2>5. -g(p) = Quotient(n(p), Unit)
        BY <2>1, <2>4
    <2>6. NonNegative(Quotient(n(p), Unit)) = NonNegative(n(p)) \div Unit
        <3>1. CASE n(p) > 0
            <4>1. n(p) \in Nat /\ n(p) \div Unit \in Nat
                BY <2>1, <3>1, UnitFacts, DivBounds
            <4> QED
                BY <2>1, <3>1, <4>1 DEF Quotient, NonNegative
        <3>2. CASE n(p) <= 0
            <4>1. -n(p) \in Nat /\ (-n(p)) \div Unit \in Nat
                BY <2>1, <3>2, UnitFacts, DivBounds
            <4>2. 0 \div Unit = 0
                BY UnitFacts, Z3
            <4>3. Quotient(n(p), Unit) <= 0
                BY <2>1, <3>2, <4>1, <4>2 DEF Quotient
            <4> QED
                BY <2>1, <2>4, <3>2, <4>2, <4>3 DEF NonNegative
        <3> QED
            BY <2>1, <3>1, <3>2
    <2> QED
        BY <2>1, <2>5, <2>6
<1>9. /\ x \in Int /\ y \in Int /\ z \in Int /\ (a + b) * y = a * x + b * z
    BY DEF Between
<1>4. Under(a, b, n(x), n(y), n(z), 0)
    <2>1. /\ n(x) = (-q) * x + e * q /\ n(y) = (-q) * y + e * q
          /\ n(z) = (-q) * z + e * q
        OBVIOUS
    <2> HIDE DEF n
    <2> QED
        BY <1>1, <1>9, <2>1, UnderLine
<1>5. Under(a, b, -f(x), -f(y), -f(z), 0)
    <2>1. f(x) = k * x + c /\ f(y) = k * y + c /\ f(z) = k * z + c
        BY <1>2
    <2> HIDE DEF f
    <2> QED
        BY <1>9, <2>1, UnderLine
<1>6. a \in Nat \ {0} /\ b \in Nat \ {0} /\ r \in Nat /\ r2 \in Nat
    BY DEF Weights
<1>7. CASE isIM
    <2> DEFINE m(p) == NonNegative(n(p))
               h(p) == NonNegative(-f(p))
    <2>1. Under(a, b, m(x), m(y), m(z), 0) /\ Under(a, b, h(x), h(y), h(z), 0)
        <3>1. \A p \in Nat : -f(p) \in Int /\ n(p) \in Int
            BY <1>3
        <3> HIDE DEF n, f
        <3> QED
            BY <1>4, <1>5, <3>1, UnderCut
    <2>2. \A p \in Nat : m(p) \in Nat /\ h(p) \in Nat
        <3>1. ASSUME NEW p \in Nat PROVE m(p) \in Nat /\ h(p) \in Nat
            <4>1. -f(p) \in Int /\ n(p) \in Int
                BY <1>3
            <4> HIDE DEF n, f
            <4> QED
                BY <4>1, NumberTypes
        <3> QED
            BY <3>1
    <2> HIDE DEF m, h
    <2>3. /\ Under(a, b, m(x) \div Unit, m(y) \div Unit, m(z) \div Unit, a + b - 1)
          /\ m(x) \div Unit \in Nat /\ m(y) \div Unit \in Nat /\ m(z) \div Unit \in Nat
        BY <2>1, <2>2, UnitFacts, UnderDiv
    <2>4. Under(a, b, m(x) \div Unit + h(x), m(y) \div Unit + h(y), m(z) \div Unit + h(z), r + 0)
        BY <1>6, <2>1, <2>2, <2>3, UnderSum
    <2>5. ASSUME NEW p \in Nat
          PROVE  unrealizedLoss(s, p, isIM) = m(p) \div Unit + h(p)
        <3>1. unrealizedLoss(s, p, isIM) = NonNegative(-g(p)) + NonNegative(-f(p))
            BY <1>7 DEF unrealizedLoss, lossOf
        <3> QED
            BY <1>3, <3>1 DEF m, h
    <2>6. r + 0 = r
        BY <1>6
    <2> QED
        BY <1>7, <2>4, <2>5, <2>6
<1>8. CASE ~isIM
    <2> DEFINE m(p) == Quotient(n(p), Unit)
               h(p) == m(p) + (-f(p))
    <2>1. Under(a, b, m(x), m(y), m(z), r2)
        <3>1. \A p \in Nat : n(p) \in Int
            BY <1>3
        <3> HIDE DEF n
        <3> QED
            BY <1>4, <3>1, UnitFacts, UnderQuotient
    <2>2. \A p \in Nat : m(p) \in Int /\ -f(p) \in Int
        BY <1>3
    <2> HIDE DEF m
    <2>3. Under(a, b, h(x), h(y), h(z), r2 + 0)
        <3> HIDE DEF f, r2
        <3> QED
            BY <1>5, <1>6, <2>1, <2>2, UnderSum
    <2>4. \A p \in Nat : h(p) \in Int
        BY <2>2
    <2>5. r2 + 0 = r2
        BY <1>6
    <2>6. ASSUME NEW p \in Nat
          PROVE  unrealizedLoss(s, p, isIM) = NonNegative(h(p))
        <3>1. unrealizedLoss(s, p, isIM) = NonNegative(-(g(p) + f(p)))
            BY <1>8 DEF unrealizedLoss, lossOf
        <3>2. -(g(p) + f(p)) = -g(p) + (-f(p))
            BY <1>3
        <3> QED
            BY <1>3, <3>1, <3>2 DEF m
    <2> HIDE DEF h, r2
    <2>7. Under(a, b, NonNegative(h(x)), NonNegative(h(y)), NonNegative(h(z)), r2)
        BY <1>6, <2>3, <2>4, <2>5, UnderCut
    <2> QED
        BY <1>8, <2>6, <2>7 DEF r2
<1> QED
    BY <1>7, <1>8
\* Between two prices that leave a requirement under the balance it is under it too,
\* up to the rounding.
LEMMA RequirementBetween ==
    ASSUME NEW book, Booked(book), NEW isIM \in BOOLEAN,
           NEW x \in Nat, NEW y \in Nat, NEW z \in Nat, x < y, y < z, NEW n \in Int,
           requiredAt(readAccountSnapshot(book), Params, x, isIM) <= n,
           requiredAt(readAccountSnapshot(book), Params, z, isIM) <= n
    PROVE  requiredAt(readAccountSnapshot(book), Params, y, isIM) <= n + Rounding(isIM)
<1> DEFINE s == readAccountSnapshot(book)
           a == z - y
           b == y - x
           shock == ShockOf(Params, isIM).spot
           D == netDeltaWad(s) + orderDeltaWad(s).buy
           E == netDeltaWad(s) - orderDeltaWad(s).sell
           stress(p) == worstLegStressLoss(s, shock, p)
           up(p) == stressLoss(D, shock, p)
           down(p) == stressLoss(E, shock, p)
           fillsOf(v, p) == venueFillLoss(getOrderAggregate(book, v), p)
           fills(p) == fillLoss(s, p)
           loss(p) == unrealizedLoss(s, p, isIM)
           fund == s.perp.fundingOwed
           R(p) == requiredAt(s, Params, p, isIM)
           c == a + b - 1
           e == IF isIM THEN a + b - 1 ELSE 2 * (a + b) - 1
<1>1. s \in Snapshot
    BY SnapshotType
<1>2. /\ Weights(a, b) /\ Between(a, b, x, y, z)
      /\ a \in Nat \ {0} /\ b \in Nat \ {0} /\ c \in Int /\ e \in Int
    <2>1. a \in Nat \ {0} /\ b \in Nat \ {0}
        OBVIOUS
    <2>2. (a + b) * y = a * x + b * z
        BY Z3
    <2> QED
        BY <2>1, <2>2 DEF Weights, Between
<1>3. shock \in Nat /\ D \in Int /\ E \in Int /\ fund \in Nat
    <2>1. shock \in Nat
        BY Inputs DEF ShockOf, ShockSet
    <2>2. D \in Int /\ E \in Int /\ fund \in Nat
        <3> HIDE DEF s
        <3> QED
            BY <1>1, SnapshotSums
    <2> QED
        BY <2>1, <2>2
<1> HIDE DEF s, a, b, shock, D, E, fund, c, e
<1>4. ASSUME NEW p \in Nat
      PROVE  /\ stress(p) = Larger(up(p), down(p))
             /\ fills(p) = fillsOf("perps", p) + fillsOf("futures", p)
             /\ R(p) = stress(p) + fills(p) + loss(p) + fund
    <2>1. /\ s.perp.orders = getOrderAggregate(book, "perps")
          /\ s.futures.orders = getOrderAggregate(book, "futures")
        BY DEF readAccountSnapshot, s
    <2> QED
        BY <2>1, Zenon DEF worstLegStressLoss, worseLeg, fillLoss, requiredAt, D, E, shock, fund
<1>5. ASSUME NEW p \in Nat
      PROVE  up(p) \in Nat /\ down(p) \in Nat /\ stress(p) \in Int
    <2>1. up(p) \in Nat /\ down(p) \in Nat
        BY <1>3, StressIs
    <2> HIDE DEF up, down
    <2> QED
        BY <1>4, <2>1, NumberTypes
<1>6. Under(a, b, stress(x), stress(y), stress(z), c)
    <2>1. Under(a, b, up(x), up(y), up(z), a + b - 1)
        BY <1>2, <1>3, StressUnder
    <2>2. Under(a, b, down(x), down(y), down(z), a + b - 1)
        BY <1>2, <1>3, StressUnder
    <2> HIDE DEF up, down, stress
    <2>3. Under(a, b, Larger(up(x), down(x)), Larger(up(y), down(y)), Larger(up(z), down(z)), c)
        <3>1. \A p \in Nat : up(p) \in Int /\ down(p) \in Int
            BY <1>5
        <3> QED
            BY <1>2, <2>1, <2>2, <3>1, UnderLarger DEF c
    <2> QED
        BY <1>4, <2>3
<1>7. /\ fills(x) \in Int /\ fills(y) \in Int /\ fills(z) \in Int
      /\ Under(a, b, fills(x), fills(y), fills(z), 0)
    <2>1. ASSUME NEW v \in Market
          PROVE  /\ fillsOf(v, x) \in Int /\ fillsOf(v, y) \in Int /\ fillsOf(v, z) \in Int
                 /\ Under(a, b, fillsOf(v, x), fillsOf(v, y), fillsOf(v, z), 0)
        BY <1>2, FillLossUnder
    <2> HIDE DEF fillsOf, fills
    <2>2. "perps" \in Market /\ "futures" \in Market
        BY Venues
    <2>3. Under(a, b, fillsOf("perps", x) + fillsOf("futures", x),
                fillsOf("perps", y) + fillsOf("futures", y),
                fillsOf("perps", z) + fillsOf("futures", z), 0 + 0)
        <3>1. 0 \in Int
            OBVIOUS
        <3> QED
            BY <1>2, <2>1, <2>2, <3>1, UnderSum
    <2>4. 0 + 0 = 0
        OBVIOUS
    <2> QED
        BY <1>4, <2>1, <2>2, <2>3, <2>4
<1>8. Under(a, b, loss(x), loss(y), loss(z), e)
    BY <1>1, <1>2, LossUnder DEF e
<1>9. ASSUME NEW p \in Nat PROVE loss(p) \in Int /\ R(p) \in Int
    <2>1. R(p) \in Int
        BY <1>1, RequiredType
    <2>2. loss(p) \in Int
        <3>1. ASSUME NEW m \in Int, NEW k \in Int PROVE lossOf(m, k, isIM) \in Int
            <4>1. -m \in Int /\ -k \in Int /\ -(m + k) \in Int
                OBVIOUS
            <4>2. /\ NonNegative(-m) \in Nat /\ NonNegative(-k) \in Nat
                  /\ NonNegative(-(m + k)) \in Nat
                BY <4>1, NumberTypes
            <4> QED
                BY <4>2 DEF lossOf
        <3> QED
            BY <1>1, <3>1, SnapshotSums DEF unrealizedLoss
    <2> QED
        BY <2>1, <2>2
<1> DEFINE rest(p) == stress(p) + fills(p)
           most == n - fund
<1> HIDE DEF stress, fills, loss, R
<1>10. Under(a, b, rest(x), rest(y), rest(z), c + 0)
    <2>1. 0 \in Int
        OBVIOUS
    <2> QED
        BY <1>2, <1>5, <1>6, <1>7, <2>1, UnderSum
<1>11. Under(a, b, rest(x) + loss(x), rest(y) + loss(y), rest(z) + loss(z), c + 0 + e)
    <2>1. rest(x) \in Int /\ rest(y) \in Int /\ rest(z) \in Int /\ c + 0 \in Int
        BY <1>2, <1>5, <1>7
    <2> HIDE DEF rest
    <2> QED
        BY <1>2, <1>8, <1>9, <1>10, <2>1, UnderSum
<1>12. /\ rest(x) \in Int /\ rest(y) \in Int /\ rest(z) \in Int
       /\ R(x) = rest(x) + loss(x) + fund /\ R(y) = rest(y) + loss(y) + fund
       /\ R(z) = rest(z) + loss(z) + fund
    BY <1>4, <1>5, <1>7
<1>13. R(x) <= n /\ R(z) <= n
    BY DEF R, s
<1> HIDE DEF rest
<1>14. rest(x) + loss(x) <= most /\ rest(z) + loss(z) <= most /\ most \in Int
       /\ rest(x) + loss(x) \in Int /\ rest(y) + loss(y) \in Int /\ rest(z) + loss(z) \in Int
    BY <1>3, <1>9, <1>12, <1>13
<1> DEFINE k == IF isIM THEN 2 ELSE 3
<1>15. c + 0 + e < k * (a + b) /\ k \in Int /\ c + 0 + e \in Int
    <2>1. k * (a + b) = IF isIM THEN 2 * (a + b) ELSE 3 * (a + b)
        OBVIOUS
    <2> QED
        BY <1>2, <2>1 DEF c, e
<1> HIDE DEF most
<1>16. rest(y) + loss(y) < most + k
    <2> HIDE DEF k
    <2> QED
        BY <1>2, <1>11, <1>14, <1>15, UnderBound
<1>17. R(y) <= n + Rounding(isIM)
    BY <1>3, <1>9, <1>12, <1>14, <1>16 DEF Rounding, most
<1> QED
    BY <1>17 DEF R, s
--------------------------------------------------------------------------------
(* The thresholds.                                                         *)

\* Where an objective changes its sign: no further than one from c it is not negative,
\* and no further than one from c it is not positive.
SignChanges(lo, hi, s, isIM, target) ==
    LET at(p) == objective(s, Params, isIM, target, p)
    IN  {c \in lo .. hi :
            /\ \E d \in lo .. hi : c - 1 <= d /\ d <= c + 1 /\ at(d) >= 0
            /\ \E d \in lo .. hi : c - 1 <= d /\ d <= c + 1 /\ at(d) <= 0}

\* The bisection of a threshold finds such a place in every interval with opposite
\* signs at its ends, whatever the objective does between them.
LEMMA BisectFinds ==
    ASSUME NEW lo \in Nat, NEW hi \in Nat, lo < hi, NEW rising \in BOOLEAN, NEW s,
           NEW isIM, NEW target,
           \A p \in Nat : objective(s, Params, isIM, target, p) \in Int,
           IF rising THEN /\ objective(s, Params, isIM, target, lo) < 0
                          /\ objective(s, Params, isIM, target, hi) > 0
                     ELSE /\ objective(s, Params, isIM, target, lo) > 0
                          /\ objective(s, Params, isIM, target, hi) < 0
    PROVE  bisect(lo, hi, rising, s, Params, isIM, target)
               \in SignChanges(lo, hi, s, isIM, target)
<1> DEFINE D == Int \X Int
           at(p) == objective(s, Params, isIM, target, p)
           mid(i) == (i[1] + i[2]) \div 2
           half(i) == halved(i, mid(i), at(mid(i)), rising)
           end(i) == IF rising THEN i[2] ELSE i[1]
           Stop == {i \in D : i[2] - i[1] <= 1}
           final == [i \in D |-> end(i)]
           next == [i \in D |-> half(i)]
           m == [i \in D |-> IF i[1] < i[2] THEN i[2] - i[1] ELSE 0]
           Opposite(x, y) == IF rising THEN at(x) < 0 /\ at(y) > 0
                                       ELSE at(x) > 0 /\ at(y) < 0
           Ready(i) == /\ lo <= i[1] /\ i[2] <= hi
                       /\ \/ i[1] = i[2] /\ at(i[1]) = 0
                          \/ i[1] < i[2] /\ Opposite(i[1], i[2])
           Found == SignChanges(lo, hi, s, isIM, target)
           V == [i \in D |-> IF Ready(i) THEN Found ELSE Int]
<1>1. ASSUME NEW i \in D
      PROVE  i = <<i[1], i[2]>> /\ i[1] \in Int /\ i[2] \in Int /\ m[i] \in Nat
             /\ V[i] = IF Ready(i) THEN Found ELSE Int
    <2> HIDE DEF Ready
    <2> QED
        OBVIOUS
<1>2. ASSUME NEW i \in D \ Stop
      PROVE  /\ i[1] < mid(i) /\ mid(i) < i[2] /\ mid(i) \in Int
             /\ half(i) \in D /\ next[i] = half(i)
             /\ \/ at(mid(i)) = 0 /\ half(i) = <<mid(i), mid(i)>>
                \/ at(mid(i)) # 0 /\ (at(mid(i)) < 0) = rising /\ half(i) = <<mid(i), i[2]>>
                \/ at(mid(i)) # 0 /\ (at(mid(i)) < 0) # rising /\ half(i) = <<i[1], mid(i)>>
    <2>1. i \in D /\ i[1] \in Int /\ i[2] \in Int /\ i[2] > i[1] + 1
        OBVIOUS
    <2>2. i[1] < mid(i) /\ mid(i) < i[2] /\ mid(i) \in Int
        <3> HIDE DEF D
        <3> QED
            BY <2>1
    <2> HIDE DEF mid, at
    <2>3. \/ at(mid(i)) = 0 /\ half(i) = <<mid(i), mid(i)>>
          \/ at(mid(i)) # 0 /\ (at(mid(i)) < 0) = rising /\ half(i) = <<mid(i), i[2]>>
          \/ at(mid(i)) # 0 /\ (at(mid(i)) < 0) # rising /\ half(i) = <<i[1], mid(i)>>
        BY DEF halved
    <2> HIDE DEF half
    <2> QED
        BY <2>1, <2>2, <2>3
<1> HIDE DEF half
<1>3. Descending(D, Stop, next, m)
    <2>1. ASSUME NEW i \in D \ Stop
          PROVE  next[i] \in D /\ m[next[i]] < m[i]
        <3> HIDE DEF mid, at
        <3> QED
            BY <1>2
    <2>2. m \in [D -> Nat]
        BY <1>1
    <2> HIDE DEF D, Stop, next, m
    <2> QED
        BY <2>1, <2>2 DEF Descending
<1> DEFINE Root(f) == f = [i \in Int \X Int |->
                              IF i[2] - i[1] <= 1 THEN IF rising THEN i[2] ELSE i[1]
                              ELSE f[half(i)]]
           root == CHOOSE f : Root(f)
<1>4. ASSUME NEW f PROVE Root(f) <=> Descent(f, D, Stop, final, next)
    <2>1. [i \in Int \X Int |-> IF i[2] - i[1] <= 1 THEN IF rising THEN i[2] ELSE i[1]
                                ELSE f[half(i)]]
            = [i \in D |-> IF i \in Stop THEN final[i] ELSE f[next[i]]]
        OBVIOUS
    <2> QED
        BY <2>1 DEF Descent
<1>5. Descent(root, D, Stop, final, next)
    <2>1. \E f : Descent(f, D, Stop, final, next)
        <3> HIDE DEF D, Stop, final, next, m
        <3> QED
            BY <1>3, DescentExists
    <2>2. \E f : Root(f)
        <3> HIDE DEF D, Stop, final, next, Root
        <3> QED
            BY <1>4, <2>1
    <2>3. Root(root)
        <3> HIDE DEF Root
        <3> QED
            BY <2>2
    <2> HIDE DEF D, Stop, final, next, Root, root
    <2> QED
        BY <1>4, <2>3
<1>6. ASSUME NEW i \in D \cap Stop PROVE final[i] \in V[i]
    <2>1. i[1] \in Int /\ i[2] \in Int /\ i[2] - i[1] <= 1 /\ final[i] = end(i)
        OBVIOUS
    <2>2. CASE Ready(i)
        <3>1. /\ i[1] \in lo .. hi /\ i[2] \in lo .. hi /\ end(i) \in lo .. hi
              /\ end(i) - 1 <= i[1] /\ i[1] <= end(i) + 1
              /\ end(i) - 1 <= i[2] /\ i[2] <= end(i) + 1
              /\ i[1] \in Nat /\ i[2] \in Nat
            <4> HIDE DEF at
            <4> QED
                BY <2>1, <2>2
        <3>2. /\ at(i[1]) \in Int /\ at(i[2]) \in Int
              /\ at(i[1]) >= 0 \/ at(i[2]) >= 0
              /\ at(i[1]) <= 0 \/ at(i[2]) <= 0
            <4>1. at(i[1]) \in Int /\ at(i[2]) \in Int
                BY <3>1
            <4> HIDE DEF at
            <4> QED
                BY <2>2, <4>1
        <3> HIDE DEF at, end
        <3>3. /\ \E d \in lo .. hi : end(i) - 1 <= d /\ d <= end(i) + 1 /\ at(d) >= 0
              /\ \E d \in lo .. hi : end(i) - 1 <= d /\ d <= end(i) + 1 /\ at(d) <= 0
            BY <3>1, <3>2
        <3>4. end(i) \in Found
            BY <3>1, <3>3 DEF SignChanges, at
        <3> HIDE DEF Found, Ready
        <3> QED
            BY <1>1, <2>1, <2>2, <3>4
    <2>3. CASE ~Ready(i)
        <3> HIDE DEF Ready
        <3> QED
            BY <1>1, <2>1, <2>3
    <2> QED
        BY <2>2, <2>3
<1>7. ASSUME NEW i \in D \ Stop PROVE V[next[i]] \subseteq V[i]
    <2>0. i \in D /\ next[i] \in D /\ next[i] = half(i)
        BY <1>2
    <2>1. CASE Ready(i)
        <3>1. i[1] \in Int /\ i[2] \in Int /\ i[1] < i[2] /\ Opposite(i[1], i[2])
              /\ lo <= i[1] /\ i[2] <= hi
            <4>1. i[1] < i[2]
                BY <1>2
            <4> QED
                BY <1>1, <2>1, <4>1
        <3>2. mid(i) \in Nat /\ at(mid(i)) \in Int
            <4>1. mid(i) \in Nat
                <5> HIDE DEF mid
                <5> QED
                    BY <1>2, <3>1
            <4> QED
                BY <4>1
        <3>3. Ready(half(i))
            <4>1. CASE at(mid(i)) = 0 /\ half(i) = <<mid(i), mid(i)>>
                <5>1. half(i)[1] = mid(i) /\ half(i)[2] = mid(i) /\ lo <= mid(i) /\ mid(i) <= hi
                    <6> HIDE DEF mid, at
                    <6> QED
                        BY <1>2, <3>1, <4>1
                <5> HIDE DEF mid, at
                <5> QED
                    BY <4>1, <5>1
            <4>2. CASE at(mid(i)) # 0 /\ (at(mid(i)) < 0) = rising /\ half(i) = <<mid(i), i[2]>>
                <5>1. half(i)[1] = mid(i) /\ half(i)[2] = i[2] /\ lo <= mid(i) /\ i[2] <= hi
                      /\ mid(i) < i[2]
                    <6> HIDE DEF mid, at
                    <6> QED
                        BY <1>2, <3>1, <4>2
                <5>2. Opposite(mid(i), i[2])
                    <6> HIDE DEF mid, at
                    <6> QED
                        BY <3>1, <3>2, <4>2
                <5> HIDE DEF mid, at, Opposite
                <5> QED
                    BY <5>1, <5>2
            <4>3. CASE at(mid(i)) # 0 /\ (at(mid(i)) < 0) # rising /\ half(i) = <<i[1], mid(i)>>
                <5>1. half(i)[1] = i[1] /\ half(i)[2] = mid(i) /\ lo <= i[1] /\ mid(i) <= hi
                      /\ i[1] < mid(i)
                    <6> HIDE DEF mid, at
                    <6> QED
                        BY <1>2, <3>1, <4>3
                <5>2. Opposite(i[1], mid(i))
                    <6> HIDE DEF mid, at
                    <6> QED
                        BY <3>1, <3>2, <4>3
                <5> HIDE DEF mid, at, Opposite
                <5> QED
                    BY <5>1, <5>2
            <4> HIDE DEF Ready, mid, at
            <4> QED
                BY <1>2, <4>1, <4>2, <4>3
        <3> HIDE DEF Ready, V, D
        <3> QED
            BY <1>1, <2>0, <2>1, <3>3
    <2>2. CASE ~Ready(i)
        <3>1. Found \subseteq Int
            BY DEF SignChanges
        <3> HIDE DEF Ready, V, D, Found
        <3> QED
            BY <1>1, <2>0, <2>2, <3>1
    <2> QED
        BY <2>1, <2>2
<1>8. \A i \in D : root[i] \in V[i]
    <2>1. \A i \in D \cap Stop : final[i] \in V[i]
        BY <1>6
    <2>2. \A i \in D \ Stop : V[next[i]] \subseteq V[i]
        BY <1>7
    <2> HIDE DEF D, Stop, final, next, m, V, root
    <2> QED
        BY <1>3, <1>5, <2>1, <2>2, DescentStays
<1>9. bisect(lo, hi, rising, s, Params, isIM, target) = root[<<lo, hi>>]
    BY Zenon DEF bisect, half, mid, at
<1>10. <<lo, hi>> \in D /\ Ready(<<lo, hi>>)
    OBVIOUS
<1>11. V[<<lo, hi>>] = Found
    <2> HIDE DEF Ready, Found
    <2> QED
        BY <1>10
<1> HIDE DEF V, D, root, Found
<1>12. bisect(lo, hi, rising, s, Params, isIM, target) \in Found
    BY <1>8, <1>9, <1>10, <1>11
<1> QED
    BY <1>12 DEF Found
LEMMA CrossingFound ==
    ASSUME NEW lo \in Nat, NEW hi \in Nat, lo < hi, NEW s, NEW isIM, NEW target,
           \A p \in Nat : objective(s, Params, isIM, target, p) \in Int
    PROVE  /\ Crossing(lo, hi, s, Params, isIM, target)
                  \subseteq SignChanges(lo, hi, s, isIM, target)
           /\ \/ /\ objective(s, Params, isIM, target, lo) > 0
                 /\ objective(s, Params, isIM, target, hi) <= 0
              \/ /\ objective(s, Params, isIM, target, lo) < 0
                 /\ objective(s, Params, isIM, target, hi) >= 0
              \/ /\ objective(s, Params, isIM, target, hi) > 0
                 /\ objective(s, Params, isIM, target, lo) <= 0
              \/ /\ objective(s, Params, isIM, target, hi) < 0
                 /\ objective(s, Params, isIM, target, lo) >= 0
              => Crossing(lo, hi, s, Params, isIM, target) # {}
<1> DEFINE at(p) == objective(s, Params, isIM, target, p)
           middle == bisect(lo, hi, at(lo) < 0, s, Params, isIM, target)
           found == Crossing(lo, hi, s, Params, isIM, target)
           Changes == SignChanges(lo, hi, s, isIM, target)
<1>1. at(lo) \in Int /\ at(hi) \in Int
    OBVIOUS
<1>2. found = IF at(lo) * at(hi) > 0 THEN {}
              ELSE IF at(lo) = 0 THEN {lo}
              ELSE IF at(hi) = 0 THEN {hi}
              ELSE {middle}
    BY Zenon DEF Crossing, CrossingBetween
<1>3. ASSUME NEW c \in lo .. hi, at(c) = 0 PROVE c \in Changes
    BY <1>3 DEF SignChanges
<1>4. ASSUME at(lo) # 0, at(hi) # 0, ~(at(lo) * at(hi) > 0)
      PROVE  middle \in Changes
    <2>1. ASSUME NEW m \in Int, NEW n \in Int, m # 0, n # 0, ~(m * n > 0)
          PROVE  (m < 0 /\ n > 0) \/ (m > 0 /\ n < 0)
        BY <2>1, Z3
    <2>2. (at(lo) < 0 /\ at(hi) > 0) \/ (at(lo) > 0 /\ at(hi) < 0)
        <3> HIDE DEF at
        <3> QED
            BY <1>1, <1>4, <2>1
    <2> DEFINE rising == at(lo) < 0
    <2>3. rising \in BOOLEAN
        OBVIOUS
    <2>4. IF rising THEN at(lo) < 0 /\ at(hi) > 0 ELSE at(lo) > 0 /\ at(hi) < 0
        <3> HIDE DEF at
        <3> QED
            BY <1>1, <2>2
    <2> HIDE DEF rising
    <2>5. bisect(lo, hi, rising, s, Params, isIM, target) \in Changes
        BY <2>3, <2>4, BisectFinds
    <2> QED
        BY <2>5 DEF rising
<1>5. found \subseteq Changes
    <2>1. lo \in lo .. hi /\ hi \in lo .. hi
        OBVIOUS
    <2> HIDE DEF middle, found, Changes, at
    <2> QED
        BY <1>2, <1>3, <1>4, <2>1
<1>6. ASSUME NEW m \in Int, NEW n \in Int, (m > 0 /\ n <= 0) \/ (m < 0 /\ n >= 0)
      PROVE  ~(m * n > 0) /\ ~(n * m > 0)
    BY <1>6, Z3
<1>7. ASSUME \/ at(lo) > 0 /\ at(hi) <= 0
             \/ at(lo) < 0 /\ at(hi) >= 0
             \/ at(hi) > 0 /\ at(lo) <= 0
             \/ at(hi) < 0 /\ at(lo) >= 0
      PROVE  found # {}
    <2> HIDE DEF at, middle
    <2>1. ~(at(lo) * at(hi) > 0)
        BY <1>1, <1>6, <1>7
    <2> HIDE DEF found
    <2> QED
        BY <1>2, <2>1
<1> QED
    BY <1>5, <1>7

\* Sets of numbers with a greatest one.
Bounded(S) == \E n \in Nat : S \subseteq 0 .. n

LEMMA BoundedUnion ==
    ASSUME NEW S, NEW T, Bounded(S), Bounded(T)
    PROVE  Bounded(S \cup T)
<1>1. PICK m \in Nat : S \subseteq 0 .. m
    BY DEF Bounded
<1>2. PICK n \in Nat : T \subseteq 0 .. n
    BY DEF Bounded
<1>3. m + n \in Nat /\ S \cup T \subseteq 0 .. m + n
    BY <1>1, <1>2
<1> QED
    BY <1>3 DEF Bounded

LEMMA BoundedBy ==
    ASSUME NEW S, NEW T, Bounded(T), S \subseteq T
    PROVE  Bounded(S)
BY DEF Bounded

LEMMA BoundedOne ==
    ASSUME NEW n \in Int, NEW S, S \subseteq {n}, \A k \in S : k >= 0
    PROVE  Bounded(S)
<1>1. CASE n >= 0
    BY <1>1 DEF Bounded
<1>2. CASE n < 0
    <2>1. S = {}
        BY <1>2
    <2> QED
        BY <2>1 DEF Bounded
<1> QED
    BY <1>1, <1>2

LEMMA ExtremesOf ==
    ASSUME NEW S, Bounded(S), S # {}
    PROVE  /\ Max(S) \in S /\ \A k \in S : k <= Max(S)
           /\ Min(S) \in S /\ \A k \in S : Min(S) <= k
<1>1. PICK n \in Nat : S \subseteq 0 .. n
    BY DEF Bounded
<1>2. PICK m \in S : \A k \in S : k <= m
    BY <1>1, GreatestOfBounded
<1>3. PICK l \in S : \A k \in S : l <= k
    <2>1. S \subseteq Nat
        BY <1>1
    <2> QED
        BY <2>1, LeastNumber
<1>4. \A k \in S : k \in Nat
    BY <1>1
<1>5. \A x \in S, y \in S : (y <= x) <=> (x >= y)
    BY <1>4
<1>6. Max(S) \in S /\ \A k \in S : Max(S) >= k
    <2>1. \A k \in S : m >= k
        BY <1>2, <1>5
    <2> QED
        BY <2>1 DEF Max
<1>7. Min(S) \in S /\ \A k \in S : Min(S) <= k
    BY <1>3 DEF Min
<1> QED
    BY <1>5, <1>6, <1>7

\* A kink has a neighbour below and one above it.
LEMMA NeighbourAbove ==
    ASSUME NEW B, Bounded(B), NEW lo \in B, NEW top \in B, lo < top
    PROVE  \E hi \in B : lo < hi /\ hi <= top /\ <<lo, hi>> \in Intervals(B)
<1> DEFINE above == {b \in B : lo < b}
           hi == Min(above)
<1>0. \A b \in B : b \in Nat
    BY DEF Bounded
<1>1. Bounded(above) /\ above # {}
    BY BoundedBy
<1>2. hi \in above /\ \A k \in above : hi <= k
    <2> HIDE DEF above
    <2> QED
        BY <1>1, ExtremesOf
<1>3. hi \in B /\ lo < hi /\ hi <= top
    BY <1>2
<1>4. ASSUME NEW k \in B PROVE k <= lo \/ k >= hi
    BY <1>0, <1>2
<1> HIDE DEF hi
<1>5. <<lo, hi>> \in Intervals(B)
    BY <1>3, <1>4 DEF Intervals
<1> QED
    BY <1>3, <1>5

LEMMA NeighbourBelow ==
    ASSUME NEW B, Bounded(B), NEW hi \in B, NEW bottom \in B, bottom < hi
    PROVE  \E lo \in B : lo < hi /\ bottom <= lo /\ <<lo, hi>> \in Intervals(B)
<1> DEFINE below == {b \in B : b < hi}
           lo == Max(below)
<1>0. \A b \in B : b \in Nat
    BY DEF Bounded
<1>1. Bounded(below) /\ below # {}
    BY BoundedBy
<1>2. lo \in below /\ \A k \in below : k <= lo
    <2> HIDE DEF below
    <2> QED
        BY <1>1, ExtremesOf
<1>3. lo \in B /\ lo < hi /\ bottom <= lo
    BY <1>2
<1>4. ASSUME NEW k \in B PROVE k <= lo \/ k >= hi
    BY <1>0, <1>2
<1> HIDE DEF lo
<1>5. <<lo, hi>> \in Intervals(B)
    BY <1>3, <1>4 DEF Intervals
<1> QED
    BY <1>3, <1>5
\* An order is worth a natural number, so every kink of a requirement is one.
LEMMA OrderValues ==
    ASSUME NEW a, Booked(a), NEW v \in Market
    PROVE  /\ getOrderAggregate(a, v).buyValue \in Nat
           /\ getOrderAggregate(a, v).sellValue \in Nat
<1>1. ASSUME NEW d \in {1, -1}
      PROVE  Limits(OrdersOn(a, v, d)) \in Nat
    <2> DEFINE S == OrdersOn(a, v, d)
               f == [o \in S |-> o.limit]
    <2>1. S \in SUBSET a.orders /\ S \subseteq Order
        BY DEF OrdersOn, OrdersOf, Booked, Account
    <2>2. IsFiniteSet(S)
        BY <2>1, FS_Subset DEF Booked
    <2>3. f \in [S -> Nat]
        <3>1. \A o \in Order : o.limit \in Price
            BY DEF Order
        <3>2. \A o \in S : o.limit \in Nat
            BY <2>1, <3>1, Inputs
        <3> HIDE DEF S
        <3> QED
            BY <3>2
    <2>4. f \in [S -> Int]
        BY <2>3
    <2> HIDE DEF S, f
    <2>5. SumFunctionOnSet(f, S) \in Nat
        BY <2>2, <2>3, <2>4, SumOfFunction, SumOfNaturals
    <2> QED
        BY <2>5 DEF Limits, SumOver, S, f
<1> QED
    BY <1>1 DEF getOrderAggregate

LEMMA FillKinksBounded ==
    ASSUME NEW a, Booked(a), NEW v \in Market
    PROVE  Bounded(fillLossBreakevens(getOrderAggregate(a, v)))
<1> DEFINE o == getOrderAggregate(a, v)
           b == <<o.buyValue, o.buyDelta>>
           c == <<o.sellValue, o.sellDelta>>
           at(w) == (w[1] * Unit) \div w[2]
           first == IF o.buyDelta > 0 THEN at(b) ELSE 0
           second == IF o.sellDelta > 0 THEN at(c) ELSE 0
           kinks == {at(w) : w \in {x \in {b, c} : x[2] > 0}}
<1>1. /\ o.buyValue \in Nat /\ o.buyDelta \in Nat
      /\ o.sellValue \in Nat /\ o.sellDelta \in Nat
    BY OrderFields, OrderValues
<1> HIDE DEF o
<1>2. ASSUME NEW m \in Nat, NEW n \in Nat \ {0} PROVE (m * Unit) \div n \in Nat
    <2>1. m * Unit \in Nat
        BY NumberTypes, UnitFacts
    <2> QED
        BY <2>1, NumberTypes
<1>3. first \in Nat /\ second \in Nat
    <2>1. o.buyDelta > 0 => at(b) \in Nat
        BY <1>1, <1>2
    <2>2. o.sellDelta > 0 => at(c) \in Nat
        BY <1>1, <1>2
    <2> HIDE DEF at
    <2> QED
        BY <2>1, <2>2
<1>4. ASSUME NEW k \in kinks PROVE k = first \/ k = second
    <2> HIDE DEF at
    <2> QED
        OBVIOUS
<1> HIDE DEF kinks, first, second
<1>5. kinks \subseteq 0 .. first + second
    BY <1>3, <1>4
<1>6. kinks = fillLossBreakevens(o)
    BY Zenon DEF fillLossBreakevens, kinks
<1> QED
    BY <1>3, <1>5, <1>6 DEF Bounded, o

Positive(S) == {k \in S : k > 0}

LEMMA PnlKinksBounded ==
    ASSUME NEW s \in Snapshot, NEW isIM \in BOOLEAN
    PROVE  Bounded(unrealizedPnlBreakevens(s, isIM))
<1> DEFINE terms == futuresPnlTerms(s)
           q == terms.qty
           n == terms.value
           coefficient == s.perp.netQty + Unit * q
           intercept == s.perp.entryPrice * s.perp.netQty + Unit * n
           perp == IF s.perp.netQty # 0 THEN {s.perp.entryPrice} ELSE {}
           futures == IF q # 0 THEN straddle(floorDiv(n, q)) ELSE {}
           netted == IF coefficient # 0
                     THEN straddle(floorDiv(intercept, coefficient)) ELSE {}
<1>1. s.perp.netQty \in Int /\ s.perp.entryPrice \in Nat
    BY DEF Snapshot
<1>2. q \in Int /\ n \in Int
    <2> DEFINE legs == Legs(s)
               quantity == [e \in Unpinned(s) |-> legs[e].netQuantity]
               value == [e \in Expiry |-> legs[e].netEntryValue]
               settled == [e \in Expiry |-> legs[e].settlementPrice * legs[e].netQuantity]
    <2>1. ASSUME NEW e \in Expiry
          PROVE  /\ legs[e].netQuantity \in Int /\ legs[e].netEntryValue \in Int
                 /\ legs[e].settlementPrice * legs[e].netQuantity \in Int
        <3>1. legs[e] \in Leg
            BY DEF Snapshot, Legs
        <3> HIDE DEF legs
        <3>2. /\ legs[e].netQuantity \in Int /\ legs[e].netEntryValue \in Int
              /\ legs[e].settlementPrice \in Nat
            BY <3>1 DEF Leg
        <3> QED
            BY <3>2, ProductType
    <2> HIDE DEF legs
    <2>2. IsFiniteSet(Expiry) /\ Expiry \in SUBSET Expiry
        BY Expiries
    <2>3. Unpinned(s) \in SUBSET Expiry /\ IsFiniteSet(Unpinned(s))
        <3>1. Unpinned(s) \in SUBSET Expiry
            BY DEF Unpinned
        <3> QED
            BY <2>2, <3>1, FS_Subset
    <2>4. SumFunctionOnSet(quantity, Unpinned(s)) \in Int
        <3>1. \A e \in Unpinned(s) : quantity[e] \in Int
            BY <2>1, <2>3
        <3>2. Unpinned(s) \in SUBSET Unpinned(s)
            OBVIOUS
        <3> HIDE DEF quantity
        <3> QED
            BY <2>3, <3>1, <3>2, SumType
    <2>5. SumFunctionOnSet(value, Expiry) \in Int /\ SumFunctionOnSet(settled, Expiry) \in Int
        <3>1. \A e \in Expiry : value[e] \in Int /\ settled[e] \in Int
            BY <2>1
        <3> HIDE DEF value, settled
        <3> QED
            BY <2>2, <3>1, SumType
    <2>6. q = SumFunctionOnSet(quantity, Unpinned(s))
          /\ n = SumFunctionOnSet(value, Expiry) - SumFunctionOnSet(settled, Expiry)
        BY DEF futuresPnlTerms, SumOver, legs
    <2> HIDE DEF q, n
    <2> QED
        BY <2>4, <2>5, <2>6
<1> HIDE DEF q, n
<1>3. coefficient \in Int /\ intercept \in Int
    <2>1. Unit * q \in Int /\ Unit * n \in Int /\ s.perp.entryPrice * s.perp.netQty \in Int
        BY <1>1, <1>2, UnitFacts, ProductType
    <2> QED
        BY <1>1, <2>1
<1> HIDE DEF coefficient, intercept
<1>4. ASSUME NEW r \in Int PROVE Bounded(Positive({r})) /\ Bounded(Positive(straddle(r)))
    <2>1. CASE r >= 0
        <3>1. Positive({r}) \subseteq 0 .. r + 1 /\ Positive(straddle(r)) \subseteq 0 .. r + 1
            BY <2>1 DEF straddle, Positive
        <3> QED
            BY <2>1, <3>1 DEF Bounded
    <2>2. CASE r < 0
        <3>1. Positive({r}) \subseteq 0 .. 0 /\ Positive(straddle(r)) \subseteq 0 .. 0
            BY <2>2 DEF straddle, Positive
        <3> QED
            BY <3>1 DEF Bounded
    <2> QED
        BY <2>1, <2>2
<1>5. Bounded(Positive({}))
    <2>1. Positive({}) \subseteq 0 .. 0
        BY DEF Positive
    <2> QED
        BY <2>1 DEF Bounded
<1>6. Bounded(Positive(perp)) /\ Bounded(Positive(futures)) /\ Bounded(Positive(netted))
    <2>1. q # 0 => floorDiv(n, q) \in Int
        BY <1>2, FloorDivType
    <2>2. coefficient # 0 => floorDiv(intercept, coefficient) \in Int
        BY <1>3, FloorDivType
    <2>3. /\ perp = {} \/ perp = {s.perp.entryPrice}
          /\ futures = {} \/ (futures = straddle(floorDiv(n, q)) /\ q # 0)
          /\ \/ netted = {}
             \/ netted = straddle(floorDiv(intercept, coefficient)) /\ coefficient # 0
        OBVIOUS
    <2> HIDE DEF perp, futures, netted
    <2>4. Bounded(Positive(perp))
        <3>1. s.perp.entryPrice \in Int
            BY <1>1
        <3>2. Bounded(Positive({s.perp.entryPrice}))
            BY <1>4, <3>1
        <3> QED
            BY <1>5, <2>3, <3>2
    <2>5. Bounded(Positive(futures))
        BY <1>4, <1>5, <2>1, <2>3, Zenon
    <2>6. Bounded(Positive(netted))
        BY <1>4, <1>5, <2>2, <2>3, Zenon
    <2> QED
        BY <2>4, <2>5, <2>6
<1>7. unrealizedPnlBreakevens(s, isIM) = Positive(IF isIM THEN perp \cup futures ELSE netted)
    BY Zenon DEF unrealizedPnlBreakevens, Positive, coefficient, intercept, q, n
<1>8. Positive(perp \cup futures) = Positive(perp) \cup Positive(futures)
    <2> HIDE DEF perp, futures
    <2> QED
        BY DEF Positive
<1>9. Bounded(Positive(perp \cup futures))
    BY <1>6, <1>8, BoundedUnion
<1> HIDE DEF perp, futures, netted
<1> QED
    BY <1>6, <1>7, <1>9

\* The prices between which thresholds are searched: from one to more than a
\* thousand times the current price.
LEMMA SearchedPrices ==
    ASSUME NEW kinks, Bounded(kinks), NEW P \in kinks
    PROVE  /\ Bounded(searchBounds(kinks)) /\ P \in searchBounds(kinks)
           /\ \E b \in searchBounds(kinks) : b <= 1
           /\ \E b \in searchBounds(kinks) : b >= 1024 * P + 1
<1> DEFINE top == Max(kinks) * 1024 + 1
<1>1. Max(kinks) \in kinks /\ P <= Max(kinks)
    BY ExtremesOf
<1>2. Max(kinks) \in Nat /\ P \in Nat
    <2>1. \A k \in kinks : k \in Nat
        BY DEF Bounded
    <2> QED
        BY <1>1, <2>1
<1>3. top \in Nat /\ top >= 1024 * P + 1
    BY <1>1, <1>2
<1>4. searchBounds(kinks)
        = kinks \cup (IF \E k \in kinks : k < 1 THEN {} ELSE {1}) \cup {top}
    BY DEF searchBounds, searchedUpTo
<1> HIDE DEF top
<1>5. Bounded({1}) /\ Bounded({top}) /\ Bounded({})
    BY <1>3, BoundedOne
<1>6. Bounded(searchBounds(kinks))
    <2>1. Bounded(IF \E k \in kinks : k < 1 THEN {} ELSE {1})
        BY <1>5
    <2>2. Bounded(kinks \cup (IF \E k \in kinks : k < 1 THEN {} ELSE {1}))
        BY <2>1, BoundedUnion
    <2> QED
        BY <1>4, <1>5, <2>2, BoundedUnion
<1>7. \E b \in searchBounds(kinks) : b <= 1
    <2>1. CASE \E k \in kinks : k < 1
        <3>1. PICK k \in kinks : k < 1
            BY <2>1
        <3>2. k \in Nat
            BY DEF Bounded
        <3> QED
            BY <1>4, <3>1, <3>2
    <2>2. CASE ~\E k \in kinks : k < 1
        BY <1>4, <2>2
    <2> QED
        BY <2>1, <2>2
<1> QED
    BY <1>3, <1>4, <1>6, <1>7
\* A requirement is never negative: an account without a balance has no slack.
LEMMA RequiredNatural ==
    ASSUME NEW book, Booked(book), NEW p \in Nat, NEW isIM \in BOOLEAN
    PROVE  requiredAt(readAccountSnapshot(book), Params, p, isIM) \in Nat
<1> DEFINE s == readAccountSnapshot(book)
           shock == ShockOf(Params, isIM).spot
           D == netDeltaWad(s) + orderDeltaWad(s).buy
           E == netDeltaWad(s) - orderDeltaWad(s).sell
           fund == s.perp.fundingOwed
           m == perpUnrealizedPnl(s, p)
           n == futuresUnrealizedPnl(s, p)
           fillsOf(v) == venueFillLoss(getOrderAggregate(book, v), p)
           stress == worstLegStressLoss(s, shock, p)
           loss == unrealizedLoss(s, p, isIM)
<1>1. s \in Snapshot
    BY SnapshotType
<1>2. D \in Int /\ E \in Int /\ fund \in Nat /\ m \in Int /\ n \in Int
    <2> HIDE DEF s
    <2> QED
        BY <1>1, SnapshotSums
<1>3. shock \in Nat
    BY Inputs DEF ShockOf, ShockSet
<1>4. /\ s.perp.orders = getOrderAggregate(book, "perps")
      /\ s.futures.orders = getOrderAggregate(book, "futures")
    BY DEF readAccountSnapshot
<1> HIDE DEF s, shock, D, E, fund, m, n
<1>5. stress \in Nat
    <2>1. stressLoss(D, shock, p) \in Nat /\ stressLoss(E, shock, p) \in Nat
        BY <1>2, <1>3, StressIs
    <2>2. stress = Larger(stressLoss(D, shock, p), stressLoss(E, shock, p))
        BY Zenon DEF worstLegStressLoss, worseLeg, D, E
    <2> QED
        BY <2>1, <2>2 DEF Larger
<1>6. ASSUME NEW v \in Market PROVE fillsOf(v) \in Nat
    <2>1. PICK i \in Nat, j \in Nat, u \in Int, w \in Int : FillLossAlong(book, v, i, j, u, w)
        BY FillLossIs
    <2>2. fillsOf(v) = NonNegative((-i) * p + u) + NonNegative(j * p + w)
        BY <2>1 DEF FillLossAlong
    <2>3. (-i) * p \in Int /\ j * p \in Int
        BY Z3
    <2>4. (-i) * p + u \in Int /\ j * p + w \in Int
        BY <2>3
    <2>5. NonNegative((-i) * p + u) \in Nat /\ NonNegative(j * p + w) \in Nat
        BY <2>4, NumberTypes
    <2> QED
        BY <2>2, <2>5
<1>7. fillLoss(s, p) \in Nat
    <2>1. fillLoss(s, p) = fillsOf("perps") + fillsOf("futures")
        BY <1>4 DEF fillLoss
    <2> HIDE DEF fillsOf
    <2> QED
        BY <1>6, <2>1, Venues
<1>8. loss \in Nat
    <2>1. -m \in Int /\ -n \in Int /\ -(m + n) \in Int
        BY <1>2
    <2>2. NonNegative(-m) \in Nat /\ NonNegative(-n) \in Nat /\ NonNegative(-(m + n)) \in Nat
        BY <2>1, NumberTypes
    <2>3. lossOf(m, n, isIM) \in Nat
        BY <2>2 DEF lossOf
    <2> QED
        BY <2>3 DEF unrealizedLoss, m, n
<1>9. requiredAt(s, Params, p, isIM) = stress + fillLoss(s, p) + loss + fund
    BY Zenon DEF requiredAt, shock, fund
<1> HIDE DEF stress, loss
<1>10. requiredAt(s, Params, p, isIM) \in Nat
    BY <1>2, <1>5, <1>7, <1>8, <1>9
<1> QED
    BY <1>10 DEF s

\* What is left of a balance n above a requirement.
Room(book, isIM, n, p) == n - requiredAt(readAccountSnapshot(book), Params, p, isIM)

LEMMA RoomBetween ==
    ASSUME NEW book, Booked(book), NEW isIM \in BOOLEAN, NEW n \in Int,
           NEW x \in Nat, NEW y \in Nat, NEW z \in Nat, x < y, y < z,
           Room(book, isIM, n, x) >= 0, Room(book, isIM, n, z) >= 0
    PROVE  Room(book, isIM, n, y) >= -Rounding(isIM)
<1> DEFINE R(p) == requiredAt(readAccountSnapshot(book), Params, p, isIM)
<1>1. R(x) \in Nat /\ R(y) \in Nat /\ R(z) \in Nat
    BY RequiredNatural
<1>2. Rounding(isIM) \in Int
    BY DEF Rounding
<1>3. R(x) <= n /\ R(z) <= n
    <2>1. n - R(x) >= 0 /\ n - R(z) >= 0
        BY DEF Room
    <2> HIDE DEF R
    <2> QED
        BY <1>1, <2>1
<1>4. R(y) <= n + Rounding(isIM)
    BY <1>3, RequirementBetween
<1>5. Room(book, isIM, n, y) = n - R(y)
    BY DEF Room
<1> HIDE DEF R
<1> QED
    BY <1>1, <1>2, <1>4, <1>5

\* The kinks that findClosestCrossings searches between.
ThresholdKinks(s, P, isIM) ==
    unrealizedPnlBreakevens(s, isIM) \cup fillLossBreakevens(s.perp.orders)
        \cup fillLossBreakevens(s.futures.orders) \cup {P}

LEMMA IntervalEnds ==
    ASSUME NEW B, NEW lo, NEW hi, <<lo, hi>> \in Intervals(B)
    PROVE  lo \in B /\ hi \in B /\ lo < hi
BY DEF Intervals

LEMMA CrossingsBracket ==
    ASSUME NEW book, Booked(book), NEW isIM \in BOOLEAN, NEW P \in Nat, P >= 1,
           NEW target, isIM => target = book.balance,
           \A p \in P - 1 .. P + 1 : Room(book, isIM, book.balance, p) > 0,
           NEW t, t = findClosestCrossings(readAccountSnapshot(book), Params, P, isIM, target),
           NEW p \in Nat, 1 <= p, p <= 1024 * P,
           ~(Room(book, isIM, book.balance, p) >= -Rounding(isIM))
    PROVE  (\E d \in t.down : p <= d) \/ (\E u \in t.up : p >= u)
<1> DEFINE s == readAccountSnapshot(book)
           n == book.balance
           g(x) == Room(book, isIM, n, x)
           at(x) == objective(s, Params, isIM, target, x)
           R(x) == requiredAt(s, Params, x, isIM)
           kinks == ThresholdKinks(s, P, isIM)
           B == searchBounds(kinks)
           crossings == UNION {Crossing(i[1], i[2], s, Params, isIM, target) : i \in Intervals(B)}
           below == {c \in crossings : c < P}
           above == {c \in crossings : c > P}
<1>1. s \in Snapshot /\ n \in Nat /\ s.balance = n
    <2>1. s.balance = book.balance
        BY DEF readAccountSnapshot
    <2> QED
        BY <2>1, SnapshotType DEF Booked, Account
<1>2. ASSUME NEW x \in Nat
      PROVE  /\ g(x) \in Int /\ g(x) = n - R(x) /\ R(x) \in Nat
             /\ at(x) = IF isIM THEN -g(x) ELSE g(x)
             /\ at(x) \in Int
    <2>1. R(x) \in Nat /\ g(x) = n - R(x)
        BY RequiredNatural DEF Room
    <2>2. at(x) = IF isIM THEN R(x) - target ELSE n - R(x)
        BY <1>1, Zenon DEF objective, imRequired, mmSurplus, mmRequired
    <2>3. isIM => target = n
        OBVIOUS
    <2> HIDE DEF g, at, R, n
    <2> QED
        BY <1>1, <2>1, <2>2, <2>3
<1>3. Bounded(kinks) /\ P \in kinks
    <2>1. /\ s.perp.orders = getOrderAggregate(book, "perps")
          /\ s.futures.orders = getOrderAggregate(book, "futures")
          /\ "perps" \in Market /\ "futures" \in Market
        BY Venues DEF readAccountSnapshot
    <2>2. /\ Bounded(fillLossBreakevens(s.perp.orders))
          /\ Bounded(fillLossBreakevens(s.futures.orders))
        BY <2>1, FillKinksBounded
    <2>3. Bounded(unrealizedPnlBreakevens(s, isIM))
        BY <1>1, PnlKinksBounded
    <2>4. Bounded({P})
        <3>1. P \in Int /\ \A k \in {P} : k >= 0
            OBVIOUS
        <3> QED
            BY <3>1, BoundedOne
    <2> HIDE DEF s
    <2>5. Bounded(unrealizedPnlBreakevens(s, isIM) \cup fillLossBreakevens(s.perp.orders))
        BY <2>2, <2>3, BoundedUnion
    <2>6. Bounded(unrealizedPnlBreakevens(s, isIM) \cup fillLossBreakevens(s.perp.orders)
                    \cup fillLossBreakevens(s.futures.orders))
        BY <2>2, <2>5, BoundedUnion
    <2>7. Bounded(kinks)
        BY <2>4, <2>6, BoundedUnion DEF ThresholdKinks
    <2> QED
        BY <2>7 DEF ThresholdKinks
<1>4. t = [down |-> IF below = {} THEN {} ELSE {Max(below)},
           up |-> IF above = {} THEN {} ELSE {Min(above)}]
    BY Zenon DEF findClosestCrossings, ThresholdKinks, Nearest
<1> HIDE DEF s, n, g, at, R, kinks
<1>5. /\ Bounded(B) /\ P \in B
      /\ \E b \in B : b <= 1
      /\ \E b \in B : b >= 1024 * P + 1
    BY <1>3, SearchedPrices
<1>6. \A b \in B : b \in Nat
    BY <1>5 DEF Bounded
<1> HIDE DEF B
<1>7. g(p) \in Int /\ ~(g(p) >= -Rounding(isIM)) /\ Rounding(isIM) \in Nat
    <2>1. Rounding(isIM) \in Nat
        BY DEF Rounding
    <2> QED
        BY <1>2, <2>1 DEF g, n
<1>8. g(p) < 0
    BY <1>7
<1>9. /\ P - 1 \in Nat /\ g(P - 1) > 0 /\ g(P) > 0 /\ g(P + 1) > 0
    <2>1. P - 1 \in P - 1 .. P + 1 /\ P \in P - 1 .. P + 1 /\ P + 1 \in P - 1 .. P + 1
        OBVIOUS
    <2> QED
        BY <2>1 DEF g, n
<1>10. ASSUME NEW lo \in B, NEW hi \in B, <<lo, hi>> \in Intervals(B),
              NEW c \in Crossing(lo, hi, s, Params, isIM, target)
       PROVE  /\ c \in Nat /\ lo <= c /\ c <= hi /\ c # P
              /\ \E d \in Nat : lo <= d /\ d <= hi /\ c - 1 <= d /\ d <= c + 1 /\ g(d) >= 0
    <2>1. lo \in Nat /\ hi \in Nat /\ lo < hi
        BY <1>6, <1>10, IntervalEnds
    <2>2. \A x \in Nat : objective(s, Params, isIM, target, x) \in Int
        BY <1>2 DEF at
    <2>3. c \in SignChanges(lo, hi, s, isIM, target)
        <3>1. Crossing(lo, hi, s, Params, isIM, target) \subseteq SignChanges(lo, hi, s, isIM, target)
            BY <2>1, <2>2, CrossingFound
        <3> QED
            BY <3>1
    <2>4. /\ c \in lo .. hi
          /\ \E d \in lo .. hi : c - 1 <= d /\ d <= c + 1 /\ at(d) >= 0
          /\ \E d \in lo .. hi : c - 1 <= d /\ d <= c + 1 /\ at(d) <= 0
        BY <2>3 DEF SignChanges, at
    <2>5. PICK x \in lo .. hi : c - 1 <= x /\ x <= c + 1 /\ at(x) >= 0
        BY <2>4
    <2>6. PICK y \in lo .. hi : c - 1 <= y /\ y <= c + 1 /\ at(y) <= 0
        BY <2>4
    <2>7. x \in Nat /\ y \in Nat /\ c \in Nat /\ lo <= c /\ c <= hi
          /\ lo <= x /\ x <= hi /\ lo <= y /\ y <= hi
        BY <2>1, <2>4, <2>5, <2>6
    <2>8. (g(x) >= 0 /\ g(y) <= 0) \/ (g(x) <= 0 /\ g(y) >= 0)
        <3>1. /\ at(x) = IF isIM THEN -g(x) ELSE g(x)
              /\ at(y) = IF isIM THEN -g(y) ELSE g(y)
              /\ g(x) \in Int /\ g(y) \in Int
            BY <1>2, <2>7
        <3> QED
            BY <2>5, <2>6, <3>1
    <2>9. c # P
        <3> SUFFICES ASSUME c = P PROVE FALSE
            OBVIOUS
        <3>1. x \in {P - 1, P, P + 1} /\ y \in {P - 1, P, P + 1}
            BY <2>5, <2>6, <2>7
        <3>2. g(x) > 0 /\ g(y) > 0
            BY <1>9, <3>1
        <3>3. g(x) \in Int /\ g(y) \in Int
            BY <1>2, <2>7
        <3> QED
            BY <2>8, <3>2, <3>3
    <2> QED
        BY <2>5, <2>6, <2>7, <2>8, <2>9
<1>11. ASSUME NEW c \in crossings
       PROVE  c \in Nat /\ c # P /\ \E b \in B : c <= b
    <2>1. PICK i \in Intervals(B) : c \in Crossing(i[1], i[2], s, Params, isIM, target)
        OBVIOUS
    <2>2. i[1] \in B /\ i[2] \in B /\ <<i[1], i[2]>> \in Intervals(B)
        <3>1. i \in B \X B
            BY DEF Intervals
        <3>2. i = <<i[1], i[2]>> /\ i[1] \in B /\ i[2] \in B
            BY <3>1
        <3> QED
            BY <3>2
    <2>3. c \in Nat /\ c # P /\ c <= i[2]
        BY <1>10, <2>1, <2>2
    <2> QED
        BY <2>2, <2>3
<1>12. ASSUME NEW lo \in B, NEW hi \in B, <<lo, hi>> \in Intervals(B),
              (g(lo) < 0 /\ g(hi) >= 0) \/ (g(hi) < 0 /\ g(lo) >= 0)
       PROVE  \E c \in crossings : c \in Crossing(lo, hi, s, Params, isIM, target)
    <2>1. lo \in Nat /\ hi \in Nat /\ lo < hi
        BY <1>6, <1>12, IntervalEnds
    <2>2. \A x \in Nat : objective(s, Params, isIM, target, x) \in Int
        BY <1>2 DEF at
    <2>3. \/ at(lo) > 0 /\ at(hi) <= 0
          \/ at(lo) < 0 /\ at(hi) >= 0
          \/ at(hi) > 0 /\ at(lo) <= 0
          \/ at(hi) < 0 /\ at(lo) >= 0
        <3>1. /\ at(lo) = IF isIM THEN -g(lo) ELSE g(lo)
              /\ at(hi) = IF isIM THEN -g(hi) ELSE g(hi)
              /\ g(lo) \in Int /\ g(hi) \in Int
            BY <1>2, <2>1
        <3> QED
            BY <1>12, <3>1
    <2>4. Crossing(lo, hi, s, Params, isIM, target) # {}
        BY <2>1, <2>2, <2>3, CrossingFound DEF at
    <2>5. PICK c : c \in Crossing(lo, hi, s, Params, isIM, target)
        BY <2>4
    <2> DEFINE i == <<lo, hi>>
    <2>6. i[1] = lo /\ i[2] = hi
        OBVIOUS
    <2>7. c \in crossings
        BY <1>12, <2>5, <2>6
    <2> QED
        BY <2>5, <2>7
<1> HIDE DEF crossings
<1>13. p # P
    <2> SUFFICES ASSUME p = P PROVE FALSE
        OBVIOUS
    <2>1. g(p) > 0
        BY <1>9
    <2> QED
        BY <1>7, <1>8, <2>1
<1>14. CASE p < P
    <2>1. ASSUME NEW x \in Nat, x < p PROVE g(x) < 0
        <3> SUFFICES ASSUME g(x) >= 0 PROVE FALSE
            BY <1>2
        <3>1. g(p) >= -Rounding(isIM)
            <4>1. Room(book, isIM, n, x) >= 0 /\ Room(book, isIM, n, P) >= 0
                BY <1>2, <1>9 DEF g
            <4>2. n \in Int
                BY <1>1
            <4> QED
                BY <1>14, <2>1, <4>1, <4>2, RoomBetween DEF g
        <3> QED
            BY <1>7, <3>1
    <2> DEFINE bad == {b \in B : b < P /\ g(b) < 0}
               lo == Max(bad)
    <2>2. Bounded(bad) /\ bad # {}
        <3>1. PICK b \in B : b <= 1
            BY <1>5
        <3>2. b \in Nat /\ b <= p
            BY <1>6, <3>1
        <3>3. g(b) < 0
            <4>1. CASE b < p
                BY <2>1, <3>2, <4>1
            <4>2. CASE b = p
                BY <1>8, <4>2
            <4> QED
                BY <3>2, <4>1, <4>2
        <3>4. b \in bad
            BY <1>14, <3>2, <3>3
        <3> QED
            BY <1>5, <3>4, BoundedBy
    <2>3. lo \in B /\ lo < P /\ g(lo) < 0 /\ \A b \in B : b < P /\ g(b) < 0 => b <= lo
        <3>1. lo \in bad /\ \A b \in bad : b <= lo
            <4> HIDE DEF bad
            <4> QED
                BY <2>2, ExtremesOf
        <3> QED
            BY <3>1
    <2> HIDE DEF lo
    <2>4. PICK hi \in B : lo < hi /\ hi <= P /\ <<lo, hi>> \in Intervals(B)
        BY <1>5, <2>3, NeighbourAbove
    <2>5. g(hi) >= 0
        <3>1. lo \in Nat /\ hi \in Nat /\ g(hi) \in Int
            BY <1>2, <1>6, <2>3
        <3>2. CASE hi = P
            BY <1>9, <3>1, <3>2
        <3>3. CASE hi < P
            <4>1. ~(g(hi) < 0)
                BY <2>3, <2>4, <3>1, <3>3
            <4> QED
                BY <3>1, <4>1
        <3> QED
            BY <2>4, <3>1, <3>2, <3>3
    <2>6. PICK c \in crossings : c \in Crossing(lo, hi, s, Params, isIM, target)
        BY <1>12, <2>3, <2>4, <2>5
    <2>7. /\ c \in Nat /\ lo <= c /\ c <= hi /\ c # P
          /\ \E d \in Nat : lo <= d /\ d <= hi /\ c - 1 <= d /\ d <= c + 1 /\ g(d) >= 0
        BY <1>10, <2>3, <2>4, <2>6
    <2>8. PICK d \in Nat : d <= c + 1 /\ g(d) >= 0
        BY <2>7
    <2>9. p <= c
        <3> SUFFICES ASSUME c < p PROVE FALSE
            BY <2>7
        <3>1. d <= p
            BY <2>7, <2>8
        <3>2. g(d) \in Int
            BY <1>2
        <3>3. d # p
            BY <1>8, <2>8, <3>2
        <3>4. g(d) < 0
            BY <2>1, <3>1, <3>3
        <3> QED
            BY <2>8, <3>2, <3>4
    <2>10. c < P
        BY <1>6, <2>4, <2>7
    <2>11. c \in below
        BY <2>6, <2>10
    <2>12. Bounded(below)
        <3>1. below \subseteq 0 .. P
            BY <1>11
        <3> QED
            BY <3>1 DEF Bounded
    <2> HIDE DEF below
    <2>13. Max(below) \in below /\ c <= Max(below)
        BY <2>11, <2>12, ExtremesOf
    <2>14. Max(below) \in Nat
        BY <1>11, <2>13 DEF below
    <2>15. p <= Max(below)
        BY <2>7, <2>9, <2>13, <2>14
    <2> QED
        BY <1>4, <2>11, <2>15
<1>15. CASE P < p
    <2>1. ASSUME NEW x \in Nat, p < x PROVE g(x) < 0
        <3> SUFFICES ASSUME g(x) >= 0 PROVE FALSE
            BY <1>2
        <3>1. g(p) >= -Rounding(isIM)
            <4>1. Room(book, isIM, n, x) >= 0 /\ Room(book, isIM, n, P) >= 0
                BY <1>2, <1>9 DEF g
            <4>2. n \in Int
                BY <1>1
            <4> QED
                BY <1>15, <2>1, <4>1, <4>2, RoomBetween DEF g
        <3> QED
            BY <1>7, <3>1
    <2> DEFINE bad == {b \in B : P < b /\ g(b) < 0}
               hi == Min(bad)
    <2>2. Bounded(bad) /\ bad # {}
        <3>1. PICK b \in B : b >= 1024 * P + 1
            BY <1>5
        <3>2. b \in Nat /\ p < b
            BY <1>6, <3>1
        <3>3. g(b) < 0
            BY <2>1, <3>2
        <3>4. b \in bad
            BY <1>15, <3>2, <3>3
        <3> QED
            BY <1>5, <3>4, BoundedBy
    <2>3. hi \in B /\ P < hi /\ g(hi) < 0 /\ \A b \in B : P < b /\ g(b) < 0 => hi <= b
        <3>1. hi \in bad /\ \A b \in bad : hi <= b
            <4> HIDE DEF bad
            <4> QED
                BY <2>2, ExtremesOf
        <3> QED
            BY <3>1
    <2> HIDE DEF hi
    <2>4. PICK lo \in B : lo < hi /\ P <= lo /\ <<lo, hi>> \in Intervals(B)
        BY <1>5, <2>3, NeighbourBelow
    <2>5. g(lo) >= 0
        <3>1. lo \in Nat /\ hi \in Nat /\ g(lo) \in Int
            BY <1>2, <1>6, <2>3
        <3>2. CASE lo = P
            BY <1>9, <3>1, <3>2
        <3>3. CASE P < lo
            <4>1. ~(g(lo) < 0)
                BY <2>3, <2>4, <3>1, <3>3
            <4> QED
                BY <3>1, <4>1
        <3> QED
            BY <2>4, <3>1, <3>2, <3>3
    <2>6. PICK c \in crossings : c \in Crossing(lo, hi, s, Params, isIM, target)
        BY <1>12, <2>3, <2>4, <2>5
    <2>7. /\ c \in Nat /\ lo <= c /\ c <= hi /\ c # P
          /\ \E d \in Nat : lo <= d /\ d <= hi /\ c - 1 <= d /\ d <= c + 1 /\ g(d) >= 0
        BY <1>10, <2>3, <2>4, <2>6
    <2>8. PICK d \in Nat : c - 1 <= d /\ g(d) >= 0
        BY <2>7
    <2>9. p >= c
        <3> SUFFICES ASSUME p < c PROVE FALSE
            BY <2>7
        <3>1. p <= d
            BY <2>7, <2>8
        <3>2. g(d) \in Int
            BY <1>2
        <3>3. d # p
            BY <1>8, <2>8, <3>2
        <3>4. g(d) < 0
            BY <2>1, <3>1, <3>3
        <3> QED
            BY <2>8, <3>2, <3>4
    <2>10. c > P
        BY <1>6, <2>4, <2>7
    <2>11. c \in above
        BY <2>6, <2>10
    <2>12. Min(above) \in above /\ Min(above) <= c
        <3>1. above \subseteq Nat
            BY <1>11
        <3> HIDE DEF above
        <3>2. \E m \in above : \A k \in above : m <= k
            BY <2>11, <3>1, LeastNumber
        <3> QED
            BY <2>11, <3>2 DEF Min
    <2>13. Min(above) \in Nat
        BY <1>11, <2>12
    <2> HIDE DEF above
    <2>14. p >= Min(above)
        BY <2>7, <2>9, <2>12, <2>13
    <2> QED
        BY <1>4, <2>11, <2>14
<1> QED
    BY <1>13, <1>14, <1>15
\* The keeper sleeps on an account until the price leaves its thresholds (the
\* predictive index, solve.ts findClosestCrossings).  For every book and every price up
\* to a thousand times the current one: a price between the thresholds leaves the
\* account above its maintenance margin, and one between the thresholds of an alert
\* keeps its initial margin under the balance, up to the rounding, however orders,
\* settled legs and the perpetual's entry price bend the requirement.  A surplus has
\* one hump along the price, up to what the divisions round, so what lies between a
\* bracket and the current price never falls below zero for long enough to matter.
THEOREM ThresholdsNeverSkip == Spec => []ThresholdsBracket
<1> DEFINE s == readAccountSnapshot(acct)
           Around(f(_)) == \A p \in spot - 1 .. spot + 1 : f(p) > 0
           surplus(p) == mmSurplus(s, Params, p)
           slack(p) == imSurplus(s, Params, p)
<1>1. ASSUME PlanInv, plan.at = "start"
      PROVE  /\ Around(surplus) =>
                 LET t == solveLiquidationThresholds(s, Params, spot)
                 IN  \A p \in {x \in Price : 1 <= x /\ x <= 1024 * spot} :
                        \/ \E d \in t.down : p <= d
                        \/ \E u \in t.up : p >= u
                        \/ surplus(p) >= -Rounding(FALSE)
             /\ Around(slack) =>
                 LET t == solveAlertThresholds(s, Params, spot, s.balance)
                 IN  \A p \in {x \in Price : 1 <= x /\ x <= 1024 * spot} :
                        \/ \E d \in t.down : p <= d
                        \/ \E u \in t.up : p >= u
                        \/ slack(p) >= -Rounding(TRUE)
    <2>1. Booked(acct) /\ spot \in Nat /\ \A x \in Price : x \in Nat
        BY <1>1, Inputs DEF PlanInv
    <2>2. s.balance = acct.balance /\ acct.balance \in Nat
        BY <2>1 DEF readAccountSnapshot, Booked, Account
    <2>3. ASSUME NEW p
          PROVE  /\ surplus(p) = Room(acct, FALSE, acct.balance, p)
                 /\ slack(p) = Room(acct, TRUE, acct.balance, p)
        BY <2>2 DEF Room, mmSurplus, imSurplus, mmRequired, imRequired
    <2>4. ASSUME NEW isIM \in BOOLEAN, NEW target, isIM => target = acct.balance,
                 \A p \in spot - 1 .. spot + 1 : Room(acct, isIM, acct.balance, p) > 0,
                 NEW p \in Price, 1 <= p, p <= 1024 * spot
          PROVE  LET t == findClosestCrossings(s, Params, spot, isIM, target)
                 IN  \/ \E d \in t.down : p <= d
                     \/ \E u \in t.up : p >= u
                     \/ Room(acct, isIM, acct.balance, p) >= -Rounding(isIM)
        <3> DEFINE t == findClosestCrossings(s, Params, spot, isIM, target)
        <3> SUFFICES ASSUME ~(Room(acct, isIM, acct.balance, p) >= -Rounding(isIM))
                     PROVE  (\E d \in t.down : p <= d) \/ (\E u \in t.up : p >= u)
            OBVIOUS
        <3>1. spot >= 1 /\ p \in Nat
            BY <2>1, <2>4
        <3>2. t = findClosestCrossings(readAccountSnapshot(acct), Params, spot, isIM, target)
            OBVIOUS
        <3> HIDE DEF t
        <3> QED
            BY <2>1, <2>4, <3>1, <3>2, CrossingsBracket
    <2> HIDE DEF s, surplus, slack
    <2>5. spot \in spot - 1 .. spot + 1
        BY <2>1
    <2>6. ASSUME Around(surplus)
          PROVE  /\ solveLiquidationThresholds(s, Params, spot)
                        = findClosestCrossings(s, Params, spot, FALSE, 0)
                 /\ \A p \in spot - 1 .. spot + 1 : Room(acct, FALSE, acct.balance, p) > 0
        <3>1. Room(acct, FALSE, acct.balance, spot) \in Int
            <4> DEFINE R == requiredAt(readAccountSnapshot(acct), Params, spot, FALSE)
                       n == acct.balance
                       room == Room(acct, FALSE, acct.balance, spot)
            <4>1. R \in Nat /\ room = n - R
                BY <2>1, RequiredNatural DEF Room
            <4>2. n \in Nat
                BY <2>2
            <4> HIDE DEF R, n, room
            <4>3. room \in Int
                BY <4>1, <4>2
            <4> QED
                BY <4>3 DEF room
        <3>2. surplus(spot) > 0 /\ surplus(spot) \in Int
            BY <2>3, <2>5, <2>6, <3>1
        <3>3. ~(mmSurplus(s, Params, spot) < 0)
            BY <3>2 DEF surplus
        <3> QED
            BY <2>3, <2>6, <3>3 DEF solveLiquidationThresholds
    <2>7. ASSUME Around(slack)
          PROVE  /\ solveAlertThresholds(s, Params, spot, s.balance)
                        = findClosestCrossings(s, Params, spot, TRUE, s.balance)
                 /\ \A p \in spot - 1 .. spot + 1 : Room(acct, TRUE, acct.balance, p) > 0
        <3>1. requiredAt(readAccountSnapshot(acct), Params, spot, TRUE) \in Nat
            BY <2>1, RequiredNatural
        <3>2. /\ Room(acct, TRUE, acct.balance, spot)
                    = acct.balance - imRequired(s, Params, spot)
              /\ imRequired(s, Params, spot) \in Nat
            BY <3>1 DEF Room, imRequired, s
        <3>3. Room(acct, TRUE, acct.balance, spot) > 0
            BY <2>3, <2>5, <2>7
        <3>4. ~(s.balance <= 0) /\ ~(imRequired(s, Params, spot) >= s.balance)
            <4> DEFINE n == acct.balance
                       R == imRequired(s, Params, spot)
                       room == Room(acct, TRUE, acct.balance, spot)
            <4>1. s.balance = n /\ n \in Nat /\ R \in Nat /\ room = n - R /\ room > 0
                BY <2>2, <3>2, <3>3
            <4> HIDE DEF n, R, room
            <4>2. ~(n <= 0) /\ ~(R >= n)
                BY <4>1
            <4> QED
                BY <4>1, <4>2 DEF R
        <3> QED
            BY <2>3, <2>7, <3>4 DEF solveAlertThresholds
    <2>8. ASSUME Around(surplus), NEW p \in {x \in Price : 1 <= x /\ x <= 1024 * spot}
          PROVE  LET t == solveLiquidationThresholds(s, Params, spot)
                 IN  \/ \E d \in t.down : p <= d
                     \/ \E u \in t.up : p >= u
                     \/ surplus(p) >= -Rounding(FALSE)
        <3> DEFINE t == findClosestCrossings(s, Params, spot, FALSE, 0)
                   good == surplus(p) >= -Rounding(FALSE)
        <3>0. good <=> Room(acct, FALSE, acct.balance, p) >= -Rounding(FALSE)
            BY <2>3
        <3>1. \/ \E d \in t.down : p <= d
              \/ \E u \in t.up : p >= u
              \/ Room(acct, FALSE, acct.balance, p) >= -Rounding(FALSE)
            BY <2>4, <2>6, <2>8
        <3>2. t = solveLiquidationThresholds(s, Params, spot)
            BY <2>6, <2>8
        <3>3. good \/ (\E d \in t.down : p <= d) \/ (\E u \in t.up : p >= u)
            BY <3>0, <3>1, Zenon
        <3> HIDE DEF t, good
        <3> QED
            BY <3>2, <3>3 DEF good
    <2>9. ASSUME Around(slack), NEW p \in {x \in Price : 1 <= x /\ x <= 1024 * spot}
          PROVE  LET t == solveAlertThresholds(s, Params, spot, s.balance)
                 IN  \/ \E d \in t.down : p <= d
                     \/ \E u \in t.up : p >= u
                     \/ slack(p) >= -Rounding(TRUE)
        <3> DEFINE t == findClosestCrossings(s, Params, spot, TRUE, s.balance)
                   good == slack(p) >= -Rounding(TRUE)
        <3>0. good <=> Room(acct, TRUE, acct.balance, p) >= -Rounding(TRUE)
            BY <2>3
        <3>1. \/ \E d \in t.down : p <= d
              \/ \E u \in t.up : p >= u
              \/ Room(acct, TRUE, acct.balance, p) >= -Rounding(TRUE)
            BY <2>2, <2>4, <2>7, <2>9
        <3>2. t = solveAlertThresholds(s, Params, spot, s.balance)
            BY <2>7, <2>9
        <3>3. good \/ (\E d \in t.down : p <= d) \/ (\E u \in t.up : p >= u)
            BY <3>0, <3>1, Zenon
        <3> HIDE DEF t, good
        <3> QED
            BY <3>2, <3>3 DEF good
    <2> QED
        BY <2>8, <2>9
<1>2. PlanInv => ThresholdsBracket
    BY <1>1 DEF ThresholdsBracket
<1> QED
    BY <1>2, PlanConsistent, PTL

--------------------------------------------------------------------------------
(* The closes of a perpetual: the surplus between two closes.              *)

LEMMA UnderSameSign ==
    ASSUME NEW a, NEW b, Weights(a, b), NEW d \in Nat \ {0},
           NEW x \in Int, NEW y \in Int, NEW z \in Int, Under(a, b, x, y, z, 0),
           (x >= 0 /\ y >= 0 /\ z >= 0) \/ (x <= 0 /\ y <= 0 /\ z <= 0)
    PROVE  Under(a, b, Quotient(x, d), Quotient(y, d), Quotient(z, d), a + b - 1)
<1>0. ASSUME NEW n \in Int, n >= 0 PROVE Quotient(n, d) = n \div d
    BY <1>0 DEF Quotient
<1>1. CASE x >= 0 /\ y >= 0 /\ z >= 0
    <2>1. x \in Nat /\ y \in Nat /\ z \in Nat
        BY <1>1
    <2> QED
        BY <1>0, <1>1, <2>1, UnderDiv
<1>2. CASE x <= 0 /\ y <= 0 /\ z <= 0
    <2> DEFINE X == Quotient(x, d)
               Y == Quotient(y, d)
               Z == Quotient(z, d)
    <2>1. /\ X \in Int /\ Y \in Int /\ Z \in Int
          /\ d * X \in Int /\ d * Y \in Int /\ d * Z \in Int
          /\ d * Y <= y + (d - 1) /\ x <= d * X /\ z <= d * Z
        <3>1. ASSUME NEW n \in Int, n <= 0, NEW q, q = Quotient(n, d)
              PROVE  q \in Int /\ d * q \in Int /\ d * q <= n + (d - 1) /\ n <= d * q
            <4> DEFINE r == Quotient(-n, d)
            <4>1. q \in Int /\ d * q \in Int /\ d * q < n + d
                BY <3>1, QuotientBounds
            <4>2. -n \in Int /\ -n >= 0 /\ -(-n) = n
                BY <3>1
            <4>3. r \in Int /\ d * r \in Int /\ d * r <= -n /\ Quotient(-(-n), d) = -r
                BY <4>2, QuotientBounds
            <4>4. q = -r
                BY <3>1, <4>2, <4>3
            <4> HIDE DEF r
            <4>5. d * q = -(d * r)
                BY <4>3, <4>4, Z3
            <4> QED
                BY <4>1, <4>3, <4>5
        <3> QED
            BY <1>2, <3>1
    <2>2. a \in Nat \ {0} /\ b \in Nat \ {0}
        BY DEF Weights
    <2> HIDE DEF X, Y, Z
    <2>3. ASSUME NEW m \in Int, NEW n \in Int, NEW k \in Nat, m <= n
          PROVE  k * m \in Int /\ k * n \in Int /\ k * m <= k * n
        BY <2>3, Z3
    <2>4. /\ (a + b) * (d * Y) <= (a + b) * (y + (d - 1))
          /\ a * x <= a * (d * X) /\ b * z <= b * (d * Z)
        BY <2>1, <2>2, <2>3
    <2>5. (a + b) * y <= a * x + b * z + 0
        BY DEF Under
    <2>6. /\ (a + b) * (d * Y) = d * ((a + b) * Y)
          /\ (a + b) * (y + (d - 1)) = (a + b) * y + a * d + b * d - a - b
          /\ a * (d * X) = d * (a * X) /\ b * (d * Z) = d * (b * Z)
          /\ d * ((a * X + b * Z) + (a + b)) = d * (a * X) + d * (b * Z) + a * d + b * d
        BY <2>1, <2>2, Z3
    <2>7. /\ d * ((a + b) * Y) \in Int /\ (a + b) * y \in Int /\ a * x \in Int /\ b * z \in Int
          /\ d * (a * X) \in Int /\ d * (b * Z) \in Int /\ a * d \in Int /\ b * d \in Int
          /\ (a + b) * Y \in Int /\ a * X \in Int /\ b * Z \in Int
        BY <2>1, <2>2, Z3
    <2>8. d * ((a + b) * Y) < d * ((a * X + b * Z) + (a + b))
        BY <2>2, <2>4, <2>5, <2>6, <2>7
    <2>9. (a + b) * Y < (a * X + b * Z) + (a + b)
        <3>1. ASSUME NEW m \in Int, NEW n \in Int, d * m < d * n
              PROVE  m < n
            BY <3>1, Z3
        <3>2. (a * X + b * Z) + (a + b) \in Int
            BY <2>2, <2>7
        <3> QED
            BY <2>7, <2>8, <3>1, <3>2
    <2>10. (a + b) * Y <= a * X + b * Z + (a + b - 1)
        BY <2>2, <2>7, <2>9
    <2> QED
        BY <2>10 DEF Under, X, Y, Z
<1> QED
    BY <1>1, <1>2

LEMMA UnderScaled ==
    ASSUME NEW a, NEW b, Weights(a, b), NEW c \in Nat,
           NEW x \in Int, NEW y \in Int, NEW z \in Int, Under(a, b, x, y, z, 0),
           NEW u, u = x * c, NEW v, v = y * c, NEW w, w = z * c
    PROVE  Under(a, b, u, v, w, 0)
<1>1. a \in Int /\ b \in Int
    BY DEF Weights
<1> DEFINE m == (a + b) * y
           n == a * x + b * z
<1>2. m \in Int /\ n \in Int /\ m <= n
    <2>1. (a + b) * y <= a * x + b * z + 0
        BY DEF Under
    <2>2. (a + b) * y \in Int /\ a * x \in Int /\ b * z \in Int
        BY <1>1, Z3
    <2> QED
        BY <2>1, <2>2
<1>3. (a + b) * (y * c) = m * c /\ a * (x * c) + b * (z * c) = n * c
    BY <1>1, Z3
<1> HIDE DEF m, n
<1>4. m * c <= n * c /\ n * c \in Int
    BY <1>2, Z3
<1>5. (a + b) * v = m * c /\ a * u + b * w = n * c
    BY <1>3
<1>6. a * u + b * w + 0 = n * c
    BY <1>4, <1>5
<1> QED
    BY <1>4, <1>5, <1>6 DEF Under

\* Values no further than one apart.
LEMMA UnderNearby ==
    ASSUME NEW a, NEW b, Weights(a, b), NEW x \in Int, NEW y \in Int, NEW z \in Int,
           y <= x + 1, y <= z + 1
    PROVE  Under(a, b, x, y, z, a + b)
<1>1. a \in Nat /\ b \in Nat
    BY DEF Weights
<1>2. a * y <= a * (x + 1) /\ b * y <= b * (z + 1)
    BY <1>1, Z3
<1>3. /\ (a + b) * y = a * y + b * y
      /\ a * (x + 1) = a * x + a /\ b * (z + 1) = b * z + b
    BY <1>1, Z3
<1>4. /\ a * y \in Int /\ b * y \in Int /\ a * x \in Int /\ b * z \in Int
      /\ (a + b) * y \in Int
    BY <1>1, Z3
<1>5. (a + b) * y <= a * x + b * z + (a + b)
    BY <1>1, <1>2, <1>3, <1>4
<1> QED
    BY <1>5 DEF Under

LEMMA UnderMore ==
    ASSUME NEW a, NEW b, Weights(a, b), NEW x \in Int, NEW y \in Int, NEW z \in Int,
           NEW e \in Int, NEW f \in Int, e <= f, Under(a, b, x, y, z, e)
    PROVE  Under(a, b, x, y, z, f)
<1>1. a \in Int /\ b \in Int
    BY DEF Weights
<1>2. (a + b) * y \in Int /\ a * x \in Int /\ b * z \in Int
    BY <1>1, Z3
<1> QED
    BY <1>2 DEF Under

\* A profit that is realized in two parts is truncated twice: however it is divided,
\* the parts add up to one of two values.
LEMMA PartsOfProfit ==
    ASSUME NEW k \in Int, NEW n \in Nat, NEW x \in 0 .. n, NEW y \in 0 .. n
    PROVE  Quotient(k * y, Unit) + Quotient(k * (n - y), Unit)
               <= Quotient(k * x, Unit) + Quotient(k * (n - x), Unit) + 1
<1> DEFINE part(i) == Quotient(k * i, Unit)
           whole(i) == part(i) + part(n - i)
           m == k * n
<1>1. Unit \in Nat \ {0} /\ m \in Int
    BY UnitFacts, ProductType
<1>2. ASSUME NEW i \in 0 .. n
      PROVE  /\ part(i) \in Int /\ part(n - i) \in Int
             /\ k * i \in Int /\ k * (n - i) \in Int /\ k * i + k * (n - i) = m
             /\ Unit * part(i) \in Int /\ Unit * part(n - i) \in Int
             /\ Unit * part(i) < k * i + Unit /\ k * i - Unit < Unit * part(i)
             /\ Unit * part(n - i) < k * (n - i) + Unit
             /\ k * (n - i) - Unit < Unit * part(n - i)
             /\ k >= 0 => Unit * part(i) <= k * i /\ Unit * part(n - i) <= k * (n - i)
             /\ k < 0 => Unit * part(i) >= k * i /\ Unit * part(n - i) >= k * (n - i)
    <2>1. ASSUME NEW j \in Nat
          PROVE  /\ k * j \in Int /\ part(j) \in Int /\ Unit * part(j) \in Int
                 /\ Unit * part(j) < k * j + Unit /\ k * j - Unit < Unit * part(j)
                 /\ k >= 0 => Unit * part(j) <= k * j
                 /\ k < 0 => Unit * part(j) >= k * j
        <3> DEFINE c == k * j
        <3>1. c \in Int /\ (k >= 0 => c >= 0) /\ (k < 0 => c <= 0)
            BY Z3
        <3> HIDE DEF c
        <3>2. /\ Quotient(c, Unit) \in Int /\ Unit * Quotient(c, Unit) \in Int
              /\ Unit * Quotient(c, Unit) < c + Unit /\ c - Unit < Unit * Quotient(c, Unit)
              /\ c >= 0 => Unit * Quotient(c, Unit) <= c
              /\ Quotient(-c, Unit) = -Quotient(c, Unit)
            BY <1>1, <3>1, QuotientBounds
        <3>3. -c \in Int /\ (k < 0 => -c >= 0)
            BY <3>1
        <3>4. k < 0 => Unit * Quotient(-c, Unit) <= -c
            BY <1>1, <3>3, QuotientBounds
        <3>5. Unit * (-Quotient(c, Unit)) = -(Unit * Quotient(c, Unit))
            BY <1>1, <3>2, Z3
        <3>6. k < 0 => Unit * Quotient(c, Unit) >= c
            BY <3>1, <3>2, <3>4, <3>5
        <3>7. part(j) = Quotient(c, Unit)
            BY DEF c
        <3> HIDE DEF part
        <3>8. k >= 0 => Unit * Quotient(c, Unit) <= c
            BY <3>1, <3>2
        <3> QED
            BY <3>1, <3>2, <3>6, <3>7, <3>8 DEF c
    <2>2. i \in Nat /\ n - i \in Nat
        OBVIOUS
    <2>3. k * i + k * (n - i) = m
        BY <2>2, Z3
    <2> HIDE DEF part, m
    <2> QED
        BY <2>1, <2>2, <2>3
<1> HIDE DEF part, m
<1>3. ASSUME NEW i \in 0 .. n
      PROVE  /\ whole(i) \in Int /\ Unit * whole(i) \in Int
             /\ k >= 0 => Unit * whole(i) <= m /\ m < Unit * whole(i) + 2 * Unit
             /\ k < 0 => m <= Unit * whole(i) /\ Unit * whole(i) < m + 2 * Unit
    <2>1. Unit * whole(i) = Unit * part(i) + Unit * part(n - i)
        BY <1>1, <1>2, Z3
    <2> QED
        BY <1>1, <1>2, <2>1
<1> HIDE DEF whole
<1>4. Unit * whole(y) < Unit * whole(x) + 2 * Unit
    <2>1. CASE k >= 0
        BY <1>1, <1>3, <2>1
    <2>2. CASE k < 0
        BY <1>1, <1>3, <2>2
    <2> QED
        BY <2>1, <2>2
<1>5. whole(x) \in Int /\ whole(y) \in Int
    BY <1>3
<1>6. Unit * (whole(x) + 2) = Unit * whole(x) + 2 * Unit
    BY <1>1, <1>5, Z3
<1>7. whole(y) < whole(x) + 2
    <2>1. ASSUME NEW i \in Int, NEW j \in Int, Unit * i < Unit * j
          PROVE  i < j
        BY <1>1, <2>1, Z3
    <2>2. whole(x) + 2 \in Int
        BY <1>5
    <2> QED
        BY <1>4, <1>5, <1>6, <2>1, <2>2
<1>8. whole(y) <= whole(x) + 1
    BY <1>5, <1>7
<1> QED
    BY <1>8 DEF whole, part

\* What a close of q of the perpetual leaves of a snapshot: the position's delta and
\* its two parts of the profit move, nothing else does.
Remaining(s, q) == Magnitude(s.perp.netQty) - q

Slope(s, P) == (P - s.perp.entryPrice) * Sign(s.perp.netQty)

LEMMA CloseMoves ==
    ASSUME NEW s \in Snapshot, NEW P \in Nat, NEW q \in 0 .. Magnitude(s.perp.netQty),
           NEW after, after = simulatePerpClose(s, q, P)
    PROVE  /\ after \in Snapshot
           /\ after.balance = s.balance + Quotient(Slope(s, P) * q, Unit)
           /\ after.perp.netQty = Sign(s.perp.netQty) * Remaining(s, q)
           /\ netDeltaWad(after)
                  = (-(LIFT * Sign(s.perp.netQty))) * q + netDeltaWad(s)
           /\ orderDeltaWad(after) = orderDeltaWad(s)
           /\ fillLoss(after, P) = fillLoss(s, P)
           /\ after.perp.fundingOwed = s.perp.fundingOwed
           /\ after.perp.entryPrice = s.perp.entryPrice
           /\ after.futures = s.futures /\ after.perp.orders = s.perp.orders
           /\ perpUnrealizedPnl(after, P) = Quotient(Slope(s, P) * Remaining(s, q), Unit)
           /\ futuresUnrealizedPnl(after, P) = futuresUnrealizedPnl(s, P)
<1> DEFINE n == s.perp.netQty
           e == s.perp.entryPrice
           sign == Sign(n)
           whole == Magnitude(n)
           closed == sign * q
           gain == Quotient((P - e) * closed, Unit)
           F == WAD * SumOver(Unpinned(s), LAMBDA x : Legs(s)[x].netQuantity)
           perp == [s.perp EXCEPT !.netQty = n - closed]
<1>1. /\ s \in Snapshot /\ n \in Int /\ e \in Nat /\ s.balance \in Int
      /\ s.perp \in [netQty : Int, entryPrice : Nat, orders : OrderAggregate, fundingOwed : Nat]
    BY DEF Snapshot
<1>2. /\ sign = 1 \/ sign = -1
      /\ sign \in Int /\ whole \in Nat /\ n = sign * whole /\ q \in Nat /\ q <= whole
    BY <1>1 DEF Sign, Magnitude
<1>3. Min({q, whole}) = q
    <2>1. q \in {q, whole} /\ \A y \in {q, whole} : q <= y
        BY <1>2
    <2>2. \A x \in {q, whole} : (\A y \in {q, whole} : x <= y) => x = q
        BY <1>2
    <2> HIDE DEF whole
    <2> QED
        BY <2>1, <2>2 DEF Min
<1>4. after = [s EXCEPT !.balance = s.balance + gain, !.perp.netQty = n - closed]
    BY <1>3 DEF simulatePerpClose
<1> HIDE DEF n, e, sign, whole
<1>5. closed \in Int /\ n - closed = sign * (whole - q)
    <2>1. sign * (whole - q) = sign * whole - closed
        BY <1>2, Z3
    <2>2. closed \in Int
        BY <1>2, ProductType
    <2> QED
        BY <1>1, <1>2, <2>1, <2>2
<1>6. /\ (P - e) * closed = ((P - e) * sign) * q
      /\ (P - e) * (n - closed) = ((P - e) * sign) * (whole - q)
      /\ (P - e) * closed \in Int
    BY <1>1, <1>2, <1>5, Z3
<1>7. gain \in Int
    BY <1>6, NumberTypes, UnitFacts
<1> HIDE DEF gain, closed
<1>8. /\ after.balance = s.balance + gain /\ after.perp = perp
      /\ after.futures = s.futures
    BY <1>1, <1>4 DEF Snapshot
<1>9. /\ perp.netQty = n - closed /\ perp.entryPrice = e /\ perp.orders = s.perp.orders
      /\ perp.fundingOwed = s.perp.fundingOwed
      /\ perp \in [netQty : Int, entryPrice : Nat, orders : OrderAggregate, fundingOwed : Nat]
    BY <1>1, <1>5 DEF e
<1> HIDE DEF perp
<1>10. after \in Snapshot
    <2>1. s.balance + gain \in Int
        BY <1>1, <1>7
    <2>2. after = [balance |-> s.balance + gain, perp |-> perp, futures |-> s.futures]
        BY <1>1, <1>4 DEF Snapshot, perp
    <2> QED
        BY <1>1, <1>9, <2>1, <2>2 DEF Snapshot
<1>11. Legs(after) = Legs(s) /\ Unpinned(after) = Unpinned(s)
    BY <1>8 DEF Legs, Unpinned
<1>12. netDeltaWad(after) = (-(LIFT * sign)) * q + netDeltaWad(s)
    <2>0. LIFT * n \in Int /\ LIFT * (n - closed) \in Int
        BY <1>1, <1>5, ProductType, UnitFacts
    <2>1. /\ n * WAD = (LIFT * n) * Unit
          /\ (n - closed) * WAD = (LIFT * (n - closed)) * Unit
        BY <1>1, <1>5, UnitFacts, Z3
    <2>2. /\ Quotient(n * WAD, Unit) = LIFT * n
          /\ Quotient((n - closed) * WAD, Unit) = LIFT * (n - closed)
        BY <2>0, <2>1, QuotientOfMultiple, UnitFacts
    <2>3. netDeltaWad(s) = LIFT * n + F
        BY <2>2 DEF netDeltaWad, n
    <2>4. netDeltaWad(after) = LIFT * (n - closed) + F
        BY <1>8, <1>9, <1>11, <2>2 DEF netDeltaWad
    <2>5. netDeltaWad(s) \in Int
        BY SnapshotSums
    <2> HIDE DEF F
    <2>6. LIFT * (n - closed) = LIFT * n + (-(LIFT * sign)) * q
        BY <1>1, <1>2, UnitFacts, Z3 DEF closed
    <2>7. (-(LIFT * sign)) * q \in Int
        BY <1>2, UnitFacts, Z3
    <2>8. F \in Int
        <3> DEFINE live == Unpinned(s)
                   f == [x \in live |-> Legs(s)[x].netQuantity]
        <3>1. live \in SUBSET Expiry /\ IsFiniteSet(live) /\ live \in SUBSET live
            <4>1. live \in SUBSET Expiry
                BY DEF Unpinned
            <4> QED
                BY <4>1, Expiries, FS_Subset
        <3>2. \A x \in live : f[x] \in Int
            BY <3>1 DEF Snapshot, Legs, Leg
        <3> HIDE DEF live, f
        <3>3. SumFunctionOnSet(f, live) \in Int
            BY <3>1, <3>2, SumType
        <3>4. WAD * SumFunctionOnSet(f, live) \in Int
            BY <3>3, ProductType, UnitFacts
        <3> QED
            BY <3>4 DEF F, f, live, SumOver
    <2> QED
        BY <2>0, <2>3, <2>4, <2>6, <2>7, <2>8
<1>13. orderDeltaWad(after) = orderDeltaWad(s) /\ fillLoss(after, P) = fillLoss(s, P)
    BY <1>8, <1>9 DEF orderDeltaWad, fillLoss
<1>14. perpUnrealizedPnl(after, P) = Quotient(((P - e) * sign) * (whole - q), Unit)
    BY <1>6, <1>8, <1>9 DEF perpUnrealizedPnl
<1>15. futuresUnrealizedPnl(after, P) = futuresUnrealizedPnl(s, P)
    BY <1>11, Zenon DEF futuresUnrealizedPnl, SumOver
<1>16. gain = Quotient(((P - e) * sign) * q, Unit)
    BY <1>6 DEF gain
<1> QED
    BY <1>5, <1>8, <1>9, <1>10, <1>12, <1>13, <1>14, <1>15, <1>16
    DEF Remaining, Slope, n, e, sign, whole

\* The surplus over a requirement after a close, and what of it the close decides:
\* the stress of the rest and the loss that is left, less what is realized.
SurplusAfter(s, P, isIM, q) ==
    LET after == simulatePerpClose(s, q, P)
    IN  after.balance - requiredAt(after, Params, P, isIM)

CloseStress(s, P, isIM, q) ==
    worstLegStressLoss(simulatePerpClose(s, q, P), ShockOf(Params, isIM).spot, P)

LossLeft(s, P, isIM, q) ==
    lossOf(Quotient(Slope(s, P) * Remaining(s, q), Unit), futuresUnrealizedPnl(s, P), isIM)
      - Quotient(Slope(s, P) * q, Unit)

CloseCost(s, P, isIM, q) == CloseStress(s, P, isIM, q) + LossLeft(s, P, isIM, q)

UntouchedByClose(s, P) == s.balance - fillLoss(s, P) - s.perp.fundingOwed

LEMMA CloseTypes ==
    ASSUME NEW s \in Snapshot, NEW P \in Nat, NEW isIM \in BOOLEAN,
           NEW q \in 0 .. Magnitude(s.perp.netQty)
    PROVE  /\ Slope(s, P) \in Int /\ Remaining(s, q) \in Nat /\ q \in Nat
           /\ Quotient(Slope(s, P) * q, Unit) \in Int
           /\ Quotient(Slope(s, P) * Remaining(s, q), Unit) \in Int
           /\ CloseStress(s, P, isIM, q) \in Int /\ LossLeft(s, P, isIM, q) \in Int
           /\ CloseCost(s, P, isIM, q) \in Int /\ UntouchedByClose(s, P) \in Int
           /\ SurplusAfter(s, P, isIM, q)
                  = UntouchedByClose(s, P) - CloseCost(s, P, isIM, q)
           /\ SurplusAfter(s, P, isIM, q) \in Int
<1> DEFINE n == s.perp.netQty
           whole == Magnitude(n)
           k == Slope(s, P)
           left == Remaining(s, q)
           A == Quotient(k * q, Unit)
           B == Quotient(k * left, Unit)
           F == futuresUnrealizedPnl(s, P)
           after == simulatePerpClose(s, q, P)
           stress == CloseStress(s, P, isIM, q)
           loss == lossOf(B, F, isIM)
           fills == fillLoss(s, P)
           fund == s.perp.fundingOwed
           required == requiredAt(after, Params, P, isIM)
<1>1. /\ n \in Int /\ s.perp.entryPrice \in Nat /\ s.balance \in Int /\ fund \in Nat
      /\ F \in Int
    BY SnapshotSums DEF Snapshot
<1>2. k \in Int /\ left \in Nat /\ q \in Nat
    <2>1. Sign(n) \in Int /\ whole \in Nat
        BY <1>1, NumberTypes
    <2>2. (P - s.perp.entryPrice) * Sign(n) \in Int
        BY <1>1, <2>1, ProductType
    <2> QED
        BY <2>1, <2>2 DEF Slope, Remaining
<1> HIDE DEF k, left, n
<1>3. A \in Int /\ B \in Int
    <2>1. k * q \in Int /\ k * left \in Int
        BY <1>2, ProductType
    <2> QED
        BY <2>1, NumberTypes, UnitFacts
<1>4. /\ after \in Snapshot /\ after.balance = s.balance + A
      /\ fillLoss(after, P) = fills /\ after.perp.fundingOwed = fund
      /\ perpUnrealizedPnl(after, P) = B /\ futuresUnrealizedPnl(after, P) = F
    BY CloseMoves DEF k, left
<1> HIDE DEF A, B, F, after, fills, fund
<1>5. loss \in Int
    <2>1. -B \in Int /\ -F \in Int /\ -(B + F) \in Int
        BY <1>1, <1>3
    <2>2. NonNegative(-B) \in Nat /\ NonNegative(-F) \in Nat /\ NonNegative(-(B + F)) \in Nat
        BY <2>1, NumberTypes
    <2> QED
        BY <2>2 DEF lossOf
<1>6. required \in Int
    BY <1>4, RequiredType
<1>7. required = stress + fills + loss + fund
    BY <1>4, Zenon DEF requiredAt, unrealizedLoss, CloseStress, after
<1>8. stress \in Int
    <2> DEFINE shock == ShockOf(Params, isIM).spot
               D == netDeltaWad(after) + orderDeltaWad(after).buy
               E == netDeltaWad(after) - orderDeltaWad(after).sell
    <2>1. shock \in Nat
        BY Inputs DEF ShockOf, ShockSet
    <2>2. D \in Int /\ E \in Int
        BY <1>4, SnapshotSums
    <2> HIDE DEF shock, D, E
    <2>3. stressLoss(D, shock, P) \in Nat /\ stressLoss(E, shock, P) \in Nat
        BY <2>1, <2>2, StressIs
    <2>4. stress = Larger(stressLoss(D, shock, P), stressLoss(E, shock, P))
        BY Zenon DEF CloseStress, worstLegStressLoss, worseLeg, D, E, shock, after
    <2> QED
        BY <2>3, <2>4 DEF Larger
<1>9. fills \in Int
    <2>1. fills = required - stress - loss - fund \/ fills \in Int
        <3>1. s.perp.orders \in OrderAggregate /\ s.futures.orders \in OrderAggregate
            BY SnapshotSums
        <3>2. ASSUME NEW o \in OrderAggregate PROVE venueFillLoss(o, P) \in Int
            <4>1. /\ o.buyDelta \in Nat /\ o.sellDelta \in Nat
                  /\ o.buyValue \in Int /\ o.sellValue \in Int
                BY DEF OrderAggregate
            <4>2. (P * o.buyDelta) \div Unit \in Nat /\ (P * o.sellDelta) \div Unit \in Nat
                BY <4>1, NumberTypes, UnitFacts
            <4>3. /\ o.buyValue - ((P * o.buyDelta) \div Unit) \in Int
                  /\ ((P * o.sellDelta) \div Unit) - o.sellValue \in Int
                BY <4>1, <4>2
            <4>4. /\ NonNegative(o.buyValue - ((P * o.buyDelta) \div Unit)) \in Nat
                  /\ NonNegative(((P * o.sellDelta) \div Unit) - o.sellValue) \in Nat
                BY <4>3, NumberTypes
            <4> QED
                BY <4>4 DEF venueFillLoss
        <3> QED
            BY <3>1, <3>2 DEF fillLoss, fills
    <2> QED
        BY <1>1, <1>5, <1>6, <1>8, <2>1
<1>10. /\ LossLeft(s, P, isIM, q) = loss - A
       /\ CloseCost(s, P, isIM, q) = stress + LossLeft(s, P, isIM, q)
       /\ UntouchedByClose(s, P) = s.balance - fills - fund
       /\ SurplusAfter(s, P, isIM, q) = after.balance - required
    BY Zenon DEF LossLeft, CloseCost, UntouchedByClose, SurplusAfter, k, left, A, B, F, fills,
                 fund, after
<1> HIDE DEF loss, stress, required
<1>11. /\ LossLeft(s, P, isIM, q) \in Int /\ CloseCost(s, P, isIM, q) \in Int
       /\ UntouchedByClose(s, P) \in Int /\ SurplusAfter(s, P, isIM, q) \in Int
       /\ SurplusAfter(s, P, isIM, q) = UntouchedByClose(s, P) - CloseCost(s, P, isIM, q)
    BY <1>1, <1>3, <1>4, <1>5, <1>6, <1>7, <1>8, <1>9, <1>10
<1> QED
    BY <1>2, <1>3, <1>8, <1>11 DEF k, left, A, B, stress

\* The stress between two deltas.
LEMMA StressAlong ==
    ASSUME NEW a, NEW b, Weights(a, b), NEW x \in Int, NEW y \in Int, NEW z \in Int,
           Under(a, b, x, y, z, 0), Under(a, b, -x, -y, -z, 0),
           NEW shock \in Nat, NEW P \in Nat
    PROVE  Under(a, b, stressLoss(x, shock, P), stressLoss(y, shock, P),
                 stressLoss(z, shock, P), a + b - 1)
<1> DEFINE c == shock * P
           size(d) == Magnitude(d)
           w == WAD * WAD
           at(d) == size(d) * c
<1>1. \A d \in Int : size(d) = Larger(d, -d) /\ size(d) \in Nat
    BY DEF Magnitude, Larger
<1>2. Under(a, b, size(x), size(y), size(z), 0)
    <2>1. -x \in Int /\ -y \in Int /\ -z \in Int /\ 0 \in Int
        OBVIOUS
    <2>2. Under(a, b, Larger(x, -x), Larger(y, -y), Larger(z, -z), 0)
        BY <2>1, UnderLarger
    <2> HIDE DEF size
    <2> QED
        BY <1>1, <2>2
<1>3. c \in Nat /\ w \in Nat \ {0}
    <2>1. w \in Nat \ {0}
        BY UnitFacts, Z3
    <2> QED
        BY <2>1, NumberTypes
<1>4. ASSUME NEW d \in Int
      PROVE  at(d) \in Nat /\ stressLoss(d, shock, P) = at(d) \div w
    <2>1. size(d) \in Nat
        BY <1>1
    <2>2. at(d) \in Nat
        BY <1>3, <2>1, NumberTypes
    <2> DEFINE m == size(d)
    <2>3. m * shock * P = m * (shock * P)
        <3> HIDE DEF m
        <3>1. m \in Int
            BY <2>1 DEF m
        <3> QED
            BY <3>1, Z3
    <2>4. stressLoss(d, shock, P) = (m * shock * P) \div w
        BY StressIs
    <2> QED
        BY <2>2, <2>3, <2>4
<1> HIDE DEF size, c, w
<1>5. Under(a, b, at(x), at(y), at(z), 0)
    <2> DEFINE X == size(x)
               Y == size(y)
               Z == size(z)
    <2>1. X \in Int /\ Y \in Int /\ Z \in Int /\ Under(a, b, X, Y, Z, 0)
        BY <1>1, <1>2
    <2>2. at(x) = X * c /\ at(y) = Y * c /\ at(z) = Z * c
        OBVIOUS
    <2> HIDE DEF X, Y, Z, at
    <2> QED
        BY <1>3, <2>1, <2>2, UnderScaled
<1> HIDE DEF at
<1>6. Under(a, b, at(x) \div w, at(y) \div w, at(z) \div w, a + b - 1)
    BY <1>3, <1>4, <1>5, UnderDiv
<1> QED
    BY <1>4, <1>6

--------------------------------------------------------------------------------
(* The cost of a close bends upwards along the quantity.                   *)

LEMMA Divided ==
    ASSUME NEW x \in Int, NEW y \in Int, NEW z \in Int, x < y, y < z,
           NEW a, a = z - y, NEW b, b = y - x
    PROVE  Weights(a, b) /\ (a + b) * y = a * x + b * z /\ a \in Int /\ b \in Int
<1>1. a \in Nat \ {0} /\ b \in Nat \ {0}
    OBVIOUS
<1>2. (a + b) * y = a * x + b * z
    <2>1. y = x + b /\ z = x + b + a
        OBVIOUS
    <2>2. (a + b) * (x + b) = a * x + b * (x + b + a)
        BY <1>1, Z3
    <2> QED
        BY <2>1, <2>2
<1> QED
    BY <1>1, <1>2 DEF Weights

NetAfter(s, q) == (-(LIFT * Sign(s.perp.netQty))) * q + netDeltaWad(s)

LEMMA CloseStressIs ==
    ASSUME NEW s \in Snapshot, NEW P \in Nat, NEW isIM \in BOOLEAN,
           NEW q \in 0 .. Magnitude(s.perp.netQty), NEW shock, shock = ShockOf(Params, isIM).spot
    PROVE  /\ NetAfter(s, q) \in Int /\ shock \in Nat
           /\ CloseStress(s, P, isIM, q)
                = Larger(stressLoss(NetAfter(s, q) + orderDeltaWad(s).buy, shock, P),
                         stressLoss(NetAfter(s, q) - orderDeltaWad(s).sell, shock, P))
<1> DEFINE after == simulatePerpClose(s, q, P)
<1>1. /\ after \in Snapshot /\ netDeltaWad(after) = NetAfter(s, q)
      /\ orderDeltaWad(after) = orderDeltaWad(s)
    BY CloseMoves DEF NetAfter
<1>2. CloseStress(s, P, isIM, q)
        = Larger(stressLoss(netDeltaWad(after) + orderDeltaWad(after).buy, shock, P),
                 stressLoss(netDeltaWad(after) - orderDeltaWad(after).sell, shock, P))
    BY Zenon DEF CloseStress, worstLegStressLoss, worseLeg
<1> HIDE DEF after
<1>3. netDeltaWad(after) \in Int
    BY <1>1, SnapshotSums
<1>4. shock \in Nat
    BY Inputs DEF ShockOf, ShockSet
<1> QED
    BY <1>1, <1>2, <1>3, <1>4

LEMMA CloseStressUnder ==
    ASSUME NEW s \in Snapshot, NEW P \in Nat, NEW isIM \in BOOLEAN,
           NEW x \in 0 .. Magnitude(s.perp.netQty), NEW y \in 0 .. Magnitude(s.perp.netQty),
           NEW z \in 0 .. Magnitude(s.perp.netQty), x < y, y < z,
           NEW a, a = z - y, NEW b, b = y - x
    PROVE  Under(a, b, CloseStress(s, P, isIM, x), CloseStress(s, P, isIM, y),
                 CloseStress(s, P, isIM, z), a + b - 1)
<1> DEFINE shock == ShockOf(Params, isIM).spot
           k == -(LIFT * Sign(s.perp.netQty))
           c == netDeltaWad(s)
           buy == orderDeltaWad(s).buy
           sell == orderDeltaWad(s).sell
           net(q) == NetAfter(s, q)
           D(q) == net(q) + buy
           E(q) == net(q) - sell
           loss(d) == stressLoss(d, shock, P)
<1>0. x \in Int /\ y \in Int /\ z \in Int
    OBVIOUS
<1>1. Weights(a, b) /\ (a + b) * y = a * x + b * z /\ a \in Int /\ b \in Int
    BY <1>0, Divided
<1>2. k \in Int /\ c \in Int /\ buy \in Int /\ sell \in Int
    <2>1. Sign(s.perp.netQty) \in Int
        BY NumberTypes DEF Snapshot
    <2>2. LIFT * Sign(s.perp.netQty) \in Int
        BY <2>1, ProductType, UnitFacts
    <2> QED
        BY <2>2, SnapshotSums
<1>3. \A q : net(q) = k * q + c
    BY DEF NetAfter
<1>4. ASSUME NEW q \in 0 .. Magnitude(s.perp.netQty)
      PROVE  /\ net(q) \in Int /\ shock \in Nat
             /\ CloseStress(s, P, isIM, q) = Larger(loss(D(q)), loss(E(q)))
    BY CloseStressIs
<1> HIDE DEF shock, k, c, buy, sell, net
<1>5. ASSUME NEW q \in 0 .. Magnitude(s.perp.netQty)
      PROVE  D(q) \in Int /\ E(q) \in Int /\ shock \in Nat
    BY <1>2, <1>4
<1>7. \A d \in Int : loss(d) \in Int
    <2>1. shock \in Nat
        BY <1>5
    <2>2. ASSUME NEW d \in Int PROVE stressLoss(d, shock, P) \in Nat
        BY <2>1, StressIs
    <2> QED
        BY <2>2
<1>6. ASSUME NEW m \in Int, NEW u \in Int, u = k * x + m, NEW v \in Int, v = k * y + m,
             NEW w \in Int, w = k * z + m
      PROVE  Under(a, b, loss(u), loss(v), loss(w), a + b - 1)
    <2>1. Under(a, b, u, v, w, 0) /\ Under(a, b, -u, -v, -w, 0)
        BY <1>0, <1>1, <1>2, <1>6, UnderLine
    <2> QED
        BY <1>1, <1>5, <2>1, StressAlong
<1> HIDE DEF loss
<1>8. /\ Under(a, b, loss(D(x)), loss(D(y)), loss(D(z)), a + b - 1)
      /\ Under(a, b, loss(E(x)), loss(E(y)), loss(E(z)), a + b - 1)
    <2>1. ASSUME NEW q \in {x, y, z}
          PROVE  D(q) = k * q + (c + buy) /\ E(q) = k * q + (c - sell)
        <3>1. k * q \in Int
            BY <1>0, <1>2, ProductType
        <3> QED
            BY <1>2, <1>3, <3>1
    <2>2. c + buy \in Int /\ c - sell \in Int
        BY <1>2
    <2> HIDE DEF D, E
    <2>3. /\ D(x) = k * x + (c + buy) /\ D(y) = k * y + (c + buy) /\ D(z) = k * z + (c + buy)
          /\ E(x) = k * x + (c - sell) /\ E(y) = k * y + (c - sell)
          /\ E(z) = k * z + (c - sell)
        BY <2>1
    <2>4. Under(a, b, loss(D(x)), loss(D(y)), loss(D(z)), a + b - 1)
        BY <1>5, <1>6, <2>2, <2>3
    <2>5. Under(a, b, loss(E(x)), loss(E(y)), loss(E(z)), a + b - 1)
        BY <1>5, <1>6, <2>2, <2>3
    <2> QED
        BY <2>4, <2>5
<1> HIDE DEF D, E
<1> HIDE DEF loss
<1>9. a + b - 1 \in Int
    BY <1>1
<1>10. Under(a, b, Larger(loss(D(x)), loss(E(x))), Larger(loss(D(y)), loss(E(y))),
                   Larger(loss(D(z)), loss(E(z))), a + b - 1)
    BY <1>1, <1>5, <1>7, <1>8, <1>9, UnderLarger
<1> QED
    BY <1>4, <1>10

LEMMA UnderShift ==
    ASSUME NEW a, NEW b, Weights(a, b), NEW e \in Int, NEW c \in Int,
           NEW x \in Int, NEW y \in Int, NEW z \in Int, Under(a, b, x, y, z, e)
    PROVE  Under(a, b, x + c, y + c, z + c, e)
<1>1. a \in Int /\ b \in Int
    BY DEF Weights
<1>2. (a + b) * c = a * c + b * c
    BY <1>1, Z3
<1>3. a * c \in Int /\ b * c \in Int
    BY <1>1, ProductType
<1>4. Under(a, b, c, c, c, 0)
    BY <1>2, <1>3 DEF Under
<1>5. Under(a, b, x + c, y + c, z + c, e + 0)
    BY <1>4, UnderSum
<1> QED
    BY <1>5

\* What is realized, and what is realized and left together, at three closes.
Realized(s, P, q) == Quotient(Slope(s, P) * q, Unit)

LeftOpen(s, P, q) == Quotient(Slope(s, P) * Remaining(s, q), Unit)

LEMMA ProfitsUnder ==
    ASSUME NEW s \in Snapshot, NEW P \in Nat,
           NEW x \in 0 .. Magnitude(s.perp.netQty), NEW y \in 0 .. Magnitude(s.perp.netQty),
           NEW z \in 0 .. Magnitude(s.perp.netQty), x < y, y < z,
           NEW a, a = z - y, NEW b, b = y - x
    PROVE  /\ Under(a, b, Realized(s, P, x), Realized(s, P, y), Realized(s, P, z), a + b - 1)
           /\ Under(a, b, -Realized(s, P, x), -Realized(s, P, y), -Realized(s, P, z), a + b - 1)
           /\ Under(a, b, Realized(s, P, x) + LeftOpen(s, P, x),
                          Realized(s, P, y) + LeftOpen(s, P, y),
                          Realized(s, P, z) + LeftOpen(s, P, z), a + b)
           /\ Under(a, b, -(Realized(s, P, x) + LeftOpen(s, P, x)),
                          -(Realized(s, P, y) + LeftOpen(s, P, y)),
                          -(Realized(s, P, z) + LeftOpen(s, P, z)), a + b)
<1> DEFINE k == Slope(s, P)
           whole == Magnitude(s.perp.netQty)
           A(q) == Realized(s, P, q)
           B(q) == LeftOpen(s, P, q)
<1>0. x \in Nat /\ y \in Nat /\ z \in Nat /\ x \in Int /\ y \in Int /\ z \in Int
    OBVIOUS
<1>1. Weights(a, b) /\ (a + b) * y = a * x + b * z /\ a \in Int /\ b \in Int
    BY <1>0, Divided
<1>2. k \in Int /\ whole \in Nat /\ Unit \in Nat \ {0}
    BY CloseTypes, NumberTypes, UnitFacts DEF Snapshot
<1>3. ASSUME NEW q \in 0 .. whole
      PROVE  A(q) = Quotient(k * q, Unit) /\ B(q) = Quotient(k * (whole - q), Unit)
             /\ A(q) \in Int /\ B(q) \in Int
    BY CloseTypes DEF Realized, LeftOpen, Remaining
<1> HIDE DEF k, whole, A, B
<1>4. ASSUME NEW p \in 0 .. whole, NEW q \in 0 .. whole
      PROVE  A(q) + B(q) <= A(p) + B(p) + 1 /\ A(q) + B(q) \in Int
    <2>1. Quotient(k * q, Unit) + Quotient(k * (whole - q), Unit)
            <= Quotient(k * p, Unit) + Quotient(k * (whole - p), Unit) + 1
        BY <1>2, PartsOfProfit
    <2> QED
        BY <1>3, <2>1
<1>5. ASSUME NEW m \in Int, NEW u, u = m * x, NEW v, v = m * y, NEW w, w = m * z
      PROVE  /\ Under(a, b, Quotient(u, Unit), Quotient(v, Unit), Quotient(w, Unit), a + b - 1)
             /\ u \in Int /\ v \in Int /\ w \in Int
    <2>1. u \in Int /\ v \in Int /\ w \in Int
        BY <1>0, <1>5, ProductType
    <2> DEFINE none == 0
    <2>2. u = m * x + none /\ v = m * y + none /\ w = m * z + none /\ none \in Int
        BY <1>5, <2>1
    <2> HIDE DEF none
    <2>3. Under(a, b, u, v, w, 0)
        BY <1>0, <1>1, <1>5, <2>2, UnderLine
    <2>4. (u >= 0 /\ v >= 0 /\ w >= 0) \/ (u <= 0 /\ v <= 0 /\ w <= 0)
        <3>1. ASSUME NEW i \in Nat PROVE (m >= 0 => m * i >= 0) /\ (m <= 0 => m * i <= 0)
            BY <1>5, Z3
        <3> QED
            BY <1>0, <1>5, <3>1
    <2> QED
        BY <1>1, <1>2, <2>1, <2>3, <2>4, UnderSameSign
<1>6. Under(a, b, A(x), A(y), A(z), a + b - 1)
    <2>1. A(x) = Quotient(k * x, Unit) /\ A(y) = Quotient(k * y, Unit)
          /\ A(z) = Quotient(k * z, Unit)
        BY <1>3 DEF whole
    <2> QED
        BY <1>2, <1>5, <2>1
<1>7. Under(a, b, -A(x), -A(y), -A(z), a + b - 1)
    <2>1. ASSUME NEW q \in 0 .. whole
          PROVE  -A(q) = Quotient((-k) * q, Unit)
        <3>1. k * q \in Int
            BY <1>2, ProductType
        <3>2. (-k) * q = -(k * q)
            BY <1>2, Z3
        <3> DEFINE n == k * q
        <3>3. Quotient(-n, Unit) = -Quotient(n, Unit)
            BY <1>2, <3>1, QuotientBounds
        <3> QED
            BY <1>3, <3>2, <3>3
    <2>2. -A(x) = Quotient((-k) * x, Unit) /\ -A(y) = Quotient((-k) * y, Unit)
          /\ -A(z) = Quotient((-k) * z, Unit)
        BY <2>1 DEF whole
    <2> DEFINE m == -k
    <2>3. m \in Int
        BY <1>2
    <2>4. -A(x) = Quotient(m * x, Unit) /\ -A(y) = Quotient(m * y, Unit)
          /\ -A(z) = Quotient(m * z, Unit)
        BY <2>2
    <2> HIDE DEF m
    <2>5. Under(a, b, Quotient(m * x, Unit), Quotient(m * y, Unit), Quotient(m * z, Unit),
                a + b - 1)
        BY <1>5, <2>3
    <2> QED
        BY <2>4, <2>5
<1>8. /\ Under(a, b, A(x) + B(x), A(y) + B(y), A(z) + B(z), a + b)
      /\ Under(a, b, -(A(x) + B(x)), -(A(y) + B(y)), -(A(z) + B(z)), a + b)
    <2> DEFINE S(q) == A(q) + B(q)
    <2>1. /\ S(x) \in Int /\ S(y) \in Int /\ S(z) \in Int
          /\ S(y) <= S(x) + 1 /\ S(y) <= S(z) + 1 /\ S(x) <= S(y) + 1 /\ S(z) <= S(y) + 1
        BY <1>4 DEF whole
    <2> HIDE DEF S
    <2>2. /\ -S(x) \in Int /\ -S(y) \in Int /\ -S(z) \in Int
          /\ -S(y) <= -S(x) + 1 /\ -S(y) <= -S(z) + 1
        BY <2>1
    <2>3. Under(a, b, S(x), S(y), S(z), a + b) /\ Under(a, b, -S(x), -S(y), -S(z), a + b)
        BY <1>1, <2>1, <2>2, UnderNearby
    <2> QED
        BY <2>3 DEF S
<1> QED
    BY <1>6, <1>7, <1>8 DEF A, B

LEMMA LossLeftUnder ==
    ASSUME NEW s \in Snapshot, NEW P \in Nat, NEW isIM \in BOOLEAN,
           NEW x \in 0 .. Magnitude(s.perp.netQty), NEW y \in 0 .. Magnitude(s.perp.netQty),
           NEW z \in 0 .. Magnitude(s.perp.netQty), x < y, y < z,
           NEW a, a = z - y, NEW b, b = y - x
    PROVE  Under(a, b, LossLeft(s, P, isIM, x), LossLeft(s, P, isIM, y),
                 LossLeft(s, P, isIM, z), a + b)
<1> DEFINE whole == Magnitude(s.perp.netQty)
           F == futuresUnrealizedPnl(s, P)
           A(q) == Realized(s, P, q)
           B(q) == LeftOpen(s, P, q)
           lost == NonNegative(-F)
<1>0. x \in Int /\ y \in Int /\ z \in Int
    OBVIOUS
<1>1. Weights(a, b) /\ a \in Int /\ b \in Int
    BY <1>0, Divided
<1>2. F \in Int /\ lost \in Int
    <2>1. F \in Int
        BY SnapshotSums
    <2>2. -F \in Int
        BY <2>1
    <2> QED
        BY <2>1, <2>2, NumberTypes
<1>3. ASSUME NEW q \in 0 .. whole
      PROVE  A(q) \in Int /\ B(q) \in Int /\ LossLeft(s, P, isIM, q) = lossOf(B(q), F, isIM) - A(q)
    BY CloseTypes, Zenon DEF Realized, LeftOpen, LossLeft
<1>4. /\ Under(a, b, -A(x), -A(y), -A(z), a + b)
      /\ Under(a, b, -(A(x) + B(x)), -(A(y) + B(y)), -(A(z) + B(z)), a + b)
    <2>1. Under(a, b, -A(x), -A(y), -A(z), a + b - 1)
        BY ProfitsUnder
    <2>2. /\ -A(x) \in Int /\ -A(y) \in Int /\ -A(z) \in Int
          /\ a + b - 1 \in Int /\ a + b \in Int /\ a + b - 1 <= a + b
        BY <1>1, <1>3 DEF whole
    <2> HIDE DEF A
    <2>3. Under(a, b, -A(x), -A(y), -A(z), a + b)
        BY <1>1, <2>1, <2>2, UnderMore
    <2> QED
        BY <2>3, ProfitsUnder DEF A
<1> HIDE DEF A, B, F, lost
<1> DEFINE u == [q \in {x, y, z} |-> -A(q)]
           v == [q \in {x, y, z} |-> -(A(q) + B(q))]
<1>5. ASSUME NEW q \in {x, y, z}
      PROVE  /\ u[q] \in Int /\ v[q] \in Int /\ v[q] - F \in Int
             /\ isIM => LossLeft(s, P, isIM, q) = Larger(u[q], v[q]) + lost
             /\ ~isIM => LossLeft(s, P, isIM, q) = Larger(u[q], v[q] - F)
    <2>1. A(q) \in Int /\ B(q) \in Int /\ LossLeft(s, P, isIM, q) = lossOf(B(q), F, isIM) - A(q)
        BY <1>3 DEF whole
    <2>0. u[q] = -A(q) /\ v[q] = -(A(q) + B(q))
        OBVIOUS
    <2> HIDE DEF u, v
    <2>2. CASE isIM
        <3>1. isIM = TRUE
            BY <2>2
        <3>2. LossLeft(s, P, isIM, q) = (NonNegative(-B(q)) + lost) - A(q)
            BY <2>1, <3>1 DEF lossOf, lost
        <3>3. NonNegative(-B(q)) - A(q) = Larger(u[q], v[q]) /\ NonNegative(-B(q)) \in Int
            BY <2>0, <2>1 DEF NonNegative, Larger
        <3> DEFINE n == NonNegative(-B(q))
                   l == Larger(u[q], v[q])
        <3>4. LossLeft(s, P, isIM, q) = (n + lost) - A(q) /\ n - A(q) = l /\ n \in Int
            BY <3>2, <3>3
        <3> HIDE DEF n, l
        <3>5. LossLeft(s, P, isIM, q) = l + lost
            BY <1>2, <2>1, <3>4
        <3>6. LossLeft(s, P, isIM, q) = Larger(u[q], v[q]) + lost
            BY <3>5 DEF l
        <3>7. u[q] \in Int /\ v[q] \in Int /\ v[q] - F \in Int
            BY <1>2, <2>0, <2>1
        <3> QED
            BY <2>2, <3>6, <3>7
    <2>3. CASE ~isIM
        <3>1. isIM = FALSE
            BY <2>3
        <3>2. LossLeft(s, P, isIM, q) = NonNegative(-(B(q) + F)) - A(q)
            BY <2>1, <3>1 DEF lossOf
        <3>3. NonNegative(-(B(q) + F)) - A(q) = Larger(u[q], v[q] - F)
            BY <1>2, <2>0, <2>1 DEF NonNegative, Larger
        <3> QED
            BY <1>2, <2>0, <2>1, <3>1, <3>2, <3>3
    <2> QED
        BY <2>2, <2>3
<1>6. Under(a, b, u[x], u[y], u[z], a + b) /\ Under(a, b, v[x], v[y], v[z], a + b)
    BY <1>4
<1> HIDE DEF u, v
<1>7. /\ u[x] \in Int /\ u[y] \in Int /\ u[z] \in Int
      /\ v[x] \in Int /\ v[y] \in Int /\ v[z] \in Int
      /\ a + b \in Int /\ -F \in Int
    <2>1. a + b \in Int /\ -F \in Int
        BY <1>1, <1>2
    <2> QED
        BY <1>5, <2>1
<1>8. CASE isIM
    <2>1. isIM = TRUE
        BY <1>8
    <2> DEFINE X == Larger(u[x], v[x])
               Y == Larger(u[y], v[y])
               Z == Larger(u[z], v[z])
    <2>2. X \in Int /\ Y \in Int /\ Z \in Int
        BY <1>7, NumberTypes
    <2>3. Under(a, b, X, Y, Z, a + b)
        BY <1>1, <1>6, <1>7, UnderLarger
    <2>4. /\ LossLeft(s, P, isIM, x) = X + lost /\ LossLeft(s, P, isIM, y) = Y + lost
          /\ LossLeft(s, P, isIM, z) = Z + lost
        BY <1>5, <1>8
    <2> HIDE DEF X, Y, Z
    <2>5. Under(a, b, X + lost, Y + lost, Z + lost, a + b)
        BY <1>1, <1>2, <1>7, <2>2, <2>3, UnderShift
    <2> QED
        BY <2>4, <2>5
<1>9. CASE ~isIM
    <2>1. isIM = FALSE
        BY <1>9
    <2>2. Under(a, b, v[x] + (-F), v[y] + (-F), v[z] + (-F), a + b)
        BY <1>1, <1>6, <1>7, UnderShift
    <2>3. v[x] + (-F) = v[x] - F /\ v[y] + (-F) = v[y] - F /\ v[z] + (-F) = v[z] - F
        BY <1>2, <1>7
    <2> DEFINE X == v[x] - F
               Y == v[y] - F
               Z == v[z] - F
    <2>4. Under(a, b, X, Y, Z, a + b) /\ X \in Int /\ Y \in Int /\ Z \in Int
        BY <1>5, <2>2, <2>3
    <2>5. /\ LossLeft(s, P, isIM, x) = Larger(u[x], X)
          /\ LossLeft(s, P, isIM, y) = Larger(u[y], Y)
          /\ LossLeft(s, P, isIM, z) = Larger(u[z], Z)
        BY <1>5, <1>9
    <2> HIDE DEF X, Y, Z
    <2>6. Under(a, b, Larger(u[x], X), Larger(u[y], Y), Larger(u[z], Z), a + b)
        BY <1>1, <1>6, <1>7, <2>4, UnderLarger
    <2> QED
        BY <2>5, <2>6
<1> QED
    BY <1>8, <1>9

\* So the surplus between two closes is at least what it is at the worse of them,
\* but for one unit.
LEMMA SurplusBetweenCloses ==
    ASSUME NEW s \in Snapshot, NEW P \in Nat, NEW isIM \in BOOLEAN,
           NEW x \in 0 .. Magnitude(s.perp.netQty), NEW y \in 0 .. Magnitude(s.perp.netQty),
           NEW z \in 0 .. Magnitude(s.perp.netQty), x <= y, y <= z, NEW n \in Int,
           SurplusAfter(s, P, isIM, x) >= n, SurplusAfter(s, P, isIM, z) >= n
    PROVE  SurplusAfter(s, P, isIM, y) >= n - 1
<1> DEFINE S(q) == SurplusAfter(s, P, isIM, q)
           cost(q) == CloseCost(s, P, isIM, q)
           stress(q) == CloseStress(s, P, isIM, q)
           loss(q) == LossLeft(s, P, isIM, q)
           most == UntouchedByClose(s, P) - n
<1>1. ASSUME NEW q \in {x, y, z}
      PROVE  /\ stress(q) \in Int /\ loss(q) \in Int /\ cost(q) = stress(q) + loss(q)
             /\ most \in Int /\ S(q) \in Int /\ S(q) - n = most - cost(q) /\ cost(q) \in Int
    <2>1. UntouchedByClose(s, P) \in Int /\ S(q) = UntouchedByClose(s, P) - cost(q)
          /\ stress(q) \in Int /\ loss(q) \in Int /\ cost(q) \in Int /\ S(q) \in Int
        BY CloseTypes
    <2>2. cost(q) = stress(q) + loss(q)
        BY Zenon DEF CloseCost
    <2> HIDE DEF S, cost, stress, loss
    <2> QED
        BY <2>1, <2>2
<1>2. CASE x < y /\ y < z
    <2> DEFINE a == z - y
               b == y - x
    <2>1. x \in Int /\ y \in Int /\ z \in Int
        OBVIOUS
    <2>2. Weights(a, b) /\ a \in Int /\ b \in Int
        BY <1>2, <2>1, Divided
    <2>3. Under(a, b, stress(x), stress(y), stress(z), a + b - 1)
        BY <1>2, CloseStressUnder
    <2>4. Under(a, b, loss(x), loss(y), loss(z), a + b)
        BY <1>2, LossLeftUnder
    <2> HIDE DEF a, b, S, cost, stress, loss, most
    <2>5. Under(a, b, stress(x) + loss(x), stress(y) + loss(y), stress(z) + loss(z),
                (a + b - 1) + (a + b))
        <3>1. a + b - 1 \in Int /\ a + b \in Int
            BY <2>2
        <3> QED
            BY <1>1, <2>2, <2>3, <2>4, <3>1, UnderSum
    <2>6. Under(a, b, cost(x), cost(y), cost(z), (a + b - 1) + (a + b))
        BY <1>1, <2>5
    <2>7. /\ (a + b - 1) + (a + b) \in Int /\ (a + b - 1) + (a + b) < 2 * (a + b)
          /\ cost(x) <= most /\ cost(z) <= most
        <3>1. S(x) >= n /\ S(z) >= n
            BY DEF S
        <3> QED
            BY <1>1, <2>2, <3>1
    <2> DEFINE two == 2
               error == (a + b - 1) + (a + b)
    <2>9. /\ two \in Int /\ two = 2 /\ error \in Int /\ error < two * (a + b)
          /\ Under(a, b, cost(x), cost(y), cost(z), error)
        BY <2>6, <2>7
    <2> HIDE DEF two, error
    <2>10. cost(x) \in Int /\ cost(y) \in Int /\ cost(z) \in Int /\ most \in Int
        BY <1>1
    <2>11. cost(y) < most + two
        BY <2>2, <2>7, <2>9, <2>10, UnderBound
    <2>8. cost(y) < most + 2
        BY <2>9, <2>11
    <2> QED
        BY <1>1, <2>8 DEF S
<1>3. CASE y = x \/ y = z
    BY <1>1, <1>3
<1> QED
    BY <1>2, <1>3

--------------------------------------------------------------------------------
(* Between two kinks of a close nothing turns, so there the cost is a line *)
(* up to its rounding, from below too.                                     *)

\* The root of a turning point and the number above it, where they are inside.
Marked(s, P, r) ==
    \A q \in straddle(r) : q > 0 /\ q < Magnitude(s.perp.netQty) => q \in perpCloseKinks(s, P)

LEMMA RootOutside ==
    ASSUME NEW s \in Snapshot, NEW P \in Nat, NEW i \in Intervals(perpCloseKinks(s, P)),
           i[1] + 2 <= i[2], NEW r \in Int, Marked(s, P, r)
    PROVE  i[2] <= r \/ r + 1 <= i[1]
<1> DEFINE kinks == perpCloseKinks(s, P)
           whole == Magnitude(s.perp.netQty)
<1>1. kinks \subseteq 0 .. whole /\ whole \in Nat
    BY KinksWithin, NumberTypes DEF Snapshot
<1>2. /\ i[1] \in kinks /\ i[2] \in kinks
      /\ \A k \in kinks : k <= i[1] \/ k >= i[2]
    BY DEF Intervals
<1>3. \A q \in {r, r + 1} : q > 0 /\ q < whole => q \in kinks
    BY DEF Marked, straddle
<1> HIDE DEF kinks, whole
<1>4. i[1] \in Nat /\ i[2] \in Nat /\ i[2] <= whole
    <2>1. ASSUME NEW k \in kinks PROVE k \in Nat /\ k <= whole
        BY <1>1
    <2> QED
        BY <1>2, <2>1
<1>5. ASSUME i[1] <= r, r < i[2] PROVE FALSE
    <2>1. r = i[1]
        <3>1. CASE r = 0
            BY <1>4, <1>5, <3>1
        <3>2. CASE r > 0
            <4>1. r \in kinks
                BY <1>1, <1>3, <1>4, <1>5, <3>2
            <4> QED
                BY <1>2, <1>4, <1>5, <4>1
        <3> QED
            BY <1>4, <1>5, <3>1, <3>2
    <2>2. r + 1 \in kinks
        BY <1>1, <1>3, <1>4, <1>5, <2>1
    <2> QED
        BY <1>2, <1>4, <2>1, <2>2
<1> QED
    BY <1>4, <1>5

\* The two turns: where the worse leg changes, and where the profit changes sign.
MiddleDelta(s) == Quotient(orderDeltaWad(s).sell - orderDeltaWad(s).buy, 2)

MiddleRoot(s) == Quotient(Sign(s.perp.netQty) * (netDeltaWad(s) - MiddleDelta(s)), LIFT)

ProfitRoot(s, P) ==
    floorDiv((P - s.perp.entryPrice) * s.perp.netQty + futuresUnrealizedPnl(s, P) * Unit,
             (P - s.perp.entryPrice) * Sign(s.perp.netQty))

LEMMA TurnsMarked ==
    ASSUME NEW s \in Snapshot, NEW P \in Nat
    PROVE  /\ Marked(s, P, MiddleRoot(s))
           /\ P - s.perp.entryPrice # 0 => Marked(s, P, ProfitRoot(s, P))
<1> DEFINE netQty == s.perp.netQty
           delta == netDeltaWad(s)
           order == orderDeltaWad(s)
           qtyAtDelta(target) == Quotient(Sign(netQty) * (delta - target), LIFT)
           priceDiff == P - s.perp.entryPrice
           turn == IF priceDiff = 0 THEN {}
                   ELSE {floorDiv(priceDiff * netQty + futuresUnrealizedPnl(s, P) * Unit,
                                  priceDiff * Sign(netQty))}
           roots == {qtyAtDelta(d) : d \in {-order.buy, order.sell,
                                            Quotient(order.sell - order.buy, 2)}}
           all == roots \cup turn
<1>1. perpCloseKinks(s, P)
        = {q \in UNION {straddle(r) : r \in all} : q > 0 /\ q < Magnitude(netQty)}
            \cup {0, Magnitude(netQty)}
    BY Zenon DEF perpCloseKinks
<1>2. MiddleRoot(s) \in roots
    BY DEF MiddleRoot, MiddleDelta
<1>3. priceDiff # 0 => ProfitRoot(s, P) \in turn
    BY DEF ProfitRoot
<1> HIDE DEF roots, turn
<1>4. ASSUME NEW r \in all PROVE Marked(s, P, r)
    <2>1. \A q \in straddle(r) : q \in UNION {straddle(x) : x \in all}
        BY <1>4
    <2> HIDE DEF all
    <2> QED
        BY <1>1, <2>1 DEF Marked
<1> QED
    BY <1>2, <1>3, <1>4

\* Which of two multiples of a scale is larger, told from a half of their distance.
LEMMA SideOfMiddle ==
    ASSUME NEW l \in Nat, l > 1, NEW m \in Int, NEW c \in Int, NEW e, e = l * m,
           2 * c - 1 <= e, e <= 2 * c + 1, NEW q \in Nat
    PROVE  /\ q <= Quotient(c, l) /\ c >= 0 => e - 2 * (l * q) >= 0
           /\ q >= Quotient(c, l) + 1 \/ c < 0 => e - 2 * (l * q) <= 0
<1> DEFINE r == Quotient(c, l)
<1>1. r \in Int /\ l * r \in Int /\ c < l * r + l /\ (c >= 0 => l * r <= c)
    <2>1. l \in Nat \ {0}
        OBVIOUS
    <2>2. /\ Quotient(c, l) \in Int /\ l * Quotient(c, l) \in Int
          /\ c - l < l * Quotient(c, l) /\ (c >= 0 => l * Quotient(c, l) <= c)
        BY <2>1, QuotientBounds
    <2> HIDE DEF r
    <2>3. r \in Int /\ l * r \in Int /\ c - l < l * r /\ (c >= 0 => l * r <= c)
        BY <2>2 DEF r
    <2> QED
        BY <2>3
<1> HIDE DEF r
<1>2. l * m \in Int /\ l * q \in Nat /\ e \in Int
    <2>1. l * m \in Int /\ l * q \in Int /\ l * q >= 0
        BY Z3
    <2> QED
        BY <2>1
<1>3. CASE q <= r /\ c >= 0
    <2>1. l * q <= l * r
        BY <1>1, <1>3, Z3
    <2>2. 2 * (l * q) <= l * m + 1
        BY <1>1, <1>2, <1>3, <2>1
    <2>3. l * (2 * q - m) = 2 * (l * q) - l * m
        BY Z3
    <2>4. l * (2 * q - m) <= 1
        BY <1>2, <2>2, <2>3
    <2>5. ASSUME NEW n \in Int, l * n <= 1 PROVE n <= 0
        BY <2>5, Z3
    <2>6. 2 * q - m <= 0
        <3>1. 2 * q - m \in Int
            OBVIOUS
        <3> QED
            BY <2>4, <2>5, <3>1
    <2>7. l * (2 * q - m) <= 0
        BY <2>6, Z3
    <2>8. e - 2 * (l * q) >= 0
        BY <1>2, <2>3, <2>7
    <2> QED
        BY <1>2, <1>3, <2>8, <1>1 DEF r
<1>4. CASE q >= r + 1
    <2>1. l * (r + 1) <= l * q
        BY <1>1, <1>4, Z3
    <2>2. l * (r + 1) = l * r + l
        BY <1>1, Z3
    <2>3. e - 2 * (l * q) <= 0
        BY <1>1, <1>2, <2>1, <2>2
    <2>4. ~(q <= r)
        BY <1>1, <1>4
    <2> QED
        BY <2>3, <2>4 DEF r
<1>5. CASE c < 0
    <2>1. e - 2 * (l * q) <= 0
        BY <1>2, <1>5
    <2> QED
        BY <1>5, <2>1
<1> QED
    BY <1>1, <1>3, <1>4, <1>5 DEF r

\* Which leg is the worse one after a close: the buys where this is positive.
LeadOfBuys(s, q) == 2 * NetAfter(s, q) + (orderDeltaWad(s).buy - orderDeltaWad(s).sell)

LEMMA DeltasScaled ==
    ASSUME NEW s \in Snapshot
    PROVE  /\ orderDeltaWad(s).buy \in Nat /\ orderDeltaWad(s).sell \in Nat
           /\ netDeltaWad(s) \in Int
           /\ \E m \in Int : 2 * netDeltaWad(s) + (orderDeltaWad(s).buy - orderDeltaWad(s).sell)
                                = LIFT * m
<1> DEFINE n == s.perp.netQty
           S == SumOver(Unpinned(s), LAMBDA e : Legs(s)[e].netQuantity)
           f == [x \in Unpinned(s) |-> Legs(s)[x].netQuantity]
           live == Unpinned(s)
           B == s.perp.orders.buyDelta + s.futures.orders.buyDelta
           C == s.perp.orders.sellDelta + s.futures.orders.sellDelta
<1>1. n \in Int /\ B \in Nat /\ C \in Nat /\ netDeltaWad(s) \in Int
    <2>1. /\ n \in Int /\ s.perp.orders \in OrderAggregate
          /\ s.futures.orders \in OrderAggregate /\ netDeltaWad(s) \in Int
        BY SnapshotSums
    <2> QED
        BY <2>1 DEF OrderAggregate
<1>2. S \in Int
    <2>1. live \in SUBSET Expiry /\ IsFiniteSet(live) /\ live \in SUBSET live
        <3>1. live \in SUBSET Expiry
            BY DEF Unpinned
        <3> QED
            BY <3>1, Expiries, FS_Subset
    <2>2. \A x \in live : f[x] \in Int
        BY <2>1 DEF Snapshot, Legs, Leg
    <2>3. S = SumFunctionOnSet(f, live)
        BY DEF SumOver
    <2> HIDE DEF live, f, S
    <2>4. SumFunctionOnSet(f, live) \in Int
        BY <2>1, <2>2, SumType
    <2> QED
        BY <2>3, <2>4
<1>3. orderDeltaWad(s).buy = B * LIFT /\ orderDeltaWad(s).sell = C * LIFT
    BY DEF orderDeltaWad, toWad
<1>4. netDeltaWad(s) = Quotient(n * WAD, Unit) + WAD * S
    BY Zenon DEF netDeltaWad
<1> HIDE DEF n, S, f, live, B, C
<1>5. B * LIFT \in Nat /\ C * LIFT \in Nat
    BY <1>1, NumberTypes, UnitFacts
<1>6. Quotient(n * WAD, Unit) = LIFT * n
    <2>1. LIFT * n \in Int
        BY <1>1, ProductType, UnitFacts
    <2>2. n * WAD = (LIFT * n) * Unit
        BY <1>1, UnitFacts, Z3
    <2> QED
        BY <2>1, <2>2, QuotientOfMultiple, UnitFacts
<1>7. WAD * S = LIFT * (Unit * S)
    BY <1>2, UnitFacts, Z3
<1> DEFINE U == Unit * S
           m == 2 * (n + U) + (B - C)
<1>8. U \in Int /\ m \in Int
    BY <1>1, <1>2, ProductType, UnitFacts
<1>9. 2 * (LIFT * n + LIFT * U) + (B * LIFT - C * LIFT) = LIFT * m
    <2> HIDE DEF U
    <2> QED
        BY <1>1, <1>8, UnitFacts, Z3
<1> HIDE DEF m
<1>10. 2 * netDeltaWad(s) + (orderDeltaWad(s).buy - orderDeltaWad(s).sell) = LIFT * m
    BY <1>3, <1>4, <1>6, <1>7, <1>9
<1> QED
    BY <1>1, <1>3, <1>5, <1>8, <1>10

LEMMA LeadKept ==
    ASSUME LIFT > 1, NEW s \in Snapshot, NEW P \in Nat,
           NEW i \in Intervals(perpCloseKinks(s, P)), i[1] + 2 <= i[2]
    PROVE  \/ \A q \in i[1] .. i[2] : LeadOfBuys(s, q) >= 0
           \/ \A q \in i[1] .. i[2] : LeadOfBuys(s, q) <= 0
<1> DEFINE sign == Sign(s.perp.netQty)
           d == netDeltaWad(s)
           w == orderDeltaWad(s).buy - orderDeltaWad(s).sell
           M == MiddleDelta(s)
           c == sign * (d - M)
           e == sign * (2 * d + w)
           r == MiddleRoot(s)
<1>1. /\ sign = 1 \/ sign = -1
      /\ d \in Int /\ w \in Int /\ sign \in Int
    <2>1. orderDeltaWad(s).buy \in Int /\ orderDeltaWad(s).sell \in Int /\ d \in Int
        BY SnapshotSums
    <2> QED
        BY <2>1 DEF Sign
<1>2. PICK n \in Int : 2 * d + w = LIFT * n
    BY DeltasScaled
<1>3. M \in Int /\ -w - 1 <= 2 * M /\ 2 * M <= -w + 1
    <2> DEFINE v == orderDeltaWad(s).sell - orderDeltaWad(s).buy
               two == 2
    <2>1. v \in Int /\ v = -w
        BY SnapshotSums
    <2>2. two \in Nat \ {0} /\ two = 2 /\ M = Quotient(v, two)
        BY DEF MiddleDelta
    <2> HIDE DEF v, two, M, w
    <2>3. /\ Quotient(v, two) \in Int /\ two * Quotient(v, two) < v + two
          /\ v - two < two * Quotient(v, two)
        BY <2>1, <2>2, QuotientBounds
    <2>4. M \in Int /\ two * M < v + two /\ v - two < two * M
        BY <2>2, <2>3
    <2> HIDE DEF two
    <2> QED
        BY <1>1, <2>1, <2>2, <2>4
<1>4. r = Quotient(c, LIFT)
    BY Zenon DEF MiddleRoot
<1>5. i[1] \in Nat /\ i[2] \in Nat
    <2>1. i[1] \in perpCloseKinks(s, P) /\ i[2] \in perpCloseKinks(s, P)
        BY DEF Intervals
    <2>2. \A k \in 0 .. Magnitude(s.perp.netQty) : k \in Nat
        BY NumberTypes DEF Snapshot
    <2> QED
        BY <2>1, <2>2, KinksWithin
<1>6. c \in Int /\ e = LIFT * (sign * n) /\ sign * n \in Int
      /\ 2 * c - 1 <= e /\ e <= 2 * c + 1
    <2>1. sign * n \in Int
        BY <1>1, <1>2, ProductType
    <2>2. e = LIFT * (sign * n)
        BY <1>1, <1>2, UnitFacts, Z3
    <2> HIDE DEF d, w, M, sign
    <2>3. CASE sign = 1
        BY <1>1, <1>3, <2>1, <2>2, <2>3
    <2>4. CASE sign = -1
        BY <1>1, <1>3, <2>1, <2>2, <2>4
    <2> QED
        BY <1>1, <2>3, <2>4
<1>7. r \in Int
    BY <1>4, <1>6, NumberTypes, UnitFacts
<1>8. i[2] <= r \/ r + 1 <= i[1]
    BY <1>7, TurnsMarked, RootOutside
<1>9. ASSUME NEW q \in i[1] .. i[2]
      PROVE  /\ q <= r /\ c >= 0 => e - 2 * (LIFT * q) >= 0
             /\ q >= r + 1 \/ c < 0 => e - 2 * (LIFT * q) <= 0
             /\ e - 2 * (LIFT * q) = sign * LeadOfBuys(s, q)
             /\ LeadOfBuys(s, q) \in Int /\ q \in Nat
    <2>1. q \in Nat
        BY <1>5
    <2> DEFINE m == sign * n
    <2>2. /\ q <= Quotient(c, LIFT) /\ c >= 0 => e - 2 * (LIFT * q) >= 0
          /\ q >= Quotient(c, LIFT) + 1 \/ c < 0 => e - 2 * (LIFT * q) <= 0
        <3>1. m \in Int /\ e = LIFT * m
            BY <1>6
        <3> HIDE DEF m, c, e
        <3> QED
            BY <1>6, <2>1, <3>1, UnitFacts, SideOfMiddle
    <2>3. LeadOfBuys(s, q) = 2 * ((-(LIFT * sign)) * q + d) + w
        BY DEF LeadOfBuys, NetAfter
    <2> HIDE DEF d, w, sign
    <2>4. sign * (2 * ((-(LIFT * sign)) * q + d) + w) = sign * (2 * d + w) - 2 * (LIFT * q)
        <3>1. CASE sign = 1
            BY <1>1, <2>1, <3>1, UnitFacts, Z3
        <3>2. CASE sign = -1
            BY <1>1, <2>1, <3>2, UnitFacts, Z3
        <3> QED
            BY <1>1, <3>1, <3>2
    <2>5. LeadOfBuys(s, q) \in Int
        <3>1. (-(LIFT * sign)) * q \in Int
            BY <1>1, <2>1, UnitFacts, Z3
        <3> QED
            BY <1>1, <2>3, <3>1
    <2> QED
        BY <1>4, <2>1, <2>2, <2>3, <2>4, <2>5
<1> DEFINE side(q) == e - 2 * (LIFT * q)
<1>10. \/ \A q \in i[1] .. i[2] : side(q) >= 0
       \/ \A q \in i[1] .. i[2] : side(q) <= 0
    <2> HIDE DEF side, c, e, r
    <2>1. ASSUME NEW q \in i[1] .. i[2]
          PROVE  /\ (q <= r /\ c >= 0) => side(q) >= 0
                 /\ (q >= r + 1 \/ c < 0) => side(q) <= 0
        BY <1>9 DEF side
    <2>2. CASE c < 0
        BY <2>1, <2>2
    <2>3. CASE c >= 0 /\ i[2] <= r
        <3>1. \A q \in i[1] .. i[2] : q <= r
            BY <1>5, <1>7, <2>3
        <3> QED
            BY <2>1, <2>3, <3>1
    <2>4. CASE r + 1 <= i[1]
        <3>1. \A q \in i[1] .. i[2] : q >= r + 1
            BY <1>5, <1>7, <2>4
        <3> QED
            BY <2>1, <3>1
    <2> QED
        BY <1>6, <1>8, <2>2, <2>3, <2>4
<1>11. ASSUME NEW q \in i[1] .. i[2]
       PROVE  /\ side(q) = sign * LeadOfBuys(s, q) /\ LeadOfBuys(s, q) \in Int
    BY <1>9
<1> HIDE DEF side, sign
<1>12. ASSUME NEW q \in i[1] .. i[2]
       PROVE  /\ sign = 1 => side(q) = LeadOfBuys(s, q)
              /\ sign = -1 => side(q) = -LeadOfBuys(s, q)
              /\ LeadOfBuys(s, q) \in Int
    BY <1>11
<1>13. CASE sign = 1
    BY <1>10, <1>12, <1>13
<1>14. CASE sign = -1
    <2>1. ASSUME NEW q \in i[1] .. i[2]
          PROVE  (side(q) >= 0 => LeadOfBuys(s, q) <= 0) /\ (side(q) <= 0 => LeadOfBuys(s, q) >= 0)
        BY <1>12, <1>14
    <2> QED
        BY <1>10, <2>1
<1> QED
    BY <1>1, <1>13, <1>14

LEMMA StressGrows ==
    ASSUME NEW x \in Int, NEW y \in Int, Magnitude(x) <= Magnitude(y),
           NEW shock \in Nat, NEW P \in Nat
    PROVE  stressLoss(x, shock, P) <= stressLoss(y, shock, P)
<1> DEFINE m == Magnitude(x)
           n == Magnitude(y)
           w == WAD * WAD
<1>1. m \in Nat /\ n \in Nat /\ m <= n
    BY NumberTypes
<1>2. w \in Nat \ {0}
    BY UnitFacts, Z3
<1>3. /\ stressLoss(x, shock, P) = (m * shock * P) \div w
      /\ stressLoss(y, shock, P) = (n * shock * P) \div w
      /\ m * shock * P \in Nat /\ n * shock * P \in Nat
    BY StressIs
<1> HIDE DEF m, n, w
<1>4. m * shock * P <= n * shock * P
    <2>1. m * shock <= n * shock /\ m * shock \in Nat /\ n * shock \in Nat
        BY <1>1, TimesMonotone
    <2> QED
        BY <2>1, TimesMonotone
<1> QED
    BY <1>2, <1>3, <1>4, DivMonotone

LEMMA WorseLegAfter ==
    ASSUME NEW s \in Snapshot, NEW P \in Nat, NEW isIM \in BOOLEAN,
           NEW q \in 0 .. Magnitude(s.perp.netQty), NEW shock, shock = ShockOf(Params, isIM).spot,
           NEW D, D = NetAfter(s, q) + orderDeltaWad(s).buy,
           NEW E, E = NetAfter(s, q) - orderDeltaWad(s).sell
    PROVE  /\ shock \in Nat /\ D \in Int /\ E \in Int
           /\ LeadOfBuys(s, q) >= 0
                => D >= 0 /\ CloseStress(s, P, isIM, q) = stressLoss(D, shock, P)
           /\ LeadOfBuys(s, q) <= 0
                => E <= 0 /\ CloseStress(s, P, isIM, q) = stressLoss(E, shock, P)
<1> DEFINE net == NetAfter(s, q)
           buy == orderDeltaWad(s).buy
           sell == orderDeltaWad(s).sell
           lead == LeadOfBuys(s, q)
           stress == CloseStress(s, P, isIM, q)
<1>1. net \in Int /\ shock \in Nat /\ buy \in Nat /\ sell \in Nat
    BY CloseStressIs, DeltasScaled
<1>2. stress = Larger(stressLoss(D, shock, P), stressLoss(E, shock, P))
    BY CloseStressIs
<1>3. lead = 2 * net + (buy - sell) /\ D = net + buy /\ E = net - sell
    BY DEF LeadOfBuys
<1> HIDE DEF net, buy, sell, lead, stress
<1>4. D \in Int /\ E \in Int
    BY <1>1, <1>3
<1>5. stressLoss(D, shock, P) \in Int /\ stressLoss(E, shock, P) \in Int
    <2>1. ASSUME NEW d \in Int PROVE stressLoss(d, shock, P) \in Nat
        BY <1>1, StressIs
    <2> QED
        BY <1>4, <2>1
<1>6. lead >= 0 => D >= 0 /\ stress = stressLoss(D, shock, P)
    <2> SUFFICES ASSUME lead >= 0
                 PROVE  D >= 0 /\ stress = stressLoss(D, shock, P)
        OBVIOUS
    <2>1. D >= 0 /\ Magnitude(E) <= Magnitude(D)
        BY <1>1, <1>3 DEF Magnitude
    <2>2. stressLoss(E, shock, P) <= stressLoss(D, shock, P)
        BY <1>1, <1>4, <2>1, StressGrows
    <2> QED
        BY <1>2, <1>5, <2>1, <2>2 DEF Larger
<1>7. lead <= 0 => E <= 0 /\ stress = stressLoss(E, shock, P)
    <2> SUFFICES ASSUME lead <= 0
                 PROVE  E <= 0 /\ stress = stressLoss(E, shock, P)
        OBVIOUS
    <2>1. E <= 0 /\ Magnitude(D) <= Magnitude(E)
        BY <1>1, <1>3 DEF Magnitude
    <2>2. stressLoss(D, shock, P) <= stressLoss(E, shock, P)
        BY <1>1, <1>4, <2>1, StressGrows
    <2> QED
        BY <1>2, <1>5, <2>1, <2>2 DEF Larger
<1> QED
    BY <1>1, <1>4, <1>6, <1>7 DEF lead, stress

\* The stress of deltas of one sign, from below.
LEMMA StressAlongDown ==
    ASSUME NEW a, NEW b, Weights(a, b), NEW x \in Int, NEW y \in Int, NEW z \in Int,
           Under(a, b, x, y, z, 0), Under(a, b, -x, -y, -z, 0),
           (x >= 0 /\ y >= 0 /\ z >= 0) \/ (x <= 0 /\ y <= 0 /\ z <= 0),
           NEW shock \in Nat, NEW P \in Nat
    PROVE  Under(a, b, -stressLoss(x, shock, P), -stressLoss(y, shock, P),
                 -stressLoss(z, shock, P), a + b - 1)
<1> DEFINE c == shock * P
           w == WAD * WAD
           less(d) == -Magnitude(d)
           at(d) == less(d) * c
<1>1. c \in Nat /\ w \in Nat \ {0}
    <2>1. w \in Nat \ {0}
        BY UnitFacts, Z3
    <2> QED
        BY <2>1, NumberTypes
<1>2. ASSUME NEW d \in Int
      PROVE  /\ less(d) \in Int /\ at(d) \in Int /\ at(d) <= 0
             /\ -stressLoss(d, shock, P) = Quotient(at(d), w)
             /\ d >= 0 => less(d) = -d
             /\ d <= 0 => less(d) = d
    <2> DEFINE m == Magnitude(d)
               n == m * shock * P
    <2>1. m \in Nat /\ (d >= 0 => m = d) /\ (d <= 0 => m = -d)
        BY DEF Magnitude
    <2>2. n \in Nat /\ stressLoss(d, shock, P) = n \div w
        BY StressIs
    <2> HIDE DEF m, w
    <2>3. at(d) = -n
        <3>1. (-m) * (shock * P) = -(m * shock * P)
            BY <2>1, Z3
        <3> QED
            BY <3>1 DEF m
    <2> HIDE DEF n
    <2>4. Quotient(-n, w) = -(n \div w)
        <3>1. n \in Int
            BY <2>2
        <3>2. Quotient(-n, w) = -Quotient(n, w)
            BY <1>1, <3>1, QuotientBounds
        <3>3. Quotient(n, w) = n \div w
            BY <2>2 DEF Quotient
        <3> QED
            BY <3>2, <3>3
    <2>5. less(d) = -m
        BY DEF m
    <2> HIDE DEF at, less
    <2> QED
        BY <2>1, <2>2, <2>3, <2>4, <2>5
<1>3. Under(a, b, less(x), less(y), less(z), 0)
    <2>1. CASE x >= 0 /\ y >= 0 /\ z >= 0
        <3>1. less(x) = -x /\ less(y) = -y /\ less(z) = -z
            BY <1>2, <2>1
        <3> QED
            BY <3>1
    <2>2. CASE x <= 0 /\ y <= 0 /\ z <= 0
        <3>1. less(x) = x /\ less(y) = y /\ less(z) = z
            BY <1>2, <2>2
        <3> QED
            BY <3>1
    <2> QED
        BY <2>1, <2>2
<1>4. Under(a, b, at(x), at(y), at(z), 0)
    <2> DEFINE X == less(x)
               Y == less(y)
               Z == less(z)
    <2>1. X \in Int /\ Y \in Int /\ Z \in Int /\ Under(a, b, X, Y, Z, 0)
        BY <1>2, <1>3
    <2>2. at(x) = X * c /\ at(y) = Y * c /\ at(z) = Z * c
        OBVIOUS
    <2> HIDE DEF X, Y, Z, at, c
    <2> QED
        BY <1>1, <2>1, <2>2, UnderScaled
<1> HIDE DEF at, less, c, w
<1>5. Under(a, b, Quotient(at(x), w), Quotient(at(y), w), Quotient(at(z), w), a + b - 1)
    BY <1>1, <1>2, <1>4, UnderSameSign
<1> QED
    BY <1>2, <1>5

LEMMA CloseStressLine ==
    ASSUME LIFT > 1, NEW s \in Snapshot, NEW P \in Nat, NEW isIM \in BOOLEAN,
           NEW i \in Intervals(perpCloseKinks(s, P)),
           NEW x \in i[1] .. i[2], NEW y \in i[1] .. i[2], NEW z \in i[1] .. i[2],
           x < y, y < z, NEW a, a = z - y, NEW b, b = y - x
    PROVE  Under(a, b, -CloseStress(s, P, isIM, x), -CloseStress(s, P, isIM, y),
                 -CloseStress(s, P, isIM, z), a + b - 1)
<1> DEFINE whole == Magnitude(s.perp.netQty)
           shock == ShockOf(Params, isIM).spot
           k == -(LIFT * Sign(s.perp.netQty))
           c == netDeltaWad(s)
           buy == orderDeltaWad(s).buy
           sell == orderDeltaWad(s).sell
           loss(d) == stressLoss(d, shock, P)
           stress(q) == CloseStress(s, P, isIM, q)
<1>0. /\ i[1] \in Nat /\ i[2] \in Nat /\ i[2] <= whole
      /\ i[1] .. i[2] \subseteq 0 .. whole
    <2>1. i[1] \in perpCloseKinks(s, P) /\ i[2] \in perpCloseKinks(s, P)
        BY DEF Intervals
    <2>2. whole \in Nat
        BY NumberTypes DEF Snapshot
    <2> HIDE DEF whole
    <2>3. \A n \in 0 .. whole : n \in Nat /\ n <= whole
        BY <2>2
    <2>4. i[1] \in Nat /\ i[2] \in Nat /\ i[2] <= whole
        BY <2>1, <2>3, KinksWithin DEF whole
    <2> QED
        BY <2>2, <2>4
<1>1. /\ x \in Int /\ y \in Int /\ z \in Int /\ i[1] + 2 <= i[2]
    BY <1>0
<1>2. Weights(a, b) /\ (a + b) * y = a * x + b * z /\ a \in Int /\ b \in Int
    BY <1>1, Divided
<1>3. k \in Int /\ c \in Int /\ buy \in Int /\ sell \in Int
    <2>1. Sign(s.perp.netQty) \in Int
        BY NumberTypes DEF Snapshot
    <2>2. LIFT * Sign(s.perp.netQty) \in Int
        BY <2>1, ProductType, UnitFacts
    <2> QED
        BY <2>2, SnapshotSums
<1>4. ASSUME NEW q \in {x, y, z}
      PROVE  \E D \in Int, E \in Int :
                /\ shock \in Nat
                /\ D = k * q + (c + buy) /\ E = k * q + (c - sell)
                /\ LeadOfBuys(s, q) >= 0 => D >= 0 /\ stress(q) = loss(D)
                /\ LeadOfBuys(s, q) <= 0 => E <= 0 /\ stress(q) = loss(E)
    <2> DEFINE D == NetAfter(s, q) + buy
               E == NetAfter(s, q) - sell
    <2>1. q \in 0 .. whole /\ q \in Int
        BY <1>0, <1>1
    <2>2. /\ shock \in Nat /\ D \in Int /\ E \in Int
          /\ LeadOfBuys(s, q) >= 0 => D >= 0 /\ stress(q) = loss(D)
          /\ LeadOfBuys(s, q) <= 0 => E <= 0 /\ stress(q) = loss(E)
        BY <2>1, WorseLegAfter
    <2>3. D = k * q + (c + buy) /\ E = k * q + (c - sell)
        <3>1. NetAfter(s, q) = k * q + c
            BY DEF NetAfter
        <3>2. k * q \in Int
            BY <1>3, <2>1, ProductType
        <3> HIDE DEF k, c, buy, sell
        <3> QED
            BY <1>3, <3>1, <3>2
    <2> QED
        BY <2>2, <2>3
<1>5. \/ \A q \in i[1] .. i[2] : LeadOfBuys(s, q) >= 0
      \/ \A q \in i[1] .. i[2] : LeadOfBuys(s, q) <= 0
    BY <1>1, LeadKept
<1> HIDE DEF k, c, buy, sell, shock, whole
<1>6. ASSUME NEW m \in Int, NEW u \in Int, u = k * x + m, NEW v \in Int, v = k * y + m,
             NEW w \in Int, w = k * z + m,
             (u >= 0 /\ v >= 0 /\ w >= 0) \/ (u <= 0 /\ v <= 0 /\ w <= 0)
      PROVE  Under(a, b, -loss(u), -loss(v), -loss(w), a + b - 1)
    <2>1. Under(a, b, u, v, w, 0) /\ Under(a, b, -u, -v, -w, 0)
        BY <1>1, <1>2, <1>3, <1>6, UnderLine
    <2>2. shock \in Nat
        BY <1>4
    <2> QED
        BY <1>2, <1>6, <2>1, <2>2, StressAlongDown
<1> HIDE DEF loss, stress
<1>7. CASE \A q \in i[1] .. i[2] : LeadOfBuys(s, q) >= 0
    <2>1. ASSUME NEW q \in {x, y, z}
          PROVE  \E D \in Int : D = k * q + (c + buy) /\ D >= 0 /\ stress(q) = loss(D)
        BY <1>4, <1>7
    <2>2. PICK u \in Int : u = k * x + (c + buy) /\ u >= 0 /\ stress(x) = loss(u)
        BY <2>1
    <2>3. PICK v \in Int : v = k * y + (c + buy) /\ v >= 0 /\ stress(y) = loss(v)
        BY <2>1
    <2>4. PICK w \in Int : w = k * z + (c + buy) /\ w >= 0 /\ stress(z) = loss(w)
        BY <2>1
    <2>5. c + buy \in Int
        BY <1>3
    <2>6. Under(a, b, -loss(u), -loss(v), -loss(w), a + b - 1)
        BY <1>6, <2>2, <2>3, <2>4, <2>5
    <2> QED
        BY <2>2, <2>3, <2>4, <2>6 DEF stress
<1>8. CASE \A q \in i[1] .. i[2] : LeadOfBuys(s, q) <= 0
    <2>1. ASSUME NEW q \in {x, y, z}
          PROVE  \E E \in Int : E = k * q + (c - sell) /\ E <= 0 /\ stress(q) = loss(E)
        BY <1>4, <1>8
    <2>2. PICK u \in Int : u = k * x + (c - sell) /\ u <= 0 /\ stress(x) = loss(u)
        BY <2>1
    <2>3. PICK v \in Int : v = k * y + (c - sell) /\ v <= 0 /\ stress(y) = loss(v)
        BY <2>1
    <2>4. PICK w \in Int : w = k * z + (c - sell) /\ w <= 0 /\ stress(z) = loss(w)
        BY <2>1
    <2>5. c - sell \in Int
        BY <1>3
    <2>6. Under(a, b, -loss(u), -loss(v), -loss(w), a + b - 1)
        BY <1>6, <2>2, <2>3, <2>4, <2>5
    <2> QED
        BY <2>2, <2>3, <2>4, <2>6 DEF stress
<1> QED
    BY <1>5, <1>7, <1>8

\* The sign of a profit survives its division, and turns at its root.
LEMMA ProfitSide ==
    ASSUME NEW k \in Int, NEW whole \in Nat, NEW F \in Int, NEW q \in 0 .. whole,
           NEW B, B = Quotient(k * (whole - q), Unit),
           NEW v, v = k * whole + F * Unit
    PROVE  /\ B \in Int
           /\ k = 0 => B = 0
           /\ k # 0 => /\ floorDiv(v, k) \in Int
                       /\ (k > 0 /\ q <= floorDiv(v, k)) \/ (k < 0 /\ q >= floorDiv(v, k) + 1)
                             => B + F >= 0
                       /\ (k > 0 /\ q >= floorDiv(v, k) + 1) \/ (k < 0 /\ q <= floorDiv(v, k))
                             => B + F <= 0
<1> DEFINE n == k * (whole - q)
<1>0. q \in Nat /\ whole - q \in Nat /\ Unit \in Nat \ {0}
    BY UnitFacts
<1>1. n \in Int /\ v \in Int /\ n + F * Unit = v - k * q /\ k * q \in Int /\ F * Unit \in Int
    <2>1. k * (whole - q) + F * Unit = (k * whole + F * Unit) - k * q
        BY <1>0, Z3
    <2>2. n \in Int /\ k * whole \in Int /\ k * q \in Int /\ F * Unit \in Int
        BY <1>0, ProductType
    <2> QED
        BY <2>1, <2>2
<1>2. B = Quotient(n, Unit)
    OBVIOUS
<1>3. k = 0 => n = 0
    BY <1>0, Z3
<1> HIDE DEF n
<1>4. /\ B \in Int /\ Unit * B \in Int /\ Unit * B < n + Unit /\ n - Unit < Unit * B
    BY <1>0, <1>1, <1>2, QuotientBounds
<1>5. ASSUME NEW i \in Int, NEW j \in Int, Unit * i < Unit * j PROVE i < j
    BY <1>0, <1>5, Z3
<1>6. Unit * (B + F) = Unit * B + F * Unit
    BY <1>0, <1>4, Z3
<1>7. n + F * Unit >= 0 => B + F >= 0
    <2> SUFFICES ASSUME n + F * Unit >= 0 PROVE B + F >= 0
        OBVIOUS
    <2>1. Unit * (-1) < Unit * (B + F)
        BY <1>0, <1>1, <1>4, <1>6
    <2> QED
        BY <1>4, <1>5, <2>1
<1>8. n + F * Unit <= 0 => B + F <= 0
    <2> SUFFICES ASSUME n + F * Unit <= 0 PROVE B + F <= 0
        OBVIOUS
    <2>1. Unit * (B + F) < Unit * 1
        BY <1>0, <1>1, <1>4, <1>6
    <2> QED
        BY <1>4, <1>5, <2>1
<1>9. k = 0 => B = 0
    <2> SUFFICES ASSUME k = 0 PROVE B = 0
        OBVIOUS
    <2>1. n = 0
        BY <1>3
    <2>2. Unit * (-1) < Unit * B /\ Unit * B < Unit * 1
        BY <1>0, <1>4, <2>1
    <2> QED
        BY <1>4, <1>5, <2>2
<1> DEFINE r == floorDiv(v, k)
<1>10. CASE k > 0
    <2>1. ASSUME NEW m \in Int, NEW d \in Nat \ {0}
          PROVE  m \div d \in Int /\ d * (m \div d) <= m /\ m < d * (m \div d) + d
                 /\ d * (m \div d) \in Int
        BY Z3
    <2>2. k \in Nat \ {0} /\ r = v \div k
        BY <1>10 DEF floorDiv
    <2> HIDE DEF r
    <2>3. r \in Int /\ k * r \in Int /\ k * r <= v /\ v < k * r + k
        BY <1>1, <2>1, <2>2
    <2>4. q <= r => k * q <= v
        <3> SUFFICES ASSUME q <= r PROVE k * q <= v
            OBVIOUS
        <3>1. k * q <= k * r
            BY <1>0, <2>2, <2>3, Z3
        <3> QED
            BY <1>1, <2>3, <3>1
    <2>5. q >= r + 1 => k * q >= v
        <3> SUFFICES ASSUME q >= r + 1 PROVE k * q >= v
            OBVIOUS
        <3>1. k * (r + 1) <= k * q
            BY <1>0, <2>2, <2>3, Z3
        <3>2. k * (r + 1) = k * r + k
            BY <2>3, Z3
        <3> QED
            BY <1>1, <2>3, <3>1, <3>2
    <2>6. (q <= r => B + F >= 0) /\ (q >= r + 1 => B + F <= 0)
        BY <1>1, <1>7, <1>8, <2>4, <2>5
    <2> QED
        BY <1>4, <1>10, <2>3, <2>6 DEF r
<1>11. CASE k < 0
    <2>1. ASSUME NEW m \in Int, NEW d \in Nat \ {0}
          PROVE  m \div d \in Int /\ d * (m \div d) <= m /\ m < d * (m \div d) + d
                 /\ d * (m \div d) \in Int
        BY Z3
    <2> DEFINE d == -k
               w == -v
    <2>2. d \in Nat \ {0} /\ r = w \div d /\ w \in Int
        BY <1>1, <1>11 DEF floorDiv
    <2>0. k = -d /\ v = -w
        BY <1>1
    <2> HIDE DEF r, d, w
    <2>3. r \in Int /\ d * r \in Int /\ d * r <= w /\ w < d * r + d
        BY <2>1, <2>2
    <2>4. d * q \in Int /\ k * q = -(d * q)
        <3>1. (-d) * q = -(d * q)
            BY <1>0, <2>2, Z3
        <3>2. d * q \in Int
            BY <1>0, <2>2, ProductType
        <3> QED
            BY <2>0, <3>1, <3>2
    <2>5. q <= r => d * q <= w
        <3> SUFFICES ASSUME q <= r PROVE d * q <= w
            OBVIOUS
        <3>1. d * q <= d * r
            BY <1>0, <2>2, <2>3, Z3
        <3> QED
            BY <2>2, <2>3, <2>4, <3>1
    <2>6. q >= r + 1 => d * q >= w
        <3> SUFFICES ASSUME q >= r + 1 PROVE d * q >= w
            OBVIOUS
        <3>1. d * (r + 1) <= d * q
            BY <1>0, <2>2, <2>3, Z3
        <3>2. d * (r + 1) = d * r + d
            BY <2>2, <2>3, Z3
        <3> QED
            BY <2>2, <2>3, <2>4, <3>1, <3>2
    <2>7. (q <= r => B + F <= 0) /\ (q >= r + 1 => B + F >= 0)
        BY <1>1, <1>7, <1>8, <2>0, <2>2, <2>4, <2>5, <2>6
    <2> QED
        BY <1>4, <1>11, <2>3, <2>7 DEF r
<1> HIDE DEF r
<1> QED
    BY <1>4, <1>9, <1>10, <1>11 DEF r

LEMMA IntervalInside ==
    ASSUME NEW s \in Snapshot, NEW P \in Nat, NEW i \in Intervals(perpCloseKinks(s, P))
    PROVE  /\ i[1] \in Nat /\ i[2] \in Nat /\ i[1] < i[2] /\ i[2] <= Magnitude(s.perp.netQty)
           /\ i[1] .. i[2] \subseteq 0 .. Magnitude(s.perp.netQty)
<1> DEFINE whole == Magnitude(s.perp.netQty)
<1>1. i[1] \in perpCloseKinks(s, P) /\ i[2] \in perpCloseKinks(s, P) /\ i[1] < i[2]
    BY DEF Intervals
<1>2. whole \in Nat
    BY NumberTypes DEF Snapshot
<1> HIDE DEF whole
<1>3. \A n \in 0 .. whole : n \in Nat /\ n <= whole
    BY <1>2
<1>4. i[1] \in Nat /\ i[2] \in Nat /\ i[2] <= whole
    BY <1>1, <1>3, KinksWithin DEF whole
<1>5. i[1] .. i[2] \subseteq 0 .. whole
    BY <1>2, <1>4
<1> QED
    BY <1>1, <1>4, <1>5 DEF whole

LEMMA ProfitKept ==
    ASSUME NEW s \in Snapshot, NEW P \in Nat,
           NEW i \in Intervals(perpCloseKinks(s, P)), i[1] + 2 <= i[2]
    PROVE  \/ \A q \in i[1] .. i[2] : LeftOpen(s, P, q) + futuresUnrealizedPnl(s, P) >= 0
           \/ \A q \in i[1] .. i[2] : LeftOpen(s, P, q) + futuresUnrealizedPnl(s, P) <= 0
<1> DEFINE n == s.perp.netQty
           whole == Magnitude(n)
           sign == Sign(n)
           gap == P - s.perp.entryPrice
           k == Slope(s, P)
           F == futuresUnrealizedPnl(s, P)
           v == k * whole + F * Unit
           r == ProfitRoot(s, P)
<1>1. /\ n \in Int /\ F \in Int /\ gap \in Int
    BY SnapshotSums
<1>2. /\ sign = 1 \/ sign = -1
      /\ sign \in Int /\ whole \in Nat /\ n = sign * whole
    BY <1>1 DEF Sign, Magnitude
<1>3. k = gap * sign /\ r = floorDiv(gap * n + F * Unit, gap * sign)
    BY Zenon DEF Slope, ProfitRoot
<1>4. ASSUME NEW q \in i[1] .. i[2]
      PROVE  q \in 0 .. whole /\ LeftOpen(s, P, q) = Quotient(k * (whole - q), Unit)
    <2>1. q \in 0 .. whole
        BY IntervalInside
    <2>2. LeftOpen(s, P, q) = Quotient(k * (whole - q), Unit)
        BY Zenon DEF LeftOpen, Remaining
    <2> QED
        BY <2>1, <2>2
<1>5. i[1] \in Nat /\ i[2] \in Nat
    BY IntervalInside
<1>6. gap # 0 => Marked(s, P, r)
    BY TurnsMarked
<1> DEFINE left == [q \in i[1] .. i[2] |-> LeftOpen(s, P, q) + F]
<1> HIDE DEF n, whole, sign, gap, k, F, r
<1>7. /\ k \in Int /\ v \in Int /\ (gap = 0 <=> k = 0) /\ r = floorDiv(v, k)
    <2>1. k \in Int /\ k * whole \in Int /\ F * Unit \in Int
        <3>1. k \in Int
            BY <1>1, <1>2, <1>3, ProductType
        <3> QED
            BY <1>1, <1>2, <3>1, ProductType, UnitFacts
    <2>2. gap * n = k * whole
        BY <1>1, <1>2, <1>3, Z3
    <2>3. gap = 0 <=> k = 0
        BY <1>1, <1>2, <1>3
    <2>4. r = floorDiv(v, k)
        BY <1>3, <2>2
    <2> QED
        BY <2>1, <2>3, <2>4
<1> HIDE DEF v
<1>8. ASSUME NEW q \in i[1] .. i[2]
      PROVE  /\ LeftOpen(s, P, q) \in Int
             /\ k = 0 => LeftOpen(s, P, q) = 0
             /\ k # 0 => /\ r \in Int
                         /\ (k > 0 /\ q <= r) \/ (k < 0 /\ q >= r + 1)
                              => LeftOpen(s, P, q) + F >= 0
                         /\ (k > 0 /\ q >= r + 1) \/ (k < 0 /\ q <= r)
                              => LeftOpen(s, P, q) + F <= 0
    <2> DEFINE B == LeftOpen(s, P, q)
    <2>1. q \in 0 .. whole /\ B = Quotient(k * (whole - q), Unit) /\ v = k * whole + F * Unit
        BY <1>4 DEF v
    <2> HIDE DEF B
    <2>2. /\ B \in Int
          /\ k = 0 => B = 0
          /\ k # 0 => /\ floorDiv(v, k) \in Int
                      /\ (k > 0 /\ q <= floorDiv(v, k)) \/ (k < 0 /\ q >= floorDiv(v, k) + 1)
                            => B + F >= 0
                      /\ (k > 0 /\ q >= floorDiv(v, k) + 1) \/ (k < 0 /\ q <= floorDiv(v, k))
                            => B + F <= 0
        BY <1>1, <1>2, <1>7, <2>1, ProfitSide
    <2> QED
        BY <1>7, <2>2 DEF B
<1>9. ASSUME NEW q \in i[1] .. i[2]
      PROVE  /\ left[q] \in Int
             /\ k = 0 => left[q] = F
             /\ k # 0 => /\ r \in Int
                         /\ (k > 0 /\ q <= r) \/ (k < 0 /\ q >= r + 1) => left[q] >= 0
                         /\ (k > 0 /\ q >= r + 1) \/ (k < 0 /\ q <= r) => left[q] <= 0
    <2>1. left[q] = LeftOpen(s, P, q) + F
        OBVIOUS
    <2> HIDE DEF left
    <2> QED
        BY <1>1, <1>8, <2>1
<1>10. (\A q \in i[1] .. i[2] : left[q] >= 0) \/ (\A q \in i[1] .. i[2] : left[q] <= 0)
    <2> HIDE DEF left
    <2>1. CASE k = 0
        BY <1>1, <1>9, <2>1
    <2>2. CASE k # 0
        <3>1. i[1] \in i[1] .. i[2]
            BY <1>5
        <3>2. r \in Int
            BY <1>9, <2>2, <3>1
        <3>3. i[2] <= r \/ r + 1 <= i[1]
            BY <1>6, <1>7, <2>2, <3>2, RootOutside
        <3>4. (\A q \in i[1] .. i[2] : q <= r) \/ (\A q \in i[1] .. i[2] : q >= r + 1)
            BY <1>5, <3>2, <3>3
        <3>5. k > 0 \/ k < 0
            BY <1>7, <2>2
        <3> QED
            BY <1>9, <2>2, <3>4, <3>5
    <2> QED
        BY <2>1, <2>2
<1> QED
    BY <1>10 DEF left, F

\* What is left of the maintenance loss, from below.
LEMMA LossLeftLine ==
    ASSUME NEW s \in Snapshot, NEW P \in Nat,
           NEW i \in Intervals(perpCloseKinks(s, P)),
           NEW x \in i[1] .. i[2], NEW y \in i[1] .. i[2], NEW z \in i[1] .. i[2],
           x < y, y < z, NEW a, a = z - y, NEW b, b = y - x
    PROVE  Under(a, b, -LossLeft(s, P, FALSE, x), -LossLeft(s, P, FALSE, y),
                 -LossLeft(s, P, FALSE, z), a + b)
<1> DEFINE whole == Magnitude(s.perp.netQty)
           F == futuresUnrealizedPnl(s, P)
           A == [q \in {x, y, z} |-> Realized(s, P, q)]
           B == [q \in {x, y, z} |-> LeftOpen(s, P, q)]
           L == [q \in {x, y, z} |-> LossLeft(s, P, FALSE, q)]
<1>0. /\ x \in Int /\ y \in Int /\ z \in Int /\ i[1] + 2 <= i[2]
      /\ x \in 0 .. whole /\ y \in 0 .. whole /\ z \in 0 .. whole
    <2>1. i[1] \in Nat /\ i[2] \in Nat /\ i[1] .. i[2] \subseteq 0 .. whole
        BY IntervalInside
    <2> HIDE DEF whole
    <2> QED
        BY <2>1
<1>1. Weights(a, b) /\ a \in Int /\ b \in Int
    BY <1>0, Divided
<1>2. F \in Int
    BY SnapshotSums
<1>3. ASSUME NEW q \in {x, y, z}
      PROVE  A[q] \in Int /\ B[q] \in Int /\ L[q] = NonNegative(-(B[q] + F)) - A[q]
    <2>1. q \in 0 .. whole
        BY <1>0
    <2>2. Realized(s, P, q) \in Int /\ LeftOpen(s, P, q) \in Int
        BY <2>1, CloseTypes DEF Realized, LeftOpen
    <2>3. LossLeft(s, P, FALSE, q)
            = NonNegative(-(LeftOpen(s, P, q) + F)) - Realized(s, P, q)
        BY DEF LossLeft, lossOf, Realized, LeftOpen
    <2> QED
        BY <2>2, <2>3
<1>4. /\ Under(a, b, A[x], A[y], A[z], a + b - 1)
      /\ Under(a, b, A[x] + B[x], A[y] + B[y], A[z] + B[z], a + b)
    <2>1. /\ Under(a, b, Realized(s, P, x), Realized(s, P, y), Realized(s, P, z), a + b - 1)
          /\ Under(a, b, Realized(s, P, x) + LeftOpen(s, P, x),
                         Realized(s, P, y) + LeftOpen(s, P, y),
                         Realized(s, P, z) + LeftOpen(s, P, z), a + b)
        BY <1>0, ProfitsUnder
    <2>2. /\ A[x] = Realized(s, P, x) /\ A[y] = Realized(s, P, y) /\ A[z] = Realized(s, P, z)
          /\ B[x] = LeftOpen(s, P, x) /\ B[y] = LeftOpen(s, P, y) /\ B[z] = LeftOpen(s, P, z)
        OBVIOUS
    <2> HIDE DEF A, B
    <2> QED
        BY <2>1, <2>2
<1>5. \/ \A q \in {x, y, z} : B[q] + F >= 0
      \/ \A q \in {x, y, z} : B[q] + F <= 0
    BY <1>0, ProfitKept
<1>6. L[x] = LossLeft(s, P, FALSE, x) /\ L[y] = LossLeft(s, P, FALSE, y)
      /\ L[z] = LossLeft(s, P, FALSE, z)
    OBVIOUS
<1> HIDE DEF A, B, L, F, whole
<1>7. Under(a, b, -L[x], -L[y], -L[z], a + b)
    <2>1. CASE \A q \in {x, y, z} : B[q] + F >= 0
        <3>1. ASSUME NEW q \in {x, y, z} PROVE -L[q] = A[q]
            BY <1>2, <1>3, <2>1 DEF NonNegative
        <3>2. Under(a, b, A[x], A[y], A[z], a + b)
            <4>1. a + b - 1 \in Int /\ a + b \in Int /\ a + b - 1 <= a + b
                BY <1>1
            <4> QED
                BY <1>1, <1>3, <1>4, <4>1, UnderMore
        <3> QED
            BY <3>1, <3>2
    <2>2. CASE \A q \in {x, y, z} : B[q] + F <= 0
        <3>1. ASSUME NEW q \in {x, y, z} PROVE -L[q] = (A[q] + B[q]) + F
            BY <1>2, <1>3, <2>2 DEF NonNegative
        <3> DEFINE X == A[x] + B[x]
                   Y == A[y] + B[y]
                   Z == A[z] + B[z]
        <3>2. X \in Int /\ Y \in Int /\ Z \in Int /\ Under(a, b, X, Y, Z, a + b)
              /\ -L[x] = X + F /\ -L[y] = Y + F /\ -L[z] = Z + F
            BY <1>3, <1>4, <3>1
        <3> HIDE DEF X, Y, Z
        <3>3. Under(a, b, X + F, Y + F, Z + F, a + b)
            <4> DEFINE e == a + b
            <4>1. e \in Int /\ Under(a, b, X, Y, Z, e)
                BY <1>1, <3>2
            <4> HIDE DEF e
            <4>2. Under(a, b, X + F, Y + F, Z + F, e)
                BY <1>1, <1>2, <3>2, <4>1, UnderShift
            <4> QED
                BY <4>2 DEF e
        <3> QED
            BY <3>2, <3>3
    <2> QED
        BY <1>5, <2>1, <2>2
<1> QED
    BY <1>6, <1>7

\* So a close between two that leave the account liquidatable, with no kink between
\* them, leaves it no margin either.
LEMMA NoSurplusBetween ==
    ASSUME LIFT > 1, NEW s \in Snapshot, NEW P \in Nat,
           NEW i \in Intervals(perpCloseKinks(s, P)),
           NEW x \in i[1] .. i[2], NEW y \in i[1] .. i[2], NEW z \in i[1] .. i[2],
           x <= y, y <= z, SurplusAfter(s, P, FALSE, x) < 0, SurplusAfter(s, P, FALSE, z) < 0
    PROVE  SurplusAfter(s, P, FALSE, y) <= 0
<1> DEFINE S == [q \in {x, y, z} |-> SurplusAfter(s, P, FALSE, q)]
           u == [q \in {x, y, z} |-> -CloseStress(s, P, FALSE, q)]
           v == [q \in {x, y, z} |-> -LossLeft(s, P, FALSE, q)]
           U == UntouchedByClose(s, P)
           whole == Magnitude(s.perp.netQty)
<1>0. /\ x \in Int /\ y \in Int /\ z \in Int
      /\ x \in 0 .. whole /\ y \in 0 .. whole /\ z \in 0 .. whole
    <2>1. i[1] \in Nat /\ i[2] \in Nat /\ i[1] .. i[2] \subseteq 0 .. whole
        BY IntervalInside
    <2> HIDE DEF whole
    <2> QED
        BY <2>1
<1>1. ASSUME NEW q \in {x, y, z}
      PROVE  u[q] \in Int /\ v[q] \in Int /\ U \in Int /\ S[q] = U + (u[q] + v[q])
    <2>1. q \in 0 .. whole /\ FALSE \in BOOLEAN
        BY <1>0
    <2> DEFINE isIM == FALSE
    <2>2. isIM \in BOOLEAN
        OBVIOUS
    <2> HIDE DEF isIM
    <2>3. /\ CloseStress(s, P, isIM, q) \in Int /\ LossLeft(s, P, isIM, q) \in Int
          /\ U \in Int /\ SurplusAfter(s, P, isIM, q) = U - CloseCost(s, P, isIM, q)
          /\ CloseCost(s, P, isIM, q) = CloseStress(s, P, isIM, q) + LossLeft(s, P, isIM, q)
        BY <2>1, <2>2, CloseTypes DEF CloseCost
    <2>4. /\ S[q] = SurplusAfter(s, P, isIM, q) /\ u[q] = -CloseStress(s, P, isIM, q)
          /\ v[q] = -LossLeft(s, P, isIM, q)
        BY DEF isIM
    <2> HIDE DEF S, u, v, U
    <2> QED
        BY <2>3, <2>4
<1>2. S[x] < 0 /\ S[z] < 0
    OBVIOUS
<1>3. CASE x < y /\ y < z
    <2> DEFINE a == z - y
               b == y - x
    <2>1. Weights(a, b) /\ a \in Int /\ b \in Int
        BY <1>0, <1>3, Divided
    <2>2. Under(a, b, u[x], u[y], u[z], a + b - 1)
        <3> DEFINE isIM == FALSE
        <3>1. isIM \in BOOLEAN
            OBVIOUS
        <3> HIDE DEF isIM
        <3>2. Under(a, b, -CloseStress(s, P, isIM, x), -CloseStress(s, P, isIM, y),
                    -CloseStress(s, P, isIM, z), a + b - 1)
            BY <1>3, <3>1, CloseStressLine
        <3>3. u[x] = -CloseStress(s, P, isIM, x) /\ u[y] = -CloseStress(s, P, isIM, y)
              /\ u[z] = -CloseStress(s, P, isIM, z)
            BY DEF isIM
        <3> HIDE DEF u
        <3> QED
            BY <3>2, <3>3
    <2>3. Under(a, b, v[x], v[y], v[z], a + b)
        BY <1>3, LossLeftLine
    <2> HIDE DEF S, u, v, U, a, b
    <2> DEFINE e == (a + b - 1) + (a + b)
               two == 2
               X == u[x] + v[x]
               Y == u[y] + v[y]
               Z == u[z] + v[z]
               n == -1 - U
    <2>4. /\ a + b - 1 \in Int /\ a + b \in Int /\ e \in Int /\ e < two * (a + b)
          /\ two \in Int /\ two = 2
        BY <2>1
    <2>5. Under(a, b, X, Y, Z, e)
        BY <1>1, <2>1, <2>2, <2>3, <2>4, UnderSum
    <2>6. X \in Int /\ Y \in Int /\ Z \in Int /\ n \in Int /\ X <= n /\ Z <= n
        BY <1>1, <1>2
    <2>7. S[y] = U + Y /\ U \in Int /\ n = -1 - U
        BY <1>1
    <2> HIDE DEF e, two, X, Y, Z, n
    <2>8. Y < n + two
        BY <2>1, <2>4, <2>5, <2>6, UnderBound
    <2>9. S[y] <= 0
        BY <2>4, <2>6, <2>7, <2>8
    <2> QED
        BY <2>9 DEF S
<1>4. CASE y = x \/ y = z
    <2>1. S[y] < 0 /\ S[y] \in Int
        <3>1. S[y] \in Int
            <4> HIDE DEF S, u, v, U
            <4> QED
                BY <1>1
        <3> HIDE DEF S
        <3> QED
            BY <1>2, <1>4, <3>1
    <2>2. S[y] <= 0
        <3> HIDE DEF S
        <3> QED
            BY <2>1
    <2> QED
        BY <2>2 DEF S
<1> HIDE DEF S, u, v, U
<1>5. (x < y /\ y < z) \/ y = x \/ y = z
    BY <1>0
<1> QED
    BY <1>3, <1>4, <1>5

--------------------------------------------------------------------------------
(* The ranges that the bisections of a close find.                         *)

\* Neighbours between which a goal turns.
Turns(lo, hi, rising, s, P, isIM) ==
    LET beyond(q) == (closeGoal(s, Params, P, isIM, q) >= 0) = rising
    IN  {r \in Nat \X Nat : /\ lo <= r[1] /\ r[2] = r[1] + 1 /\ r[2] <= hi
                            /\ ~beyond(r[1]) /\ beyond(r[2])}

LEMMA EdgeFinds ==
    ASSUME NEW lo \in Nat, NEW hi \in Nat, lo < hi, NEW rising, NEW s, NEW P, NEW isIM,
           ~((closeGoal(s, Params, P, isIM, lo) >= 0) = rising),
           (closeGoal(s, Params, P, isIM, hi) >= 0) = rising
    PROVE  edge(lo, hi, rising, s, Params, P, isIM) \in Turns(lo, hi, rising, s, P, isIM)
<1> DEFINE D == Nat \X Nat
           mid(i) == (i[1] + i[2]) \div 2
           beyond(q) == (closeGoal(s, Params, P, isIM, q) >= 0) = rising
           half(i) == IF beyond(mid(i)) THEN <<i[1], mid(i)>> ELSE <<mid(i), i[2]>>
           Stop == {i \in D : i[2] - i[1] <= 1}
           final == [i \in D |-> i]
           next == [i \in D |-> half(i)]
           m == [i \in D |-> IF i[1] < i[2] THEN i[2] - i[1] ELSE 0]
           Ready(i) == /\ lo <= i[1] /\ i[1] < i[2] /\ i[2] <= hi
                       /\ ~beyond(i[1]) /\ beyond(i[2])
           Found == Turns(lo, hi, rising, s, P, isIM)
           V == [i \in D |-> IF Ready(i) THEN Found ELSE D]
<1>0. Found = {r \in D : /\ lo <= r[1] /\ r[2] = r[1] + 1 /\ r[2] <= hi
                         /\ ~beyond(r[1]) /\ beyond(r[2])}
    BY DEF Turns
<1>1. ASSUME NEW i \in D
      PROVE  i = <<i[1], i[2]>> /\ i[1] \in Nat /\ i[2] \in Nat /\ m[i] \in Nat
             /\ V[i] = (IF Ready(i) THEN Found ELSE D)
    <2> HIDE DEF Ready, Found
    <2> QED
        OBVIOUS
<1> HIDE DEF Found
<1>2. ASSUME NEW i \in D \ Stop
      PROVE  /\ i[1] < mid(i) /\ mid(i) < i[2] /\ mid(i) \in Nat
             /\ half(i) \in D /\ next[i] = half(i)
             /\ \/ beyond(mid(i)) /\ half(i) = <<i[1], mid(i)>>
                \/ ~beyond(mid(i)) /\ half(i) = <<mid(i), i[2]>>
    <2>1. i \in D /\ i[1] \in Nat /\ i[2] \in Nat /\ i[2] > i[1] + 1
        BY <1>1
    <2>2. i[1] < mid(i) /\ mid(i) < i[2] /\ mid(i) \in Nat
        <3> HIDE DEF D
        <3> QED
            BY <2>1
    <2> HIDE DEF mid, beyond
    <2> QED
        BY <2>1, <2>2
<1> HIDE DEF half
<1>3. Descending(D, Stop, next, m)
    <2>1. ASSUME NEW i \in D \ Stop
          PROVE  next[i] \in D /\ m[next[i]] < m[i]
        <3> HIDE DEF mid, beyond
        <3> QED
            BY <1>1, <1>2
    <2>2. m \in [D -> Nat]
        BY <1>1
    <2> HIDE DEF D, Stop, next, m
    <2> QED
        BY <2>1, <2>2 DEF Descending
<1> DEFINE Around(f) == f = [i \in Nat \X Nat |-> IF i[2] - i[1] <= 1 THEN i ELSE f[half(i)]]
           around == CHOOSE f : Around(f)
<1>4. ASSUME NEW f PROVE Around(f) <=> Descent(f, D, Stop, final, next)
    <2>1. [i \in Nat \X Nat |-> IF i[2] - i[1] <= 1 THEN i ELSE f[half(i)]]
            = [i \in D |-> IF i \in Stop THEN final[i] ELSE f[next[i]]]
        OBVIOUS
    <2> QED
        BY <2>1 DEF Descent
<1>5. Descent(around, D, Stop, final, next)
    <2>1. \E f : Descent(f, D, Stop, final, next)
        <3> HIDE DEF D, Stop, final, next, m
        <3> QED
            BY <1>3, DescentExists
    <2>2. \E f : Around(f)
        <3> HIDE DEF D, Stop, final, next, Around
        <3> QED
            BY <1>4, <2>1
    <2>3. Around(around)
        <3> HIDE DEF Around
        <3> QED
            BY <2>2
    <2> HIDE DEF D, Stop, final, next, Around, around
    <2> QED
        BY <1>4, <2>3
<1>6. ASSUME NEW i \in D \cap Stop PROVE final[i] \in V[i]
    <2>1. i \in D /\ i[1] \in Nat /\ i[2] \in Nat /\ i[2] - i[1] <= 1 /\ final[i] = i
        BY <1>1
    <2>2. CASE Ready(i)
        <3>1. i[2] = i[1] + 1
            <4> HIDE DEF beyond
            <4> QED
                BY <2>1, <2>2
        <3>2. i \in Found
            <4> HIDE DEF beyond
            <4> QED
                BY <1>0, <2>1, <2>2, <3>1
        <3> HIDE DEF Ready
        <3> QED
            BY <1>1, <2>1, <2>2, <3>2
    <2>3. CASE ~Ready(i)
        <3> HIDE DEF Ready
        <3> QED
            BY <1>1, <2>1, <2>3
    <2> QED
        BY <2>2, <2>3
<1>7. ASSUME NEW i \in D \ Stop PROVE V[next[i]] \subseteq V[i]
    <2>0. i \in D /\ next[i] \in D /\ next[i] = half(i)
        BY <1>2
    <2>1. CASE Ready(i)
        <3>1. Ready(half(i))
            <4>1. CASE beyond(mid(i)) /\ half(i) = <<i[1], mid(i)>>
                <5>1. half(i)[1] = i[1] /\ half(i)[2] = mid(i)
                    BY <4>1
                <5>2. i[1] \in Nat /\ i[2] \in Nat /\ mid(i) \in Nat /\ i[1] < mid(i)
                      /\ mid(i) < i[2]
                    BY <1>1, <1>2
                <5> HIDE DEF mid, beyond
                <5> QED
                    BY <2>1, <4>1, <5>1, <5>2
            <4>2. CASE ~beyond(mid(i)) /\ half(i) = <<mid(i), i[2]>>
                <5>1. half(i)[1] = mid(i) /\ half(i)[2] = i[2]
                    BY <4>2
                <5>2. i[1] \in Nat /\ i[2] \in Nat /\ mid(i) \in Nat /\ i[1] < mid(i)
                      /\ mid(i) < i[2]
                    BY <1>1, <1>2
                <5> HIDE DEF mid, beyond
                <5> QED
                    BY <2>1, <4>2, <5>1, <5>2
            <4> HIDE DEF Ready, mid, beyond
            <4> QED
                BY <1>2, <4>1, <4>2
        <3> HIDE DEF Ready, V, D
        <3> QED
            BY <1>1, <2>0, <2>1, <3>1
    <2>2. CASE ~Ready(i)
        <3>1. Found \subseteq D
            BY <1>0
        <3> HIDE DEF Ready, V, D
        <3> QED
            BY <1>1, <2>0, <2>2, <3>1
    <2> QED
        BY <2>1, <2>2
<1>8. \A i \in D : around[i] \in V[i]
    <2>1. \A i \in D \cap Stop : final[i] \in V[i]
        BY <1>6
    <2>2. \A i \in D \ Stop : V[next[i]] \subseteq V[i]
        BY <1>7
    <2> HIDE DEF D, Stop, final, next, m, V, around
    <2> QED
        BY <1>3, <1>5, <2>1, <2>2, DescentStays
<1>9. edge(lo, hi, rising, s, Params, P, isIM) = around[<<lo, hi>>]
    BY Zenon DEF edge, half, beyond, mid
<1>10. <<lo, hi>> \in D /\ Ready(<<lo, hi>>)
    OBVIOUS
<1>11. V[<<lo, hi>>] = Found
    <2> HIDE DEF Ready
    <2> QED
        BY <1>1, <1>10
<1> HIDE DEF V, D, around
<1>12. edge(lo, hi, rising, s, Params, P, isIM) \in Found
    BY <1>8, <1>9, <1>10, <1>11
<1> QED
    BY <1>12 DEF Found

Goal(s, P, isIM, q) == closeGoal(s, Params, P, isIM, q)

\* The ends of a range that is found meet its goal.
LEMMA RangeMeetsGoal ==
    ASSUME NEW lo \in Nat, NEW hi \in Nat, lo <= hi, NEW s, NEW P, NEW isIM,
           \A q \in lo .. hi : Goal(s, P, isIM, q) \in Int,
           NEW r \in nonNegativeRange(lo, hi, s, Params, P, isIM)
    PROVE  /\ r[1] \in Nat /\ r[2] \in Nat /\ lo <= r[1] /\ r[1] <= r[2] /\ r[2] <= hi
           /\ Goal(s, P, isIM, r[1]) >= 0 /\ Goal(s, P, isIM, r[2]) >= 0
<1> DEFINE goal == [q \in lo .. hi |-> Goal(s, P, isIM, q)]
           up == edge(lo, hi, TRUE, s, Params, P, isIM)
           down == edge(lo, hi, FALSE, s, Params, P, isIM)
<1>0. lo \in lo .. hi /\ hi \in lo .. hi
    OBVIOUS
<1>1. \A q \in lo .. hi : goal[q] \in Int /\ goal[q] = Goal(s, P, isIM, q)
    OBVIOUS
<1>2. r \in RangeBetween(lo, hi, goal[lo], goal[hi], s, Params, P, isIM)
    BY <1>0 DEF nonNegativeRange, Goal
<1>3. \/ goal[lo] >= 0 /\ goal[hi] >= 0 /\ r = <<lo, hi>>
      \/ goal[lo] < 0 /\ goal[hi] >= 0 /\ r = <<up[2], hi>>
      \/ goal[lo] >= 0 /\ goal[hi] < 0 /\ r = <<lo, down[1]>>
    <2> DEFINE m == goal[lo]
               n == goal[hi]
    <2>1. RangeBetween(lo, hi, m, n, s, Params, P, isIM)
            = IF m >= 0 /\ n >= 0 THEN {<<lo, hi>>}
              ELSE IF m < 0 /\ n < 0 THEN {}
              ELSE IF m < 0 THEN {<<up[2], hi>>} ELSE {<<lo, down[1]>>}
        BY Zenon DEF RangeBetween
    <2>2. m \in Int /\ n \in Int /\ r \in RangeBetween(lo, hi, m, n, s, Params, P, isIM)
        BY <1>0, <1>1, <1>2
    <2> HIDE DEF m, n, up, down
    <2>3. \/ m >= 0 /\ n >= 0 /\ r = <<lo, hi>>
          \/ m < 0 /\ n >= 0 /\ r = <<up[2], hi>>
          \/ m >= 0 /\ n < 0 /\ r = <<lo, down[1]>>
        BY <2>1, <2>2
    <2> QED
        BY <2>3 DEF m, n
<1>4. r \in Within(lo, hi)
    BY RangeWithin
<1>5. r[1] \in Nat /\ r[2] \in Nat /\ lo <= r[1] /\ r[1] <= r[2] /\ r[2] <= hi
    BY <1>4 DEF Within
<1>6. r[1] \in lo .. hi /\ r[2] \in lo .. hi
    BY <1>5
<1>7. goal[r[1]] >= 0 /\ goal[r[2]] >= 0
    <2>1. CASE goal[lo] >= 0 /\ goal[hi] >= 0 /\ r = <<lo, hi>>
        <3> HIDE DEF goal
        <3> QED
            BY <2>1
    <2>2. CASE goal[lo] < 0 /\ goal[hi] >= 0 /\ r = <<up[2], hi>>
        <3>1. goal[lo] # goal[hi] => lo < hi
            OBVIOUS
        <3>2. lo < hi
            <4> HIDE DEF goal
            <4> QED
                BY <1>0, <1>1, <2>2, <3>1
        <3>3. ~((Goal(s, P, isIM, lo) >= 0) = TRUE) /\ (Goal(s, P, isIM, hi) >= 0) = TRUE
            <4>1. ~(goal[lo] >= 0) /\ goal[hi] >= 0
                <5> HIDE DEF goal
                <5> QED
                    BY <1>0, <1>1, <2>2
            <4> QED
                BY <1>0, <1>1, <4>1
        <3>4. up \in Turns(lo, hi, TRUE, s, P, isIM)
            BY <3>2, <3>3, EdgeFinds DEF Goal
        <3> HIDE DEF up
        <3>5. Goal(s, P, isIM, up[2]) >= 0 /\ up[2] = r[1] /\ hi = r[2]
            BY <2>2, <3>4 DEF Turns, Goal
        <3> HIDE DEF goal
        <3> QED
            BY <1>1, <1>6, <2>2, <3>5
    <2>3. CASE goal[lo] >= 0 /\ goal[hi] < 0 /\ r = <<lo, down[1]>>
        <3>1. goal[lo] # goal[hi] => lo < hi
            OBVIOUS
        <3>2. lo < hi
            <4> HIDE DEF goal
            <4> QED
                BY <1>0, <1>1, <2>3, <3>1
        <3>3. ~((Goal(s, P, isIM, lo) >= 0) = FALSE) /\ (Goal(s, P, isIM, hi) >= 0) = FALSE
            <4>1. goal[lo] >= 0 /\ ~(goal[hi] >= 0)
                <5> HIDE DEF goal
                <5> QED
                    BY <1>0, <1>1, <2>3
            <4> QED
                BY <1>0, <1>1, <4>1
        <3>4. down \in Turns(lo, hi, FALSE, s, P, isIM)
            BY <3>2, <3>3, EdgeFinds DEF Goal
        <3> HIDE DEF down
        <3>5. Goal(s, P, isIM, down[1]) >= 0 /\ down[1] = r[2] /\ lo = r[1]
            BY <2>3, <3>4 DEF Turns, Goal
        <3> HIDE DEF goal
        <3> QED
            BY <1>1, <1>6, <2>3, <3>5
    <2> HIDE DEF goal, up, down
    <2> QED
        BY <1>3, <2>1, <2>2, <2>3
<1> HIDE DEF goal
<1> QED
    BY <1>1, <1>5, <1>6, <1>7

\* A place with nothing that misses the goal on both its sides is in such a range.
LEMMA RangeCovers ==
    ASSUME NEW lo \in Nat, NEW hi \in Nat, lo <= hi, NEW s, NEW P, NEW isIM,
           \A q \in lo .. hi : Goal(s, P, isIM, q) \in Int,
           NEW q \in lo .. hi,
           \A x \in lo .. q, z \in q .. hi :
               ~(Goal(s, P, isIM, x) < 0 /\ Goal(s, P, isIM, z) < 0)
    PROVE  \E r \in nonNegativeRange(lo, hi, s, Params, P, isIM) : r[1] <= q /\ q <= r[2]
<1> DEFINE goal == [x \in lo .. hi |-> Goal(s, P, isIM, x)]
           up == edge(lo, hi, TRUE, s, Params, P, isIM)
           down == edge(lo, hi, FALSE, s, Params, P, isIM)
           found == nonNegativeRange(lo, hi, s, Params, P, isIM)
<1>0. lo \in lo .. hi /\ hi \in lo .. hi /\ lo \in lo .. q /\ hi \in q .. hi /\ q \in Nat
    OBVIOUS
<1>1. /\ \A x \in lo .. hi : goal[x] \in Int /\ goal[x] = Goal(s, P, isIM, x)
      /\ goal[lo] # goal[hi] => lo < hi
    OBVIOUS
<1>2. \A x \in lo .. q, z \in q .. hi : ~(goal[x] < 0 /\ goal[z] < 0)
    OBVIOUS
<1>3. found = RangeBetween(lo, hi, goal[lo], goal[hi], s, Params, P, isIM)
    BY <1>0 DEF nonNegativeRange, Goal
<1> HIDE DEF goal
<1>4. CASE goal[lo] >= 0 /\ goal[hi] >= 0
    <2>1. <<lo, hi>> \in found
        BY <1>3, <1>4 DEF RangeBetween
    <2>2. <<lo, hi>>[1] <= q /\ q <= <<lo, hi>>[2]
        OBVIOUS
    <2> DEFINE t == <<lo, hi>>
    <2>9. t \in found /\ t[1] <= q /\ q <= t[2]
        BY <2>1, <2>2
    <2> HIDE DEF t
    <2> QED
        BY <2>9 DEF found
<1>5. CASE goal[lo] < 0 /\ goal[hi] >= 0
    <2>1. lo < hi
        BY <1>0, <1>1, <1>5
    <2>2. ~((Goal(s, P, isIM, lo) >= 0) = TRUE) /\ (Goal(s, P, isIM, hi) >= 0) = TRUE
        <3>1. ~(goal[lo] >= 0) /\ goal[hi] >= 0
            BY <1>0, <1>1, <1>5
        <3> QED
            BY <1>0, <1>1, <3>1
    <2>3. up \in Turns(lo, hi, TRUE, s, P, isIM)
        BY <2>1, <2>2, EdgeFinds DEF Goal
    <2>4. <<up[2], hi>> \in found
        <3>1. ~(goal[lo] >= 0 /\ goal[hi] >= 0) /\ ~(goal[lo] < 0 /\ goal[hi] < 0)
            BY <1>0, <1>1, <1>5
        <3> QED
            BY <1>3, <1>5, <3>1 DEF RangeBetween
    <2> HIDE DEF up, found
    <2>5. /\ up[1] \in Nat /\ lo <= up[1] /\ up[2] = up[1] + 1 /\ up[2] <= hi
          /\ ~(Goal(s, P, isIM, up[1]) >= 0)
        BY <2>3 DEF Turns, Goal
    <2>6. up[2] <= q
        <3> SUFFICES ASSUME ~(up[2] <= q) PROVE FALSE
            OBVIOUS
        <3>1. up[1] \in q .. hi /\ up[1] \in lo .. hi
            BY <1>0, <2>5
        <3>2. goal[up[1]] < 0
            BY <1>1, <2>5, <3>1
        <3> QED
            BY <1>0, <1>2, <1>5, <3>1, <3>2
    <2>7. <<up[2], hi>>[1] <= q /\ q <= <<up[2], hi>>[2]
        BY <2>6
    <2> DEFINE t == <<up[2], hi>>
    <2>9. t \in found /\ t[1] <= q /\ q <= t[2]
        BY <2>4, <2>7
    <2> HIDE DEF t
    <2> QED
        BY <2>9 DEF found
<1>6. CASE goal[lo] >= 0 /\ goal[hi] < 0
    <2>1. lo < hi
        BY <1>0, <1>1, <1>6
    <2>2. ~((Goal(s, P, isIM, lo) >= 0) = FALSE) /\ (Goal(s, P, isIM, hi) >= 0) = FALSE
        <3>1. goal[lo] >= 0 /\ ~(goal[hi] >= 0)
            BY <1>0, <1>1, <1>6
        <3> QED
            BY <1>0, <1>1, <3>1
    <2>3. down \in Turns(lo, hi, FALSE, s, P, isIM)
        BY <2>1, <2>2, EdgeFinds DEF Goal
    <2>4. <<lo, down[1]>> \in found
        <3>1. ~(goal[lo] >= 0 /\ goal[hi] >= 0) /\ ~(goal[lo] < 0)
            BY <1>0, <1>1, <1>6
        <3> QED
            BY <1>3, <3>1 DEF RangeBetween
    <2> HIDE DEF down, found
    <2>5. /\ down[1] \in Nat /\ lo <= down[1] /\ down[2] = down[1] + 1 /\ down[2] <= hi
          /\ down[2] \in Nat /\ (Goal(s, P, isIM, down[2]) >= 0) = FALSE
        BY <2>3 DEF Turns, Goal
    <2>6. q <= down[1]
        <3> SUFFICES ASSUME ~(q <= down[1]) PROVE FALSE
            OBVIOUS
        <3>1. down[2] \in lo .. q /\ down[2] \in lo .. hi
            BY <1>0, <2>5
        <3>2. goal[down[2]] < 0
            BY <1>1, <2>5, <3>1
        <3> QED
            BY <1>0, <1>2, <1>6, <3>1, <3>2
    <2>7. <<lo, down[1]>>[1] <= q /\ q <= <<lo, down[1]>>[2]
        BY <2>6
    <2> DEFINE t == <<lo, down[1]>>
    <2>9. t \in found /\ t[1] <= q /\ q <= t[2]
        BY <2>4, <2>7
    <2> HIDE DEF t
    <2> QED
        BY <2>9 DEF found
<1>7. ~(goal[lo] < 0 /\ goal[hi] < 0)
    BY <1>0, <1>2
<1>8. goal[lo] \in Int /\ goal[hi] \in Int
    BY <1>0, <1>1
<1>9. \/ goal[lo] >= 0 /\ goal[hi] >= 0
      \/ goal[lo] < 0 /\ goal[hi] >= 0
      \/ goal[lo] >= 0 /\ goal[hi] < 0
    BY <1>7, <1>8
<1> QED
    BY <1>4, <1>5, <1>6, <1>9

LEMMA GoalIs ==
    ASSUME NEW s, NEW P, NEW q
    PROVE  /\ Goal(s, P, FALSE, q) = SurplusAfter(s, P, FALSE, q)
           /\ Goal(s, P, TRUE, q) = -SurplusAfter(s, P, TRUE, q)
           /\ mmSurplus(simulatePerpClose(s, q, P), Params, P) = SurplusAfter(s, P, FALSE, q)
           /\ imSurplus(simulatePerpClose(s, q, P), Params, P) = SurplusAfter(s, P, TRUE, q)
<1>1. /\ mmSurplus(simulatePerpClose(s, q, P), Params, P) = SurplusAfter(s, P, FALSE, q)
      /\ imSurplus(simulatePerpClose(s, q, P), Params, P) = SurplusAfter(s, P, TRUE, q)
    BY DEF mmSurplus, imSurplus, mmRequired, imRequired, SurplusAfter
<1>2. /\ Goal(s, P, FALSE, q) = mmSurplus(simulatePerpClose(s, q, P), Params, P)
      /\ Goal(s, P, TRUE, q) = -imSurplus(simulatePerpClose(s, q, P), Params, P)
    BY DEF Goal, closeGoal
<1> QED
    BY <1>1, <1>2

LEMMA NothingClosed ==
    ASSUME NEW s \in Snapshot, NEW P \in Nat
    PROVE  SurplusAfter(s, P, FALSE, 0) = mmSurplus(s, Params, P)
<1> DEFINE n == s.perp.netQty
           whole == Magnitude(n)
           sign == Sign(n)
           least == Min({0, whole})
<1>1. /\ n \in Int /\ whole \in Nat /\ s.balance \in Int /\ P - s.perp.entryPrice \in Int
      /\ sign \in Int
    <2>1. n \in Int /\ s.balance \in Int /\ s.perp.entryPrice \in Nat
        BY DEF Snapshot
    <2>2. ASSUME NEW m \in Int PROVE Magnitude(m) \in Nat /\ Sign(m) \in Int
        BY NumberTypes
    <2>3. ASSUME NEW m \in Nat PROVE P - m \in Int
        OBVIOUS
    <2> QED
        BY <2>1, <2>2, <2>3
<1>2. least = 0
    <2> HIDE DEF whole
    <2>1. 0 \in {0, whole} /\ \A y \in {0, whole} : 0 <= y
        BY <1>1
    <2>2. \A x \in {0, whole} : (\A y \in {0, whole} : x <= y) => x = 0
        BY <1>1
    <2> QED
        BY <2>1, <2>2 DEF Min
<1>3. sign * least = 0 /\ (P - s.perp.entryPrice) * (sign * least) = 0
    <2> HIDE DEF sign, least
    <2>1. sign * 0 = 0
        BY <1>1, Z3
    <2>2. (P - s.perp.entryPrice) * 0 = 0
        BY <1>1, Z3
    <2> QED
        BY <1>2, <2>1, <2>2
<1>4. Quotient(0, Unit) = 0
    <2>1. 0 \div Unit = 0
        BY UnitFacts, Z3
    <2> QED
        BY <2>1 DEF Quotient
<1>5. s.balance + Quotient((P - s.perp.entryPrice) * (sign * least), Unit) = s.balance
      /\ n - sign * least = n
    BY <1>1, <1>3, <1>4
<1>6. simulatePerpClose(s, 0, P)
        = [s EXCEPT !.balance = s.balance + Quotient((P - s.perp.entryPrice)
                                                       * (sign * least), Unit),
                    !.perp.netQty = n - sign * least]
    BY DEF simulatePerpClose
<1> HIDE DEF n, sign, least, whole
<1>7. simulatePerpClose(s, 0, P) = [s EXCEPT !.balance = s.balance, !.perp.netQty = n]
    BY <1>5, <1>6
<1>8. [s EXCEPT !.balance = s.balance, !.perp.netQty = n] = s
    BY DEF Snapshot, n
<1> QED
    BY <1>7, <1>8 DEF SurplusAfter, mmSurplus, mmRequired

\* The interval of a positive quantity.
LEMMA IntervalOf ==
    ASSUME NEW s \in Snapshot, NEW P \in Nat, NEW q \in 1 .. Magnitude(s.perp.netQty)
    PROVE  \E i \in Intervals(perpCloseKinks(s, P)) : q \in i[1] .. i[2]
<1> DEFINE whole == Magnitude(s.perp.netQty)
           kinks == perpCloseKinks(s, P)
           above == {k \in kinks : q <= k}
           hi == Min(above)
<1>1. whole \in Nat /\ kinks \subseteq 0 .. whole /\ 0 \in kinks /\ whole \in kinks
    <2>1. 0 \in kinks /\ whole \in kinks
        BY DEF perpCloseKinks
    <2> QED
        BY <2>1, KinksWithin, NumberTypes DEF Snapshot
<1>2. q \in Nat /\ q >= 1 /\ q <= whole
    OBVIOUS
<1> HIDE DEF kinks, whole
<1>3. Bounded(kinks) /\ Bounded(above) /\ above # {}
    BY <1>1, <1>2 DEF Bounded
<1>4. hi \in above /\ \A k \in above : hi <= k
    <2> HIDE DEF above
    <2> QED
        BY <1>3, ExtremesOf
<1>5. hi \in kinks /\ q <= hi /\ hi \in Nat /\ 0 < hi
    <2>1. ASSUME NEW k \in above PROVE k \in kinks /\ q <= k /\ k \in Nat /\ 0 < k
        BY <1>1, <1>2
    <2> HIDE DEF above, hi
    <2> QED
        BY <1>4, <2>1
<1>6. ASSUME NEW k \in kinks, q <= k PROVE hi <= k
    BY <1>4, <1>6
<1> HIDE DEF hi
<1>7. PICK lo \in kinks : lo < hi /\ <<lo, hi>> \in Intervals(kinks)
    <2> DEFINE none == 0
    <2>1. none \in kinks /\ none < hi
        BY <1>1, <1>5
    <2> HIDE DEF none
    <2> QED
        BY <1>3, <1>5, <2>1, NeighbourBelow
<1>8. lo \in Nat /\ lo < q
    BY <1>1, <1>2, <1>5, <1>6, <1>7
<1> DEFINE i == <<lo, hi>>
<1>9. i \in Intervals(kinks) /\ q \in i[1] .. i[2]
    BY <1>2, <1>5, <1>7, <1>8
<1> HIDE DEF i
<1> QED
    BY <1>9 DEF kinks

\* What is above the maintenance margin, and above the initial margin, after a close.
Maintained(s, P, q) == SurplusAfter(s, P, FALSE, q)
Initial(s, P, q) == SurplusAfter(s, P, TRUE, q)
Whole(s) == Magnitude(s.perp.netQty)
\* The ranges of an interval with no deficit of the first, and of those with no surplus
\* of the second.
Healthy(i, s, P) == nonNegativeRange(i[1], i[2], s, Params, P, FALSE)
Band(h, s, P) == nonNegativeRange(h[1], h[2], s, Params, P, TRUE)
AllHealthy(s, P) == UNION {Healthy(i, s, P) : i \in Intervals(perpCloseKinks(s, P))}
AllBand(s, P) == UNION {Band(h, s, P) : h \in AllHealthy(s, P)}

LEMMA MarginsAfter ==
    ASSUME NEW s \in Snapshot, NEW P \in Nat, NEW q \in 0 .. Whole(s)
    PROVE  /\ Maintained(s, P, q) \in Int /\ Initial(s, P, q) \in Int
           /\ Goal(s, P, FALSE, q) = Maintained(s, P, q)
           /\ Goal(s, P, TRUE, q) = -Initial(s, P, q)
<1>1. ASSUME NEW isIM \in BOOLEAN PROVE SurplusAfter(s, P, isIM, q) \in Int
    BY CloseTypes DEF Whole
<1>2. SurplusAfter(s, P, FALSE, q) \in Int /\ SurplusAfter(s, P, TRUE, q) \in Int
    BY <1>1
<1> QED
    BY <1>2, GoalIs DEF Maintained, Initial

LEMMA WholeType ==
    ASSUME NEW s \in Snapshot
    PROVE  Whole(s) \in Nat
BY NumberTypes DEF Snapshot, Whole

\* Both ends of a range of the first kind keep the maintenance margin.
LEMMA HealthyEnds ==
    ASSUME NEW s \in Snapshot, NEW P \in Nat,
           NEW i \in Intervals(perpCloseKinks(s, P)), NEW h \in Healthy(i, s, P)
    PROVE  /\ h[1] \in Nat /\ h[2] \in Nat /\ h[1] <= h[2] /\ h[2] <= Whole(s)
           /\ Maintained(s, P, h[1]) >= 0 /\ Maintained(s, P, h[2]) >= 0
<1> DEFINE lo == i[1]
           hi == i[2]
           mm == FALSE
<1>1. lo \in Nat /\ hi \in Nat /\ lo <= hi /\ hi <= Whole(s)
    BY IntervalInside DEF Whole
<1>2. h \in nonNegativeRange(lo, hi, s, Params, P, mm)
    BY DEF Healthy
<1>3. ASSUME NEW x \in 0 .. Whole(s)
      PROVE  Goal(s, P, mm, x) = Maintained(s, P, x) /\ Maintained(s, P, x) \in Int
    BY MarginsAfter
<1> HIDE DEF lo, hi, mm
<1>4. \A x \in lo .. hi : x \in 0 .. Whole(s)
    BY <1>1, WholeType
<1>5. \A x \in lo .. hi : Goal(s, P, mm, x) \in Int
    BY <1>3, <1>4
<1>6. /\ h[1] \in Nat /\ h[2] \in Nat /\ lo <= h[1] /\ h[1] <= h[2] /\ h[2] <= hi
      /\ Goal(s, P, mm, h[1]) >= 0 /\ Goal(s, P, mm, h[2]) >= 0
    BY <1>1, <1>2, <1>5, RangeMeetsGoal
<1>7. h[1] \in 0 .. Whole(s) /\ h[2] \in 0 .. Whole(s) /\ h[2] <= Whole(s)
    BY <1>1, <1>6, WholeType
<1> QED
    BY <1>3, <1>6, <1>7

\* The end of a range of the second kind does not exceed the initial margin.
LEMMA BandEnd ==
    ASSUME NEW s \in Snapshot, NEW P \in Nat, NEW lo \in Nat, NEW hi \in Nat, lo <= hi,
           hi <= Whole(s), NEW r \in nonNegativeRange(lo, hi, s, Params, P, TRUE)
    PROVE  /\ r[2] \in Nat /\ lo <= r[2] /\ r[2] <= hi
           /\ Initial(s, P, r[2]) <= 0
<1> DEFINE im == TRUE
<1>2. r \in nonNegativeRange(lo, hi, s, Params, P, im)
    OBVIOUS
<1>3. ASSUME NEW x \in 0 .. Whole(s)
      PROVE  Goal(s, P, im, x) = -Initial(s, P, x) /\ Initial(s, P, x) \in Int
    BY MarginsAfter
<1> HIDE DEF im
<1>4. \A x \in lo .. hi : x \in 0 .. Whole(s)
    BY WholeType
<1>5. \A x \in lo .. hi : Goal(s, P, im, x) \in Int
    <2>1. ASSUME NEW x \in 0 .. Whole(s) PROVE Goal(s, P, im, x) \in Int
        BY <1>3
    <2> QED
        BY <1>4, <2>1
<1>6. /\ r[1] \in Nat /\ r[2] \in Nat /\ lo <= r[1] /\ r[1] <= r[2] /\ r[2] <= hi
      /\ Goal(s, P, im, r[2]) >= 0
    BY <1>2, <1>5, RangeMeetsGoal
<1> DEFINE t == r[2]
<1>7. t \in 0 .. Whole(s) /\ Goal(s, P, im, t) >= 0 /\ lo <= t /\ t <= hi /\ t \in Nat
    BY <1>6, WholeType
<1> HIDE DEF t
<1>8. Initial(s, P, t) <= 0
    BY <1>3, <1>7
<1> QED
    BY <1>7, <1>8 DEF t

\* Between two closes, the surplus is at most one unit below the worse of theirs.
LEMMA MarginsBetween ==
    ASSUME NEW s \in Snapshot, NEW P \in Nat, NEW x \in 0 .. Whole(s),
           NEW y \in 0 .. Whole(s), NEW z \in 0 .. Whole(s), x <= y, y <= z
    PROVE  /\ (Maintained(s, P, x) >= 0 /\ Maintained(s, P, z) >= 0)
                 => Maintained(s, P, y) >= -1
           /\ (Initial(s, P, x) >= 1 /\ Initial(s, P, z) >= 1) => Initial(s, P, y) >= 0
<1> DEFINE mm == FALSE
           im == TRUE
           none == 0
           one == 1
<1>1. /\ Maintained(s, P, x) = SurplusAfter(s, P, mm, x)
      /\ Maintained(s, P, y) = SurplusAfter(s, P, mm, y)
      /\ Maintained(s, P, z) = SurplusAfter(s, P, mm, z)
      /\ Initial(s, P, x) = SurplusAfter(s, P, im, x)
      /\ Initial(s, P, y) = SurplusAfter(s, P, im, y)
      /\ Initial(s, P, z) = SurplusAfter(s, P, im, z)
      /\ Maintained(s, P, y) \in Int /\ Initial(s, P, y) \in Int
    BY MarginsAfter DEF Maintained, Initial
<1>2. mm \in BOOLEAN /\ im \in BOOLEAN /\ none \in Int /\ one \in Int /\ none = 0 /\ one = 1
    OBVIOUS
<1>3. x \in 0 .. Magnitude(s.perp.netQty) /\ y \in 0 .. Magnitude(s.perp.netQty)
      /\ z \in 0 .. Magnitude(s.perp.netQty)
    BY DEF Whole
<1> HIDE DEF mm, im, none, one
<1>4. ASSUME NEW isIM \in BOOLEAN, NEW n \in Int, SurplusAfter(s, P, isIM, x) >= n,
             SurplusAfter(s, P, isIM, z) >= n
      PROVE  SurplusAfter(s, P, isIM, y) >= n - 1
    BY <1>3, <1>4, SurplusBetweenCloses
<1>5. (Maintained(s, P, x) >= none /\ Maintained(s, P, z) >= none)
         => Maintained(s, P, y) >= none - 1
    BY <1>1, <1>2, <1>4
<1>6. (Initial(s, P, x) >= one /\ Initial(s, P, z) >= one)
         => Initial(s, P, y) >= one - 1
    BY <1>1, <1>2, <1>4
<1>7. none - 1 = -1 /\ one - 1 = 0
    BY <1>2
<1> QED
    BY <1>2, <1>5, <1>6, <1>7

\* The end of every range of the band keeps both margins, up to one unit.
LEMMA BandKeepsMargins ==
    ASSUME NEW s \in Snapshot, NEW P \in Nat, NEW h \in AllHealthy(s, P), NEW r \in Band(h, s, P)
    PROVE  /\ r[2] \in 0 .. Whole(s)
           /\ Maintained(s, P, r[2]) >= -1 /\ Initial(s, P, r[2]) <= 0
<1> DEFINE lo == h[1]
           hi == h[2]
           t == r[2]
<1>1. PICK i \in Intervals(perpCloseKinks(s, P)) : h \in Healthy(i, s, P)
    BY DEF AllHealthy
<1>2. /\ lo \in Nat /\ hi \in Nat /\ lo <= hi /\ hi <= Whole(s)
      /\ Maintained(s, P, lo) >= 0 /\ Maintained(s, P, hi) >= 0
    BY <1>1, HealthyEnds
<1>3. r \in nonNegativeRange(lo, hi, s, Params, P, TRUE)
    BY DEF Band
<1> HIDE DEF lo, hi
<1>4. t \in Nat /\ lo <= t /\ t <= hi /\ Initial(s, P, t) <= 0
    BY <1>2, <1>3, BandEnd
<1> HIDE DEF t
<1>5. lo \in 0 .. Whole(s) /\ hi \in 0 .. Whole(s) /\ t \in 0 .. Whole(s)
    BY <1>2, <1>4, WholeType
<1>6. Maintained(s, P, t) >= -1
    BY <1>2, <1>4, <1>5, MarginsBetween
<1> QED
    BY <1>4, <1>5, <1>6 DEF t

\* A close that keeps both margins by a unit is in a range of the first kind,
LEMMA HealthyCovers ==
    ASSUME LIFT > 1, NEW s \in Snapshot, NEW P \in Nat,
           NEW i \in Intervals(perpCloseKinks(s, P)), NEW q \in i[1] .. i[2],
           Maintained(s, P, q) >= 1
    PROVE  \E h \in Healthy(i, s, P) : h[1] <= q /\ q <= h[2]
<1> DEFINE lo == i[1]
           hi == i[2]
           mm == FALSE
<1>1. lo \in Nat /\ hi \in Nat /\ lo <= hi /\ hi <= Whole(s)
    BY IntervalInside DEF Whole
<1>2. ASSUME NEW x \in 0 .. Whole(s)
      PROVE  Goal(s, P, mm, x) = Maintained(s, P, x) /\ Maintained(s, P, x) \in Int
    BY MarginsAfter
<1>3. ASSUME NEW x \in i[1] .. i[2], NEW z \in i[1] .. i[2], x <= q, q <= z,
             Maintained(s, P, x) < 0, Maintained(s, P, z) < 0
      PROVE  FALSE
    <2>1. Maintained(s, P, q) <= 0
        BY <1>3, NoSurplusBetween DEF Maintained
    <2>2. Maintained(s, P, q) \in Int
        <3>1. q \in 0 .. Whole(s)
            BY <1>1, WholeType
        <3> QED
            BY <1>2, <3>1
    <2> QED
        BY <2>1, <2>2
<1>4. ASSUME NEW x \in lo .. hi, NEW z \in lo .. hi, x <= q, q <= z,
             Maintained(s, P, x) < 0, Maintained(s, P, z) < 0
      PROVE  FALSE
    BY <1>3, <1>4
<1>5. q \in lo .. hi
    OBVIOUS
<1>6. Healthy(i, s, P) = nonNegativeRange(lo, hi, s, Params, P, mm)
    BY DEF Healthy
<1> HIDE DEF lo, hi, mm
<1>7. \A x \in lo .. hi : x \in 0 .. Whole(s)
    BY <1>1, WholeType
<1>8. \A x \in lo .. hi : Goal(s, P, mm, x) \in Int
    BY <1>2, <1>7
<1>9. ASSUME NEW x \in lo .. q, NEW z \in q .. hi
      PROVE  ~(Goal(s, P, mm, x) < 0 /\ Goal(s, P, mm, z) < 0)
    <2>1. x \in lo .. hi /\ z \in lo .. hi /\ x <= q /\ q <= z
        BY <1>1, <1>5
    <2> QED
        BY <1>2, <1>4, <1>7, <2>1
<1>10. \E h \in nonNegativeRange(lo, hi, s, Params, P, mm) : h[1] <= q /\ q <= h[2]
    BY <1>1, <1>5, <1>8, <1>9, RangeCovers
<1> QED
    BY <1>6, <1>10

\* and in one of the second kind within it.
LEMMA BandCovers ==
    ASSUME NEW s \in Snapshot, NEW P \in Nat, NEW lo \in Nat, NEW hi \in Nat,
           hi <= Whole(s), NEW q \in lo .. hi, Initial(s, P, q) <= -1
    PROVE  \E r \in nonNegativeRange(lo, hi, s, Params, P, TRUE) : r[1] <= q /\ q <= r[2]
<1> DEFINE im == TRUE
<1>1. lo <= hi /\ q \in lo .. hi
    OBVIOUS
<1>2. ASSUME NEW x \in 0 .. Whole(s)
      PROVE  Goal(s, P, im, x) = -Initial(s, P, x) /\ Initial(s, P, x) \in Int
    BY MarginsAfter
<1> HIDE DEF im
<1>3. \A x \in lo .. hi : x \in 0 .. Whole(s)
    BY WholeType
<1>4. \A x \in lo .. hi : Goal(s, P, im, x) \in Int
    <2>1. ASSUME NEW x \in 0 .. Whole(s) PROVE Goal(s, P, im, x) \in Int
        BY <1>2
    <2> QED
        BY <1>3, <2>1
<1>5. ASSUME NEW x \in lo .. q, NEW z \in q .. hi
      PROVE  ~(Goal(s, P, im, x) < 0 /\ Goal(s, P, im, z) < 0)
    <2> SUFFICES ASSUME Goal(s, P, im, x) < 0, Goal(s, P, im, z) < 0 PROVE FALSE
        OBVIOUS
    <2>1. x \in lo .. hi /\ z \in lo .. hi /\ x <= q /\ q <= z
        BY <1>1
    <2>2. x \in 0 .. Whole(s) /\ z \in 0 .. Whole(s) /\ q \in 0 .. Whole(s)
        BY <1>1, <1>3, <2>1
    <2>3. Initial(s, P, x) >= 1 /\ Initial(s, P, z) >= 1
        BY <1>2, <2>2
    <2>4. Initial(s, P, q) >= 0
        BY <2>1, <2>2, <2>3, MarginsBetween
    <2>5. Initial(s, P, q) \in Int
        BY <1>2, <2>2
    <2> QED
        BY <2>4, <2>5
<1>6. \E r \in nonNegativeRange(lo, hi, s, Params, P, im) : r[1] <= q /\ q <= r[2]
    BY <1>1, <1>4, <1>5, RangeCovers
<1> QED
    BY <1>6 DEF im

\* A close that leaves the account in its band is no larger than the one that is sent,
\* and that one leaves it in the band too, up to one unit.
LEMMA DeepestFound ==
    ASSUME LIFT > 1, NEW s \in Snapshot, NEW P \in Nat, hasBuffer(Params),
           mmSurplus(s, Params, P) < 0,
           NEW sent, sent = solvePerpCloseToTarget(s, Params, P),
           NEW q \in 0 .. Whole(s), Maintained(s, P, q) >= 1, Initial(s, P, q) <= -1
    PROVE  /\ sent \in 0 .. Whole(s) /\ sent >= q
           /\ Maintained(s, P, sent) >= -1 /\ Initial(s, P, sent) <= 0
<1> DEFINE healthy == AllHealthy(s, P)
           inBand == AllBand(s, P)
           last == {r[2] : r \in inBand}
           none == 0
<1>1. mmSurplus(s, Params, P) = Maintained(s, P, none) /\ none \in 0 .. Whole(s) /\ none = 0
    <2>1. mmSurplus(s, Params, P) = Maintained(s, P, none)
        BY NothingClosed DEF Maintained
    <2>2. none \in 0 .. Whole(s)
        BY WholeType
    <2> QED
        BY <2>1, <2>2
<1> HIDE DEF none
<1>2. Maintained(s, P, none) \in Int /\ Maintained(s, P, q) \in Int
    BY <1>1, MarginsAfter
<1>3. q # none /\ ~(mmSurplus(s, Params, P) >= 0)
    BY <1>1, <1>2
<1>4. q \in 1 .. Whole(s) /\ Whole(s) # 0
    BY <1>1, <1>3, WholeType
<1>5. \E r \in inBand : q <= r[2]
    <2>1. PICK i \in Intervals(perpCloseKinks(s, P)) : q \in i[1] .. i[2]
        BY <1>4, IntervalOf DEF Whole
    <2>2. PICK h \in Healthy(i, s, P) : h[1] <= q /\ q <= h[2]
        BY <2>1, HealthyCovers
    <2>3. h \in healthy
        BY DEF AllHealthy
    <2> DEFINE lo == h[1]
               hi == h[2]
    <2>4. lo \in Nat /\ hi \in Nat /\ hi <= Whole(s)
        BY HealthyEnds
    <2>5. q \in lo .. hi /\ Band(h, s, P) = nonNegativeRange(lo, hi, s, Params, P, TRUE)
        BY <2>2, <2>4 DEF Band
    <2> HIDE DEF lo, hi
    <2>6. PICK r \in Band(h, s, P) : r[1] <= q /\ q <= r[2]
        <3>1. \E r \in nonNegativeRange(lo, hi, s, Params, P, TRUE) : r[1] <= q /\ q <= r[2]
            BY <2>4, <2>5, BandCovers
        <3> QED
            BY <2>5, <3>1, Zenon
    <2>7. r \in inBand
        BY <2>3 DEF AllBand
    <2> QED
        BY <2>6, <2>7
<1>6. \A t \in last : t \in 0 .. Whole(s) /\ Maintained(s, P, t) >= -1 /\ Initial(s, P, t) <= 0
    <2>1. ASSUME NEW r \in inBand
          PROVE  /\ r[2] \in 0 .. Whole(s)
                 /\ Maintained(s, P, r[2]) >= -1 /\ Initial(s, P, r[2]) <= 0
        <3>1. PICK h \in AllHealthy(s, P) : r \in Band(h, s, P)
            BY DEF AllBand
        <3> QED
            BY <3>1, BandKeepsMargins
    <2> HIDE DEF inBand
    <2> QED
        BY <2>1
<1>7. sent = IF Whole(s) = 0 \/ mmSurplus(s, Params, P) >= 0 THEN 0
             ELSE IF ~hasBuffer(Params)
                  THEN Shallowest(healthy, Whole(s)) ELSE Deepest(inBand, Whole(s))
    BY Zenon DEF solvePerpCloseToTarget, AllHealthy, AllBand, Healthy, Band, Whole
<1>8. Deepest(inBand, Whole(s)) = IF inBand = {} THEN Whole(s) ELSE Max(last)
    BY Zenon DEF Deepest
<1>9. \E t \in last : q <= t
    <2> HIDE DEF inBand
    <2> QED
        BY <1>5
<1>10. inBand # {}
    BY <1>5
<1> HIDE DEF inBand, last, healthy
<1>11. sent = Max(last)
    BY <1>3, <1>4, <1>7, <1>8, <1>10
<1>12. Bounded(last) /\ last # {}
    <2>1. last \subseteq 0 .. Whole(s)
        BY <1>6
    <2> QED
        BY <1>9, <2>1, WholeType DEF Bounded
<1>13. sent \in last /\ \A t \in last : t <= sent
    BY <1>11, <1>12, ExtremesOf
<1>14. sent >= q
    <2>1. \A t \in last : t \in Nat
        BY <1>6, WholeType
    <2> QED
        BY <1>9, <1>13, <2>1
<1> QED
    BY <1>6, <1>13, <1>14

\* A close large enough to bring the account back to its initial margin is never left
\* out: the quantity the keeper sends for a perpetual (solve.ts
\* solvePerpCloseToTarget) is at least every quantity that leaves the account between
\* its two margins by a unit, and leaves it between them too up to one unit, for every
\* book and price, although it looks at the two ends of each interval between two
\* kinks only and finds the edges by bisection.  The hypothesis is what the six decimals
\* of the token give (LIFT = 10^12): with LIFT = 1 the kink halfway between the orders
\* of the two sides may fall between two quantities, and is truncated.
THEOREM DeepestCloseSent == LIFT > 1 => (Spec => []DeepestCloseIsFound)
<1>1. ASSUME LIFT > 1, PlanInv PROVE DeepestCloseIsFound
    <2> DEFINE s == readAccountSnapshot(acct)
               after(q) == simulatePerpClose(s, q, spot)
               sent == solvePerpCloseToTarget(s, Params, spot)
    <2> SUFFICES ASSUME plan.at = "start", hasBuffer(Params), mmSurplus(s, Params, spot) < 0,
                        NEW q \in 0 .. Magnitude(s.perp.netQty),
                        mmSurplus(after(q), Params, spot) >= 1,
                        imSurplus(after(q), Params, spot) <= -1
                 PROVE  /\ sent >= q
                        /\ mmSurplus(after(sent), Params, spot) >= -1
                        /\ imSurplus(after(sent), Params, spot) <= 0
        BY DEF DeepestCloseIsFound
    <2>1. s \in Snapshot /\ spot \in Nat
        <3>1. Booked(acct) /\ spot \in Nat
            BY <1>1, Inputs DEF PlanInv
        <3> QED
            BY <3>1, SnapshotType
    <2>2. ASSUME NEW x
          PROVE  /\ mmSurplus(after(x), Params, spot) = Maintained(s, spot, x)
                 /\ imSurplus(after(x), Params, spot) = Initial(s, spot, x)
        BY GoalIs DEF Maintained, Initial
    <2> HIDE DEF s, after, sent
    <2>3. q \in 0 .. Whole(s) /\ Maintained(s, spot, q) >= 1 /\ Initial(s, spot, q) <= -1
        BY <2>2 DEF Whole
    <2>4. /\ sent >= q
          /\ Maintained(s, spot, sent) >= -1 /\ Initial(s, spot, sent) <= 0
        BY <1>1, <2>1, <2>3, DeepestFound DEF sent
    <2> QED
        BY <2>2, <2>4
<1>2. CASE LIFT > 1
    <2>1. PlanInv => DeepestCloseIsFound
        BY <1>1, <1>2
    <2> QED
        BY <2>1, PlanConsistent, PTL
<1> QED
    BY <1>2
================================================================================
