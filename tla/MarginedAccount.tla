----------------------------- MODULE MarginedAccount -----------------------------
(***************************************************************************)
(* One account under the portfolio margin engine: what the venues do with  *)
(* the answers of MarginEngine (contracts/contracts/                       *)
(* PortfolioMarginEngine.sol).  The venues live in other repositories;     *)
(* what is here of them is their side of the interfaces in                 *)
(* contracts/contracts/interfaces.                                         *)
(*                                                                         *)
(* An order of the account is held to the gate of meetsTradeMargin when it *)
(* is placed; when somebody fills it later nothing is checked, so the      *)
(* requirement must have been reserved before.  Quantities are single      *)
(* lots, all markets are marked at the spot price, and no funding is owed. *)
(***************************************************************************)
EXTENDS MarginEngine

CONSTANTS
    Price,          \* spot, marks and limits, in units of the collateral token
    Shocks,         \* shocks the owner may set
    OptionsBook     \* what the options engine may answer for the account

CONSTANTS           \* bounds of the exploration
    MaxLots, MaxBalance

Buy == 1
Sell == -1
Order == [market : Market, side : {Buy, Sell}, limit : Price]

ASSUME Prices == Price \subseteq Nat \ {0}

ASSUME Inputs == Shocks \subseteq ShockSet /\ OptionsBook \subseteq Options

VARIABLES
    spot,
    shocks,
    options,        \* greeks and reserved margin
    position,       \* lots held in each market, signed
    entry,          \* what they cost, signed
    resting,        \* its orders that wait to be filled, one lot each
    balance         \* receipts of the account in the vault

book == <<position, entry, resting>>
market == <<spot, shocks, options>>
vars == <<book, market, balance>>

Init ==
    /\ spot \in Price
    /\ shocks \in Shocks
    /\ options \in OptionsBook
    /\ position = [m \in Market |-> 0]
    /\ entry = [m \in Market |-> 0]
    /\ resting = {}
    /\ balance = 0

--------------------------------------------------------------------------------
(* The risk views of the markets.                                          *)

Unit == WAD \div LIFT

Side(m, side) == {o \in resting : o.market = m /\ o.side = side}

Lots(m, side) == Cardinality(Side(m, side))

LossOf(o) == o.side * (o.limit - spot)

\* Losses and gains of the fills of one side of a market net.
FillLoss(m, side) == NonNegative(SumOver(Side(m, side), LossOf))

unrealizedPnl(m) == position[m] * spot - entry[m]

getRiskView(m) ==
    [netPositionDelta |-> position[m] * Unit,
     unrealizedPnl |-> unrealizedPnl(m),
     pendingFunding |-> 0,
     buyOrderDelta |-> Lots(m, Buy) * Unit,
     sellOrderDelta |-> Lots(m, Sell) * Unit,
     buyOrderFillLoss |-> FillLoss(m, Buy),
     sellOrderFillLoss |-> FillLoss(m, Sell)]

\* Both requirements from one snapshot.
marginsOf[linear \in LinearAggregate] ==
    LET Margin(isIM) ==
            marginFromInputs(linear, options, shocks, isIM, toWad(spot))
    IN  [im |-> Margin(TRUE), mm |-> Margin(FALSE)]

computePortfolioMargins ==
    marginsOf[linearAggregate[[m \in Market |-> getRiskView(m)]]]

isLiquidatable == balance < computePortfolioMargins.mm

--------------------------------------------------------------------------------

WithinBounds ==
    /\ SumOver(Market, LAMBDA m : Magnitude(position[m])) + Cardinality(resting)
          <= MaxLots
    /\ balance <= MaxBalance

--------------------------------------------------------------------------------
(* The account's orders.                                                   *)

\* The lot opens a position, adds to it, or closes a share of it and settles
\* the difference with the insurance fund, as far as the balance goes.
Filled(m, side, price) ==
    LET closes == position[m] * side < 0
        share == Quotient(entry[m], Magnitude(position[m]))
        realized == -side * price - share
    IN  /\ position' = [position EXCEPT ![m] = @ + side]
        /\ \/ /\ ~closes
              /\ entry' = [entry EXCEPT ![m] = @ + side * price]
              /\ UNCHANGED balance
           \/ /\ closes
              /\ entry' = [entry EXCEPT ![m] = @ - share]
              /\ balance' = NonNegative(balance + realized)

\* Reducing on its own market, with what already rests on that side.
Reduces(m, side) ==
    position[m] * side < 0 /\ Lots(m, side) < Magnitude(position[m])

Gated(m, side) ==
    LET before == computePortfolioMargins
        after == computePortfolioMargins'
        limits == IF Reduces(m, side)
                  THEN reduceLimits(before.im, before.mm, balance)
                  ELSE FullMargin
    IN  meetsTradeMargin(after.im, after.mm, balance', limits)

Trade(m, side, price) ==
    /\ Filled(m, side, price)
    /\ UNCHANGED <<resting, market>>
    /\ WithinBounds'
    /\ Gated(m, side)

Rest(o) ==
    /\ o \notin resting
    /\ resting' = resting \cup {o}
    /\ UNCHANGED <<position, entry, balance, market>>
    /\ WithinBounds'
    /\ Gated(o.market, o.side)

Cancel(o) ==
    /\ resting' = resting \ {o}
    /\ UNCHANGED <<position, entry, balance, market>>

\* Somebody takes the account's resting order.
MakerFill(o) ==
    /\ resting' = resting \ {o}
    /\ Filled(o.market, o.side, o.limit)
    /\ UNCHANGED market
    /\ WithinBounds'

--------------------------------------------------------------------------------
(* Collateral and the outside world.                                       *)

Deposit ==
    /\ balance < MaxBalance
    /\ balance' = balance + 1
    /\ UNCHANGED <<book, market>>

Withdraw ==
    /\ balance > 0
    /\ balance' = balance - 1
    /\ balance' >= computePortfolioMargins.im
    /\ UNCHANGED <<book, market>>

setShocks ==
    /\ shocks' \in Shocks
    /\ UNCHANGED <<book, spot, options, balance>>

SpotMoves ==
    /\ spot' \in Price
    /\ UNCHANGED <<book, shocks, options, balance>>

OptionsMove ==
    /\ options' \in OptionsBook
    /\ UNCHANGED <<book, spot, shocks, balance>>

--------------------------------------------------------------------------------

Next ==
    \/ \E m \in Market, side \in {Buy, Sell}, p \in Price : Trade(m, side, p)
    \/ \E o \in Order : Rest(o)
    \/ \E o \in resting : Cancel(o) \/ MakerFill(o)
    \/ Deposit
    \/ Withdraw
    \/ setShocks
    \/ SpotMoves
    \/ OptionsMove

Spec == Init /\ [][Next]_vars

--------------------------------------------------------------------------------
(* Properties.                                                             *)

\* Nothing the engine computes is negative and a flat market has no cost.
TypeOK ==
    /\ spot \in Price
    /\ shocks \in Shocks
    /\ options \in OptionsBook
    /\ position \in [Market -> Int]
    /\ entry \in [Market -> Int]
    /\ resting \subseteq Order
    /\ balance \in Nat
    /\ \A m \in Market : position[m] = 0 => entry[m] = 0

ShocksOrdered == shocks.imSpot >= shocks.mmSpot /\ shocks.imVol >= shocks.mmVol

\* The initial requirement is never below the maintenance requirement, which
\* the venues' guard against liquidating too much depends on.  A long gamma
\* gains more under the larger shock, so the options must not be long gamma.
ImAtLeastMm ==
    ShocksOrdered /\ options.gamma <= 0 =>
        LET margin == computePortfolioMargins IN margin.im >= margin.mm

\* The gain of one resting order on this side of the market hides the loss of
\* another, as the interface has it: all of the side is taken to fill together.
Nets(m, side) ==
    FillLoss(m, side) # SumOver(Side(m, side), LAMBDA o : NonNegative(LossOf(o)))

HidesALoss(o) == LossOf(o) < 0 /\ Nets(o.market, o.side)

\* What an order will cost when it is filled was reserved while it rested: no
\* fill on a side where nothing nets, in whatever order the orders are taken,
\* brings the account closer to its initial requirement.
FillIsReserved ==
    [][\A o \in resting :
          MakerFill(o) /\ ~Nets(o.market, o.side) =>
              balance' - computePortfolioMargins'.im
                >= balance - computePortfolioMargins.im]_vars

\* What the account does itself never makes it liquidatable while the owner's
\* shocks are in order and its options are not long gamma: not a trade, an order
\* or a withdrawal, which are gated, and not a cancel, which is not, but for one:
\* cancelling an order whose gain hides the loss of another on its side.  Nor
\* does a fill by others, if the account was at its initial requirement and the
\* side filled did not net.
OnlyTheMarketLiquidates ==
    [][UNCHANGED market /\ ShocksOrdered /\ options.gamma <= 0
         /\ ~isLiquidatable /\ isLiquidatable' =>
            \E o \in resting :
                \/ Cancel(o) /\ HidesALoss(o)
                \/ /\ MakerFill(o)
                   /\ Nets(o.market, o.side) \/ balance < computePortfolioMargins.im]_vars
================================================================================
