------------------------------ MODULE PointsProgram ------------------------------
(***************************************************************************)
(* The points programme from the first fill to the last redemption:        *)
(* contracts/contracts/Points.sol (the ledger), PointsHook.sol (what a     *)
(* fill or a liquidation earns), PointsRedeemer.sol (points into GOV) and  *)
(* what points-indexer/src keeps of their logs.                            *)
(*                                                                         *)
(* Roles are the deployed ones: only the hook mints, only the redeemer     *)
(* burns.  A call that reverts is a step that is not taken.                *)
(***************************************************************************)
EXTENDS Integers, FiniteSets, Functions

CONSTANTS
    User,
    WEIGHT_SCALE,   \* one point per unit of notional; one times the rate
    Notional, Quote, \* what venues report of a fill; 0 is "no reference price"
    Weight, Reward, Fee, Mult, Width,   \* what the admin may set
    MaxSupply,      \* bounds of the exploration: points, and GOV ever funded
    MaxGov

ASSUME Users == IsFiniteSet(User)
ASSUME Scale == WEIGHT_SCALE \in Nat \ {0}
ASSUME Reported == Notional \subseteq Nat /\ Quote \subseteq Nat

Params == [wMaker : Nat, wTaker : Nat, keeperPoints : Nat, minFee : Nat,
           maxMakerMult : Nat, maxSpread : Nat]

ASSUME Settings ==
    /\ Weight \subseteq Nat /\ Reward \subseteq Nat /\ Fee \subseteq Nat
    /\ Mult \subseteq Nat /\ Width \subseteq Nat

VARIABLES
    balances, totalSupply, finalized,           \* Points
    params,                                     \* PointsHook
    enabled, govPool, totalPointsSnapshot,      \* PointsRedeemer
    gov,                                        \* GOV the redeemer holds
    totalEarned, redeemedPoints, govReceived    \* the subgraph's user rows

points == <<balances, totalSupply, finalized>>
redeemer == <<enabled, govPool, totalPointsSnapshot>>
rows == <<totalEarned, redeemedPoints, govReceived>>
vars == <<points, params, redeemer, gov, rows>>

Nothing == [u \in User |-> 0]

Init ==
    /\ balances = Nothing
    /\ totalSupply = 0
    /\ finalized = FALSE
    /\ params \in [wMaker : Weight, wTaker : Weight, keeperPoints : Reward,
                   minFee : {0}, maxMakerMult : {0}, maxSpread : {0}]
    /\ enabled = FALSE
    /\ govPool = 0
    /\ totalPointsSnapshot = 0
    /\ gov = 0
    /\ totalEarned = Nothing
    /\ redeemedPoints = Nothing
    /\ govReceived = Nothing

--------------------------------------------------------------------------------
(* Earning.                                                                *)

\* Variant: a wide quote is not cut off at the flat rate.
makerMultiplierUncut(p, makerPrice, refPrice) ==
    LET diff == IF makerPrice > refPrice THEN makerPrice - refPrice
                                         ELSE refPrice - makerPrice
    IN  IF p.maxMakerMult <= WEIGHT_SCALE \/ p.maxSpread = 0 \/ refPrice = 0
        THEN WEIGHT_SCALE
        ELSE p.maxMakerMult
               - ((p.maxMakerMult - WEIGHT_SCALE)
                    * ((diff * WEIGHT_SCALE) \div refPrice)) \div p.maxSpread

\* The full multiplier at the reference price, falling to the flat rate at the
\* widest spread that earns a bonus.
makerMultiplier(p, makerPrice, refPrice) ==
    LET diff == IF makerPrice > refPrice THEN makerPrice - refPrice
                                         ELSE refPrice - makerPrice
        spread == (diff * WEIGHT_SCALE) \div refPrice
    IN  IF \/ p.maxMakerMult <= WEIGHT_SCALE
           \/ p.maxSpread = 0
           \/ refPrice = 0
           \/ spread >= p.maxSpread
        THEN WEIGHT_SCALE
        ELSE p.maxMakerMult
               - ((p.maxMakerMult - WEIGHT_SCALE) * spread) \div p.maxSpread

takerPoints(notional, takerFee) ==
    IF takerFee >= params.minFee
    THEN (notional * params.wTaker) \div WEIGHT_SCALE ELSE 0

makerPoints(notional, makerFee, makerPrice, refPrice) ==
    IF makerFee > 0 /\ makerFee >= params.minFee
    THEN (notional * params.wMaker * makerMultiplier(params, makerPrice, refPrice))
            \div (WEIGHT_SCALE * WEIGHT_SCALE)
    ELSE 0

Added(held, u, amount) == [held EXCEPT ![u] = @ + amount]

Earned(u, amount, v, amount2) ==
    /\ totalSupply + amount + amount2 <= MaxSupply
    /\ balances' = Added(Added(balances, u, amount), v, amount2)
    /\ totalEarned' = Added(Added(totalEarned, u, amount), v, amount2)

\* Variant: the ledger is not frozen.
mintsUnfrozen(u, amount, v, amount2) ==
    /\ Earned(u, amount, v, amount2)
    /\ totalSupply' = totalSupply + amount + amount2

\* The mints of one call, to u and then to v; a mint of nothing is not made, and
\* one that reverts reverts the call.
mints(u, amount, v, amount2) ==
    /\ amount > 0 \/ amount2 > 0 => ~finalized
    /\ Earned(u, amount, v, amount2)
    /\ totalSupply' = totalSupply + amount + amount2

onFill(maker, taker, notional, makerFee, takerFee, makerPrice, refPrice) ==
    /\ maker # taker
    /\ mints(taker, takerPoints(notional, takerFee),
             maker, makerPoints(notional, makerFee, makerPrice, refPrice))
    /\ UNCHANGED <<finalized, params, redeemer, gov, redeemedPoints, govReceived>>

onLiquidation(liquidator) ==
    /\ mints(liquidator, params.keeperPoints, liquidator, 0)
    /\ UNCHANGED <<finalized, params, redeemer, gov, redeemedPoints, govReceived>>

setWeights(maker, taker) ==
    /\ params' = [params EXCEPT !.wMaker = maker, !.wTaker = taker]
    /\ UNCHANGED <<points, redeemer, gov, rows>>

setKeeperPoints(reward) ==
    /\ params' = [params EXCEPT !.keeperPoints = reward]
    /\ UNCHANGED <<points, redeemer, gov, rows>>

setMinFee(fee) ==
    /\ params' = [params EXCEPT !.minFee = fee]
    /\ UNCHANGED <<points, redeemer, gov, rows>>

setPriceImprovement(mult, width) ==
    /\ params' = [params EXCEPT !.maxMakerMult = mult, !.maxSpread = width]
    /\ UNCHANGED <<points, redeemer, gov, rows>>

finalize ==
    /\ ~finalized
    /\ finalized' = TRUE
    /\ UNCHANGED <<balances, totalSupply, params, redeemer, gov, rows>>

--------------------------------------------------------------------------------
(* Redeeming.                                                              *)

Fund(amount) ==
    /\ gov + amount <= MaxGov
    /\ gov' = gov + amount
    /\ UNCHANGED <<points, params, redeemer, rows>>

enableRedemption(pool) ==
    /\ ~enabled
    /\ finalized
    /\ pool > 0
    /\ gov >= pool
    /\ totalSupply > 0
    /\ enabled' = TRUE
    /\ govPool' = pool
    /\ totalPointsSnapshot' = totalSupply
    /\ UNCHANGED <<points, params, gov, rows>>

previewSwap(u) ==
    IF enabled THEN (govPool * balances[u]) \div totalPointsSnapshot ELSE 0

\* Variant: the denominator is what is left of the supply.
swapCurrentSupply(u) ==
    LET bal == balances[u]
        govAmount == (govPool * bal) \div totalSupply
    IN  /\ enabled
        /\ bal > 0
        /\ gov >= govAmount
        /\ gov' = gov - govAmount
        /\ balances' = [balances EXCEPT ![u] = 0]
        /\ totalSupply' = totalSupply - bal
        /\ redeemedPoints' = [redeemedPoints EXCEPT ![u] = @ + bal]
        /\ govReceived' = [govReceived EXCEPT ![u] = @ + govAmount]
        /\ UNCHANGED <<finalized, params, redeemer, totalEarned>>

\* Burns the caller's points; half of the GOV goes to the caller and the rest to
\* the escrow in the caller's name.
swap(u) ==
    LET bal == balances[u]
        govAmount == (govPool * bal) \div totalPointsSnapshot
    IN  /\ enabled
        /\ bal > 0
        /\ gov >= govAmount
        /\ gov' = gov - govAmount
        /\ balances' = [balances EXCEPT ![u] = 0]
        /\ totalSupply' = totalSupply - bal
        /\ redeemedPoints' = [redeemedPoints EXCEPT ![u] = @ + bal]
        /\ govReceived' = [govReceived EXCEPT ![u] = @ + govAmount]
        /\ UNCHANGED <<finalized, params, redeemer, totalEarned>>

recoverGov(amount) ==
    /\ gov >= amount
    /\ gov' = gov - amount
    /\ UNCHANGED <<points, params, redeemer, rows>>

--------------------------------------------------------------------------------

Fill ==
    \E maker, taker \in User, notional \in Notional, makerFee \in {-1, 0, 1},
       takerFee \in {0, 1}, makerPrice \in Quote \ {0}, refPrice \in Quote :
        onFill(maker, taker, notional, makerFee, takerFee, makerPrice, refPrice)

Tune ==
    \/ \E maker, taker \in Weight : setWeights(maker, taker)
    \/ \E reward \in Reward : setKeeperPoints(reward)
    \/ \E fee \in Fee : setMinFee(fee)
    \/ \E mult \in Mult, width \in Width : setPriceImprovement(mult, width)

Recover == \E amount \in 1 .. MaxGov : recoverGov(amount)

Next ==
    \/ Fill
    \/ \E u \in User : onLiquidation(u) \/ swap(u)
    \/ Tune
    \/ finalize
    \/ \E amount \in 1 .. MaxGov : Fund(amount) \/ enableRedemption(amount)
    \/ Recover

Spec == Init /\ [][Next]_vars

--------------------------------------------------------------------------------
(* Properties.                                                             *)

\* Once redemption is open the denominator no longer moves with the supply and
\* nobody's share depends on who redeems first: what a user got is the share of
\* everything it ever earned, once.
ShareIsPaidOnce ==
    \A u \in User :
        /\ totalEarned[u] = balances[u] + redeemedPoints[u]
        /\ redeemedPoints[u] > 0 =>
              /\ balances[u] = 0
              /\ govReceived[u]
                    = (govPool * totalEarned[u]) \div totalPointsSnapshot

Owed == SumFunction([u \in User |-> previewSwap(u)])

\* Whoever still holds points can be paid, in any order of swaps and whatever
\* the roundings, until the owner takes GOV back.
OnlyRecoveryUncovers ==
    [][Owed <= gov /\ Owed' > gov' => Recover]_vars

\* A quote nearer the reference price earns no less, and every quote between the
\* flat rate and the cap.
TighterEarnsMore ==
    \A ref \in Quote, near, far \in Quote \ {0} :
        LET Gap(price) == IF price > ref THEN price - ref ELSE ref - price
        IN  /\ makerMultiplier(params, near, ref) >= WEIGHT_SCALE
            /\ Gap(near) <= Gap(far) =>
                  makerMultiplier(params, near, ref)
                     >= makerMultiplier(params, far, ref)
================================================================================
