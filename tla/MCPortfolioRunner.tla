--------------------------- MODULE MCPortfolioRunner ---------------------------
(* Small instances of PortfolioRunner for TLC.                             *)
EXTENDS PortfolioRunner

Scenario(markets, broken, m, f, u) ==
    [markets |-> markets, broken |-> broken, moves |-> m, faults |-> f, unheard |-> u]

\* One market of either kind: moves with faults, moves with moves, faults with
\* faults, levels placed twice.  Two markets: of a venue that refuses and one
\* that does not, and of one venue.
MCScenarios ==
    {Scenario(<<"perps">>, {}, 1, 1, 0), Scenario(<<"perps">>, {}, 2, 0, 0),
     Scenario(<<"perps">>, {}, 0, 1, 1), Scenario(<<"june">>, {}, 1, 1, 0),
     Scenario(<<"june">>, {}, 0, 1, 1), Scenario(<<"june">>, {}, 0, 2, 0),
     Scenario(<<"perps", "june">>, {"dex"}, 1, 0, 0), Scenario(<<"june", "july">>, {}, 0, 1, 0)}

MCVenueOf == [perps |-> "dex", june |-> "futures", july |-> "futures"]
MCCached == {"june", "july"}
MCSizes == <<2>>

Quote(price, bid, ask, sides) == [price |-> price, bid |-> bid, ask |-> ask, sides |-> sides]

\* A locked pair to widen, and the market above it, between two ticks.
MCQuotes ==
    {Quote(20, 20, 20, {"buy", "sell"}), Quote(24, 23, 23, {"buy", "sell"})}
================================================================================
