--------------------------- MODULE MCMarginedAccount ---------------------------
(* Small instances of MarginedAccount for TLC.                             *)
EXTENDS MarginedAccount, TLC

MCSymmetry == Permutations(Market)

\* In tenths: half the price against a fifth, and the two exchanged.
Ordered == [imSpot |-> 5, mmSpot |-> 2, imVol |-> 4, mmVol |-> 2]
Exchanged == [imSpot |-> 2, mmSpot |-> 5, imVol |-> 2, mmVol |-> 4]

MCShocks == {Ordered, Exchanged}

\* Nothing, or a sold option: short gamma and vega, half a lot of delta.
NoOptions == [delta |-> 0, gamma |-> 0, vega |-> 0, reserved |-> 0]
Sold == [delta |-> -5, gamma |-> -4, vega |-> -5, reserved |-> 1]

MCBooks == {NoOptions, Sold}
================================================================================
