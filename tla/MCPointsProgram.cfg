\* Three users, five points and six GOV; the bonus for tight quotes on and off.
SPECIFICATION Spec
CONSTANTS
    User = {u1, u2, u3}
    WEIGHT_SCALE = 4
    Notional = {2}
    Quote = {0, 4, 8}
    Weight = {2, 3}
    Reward = {1}
    Fee = {0, 1}
    Mult = {0, 9}
    Width = {0, 3}
    MaxSupply = 5
    MaxGov = 6
SYMMETRY MCSymmetry
INVARIANTS ShareIsPaidOnce TighterEarnsMore
PROPERTIES OnlyRecoveryUncovers
CHECK_DEADLOCK FALSE
