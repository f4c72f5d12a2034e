------------------------------ MODULE InsuredPool ------------------------------
(***************************************************************************)
(* What the collateral vault promises, whoever calls it: a pool of cash,   *)
(* shares of it, and a reserve that may run into debt.  Cash goes out      *)
(* only against the shares of one account that keeps what it needs, and    *)
(* never while the pool is locked.  Debt is shares given out for no cash:  *)
(* it empties the reserve, and past the limit it locks the pool, which     *)
(* opens again only at or under the limit.  A pool that nobody guards has  *)
(* no limit to borrow under.                                               *)
(*                                                                         *)
(* There are no calls here and no amounts: an action is a kind of change.  *)
(***************************************************************************)
EXTENDS Integers

CONSTANTS
    Account,
    RESERVE     \* the account in whose name the pool borrows

VARIABLES
    wealth,     \* shares of each account
    need,       \* what each account must keep
    held,       \* cash in the pool
    shares,     \* shares given out
    debt,       \* those given out for no cash
    locked,
    guarded,    \* somebody answers what the accounts need
    cap         \* the debt the guard allows

money == <<wealth, held, shares, debt>>
vars == <<money, need, locked, guarded, cap>>

limit == IF guarded THEN cap ELSE 0

Init ==
    /\ wealth = [a \in Account |-> 0]
    /\ need = [a \in Account |-> 0]
    /\ held = 0 /\ shares = 0 /\ debt = 0
    /\ ~locked
    /\ ~guarded
    /\ cap = 0

\* Cash in, if any, and shares from account to account: each new share has its
\* cash, and a debt is paid back with shares that are gone.
PayIn ==
    /\ held' >= held
    /\ debt' <= debt
    /\ held' + debt' - shares' = held + debt - shares
    /\ UNCHANGED <<need, locked, guarded, cap>>

\* Cash out, against the shares of one account and no other change.
PayOut ==
    /\ ~locked
    /\ held' < held
    /\ \E a \in Account :
          /\ wealth' = [wealth EXCEPT ![a] = @ - (held - held')]
          /\ guarded => wealth'[a] >= need[a]
    /\ shares' = shares - (held - held')
    /\ UNCHANGED <<debt, need, locked, guarded, cap>>

\* The reserve pays what it does not have.
Lend ==
    /\ debt' > debt
    /\ shares' = shares + (debt' - debt)
    /\ wealth'[RESERVE] = 0
    /\ locked' = (locked \/ debt' > limit)
    /\ UNCHANGED <<held, need, guarded, cap>>

\* Cash that nobody gets a share for.
Gift ==
    /\ held' > held
    /\ UNCHANGED <<wealth, shares, debt, need, locked, guarded, cap>>

Lock ==
    /\ locked' = TRUE
    /\ UNCHANGED <<money, need, guarded, cap>>

Unlock ==
    /\ debt <= limit
    /\ locked' = FALSE
    /\ UNCHANGED <<money, need, guarded, cap>>

\* Without a guard an open debt is past the limit.
Guard ==
    /\ guarded' \in BOOLEAN
    /\ locked' = (locked \/ (~guarded' /\ debt > 0))
    /\ UNCHANGED <<money, need, cap>>

SetCap ==
    /\ cap' \in Nat
    /\ UNCHANGED <<money, need, locked, guarded>>

NeedMoves ==
    /\ need' \in [Account -> Nat]
    /\ UNCHANGED <<money, locked, guarded, cap>>

Next ==
    \/ PayIn \/ PayOut \/ Lend \/ Gift
    \/ Lock \/ Unlock \/ Guard \/ SetCap \/ NeedMoves

Spec == Init /\ [][Next]_vars
================================================================================
