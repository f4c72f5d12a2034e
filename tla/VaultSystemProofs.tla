--------------------------- MODULE VaultSystemProofs ---------------------------
(* What holds of CollateralVault for every choice of traders, venues,      *)
(* amounts, caps, margin requirements and bounds, and of the two systems   *)
(* built around it: VaultMarket, the venues that settle through it, and    *)
(* VaultIndexer, the subgraph that follows its logs.                       *)
EXTENDS VaultMarket, VaultIndexer, OperatorFacts, SequenceTheorems, TLAPS

(***************************************************************************)
(* The inductive invariant.  Its money part says more than Backing: a      *)
(* transfer into an indebted fund keeps Backing because _update burns what *)
(* it takes off the debt, and that burn is covered only if the fund held   *)
(* nothing, which is FundEmptyWhileInDebt, which in turn needs the types.  *)
(***************************************************************************)

Surplus == collateral + insuranceDebt - totalSupply

MoneyInv ==
    /\ balance \in [Account -> Nat]
    /\ totalSupply \in Int
    /\ insuranceDebt \in Nat
    /\ collateral \in Nat
    /\ FundEmptyWhileInDebt
    /\ Backing

ControlInv ==
    /\ traderBadDebtTotal \in Nat
    /\ insuranceCapital \in Int
    /\ halted \in BOOLEAN
    /\ insuranceDebtCap \in Nat
    /\ marginEngine \in PinnedEngine \cup {NoEngine}
    /\ authorizedCallers \subseteq Venue
    /\ unwindParams \in [band : 0..MAX_BACKSTOP_PARAM_BPS,
                         fee : 0..MAX_BACKSTOP_PARAM_BPS]
    /\ version \in {1, 2}
    /\ requiredIM \in [Account -> Nat]

Inv == MoneyInv /\ ControlInv /\ NoUnguardedDebt

LEMMA InvIsEnough == Inv => Backing /\ FundEmptyWhileInDebt
BY DEF Inv, MoneyInv

LEMMA Bound == MAX_BACKSTOP_PARAM_BPS \in Nat
BY DEF MAX_BACKSTOP_PARAM_BPS

LEMMA FundIsAccount == FUND \in Account /\ BACKSTOP \in Account
BY DEF Account

--------------------------------------------------------------------------------
(* Movements of the receipt token, with the USDC that moves along.         *)

\* What a movement owes the rest of the proof.
Sound ==
    /\ MoneyInv'
    /\ Surplus' = Surplus
    /\ insuranceDebt' > 0 => insuranceDebt > 0
    /\ ~(insuranceDebt' > insuranceDebt)

\* The one movement that adds debt.
Borrows ==
    /\ Surplus' = Surplus
    /\ \E to \in Account, amount \in Nat : to # FUND /\ Borrow(to, amount)

LEMMA TransferMoves ==
    ASSUME MoneyInv, NEW from \in Account, NEW to \in Account,
           NEW amount \in Nat, Transfer(from, to, amount), UNCHANGED collateral
    PROVE  Sound
PROOF
<1>1. CASE to = FUND
  BY <1>1, FundIsAccount
     DEF Transfer, Credit, Debit, Repaid, Smaller, MoneyInv, Surplus, Sound,
         FundEmptyWhileInDebt, Backing
<1>2. CASE to # FUND
  BY <1>2, FundIsAccount
     DEF Transfer, Credit, Debit, Repaid, MoneyInv, Surplus, Sound,
         FundEmptyWhileInDebt, Backing
<1> QED
  BY <1>1, <1>2

LEMMA DepositMoves ==
    ASSUME MoneyInv, NEW to \in Account, NEW amount \in Nat,
           DepositFor(to, amount)
    PROVE  Sound
PROOF
<1>1. CASE to = FUND
  BY <1>1, FundIsAccount
     DEF DepositFor, Mint, Credit, Repaid, Smaller, MoneyInv, Surplus, Sound,
         FundEmptyWhileInDebt, Backing
<1>2. CASE to # FUND
  BY <1>2, FundIsAccount
     DEF DepositFor, Mint, Credit, Repaid, MoneyInv, Surplus, Sound,
         FundEmptyWhileInDebt, Backing
<1> QED
  BY <1>1, <1>2

LEMMA WithdrawMoves ==
    ASSUME MoneyInv, NEW from \in Account, NEW amount \in Nat,
           WithdrawTo(from, amount)
    PROVE  Sound
BY FundIsAccount
   DEF WithdrawTo, Burn, Debit, MoneyInv, Surplus, Sound, FundEmptyWhileInDebt,
       Backing

\* A borrow for somebody else repays nothing: the fund is emptied and the rest is
\* minted and booked.
LEMMA BorrowPays ==
    ASSUME balance \in [Account -> Int], totalSupply \in Int, insuranceDebt \in Int,
           NEW to \in Account, to # FUND, NEW amount \in Int, Borrow(to, amount)
    PROVE  /\ balance' = [balance EXCEPT ![FUND] = 0, ![to] = balance[to] + amount]
           /\ totalSupply' = totalSupply + (amount - balance[FUND])
           /\ insuranceDebt' = insuranceDebt + (amount - balance[FUND])
PROOF
<1>1. Repaid(to, amount) = 0
  BY DEF Repaid
<1>2. balance[FUND] \in Int /\ balance[FUND] - balance[FUND] = 0
  BY FundIsAccount
<1> DEFINE emptied == [balance EXCEPT ![FUND] = 0]
<1>3. Debit(balance, FUND, balance[FUND]) = emptied
  BY <1>2 DEF Debit
<1>4. emptied[to] = balance[to] /\ balance[to] \in Int
  OBVIOUS
<1>5. Credit(emptied, to, amount) = [emptied EXCEPT ![to] = balance[to] + amount]
  BY <1>1, <1>4 DEF Credit
<1>6. balance' = Credit(emptied, to, amount)
  BY <1>3 DEF Borrow
<1>7. /\ totalSupply' = totalSupply + (amount - balance[FUND])
      /\ insuranceDebt' = insuranceDebt + (amount - balance[FUND])
  BY <1>1, <1>2 DEF Borrow
<1> QED
  BY <1>5, <1>6, <1>7

LEMMA BorrowMoves ==
    ASSUME MoneyInv, NEW to \in Account, to # FUND, NEW amount \in Nat,
           Borrow(to, amount), UNCHANGED collateral
    PROVE  MoneyInv' /\ Surplus' = Surplus
PROOF
<1>1. /\ balance' = [balance EXCEPT ![FUND] = 0, ![to] = balance[to] + amount]
      /\ totalSupply' = totalSupply + (amount - balance[FUND])
      /\ insuranceDebt' = insuranceDebt + (amount - balance[FUND])
  BY BorrowPays DEF MoneyInv
<1>2. balance[FUND] < amount
  BY DEF Borrow
<1> QED
  BY <1>1, <1>2, FundIsAccount DEF MoneyInv, Surplus, FundEmptyWhileInDebt, Backing

--------------------------------------------------------------------------------
(* The invariant holds initially and every call keeps it.                  *)

LEMMA InitInv == Init => Inv
PROOF
<1> SUFFICES ASSUME Init PROVE Inv
  OBVIOUS
<1>1. MoneyInv
  BY DEF Init, MoneyInv, FundEmptyWhileInDebt, Backing
<1>2. unwindParams \in [band : 0..MAX_BACKSTOP_PARAM_BPS,
                       fee : 0..MAX_BACKSTOP_PARAM_BPS]
  BY Bound DEF Init
<1>3. ControlInv
  <2>1. requiredIM \in [Account -> Nat]
    BY DEF Init
  <2>2. /\ traderBadDebtTotal \in Nat /\ insuranceCapital \in Int
        /\ insuranceDebtCap \in Nat /\ version \in {1, 2}
    BY DEF Init
  <2>3. /\ marginEngine \in PinnedEngine \cup {NoEngine}
        /\ authorizedCallers \subseteq Venue /\ halted \in BOOLEAN
    BY DEF Init
  <2> QED
    BY <1>2, <2>1, <2>2, <2>3 DEF ControlInv
<1>4. NoUnguardedDebt
  BY DEF Init, NoUnguardedDebt
<1> QED
  BY <1>1, <1>3, <1>4 DEF Inv

\* A sound movement that leaves the controls alone keeps the invariant.
LEMMA SoundStep ==
    ASSUME Inv, Sound, ControlInv', UNCHANGED <<halted, config>>
    PROVE  Inv'
BY DEF Inv, Sound, NoUnguardedDebt, config

\* A settlement, whoever pays, keeps the surplus and the invariant: a borrow
\* mints and books the same amount, and latches the halt if no engine is set.
LEMMA SettleTransferStep ==
    ASSUME Inv, NEW from \in Account, NEW to \in Account, NEW amount \in Nat,
           ~(from = FUND /\ to = FUND), SettleTransfer(from, to, amount), requiredIM' \in [Account -> Nat]
    PROVE  Inv' /\ (Sound \/ Borrows)
PROOF
<1>1. /\ MoneyInv /\ ControlInv /\ FUND \in Account
      /\ UNCHANGED <<collateral, insuranceCapital, config>>
  BY FundIsAccount DEF Inv, SettleTransfer
<1>2. CASE SettleFromPayer(from, to, amount)
  <2>1. PICK pay \in Nat : /\ pay = Smaller(balance[from], amount)
                           /\ pay <= amount
    BY <1>1 DEF Smaller, MoneyInv
  <2>2. Sound /\ UNCHANGED halted
    BY <1>1, <1>2, <2>1, TransferMoves DEF SettleFromPayer
  <2>3. traderBadDebtTotal' \in Nat
    BY <1>1, <1>2, <2>1 DEF SettleFromPayer, ControlInv
  <2>4. ControlInv'
    BY <1>1, <2>2, <2>3 DEF ControlInv, config
  <2> QED
    BY <1>1, <2>2, <2>4, SoundStep
<1>3. CASE from = FUND /\ to # FUND /\ SettleFromCoveredFund(to, amount)
  <2>1. Sound /\ UNCHANGED <<traderBadDebtTotal, halted>>
    BY <1>1, <1>3, TransferMoves DEF SettleFromCoveredFund
  <2>2. ControlInv'
    BY <1>1, <2>1 DEF ControlInv, config
  <2> QED
    BY <1>1, <2>1, <2>2, SoundStep
<1>4. CASE from = FUND /\ to # FUND /\ Borrow(to, amount)
  <2>1. MoneyInv' /\ Surplus' = Surplus
    BY <1>1, <1>4, BorrowMoves
  <2>2. ControlInv'
    BY <1>1, <1>4 DEF ControlInv, config, Borrow
  <2>3. NoUnguardedDebt'
    BY <1>1, <1>4 DEF Borrow, effectiveInsuranceDebtCap, NoUnguardedDebt, config
  <2> QED
    BY <1>4, <2>1, <2>2, <2>3 DEF Inv, Borrows
<1> QED
  BY <1>2, <1>3, <1>4 DEF SettleTransfer, SettleFromPayer

\* The calls that leave the ledger alone.
LEMMA MoneyKept ==
    ASSUME Inv, UNCHANGED <<ledger, collateral>>
    PROVE  Sound
BY DEF Inv, MoneyInv, Sound, Surplus, FundEmptyWhileInDebt, Backing, ledger

LEMMA OwnerStep ==
    ASSUME Inv, OwnerCall
    PROVE  Inv' /\ Sound
PROOF
<1> USE DEF Inv, money, config
<1>1. Sound
  <2>1. UNCHANGED <<ledger, collateral>>
    BY DEF OwnerCall, Configure, setAuthorizedCaller, setMarginEngine, setInsuranceDebtCap,
       setBackstopParams, halt, resume, initializeV2
  <2> QED
    BY <2>1, MoneyKept
<1>2. ASSUME NEW c \in Venue, NEW b \in BOOLEAN, setAuthorizedCaller(c, b)
      PROVE  ControlInv' /\ NoUnguardedDebt'
  BY <1>2, <1>1 DEF setAuthorizedCaller, ControlInv, NoUnguardedDebt, losses, Sound
<1>3. ASSUME NEW e \in Engine \cup {NoEngine}, setMarginEngine(e)
      PROVE  ControlInv' /\ NoUnguardedDebt'
  BY <1>3 DEF setMarginEngine, ControlInv, NoUnguardedDebt, losses, ledger
<1>4. ASSUME NEW c \in DebtCap, setInsuranceDebtCap(c)
      PROVE  ControlInv' /\ NoUnguardedDebt'
  BY <1>4, Quantities
     DEF setInsuranceDebtCap, ControlInv, NoUnguardedDebt, losses, ledger
<1>5. ASSUME NEW b \in UnwindParam, NEW f \in UnwindParam,
             setBackstopParams(b, f)
      PROVE  ControlInv' /\ NoUnguardedDebt'
  <2>1. b \in 0..MAX_BACKSTOP_PARAM_BPS /\ f \in 0..MAX_BACKSTOP_PARAM_BPS
    BY <1>5, Bound, Quantities DEF setBackstopParams
  <2> QED
    BY <1>5, <2>1
       DEF setBackstopParams, ControlInv, NoUnguardedDebt, losses, ledger
<1>6. ASSUME halt PROVE ControlInv' /\ NoUnguardedDebt'
  BY <1>6 DEF halt, ControlInv, NoUnguardedDebt, losses
<1>7. ASSUME resume PROVE ControlInv' /\ NoUnguardedDebt'
  <2>1. ControlInv'
    BY <1>7 DEF resume, ControlInv, losses
  <2>2. marginEngine = NoEngine => ~(insuranceDebt > 0)
    BY <1>7 DEF resume, effectiveInsuranceDebtCap, MoneyInv
  <2> QED
    BY <1>7, <2>1, <2>2 DEF resume, NoUnguardedDebt, ledger
<1>8. ASSUME initializeV2 PROVE ControlInv' /\ NoUnguardedDebt'
  BY <1>8, FundIsAccount
     DEF initializeV2, ControlInv, MoneyInv, NoUnguardedDebt, ledger
<1> QED
  BY <1>1, <1>2, <1>3, <1>4, <1>5, <1>6, <1>7, <1>8 DEF OwnerCall, Configure, Sound

\* Calls by users, venues and the owner's fund movements, and the world.
LEMMA CallStep ==
    ASSUME Inv, UserCall \/ VenueCall \/ FundCall \/ Environment
    PROVE  /\ Inv'
           /\ Sound \/ Borrows \/ \E amount \in Amount : Donate(amount)
PROOF
<1>0. MoneyInv /\ ControlInv /\ FUND \in Account /\ BACKSTOP \in Account
  BY FundIsAccount DEF Inv
<1>1. ASSUME NEW a \in Account, NEW amount \in Amount, deposit(a, amount)
      PROVE  Inv' /\ (Sound \/ Borrows)
  <2>1. Sound
    BY <1>0, <1>1, DepositMoves, Quantities DEF deposit
  <2> QED
    BY <1>0, <1>1, <2>1, SoundStep DEF deposit, ControlInv, losses, config
<1>2. ASSUME NEW a \in Account, NEW amount \in Amount, withdraw(a, amount)
      PROVE  Inv' /\ (Sound \/ Borrows)
  <2>1. Sound
    BY <1>0, <1>2, WithdrawMoves, Quantities DEF withdraw
  <2> QED
    BY <1>0, <1>2, <2>1, SoundStep DEF withdraw, ControlInv, losses, config
<1>3. ASSUME NEW from \in Account, NEW to \in Account, NEW amount \in Amount,
             \/ internalTransfer(from, to, amount)
             \/ internalTransferWithMarginCheck(from, to, amount)
      PROVE  Inv' /\ (Sound \/ Borrows)
  <2>1. /\ Transfer(from, to, amount)
        /\ UNCHANGED <<collateral, losses, halted, config, requiredIM>>
    BY <1>3 DEF internalTransfer, internalTransferWithMarginCheck
  <2>2. Sound
    BY <1>0, <2>1, TransferMoves, Quantities
  <2> QED
    BY <1>0, <2>1, <2>2, SoundStep DEF ControlInv, losses, config
<1>4. ASSUME NEW from \in Account, NEW to \in Account, NEW amount \in Amount,
             VenueSettles(from, to, amount)
      PROVE  Inv' /\ (Sound \/ Borrows)
  BY <1>0, <1>4, SettleTransferStep, Quantities
     DEF VenueSettles, settleTransfer, ControlInv
<1>5. ASSUME NEW amount \in Amount, depositInsuranceFund(amount)
      PROVE  Inv' /\ (Sound \/ Borrows)
  <2>1. Sound
    BY <1>0, <1>5, DepositMoves, Quantities DEF depositInsuranceFund
  <2>2. ControlInv'
    BY <1>0, <1>5, Quantities DEF depositInsuranceFund, ControlInv, config
  <2> QED
    BY <1>5, <2>1, <2>2, SoundStep DEF depositInsuranceFund
<1>6. ASSUME NEW amount \in Amount, withdrawInsuranceFund(amount)
      PROVE  Inv' /\ (Sound \/ Borrows)
  <2>1. Sound
    BY <1>0, <1>6, WithdrawMoves, Quantities DEF withdrawInsuranceFund
  <2>2. ControlInv'
    BY <1>0, <1>6, Quantities DEF withdrawInsuranceFund, ControlInv, config
  <2> QED
    BY <1>6, <2>1, <2>2, SoundStep DEF withdrawInsuranceFund
<1>7. ASSUME NEW amount \in Amount, withdrawBackstop(amount)
      PROVE  Inv' /\ (Sound \/ Borrows)
  <2>1. Sound
    BY <1>0, <1>7, WithdrawMoves, Quantities DEF withdrawBackstop
  <2> QED
    BY <1>0, <1>7, <2>1, SoundStep
       DEF withdrawBackstop, ControlInv, losses, config
<1>8. ASSUME NEW a \in Trader \cup {BACKSTOP}, NEW r \in Requirement,
             MarginMoves(a, r)
      PROVE  Inv' /\ (Sound \/ Borrows)
  <2>1. Sound
    BY <1>8, MoneyKept DEF MarginMoves
  <2>2. ControlInv'
    BY <1>0, <1>8, Quantities DEF MarginMoves, ControlInv, losses, config
  <2> QED
    BY <1>8, <2>1, <2>2, SoundStep DEF MarginMoves
<1>9. ASSUME NEW amount \in Amount, Donate(amount)
      PROVE  Inv'
  <2>1. MoneyInv'
    BY <1>0, <1>9, Quantities
       DEF Donate, MoneyInv, FundEmptyWhileInDebt, Backing, ledger
  <2>2. ControlInv' /\ NoUnguardedDebt'
    BY <1>0, <1>9
       DEF Donate, ControlInv, Inv, NoUnguardedDebt, losses, config, ledger
  <2> QED
    BY <2>1, <2>2 DEF Inv
<1> QED
  BY <1>1, <1>2, <1>3, <1>4, <1>5, <1>6, <1>7, <1>8, <1>9
     DEF UserCall, VenueCall, FundCall, Environment

LEMMA StutterInv == Inv /\ UNCHANGED vars => Inv'
BY DEF Inv, MoneyInv, ControlInv, NoUnguardedDebt, FundEmptyWhileInDebt, Backing,
   vars, ledger, losses, config

THEOREM InductiveInvariant == Spec => []Inv
PROOF
<1>1. Inv /\ [Next]_vars => Inv'
  BY CallStep, OwnerStep, StutterInv DEF Next
<1> QED
  BY InitInv, <1>1, PTL DEF Spec

--------------------------------------------------------------------------------
(* The supply.  Every movement changes the supply by what it changes in    *)
(* all balances together, the repayment burn of _update included.          *)

LEMMA AccountsAreFinite == IsFiniteSet(Account)
PROOF
<1>1. IsFiniteSet({FUND, BACKSTOP})
  <2>1. IsFiniteSet({FUND} \cup {BACKSTOP})
    BY FS_Singleton, FS_Union
  <2>2. {FUND, BACKSTOP} = {FUND} \cup {BACKSTOP}
    OBVIOUS
  <2> QED
    BY <2>1, <2>2
<1>2. IsFiniteSet(Trader \cup Venue)
  BY FiniteAddresses, FS_Union
<1> QED
  BY <1>1, <1>2, FS_Union DEF Account

\* One balance moves by d, and so does their sum.
Moved(after, bal, a, d) == after = [bal EXCEPT ![a] = bal[a] + d]

LEMMA OneBalanceMoves ==
    ASSUME NEW bal \in [Account -> Int], NEW a \in Account, NEW d \in Int,
           NEW after, Moved(after, bal, a, d)
    PROVE  SumFunction(after) = SumFunction(bal) + d
BY SumAfterChange, AccountsAreFinite DEF Moved

LEMMA CreditAdds ==
    ASSUME NEW bal \in [Account -> Int], NEW to \in Account, NEW amount \in Int,
           insuranceDebt \in Int
    PROVE  /\ SumFunction(Credit(bal, to, amount))
                = SumFunction(bal) + (amount - Repaid(to, amount))
           /\ Repaid(to, amount) \in Int
PROOF
<1>1. Repaid(to, amount) \in Int
  BY DEF Repaid, Smaller
<1>2. Moved(Credit(bal, to, amount), bal, to, amount - Repaid(to, amount))
  <2>1. bal[to] + amount - Repaid(to, amount) = bal[to] + (amount - Repaid(to, amount))
    BY <1>1
  <2> QED
    BY <2>1 DEF Credit, Moved
<1>3. amount - Repaid(to, amount) \in Int
  BY <1>1
<1> QED
  BY <1>1, <1>2, <1>3, OneBalanceMoves

LEMMA DebitTakes ==
    ASSUME NEW bal \in [Account -> Int], NEW from \in Account, NEW amount \in Int
    PROVE  /\ SumFunction(Debit(bal, from, amount)) = SumFunction(bal) + (-amount)
           /\ Debit(bal, from, amount) \in [Account -> Int]
PROOF
<1>1. Moved(Debit(bal, from, amount), bal, from, -amount)
  <2>1. bal[from] - amount = bal[from] + (-amount)
    OBVIOUS
  <2> QED
    BY <2>1 DEF Debit, Moved
<1>2. -amount \in Int /\ Debit(bal, from, amount) \in [Account -> Int]
  BY DEF Debit
<1> QED
  BY <1>1, <1>2, OneBalanceMoves

LEMMA BalancesAdd ==
    ASSUME MoneyInv
    PROVE  /\ balance \in [Account -> Int] /\ insuranceDebt \in Int
           /\ totalSupply \in Int /\ SumFunction(balance) \in Int
BY SumOfFunction, AccountsAreFinite DEF MoneyInv

LEMMA TransferConserves ==
    ASSUME MoneyInv, SupplyIsSumOfBalances, NEW from \in Account,
           NEW to \in Account, NEW amount \in Int, Transfer(from, to, amount)
    PROVE  SupplyIsSumOfBalances'
PROOF
<1> DEFINE paid == Debit(balance, from, amount)
<1>1. SumFunction(paid) = SumFunction(balance) + (-amount) /\ paid \in [Account -> Int]
  BY BalancesAdd, DebitTakes
<1> HIDE DEF paid
<1>2. /\ SumFunction(Credit(paid, to, amount))
            = SumFunction(paid) + (amount - Repaid(to, amount))
      /\ Repaid(to, amount) \in Int
  BY <1>1, BalancesAdd, CreditAdds
<1>3. balance' = Credit(paid, to, amount) /\ totalSupply' = totalSupply - Repaid(to, amount)
  BY DEF Transfer, paid
<1> QED
  BY <1>1, <1>2, <1>3, BalancesAdd DEF SupplyIsSumOfBalances

LEMMA DepositConserves ==
    ASSUME MoneyInv, SupplyIsSumOfBalances, NEW to \in Account,
           NEW amount \in Int, DepositFor(to, amount)
    PROVE  SupplyIsSumOfBalances'
PROOF
<1>1. /\ SumFunction(balance') = SumFunction(balance) + (amount - Repaid(to, amount))
      /\ Repaid(to, amount) \in Int
      /\ totalSupply' = totalSupply + amount - Repaid(to, amount)
  BY BalancesAdd, CreditAdds DEF DepositFor, Mint
<1> QED
  BY <1>1, BalancesAdd DEF SupplyIsSumOfBalances

LEMMA WithdrawConserves ==
    ASSUME MoneyInv, SupplyIsSumOfBalances, NEW from \in Account,
           NEW amount \in Int, WithdrawTo(from, amount)
    PROVE  SupplyIsSumOfBalances'
PROOF
<1>1. /\ SumFunction(balance') = SumFunction(balance) + (-amount)
      /\ totalSupply' = totalSupply - amount
  BY BalancesAdd, DebitTakes DEF WithdrawTo, Burn
<1> QED
  BY <1>1, BalancesAdd DEF SupplyIsSumOfBalances

\* A borrow empties the fund and pays out more than it held: what it mints is
\* the difference.
LEMMA BorrowConserves ==
    ASSUME MoneyInv, SupplyIsSumOfBalances, NEW to \in Account, to # FUND,
           NEW amount \in Int, Borrow(to, amount)
    PROVE  SupplyIsSumOfBalances'
PROOF
<1>0. balance[FUND] \in Int /\ balance[to] \in Int
  BY FundIsAccount, BalancesAdd
<1> DEFINE emptied == Debit(balance, FUND, balance[FUND])
<1>1. /\ SumFunction(emptied) = SumFunction(balance) + (-balance[FUND])
      /\ emptied \in [Account -> Int]
  BY <1>0, BalancesAdd, DebitTakes, FundIsAccount
<1>2. Moved(balance', emptied, to, amount)
  <2>1. balance' = [balance EXCEPT ![FUND] = 0, ![to] = balance[to] + amount]
    BY BorrowPays, BalancesAdd DEF MoneyInv
  <2>2. emptied = [balance EXCEPT ![FUND] = 0]
    <3>1. balance[FUND] - balance[FUND] = 0
      BY <1>0
    <3> QED
      BY <3>1 DEF Debit
  <2>3. emptied[to] = balance[to]
    BY <1>0, <2>2, BalancesAdd
  <2> HIDE DEF emptied
  <2> QED
    BY <2>1, <2>2, <2>3 DEF Moved
<1> HIDE DEF emptied
<1>3. SumFunction(balance') = SumFunction(emptied) + amount
  BY <1>1, <1>2, OneBalanceMoves
<1>4. totalSupply' = totalSupply + (amount - balance[FUND])
  BY BorrowPays, BalancesAdd DEF MoneyInv
<1> QED
  BY <1>0, <1>1, <1>3, <1>4, BalancesAdd DEF SupplyIsSumOfBalances

LEMMA SettleTransferConserves ==
    ASSUME MoneyInv, SupplyIsSumOfBalances, NEW from \in Account, NEW to \in Account,
           NEW amount \in Nat, ~(from = FUND /\ to = FUND),
           SettleTransfer(from, to, amount)
    PROVE  SupplyIsSumOfBalances'
PROOF
<1>1. Smaller(balance[from], amount) \in Int
  BY DEF Smaller, MoneyInv
<1> QED
  BY <1>1, TransferConserves, BorrowConserves, FundIsAccount
     DEF SettleTransfer, SettleFromPayer, SettleFromCoveredFund

LEMMA LedgerKept ==
    ASSUME SupplyIsSumOfBalances, UNCHANGED ledger
    PROVE  SupplyIsSumOfBalances'
BY DEF SupplyIsSumOfBalances, ledger

LEMMA NextConserves ==
    ASSUME MoneyInv, SupplyIsSumOfBalances, Next
    PROVE  SupplyIsSumOfBalances'
PROOF
<1> USE Quantities, FundIsAccount
<1>1. CASE UserCall
  BY <1>1, DepositConserves, WithdrawConserves DEF UserCall, deposit, withdraw
<1>2. CASE VenueCall
  BY <1>2, TransferConserves, SettleTransferConserves
     DEF VenueCall, VenueSettles, internalTransfer, internalTransferWithMarginCheck,
         settleTransfer
<1>3. CASE FundCall
  BY <1>3, DepositConserves, WithdrawConserves
     DEF FundCall, depositInsuranceFund, withdrawInsuranceFund, withdrawBackstop
<1>4. CASE OwnerCall
  BY <1>4, LedgerKept
     DEF OwnerCall, Configure, setAuthorizedCaller, setMarginEngine, setInsuranceDebtCap,
         setBackstopParams, halt, resume, initializeV2, money
<1>5. CASE Environment
  BY <1>5, LedgerKept DEF Environment, MarginMoves, Donate
<1> QED
  BY <1>1, <1>2, <1>3, <1>4, <1>5 DEF Next

\* The receipts in existence are the balances of all accounts together, however
\* transfers, borrows and repayment burns interleave.
THEOREM SupplyExplained == Spec => []SupplyIsSumOfBalances
PROOF
<1>1. Init => SupplyIsSumOfBalances
  BY SumOfZeroFunction, AccountsAreFinite DEF Init, SupplyIsSumOfBalances
<1>2. Inv /\ SupplyIsSumOfBalances /\ [Next]_vars => SupplyIsSumOfBalances'
  BY NextConserves, LedgerKept DEF Inv, vars
<1> QED
  BY <1>1, <1>2, InductiveInvariant, PTL DEF Spec

--------------------------------------------------------------------------------
(* The results.                                                            *)

\* Every storage slot keeps its type: no uint256 of the vault underflows,
\* whatever the venues settle and however repayments interleave.
THEOREM TypeCorrect == Spec => []TypeOK
PROOF
<1>1. ASSUME Inv, SupplyIsSumOfBalances PROVE TypeOK
  <2>1. totalSupply \in Nat
    BY <1>1, SumOfNaturals, AccountsAreFinite DEF Inv, MoneyInv, SupplyIsSumOfBalances
  <2> QED
    BY <1>1, <2>1 DEF Inv, MoneyInv, ControlInv, TypeOK
<1> QED
  BY InductiveInvariant, SupplyExplained, <1>1, PTL

\* The vault's USDC and its booked debt always cover the receipts.
THEOREM BackingHolds == Spec => []Backing
BY InductiveInvariant, InvIsEnough, PTL

\* The fund never holds receipts while it owes.
THEOREM FundIsEmptyInDebt == Spec => []FundEmptyWhileInDebt
BY InductiveInvariant, InvIsEnough, PTL

\* Debt without a margin engine is always under a halt.
THEOREM DebtIsGuarded == Spec => []NoUnguardedDebt
PROOF
<1>1. Inv => NoUnguardedDebt
  BY DEF Inv
<1> QED
  BY InductiveInvariant, <1>1, PTL

--------------------------------------------------------------------------------
(* The vault implements the pool.                                          *)

\* A movement that neither lends nor pays USDC out.
LEMMA PoolPayIn ==
    ASSUME Inv, Sound, collateral' >= collateral,
           UNCHANGED <<halted, config, requiredIM>>
    PROVE  Pool!PayIn
PROOF
<1>1. /\ insuranceDebt \in Nat /\ totalSupply \in Int /\ collateral \in Nat
      /\ insuranceDebt' \in Nat /\ totalSupply' \in Int /\ collateral' \in Nat
  BY DEF Inv, Sound, MoneyInv
<1>2. /\ collateral' + insuranceDebt' - totalSupply'
           = collateral + insuranceDebt - totalSupply
      /\ ~(insuranceDebt' > insuranceDebt)
  BY DEF Sound, Surplus
<1>3. insuranceDebt' <= insuranceDebt
  BY <1>1, <1>2
<1>4. /\ UNCHANGED <<requiredIM, halted, insuranceDebtCap>>
      /\ (marginEngine # NoEngine)' = (marginEngine # NoEngine)
  BY DEF config
<1> QED
  BY <1>2, <1>3, <1>4 DEF Pool!PayIn

LEMMA PoolPayOut ==
    ASSUME Inv, NEW a \in Account, NEW amount \in Nat, WithdrawTo(a, amount),
           UNCHANGED <<halted, config, requiredIM>>
    PROVE  Pool!PayOut
PROOF
<1>1. collateral - collateral' = amount /\ collateral' < collateral
  BY DEF WithdrawTo, Inv, MoneyInv
<1>2. /\ balance' = [balance EXCEPT ![a] = @ - amount]
      /\ totalSupply' = totalSupply - amount
      /\ UNCHANGED insuranceDebt
  BY DEF WithdrawTo, Burn, Debit
<1>3. marginEngine # NoEngine => balance'[a] >= requiredIM[a]
  BY DEF WithdrawTo, CheckMargin
<1> QED
  BY <1>1, <1>2, <1>3 DEF Pool!PayOut, WithdrawTo, config

LEMMA PoolLend ==
    ASSUME Inv, NEW to \in Account, to # FUND, NEW amount \in Nat,
           Borrow(to, amount), UNCHANGED <<collateral, config, requiredIM>>
    PROVE  Pool!Lend
PROOF
<1>0. /\ balance' = [balance EXCEPT ![FUND] = 0, ![to] = balance[to] + amount]
      /\ totalSupply' = totalSupply + (amount - balance[FUND])
      /\ insuranceDebt' = insuranceDebt + (amount - balance[FUND])
      /\ balance[FUND] < amount
  <2>1. balance[FUND] < amount
    BY DEF Borrow
  <2> QED
    BY <2>1, BorrowPays DEF Inv, MoneyInv
<1>1. insuranceDebt' > insuranceDebt
  BY <1>0, FundIsAccount DEF Inv, MoneyInv
<1>2. totalSupply' = totalSupply + (insuranceDebt' - insuranceDebt)
  BY <1>0, FundIsAccount DEF Inv, MoneyInv
<1>3. balance'[FUND] = 0
  BY <1>0, FundIsAccount DEF Inv, MoneyInv
<1>4. halted' = (halted \/ insuranceDebt' > Pool!limit)
  BY DEF Borrow, effectiveInsuranceDebtCap, Pool!limit
<1> QED
  BY <1>1, <1>2, <1>3, <1>4 DEF Pool!Lend, config

LEMMA PoolUserCall ==
    ASSUME Inv, UserCall \/ FundCall
    PROVE  Pool!PayIn \/ Pool!PayOut
PROOF
<1>1. ASSUME NEW a \in Account, NEW amount \in Amount, DepositFor(a, amount),
             UNCHANGED <<halted, config, requiredIM>>
      PROVE  Pool!PayIn
  <2>1. Sound
    BY <1>1, DepositMoves, Quantities DEF Inv
  <2>2. collateral' >= collateral
    BY <1>1, Quantities DEF DepositFor, Inv, MoneyInv
  <2> QED
    BY <1>1, <2>1, <2>2, PoolPayIn
<1>2. ASSUME NEW a \in Account, NEW amount \in Amount, WithdrawTo(a, amount),
             UNCHANGED <<halted, config, requiredIM>>
      PROVE  Pool!PayOut
  BY <1>2, PoolPayOut, Quantities
<1>3. CASE UserCall
  BY <1>1, <1>2, <1>3 DEF UserCall, deposit, withdraw
<1>4. CASE FundCall
  BY <1>1, <1>2, <1>4, FundIsAccount
     DEF FundCall, depositInsuranceFund, withdrawInsuranceFund, withdrawBackstop
<1> QED
  BY <1>3, <1>4

LEMMA PoolVenueCall ==
    ASSUME Inv, VenueCall
    PROVE  Pool!PayIn \/ Pool!Lend
PROOF
<1>0. MoneyInv /\ collateral \in Nat
  BY DEF Inv, MoneyInv
<1>1. ASSUME NEW from \in Account, NEW to \in Account, NEW pay \in Nat,
             Transfer(from, to, pay),
             UNCHANGED <<collateral, halted, config, requiredIM>>
      PROVE  Pool!PayIn
  <2>1. Sound
    BY <1>0, <1>1, TransferMoves
  <2> QED
    BY <1>0, <1>1, <2>1, PoolPayIn
<1>2. ASSUME NEW from \in Account, NEW to \in Account, NEW amount \in Amount,
             \/ internalTransfer(from, to, amount)
             \/ internalTransferWithMarginCheck(from, to, amount)
      PROVE  Pool!PayIn
  BY <1>1, <1>2, Quantities DEF internalTransfer, internalTransferWithMarginCheck
<1>3. ASSUME NEW from \in Account, NEW to \in Account, NEW amount \in Amount,
             VenueSettles(from, to, amount)
      PROVE  Pool!PayIn \/ Pool!Lend
  <2>1. UNCHANGED <<collateral, config, requiredIM>> /\ amount \in Nat
    BY <1>3, Quantities DEF VenueSettles, settleTransfer, SettleTransfer
  <2>2. CASE SettleFromPayer(from, to, amount)
    <3>1. Smaller(balance[from], amount) \in Nat
      BY <1>0, <2>1 DEF Smaller, MoneyInv
    <3> QED
      BY <1>1, <2>1, <2>2, <3>1 DEF SettleFromPayer
  <2>3. CASE from = FUND /\ SettleFromCoveredFund(to, amount)
    BY <1>1, <2>1, <2>3 DEF SettleFromCoveredFund
  <2>4. CASE to # FUND /\ Borrow(to, amount)
    BY <2>1, <2>4, PoolLend
  <2> QED
    BY <1>3, <2>2, <2>3, <2>4 DEF VenueSettles, settleTransfer, SettleTransfer
<1> QED
  BY <1>2, <1>3 DEF VenueCall

LEMMA PoolOwnerCall ==
    ASSUME Inv, OwnerCall
    PROVE  [Pool!Next]_(Pool!vars)
PROOF
<1> USE DEF money, config, ledger, losses, Pool!vars, Pool!money, Pool!Next
<1>1. ASSUME NEW c \in Venue, NEW b \in BOOLEAN, setAuthorizedCaller(c, b)
      PROVE  UNCHANGED Pool!vars
  BY <1>1 DEF setAuthorizedCaller
<1>2. ASSUME NEW e \in Engine \cup {NoEngine}, setMarginEngine(e)
      PROVE  Pool!Guard
  BY <1>2 DEF setMarginEngine, Pool!Guard
<1>3. ASSUME NEW c \in DebtCap, setInsuranceDebtCap(c)
      PROVE  Pool!SetCap
  BY <1>3, Quantities DEF setInsuranceDebtCap, Pool!SetCap
<1>4. ASSUME NEW b \in UnwindParam, NEW f \in UnwindParam, setBackstopParams(b, f)
      PROVE  UNCHANGED Pool!vars
  BY <1>4 DEF setBackstopParams
<1>5. ASSUME halt PROVE Pool!Lock
  BY <1>5 DEF halt, Pool!Lock
<1>6. ASSUME resume PROVE Pool!Unlock
  BY <1>6 DEF resume, effectiveInsuranceDebtCap, Pool!Unlock, Pool!limit
<1>7. ASSUME initializeV2 PROVE UNCHANGED Pool!vars
  BY <1>7 DEF initializeV2
<1> QED
  BY <1>1, <1>2, <1>3, <1>4, <1>5, <1>6, <1>7 DEF OwnerCall, Configure

LEMMA PoolEnvironment ==
    ASSUME Inv, Environment
    PROVE  [Pool!Next]_(Pool!vars)
PROOF
<1>1. ASSUME NEW a \in Trader \cup {BACKSTOP}, NEW r \in Requirement,
             MarginMoves(a, r)
      PROVE  Pool!NeedMoves
  <2>1. requiredIM' \in [Account -> Nat]
    BY <1>1, Quantities DEF MarginMoves, Inv, ControlInv
  <2> QED
    BY <1>1, <2>1
       DEF MarginMoves, Pool!NeedMoves, Pool!money, config, ledger
<1>2. ASSUME NEW amount \in Amount, Donate(amount)
      PROVE  Pool!Gift \/ UNCHANGED Pool!vars
  BY <1>2, Quantities
     DEF Donate, Inv, MoneyInv, Pool!Gift, Pool!vars, Pool!money, config, ledger
<1> QED
  BY <1>1, <1>2 DEF Environment, Pool!Next

\* The vault is an insured pool: initial states are the pool's, and every call is
\* one of the pool's changes or leaves the pool alone.
THEOREM VaultImplementsPool == Spec => ImplementsPool
PROOF
<1>1. Init => Pool!Init
  BY DEF Init, Pool!Init
<1>2. Inv /\ [Next]_vars => [Pool!Next]_(Pool!vars)
  <2>1. CASE UNCHANGED vars
    BY <2>1 DEF vars, ledger, config, Pool!vars, Pool!money
  <2>2. CASE Inv /\ Next
    BY <2>2, PoolUserCall, PoolVenueCall, PoolOwnerCall, PoolEnvironment
       DEF Next, Pool!Next
  <2> QED
    BY <2>1, <2>2
<1> QED
  BY <1>1, <1>2, InductiveInvariant, PTL DEF Spec, ImplementsPool, Pool!Spec

--------------------------------------------------------------------------------
(* The vault and the venues.                                               *)

(***************************************************************************)
(* BooksExplainFund is inductive on top of the vault's own invariant: the  *)
(* fund being empty while in debt is what makes a borrow cost the fund     *)
(* exactly the amount paid out.  Timing debt being backed is then          *)
(* arithmetic.                                                             *)
(***************************************************************************)
MarketInv == Inv /\ MarketTypeOK /\ BooksExplainFund

LEMMA HolderIsAccount ==
    ASSUME NEW h \in Holder
    PROVE  h \in Account /\ h # FUND
BY ReservedAccounts DEF Holder, Account

LEMMA HoldersAreFinite == IsFiniteSet(Holder)
BY FiniteAddresses, FS_Singleton, FS_Union DEF Holder

LEMMA UnsettledType ==
    ASSUME MarketTypeOK
    PROVE  unsettled \in Int
BY SumOfFunction, HoldersAreFinite DEF MarketTypeOK, unsettled

\* What one holder gains or loses on paper, the fund will owe or be owed.
LEMMA UnsettledMoves ==
    ASSUME NEW f \in [Holder -> Int], NEW h \in Holder, NEW d \in Int,
           NEW g, Moved(g, f, h, d)
    PROVE  SumFunction(g) = SumFunction(f) + d
BY SumAfterChange, HoldersAreFinite DEF Moved

LEMMA UnsettledKept == UNCHANGED open => UNCHANGED unsettled
BY DEF unsettled

\* A mark takes from one holder what it gives another.
LEMMA MarkConserves ==
    ASSUME MarketTypeOK, NEW h \in Holder, NEW g \in Holder, NEW amount \in Int,
           MarkMoves(h, g, amount)
    PROVE  UNCHANGED unsettled
PROOF
<1> DEFINE won == [open EXCEPT ![h] = open[h] + amount]
<1>1. Moved(won, open, h, amount) /\ won \in [Holder -> Int]
  BY DEF Moved, MarketTypeOK
<1>2. Moved(open', won, g, -amount)
  <2>1. open' = [open EXCEPT ![h] = open[h] + amount, ![g] = open[g] - amount]
    BY DEF MarkMoves
  <2>2. won[g] = open[g] /\ open[g] \in Int
    BY DEF MarkMoves, MarketTypeOK
  <2>3. open[g] - amount = won[g] + (-amount)
    BY <2>2
  <2> QED
    BY <2>1, <2>3 DEF Moved
<1> HIDE DEF won
<1>3. SumFunction(won) = SumFunction(open) + amount /\ SumFunction(open) \in Int
  BY <1>1, UnsettledMoves, UnsettledType DEF MarketTypeOK, unsettled
<1>4. SumFunction(open') = SumFunction(won) + (-amount)
  BY <1>1, <1>2, UnsettledMoves
<1> QED
  BY <1>3, <1>4 DEF unsettled

LEMMA RealizeLossStep ==
    ASSUME MarketInv, NEW h \in Holder, NEW amount \in Nat,
           RealizeLoss(h, amount)
    PROVE  MarketInv'
PROOF
<1> USE HolderIsAccount, FundIsAccount
<1>1. Inv'
  BY SettleTransferStep DEF MarketInv, RealizeLoss, Inv, ControlInv
<1>2. MarketTypeOK'
  BY DEF MarketInv, MarketTypeOK, RealizeLoss
<1>3. SettleFromPayer(h, FUND, amount) /\ UNCHANGED <<insuranceCapital, gifts>>
  BY DEF RealizeLoss, SettleTransfer
<1>4. unsettled' = unsettled + amount /\ unsettled \in Int
  <2>1. Moved(open', open, h, amount)
    BY DEF RealizeLoss, Moved
  <2> QED
    BY <2>1, UnsettledMoves, UnsettledType DEF MarketInv, MarketTypeOK, unsettled
<1>5. BooksExplainFund'
  <2> USE <1>3, <1>4 DEF MarketInv, MarketTypeOK, BooksExplainFund,
                   SettleFromPayer, Transfer, Credit, Debit, Repaid, Smaller,
                   Inv, MoneyInv, ControlInv
  <2>1. CASE balance[h] < amount
    BY <2>1
  <2>2. CASE ~(balance[h] < amount)
    BY <2>2
  <2> QED
    BY <2>1, <2>2
<1> QED
  BY <1>1, <1>2, <1>5 DEF MarketInv

LEMMA RealizeGainStep ==
    ASSUME MarketInv, NEW h \in Holder, NEW amount \in Nat,
           RealizeGain(h, amount)
    PROVE  MarketInv'
PROOF
<1> USE HolderIsAccount, FundIsAccount
<1>1. Inv'
  BY SettleTransferStep DEF MarketInv, RealizeGain, Inv, ControlInv
<1>2. MarketTypeOK'
  BY DEF MarketInv, MarketTypeOK, RealizeGain
<1>3. /\ SettleFromCoveredFund(h, amount) \/ Borrow(h, amount)
      /\ UNCHANGED <<insuranceCapital, gifts>>
  BY DEF RealizeGain, SettleTransfer, SettleFromPayer
<1>4. unsettled' = unsettled - amount /\ unsettled \in Int
  <2>1. Moved(open', open, h, -amount)
    <3>1. open[h] - amount = open[h] + (-amount)
      BY DEF MarketInv, MarketTypeOK
    <3> QED
      BY <3>1 DEF RealizeGain, Moved
  <2>2. SumFunction(open') = SumFunction(open) + (-amount)
    BY <2>1, UnsettledMoves DEF MarketInv, MarketTypeOK
  <2> QED
    BY <2>2, UnsettledType DEF MarketInv, unsettled
<1>5. BooksExplainFund'
  <2> USE <1>3, <1>4 DEF MarketInv, MarketTypeOK, BooksExplainFund, Inv, MoneyInv,
              ControlInv
  <2>1. CASE SettleFromCoveredFund(h, amount)
    BY <2>1 DEF SettleFromCoveredFund, Transfer, Credit, Debit, Repaid
  <2>2. CASE Borrow(h, amount)
    <3>1. /\ balance' = [balance EXCEPT ![FUND] = 0, ![h] = balance[h] + amount]
          /\ insuranceDebt' = insuranceDebt + (amount - balance[FUND])
          /\ UNCHANGED traderBadDebtTotal
      BY <2>2, BorrowPays DEF Borrow
    <3> QED
      BY <3>1
  <2> QED
    BY <1>3, <2>1, <2>2
<1> QED
  BY <1>1, <1>2, <1>5 DEF MarketInv

LEMMA PayFeeStep ==
    ASSUME MarketInv, NEW h \in Holder, NEW v \in Venue, NEW amount \in Nat,
           PayFee(h, v, amount)
    PROVE  MarketInv'
PROOF
<1> USE HolderIsAccount, FundIsAccount
<1>0. v \in Account /\ v # FUND
  BY ReservedAccounts DEF Account
<1>1. Inv'
  BY <1>0, SettleTransferStep
     DEF MarketInv, PayFee, settleTransfer, Inv, ControlInv
<1>2. MarketTypeOK'
  BY DEF MarketInv, MarketTypeOK, PayFee
<1>3. /\ SettleFromPayer(h, v, amount)
      /\ UNCHANGED <<insuranceCapital, unsettled, gifts>> /\ unsettled \in Int
  BY UnsettledKept, UnsettledType DEF PayFee, settleTransfer, SettleTransfer, MarketInv
<1>4. BooksExplainFund'
  BY <1>0, <1>3
     DEF MarketInv, MarketTypeOK, BooksExplainFund, SettleFromPayer, Transfer,
         Credit, Debit, Repaid, Inv, MoneyInv, ControlInv
<1> QED
  BY <1>1, <1>2, <1>4 DEF MarketInv

\* What is deposited to the fund repays its debt or stays in it: its position
\* moves by the whole deposit.
LEMMA DepositedStep ==
    ASSUME MarketInv, NEW a \in Account, NEW amount \in Amount, Deposited(a, amount)
    PROVE  MarketInv'
PROOF
<1> USE FundIsAccount, Quantities
<1>1. Inv'
  BY CallStep DEF Deposited, MarketInv, UserCall
<1>2. MarketTypeOK'
  BY DEF MarketInv, MarketTypeOK, Deposited
<1>3. UNCHANGED unsettled /\ unsettled \in Int
  BY UnsettledKept, UnsettledType DEF Deposited, MarketInv
<1>4. BooksExplainFund'
  <2> USE <1>3 DEF MarketInv, MarketTypeOK, BooksExplainFund, Inv, MoneyInv, ControlInv,
                   Deposited, deposit, DepositFor, Mint, Credit, Repaid, Smaller, losses
  <2>1. CASE a = FUND
    BY <2>1
  <2>2. CASE a # FUND
    BY <2>2
  <2> QED
    BY <2>1, <2>2
<1> QED
  BY <1>1, <1>2, <1>4 DEF MarketInv

LEMMA OtherCallStep ==
    ASSUME MarketInv, OtherCall
    PROVE  MarketInv'
PROOF
<1> USE FundIsAccount, Quantities
<1>1. Inv'
  BY CallStep, OwnerStep DEF OtherCall, MarketInv, OwnerCall, UserCall
<1>2. MarketTypeOK'
  BY DEF MarketInv, MarketTypeOK, OtherCall
<1>3. BooksExplainFund'
  <2> USE DEF MarketInv, MarketTypeOK, BooksExplainFund, Inv, MoneyInv, ControlInv
  <2>0. UNCHANGED <<unsettled, gifts>> /\ unsettled \in Int
    BY UnsettledKept, UnsettledType DEF OtherCall
  <2>2. ASSUME NEW a \in Account, NEW amount \in Amount, withdraw(a, amount)
        PROVE  BooksExplainFund'
    <3>1. a # FUND
      BY <2>2, ReservedAccounts DEF withdraw
    <3> QED
      BY <2>0, <2>2, <3>1 DEF withdraw, WithdrawTo, Burn, Debit, losses
  <2>3. ASSUME NEW amount \in Amount, depositInsuranceFund(amount)
        PROVE  BooksExplainFund'
    BY <2>0, <2>3
       DEF depositInsuranceFund, DepositFor, Mint, Credit, Repaid, Smaller
  <2>4. ASSUME NEW amount \in Amount, withdrawInsuranceFund(amount)
        PROVE  BooksExplainFund'
    BY <2>0, <2>4 DEF withdrawInsuranceFund, WithdrawTo, Burn, Debit
  <2>5. ASSUME NEW amount \in Amount, withdrawBackstop(amount)
        PROVE  BooksExplainFund'
    BY <2>0, <2>5, ReservedAccounts
       DEF withdrawBackstop, WithdrawTo, Burn, Debit, losses
  <2>6. CASE Configure
    <3>1. UNCHANGED <<ledger, losses>>
      BY <2>6 DEF Configure, setAuthorizedCaller, setMarginEngine,
                  setInsuranceDebtCap, setBackstopParams, halt, resume, money
    <3> QED
      BY <2>0, <3>1 DEF ledger, losses
  <2> QED
    BY <2>2, <2>3, <2>4, <2>5, <2>6 DEF OtherCall, FundCall
<1> QED
  BY <1>1, <1>2, <1>3 DEF MarketInv

LEMMA MarkMovesStep ==
    ASSUME MarketInv, NEW h \in Holder, NEW g \in Holder, NEW amount \in Nat,
           MarkMoves(h, g, amount)
    PROVE  MarketInv'
PROOF
<1>1. Inv'
  BY StutterInv DEF MarkMoves, MarketInv
<1>2. MarketTypeOK'
  BY DEF MarketInv, MarketTypeOK, MarkMoves
<1>3. UNCHANGED unsettled
  BY MarkConserves DEF MarketInv
<1>4. BooksExplainFund'
  BY <1>3 DEF MarketInv, BooksExplainFund, MarkMoves, vars, ledger, losses
<1> QED
  BY <1>1, <1>2, <1>4 DEF MarketInv

LEMMA MarketInitInv == MarketInit => MarketInv
PROOF
<1> SUFFICES ASSUME MarketInit PROVE MarketInv
  OBVIOUS
<1>1. Inv
  BY InitInv DEF MarketInit
<1>2. MarketTypeOK /\ unsettled = 0
  BY SumOfZeroFunction, HoldersAreFinite DEF MarketInit, MarketTypeOK, unsettled
<1>3. BooksExplainFund
  BY <1>2, FundIsAccount DEF MarketInit, BooksExplainFund, Init
<1> QED
  BY <1>1, <1>2, <1>3 DEF MarketInv

THEOREM MarketInductive == MarketSpec => []MarketInv
PROOF
<1>1. ASSUME MarketInv, MarketNext PROVE MarketInv'
  BY <1>1, MarkMovesStep, RealizeLossStep, RealizeGainStep, PayFeeStep,
     DepositedStep, OtherCallStep, Quantities DEF MarketNext
<1>2. ASSUME MarketInv, UNCHANGED marketVars PROVE MarketInv'
  <2>1. Inv'
    BY <1>2, StutterInv DEF MarketInv, marketVars
  <2>2. (MarketTypeOK /\ BooksExplainFund)'
    BY <1>2, UnsettledKept DEF MarketInv, MarketTypeOK, BooksExplainFund, marketVars,
                vars, ledger, losses
  <2> QED
    BY <2>1, <2>2 DEF MarketInv
<1>3. MarketInv /\ [MarketNext]_marketVars => MarketInv'
  BY <1>1, <1>2
<1> QED
  BY MarketInitInv, <1>3, PTL DEF MarketSpec

\* However marks move and in whatever order profits and losses are realised,
\* the fund's net position is explained by capital, shortfalls and paper gains.
THEOREM BooksBalance == MarketSpec => []BooksExplainFund
PROOF
<1>1. MarketInv => BooksExplainFund
  BY DEF MarketInv
<1> QED
  BY MarketInductive, <1>1, PTL

\* Debt beyond the uncovered loss is matched by losses still to be realised.
THEOREM TimingDebtBacked == MarketSpec => []TimingDebtIsBacked
PROOF
<1>1. MarketInv => TimingDebtIsBacked
  <2> SUFFICES ASSUME MarketInv, timingDebt > 0 PROVE timingDebt <= -unsettled
    BY DEF TimingDebtIsBacked
  <2>1. /\ insuranceDebt \in Nat /\ traderBadDebtTotal \in Nat
        /\ insuranceCapital \in Int /\ unsettled \in Int /\ gifts \in Nat
    BY UnsettledType DEF MarketInv, Inv, MoneyInv, ControlInv, MarketTypeOK
  <2>2. insuranceDebt > 0 /\ timingDebt = insuranceDebt - uncoveredLoss
    BY <2>1 DEF timingDebt, uncoveredLoss
  <2>3. balance[FUND] = 0
    BY <2>2 DEF MarketInv, Inv, MoneyInv, FundEmptyWhileInDebt
  <2>4. -insuranceDebt = insuranceCapital + gifts - traderBadDebtTotal + unsettled
    BY <2>1, <2>3 DEF MarketInv, BooksExplainFund
  <2> QED
    BY <2>1, <2>2, <2>4 DEF uncoveredLoss
<1> QED
  BY MarketInductive, <1>1, PTL

(***************************************************************************)
(* The subgraph.  The invariant is about the block being filled: handling  *)
(* the logs that are in it now would leave the entities mirroring the      *)
(* vault as it is now.  A call adds its logs at the end, so what it adds   *)
(* to the block's outcome is what its logs do to entities that mirror the  *)
(* ledger before it; storing the block makes that outcome the entities.    *)
(*                                                                         *)
(* The block is handled by a fold over its calls and each call by a fold   *)
(* over its logs.  InSteps (OperatorFacts) turns a fold into the sequence  *)
(* of its intermediate entities, which is what an Append extends.          *)
(***************************************************************************)

Address == Account \cup {ZERO}

IndexState ==
    [balance : [Account -> Int], flow : [Account \ {FUND} -> Int],
     totalSupply : Int, insuranceFundBalance : Int, insuranceDebt : Int,
     traderBadDebtTotal : Int, insuranceCapital : Int,
     uncoveredLoss : Int, timingDebt : Int, halted : BOOLEAN,
     pendingDeposit : [user : Address, amount : Int]]

TransferLogSet == [event : {"Transfer"}, from : Address, to : Address, amount : Int]

UserLogSet ==
    [event : {"Deposited", "Withdrawn", "InsuranceFundDeposited",
              "InsuranceFundWithdrawn", "VaultHalted", "VaultResumed",
              "Initialized"},
     user : Address, amount : Int]

BadDebtLogSet ==
    [event : {"BadDebt"}, user : Address, receiver : Address, amount : Int]

LogSet == TransferLogSet \cup UserLogSet \cup BadDebtLogSet

--------------------------------------------------------------------------------
(* The handlers keep the shape of the entities.                            *)

LEMMA SplitType ==
    ASSUME NEW x \in IndexState
    PROVE  recomputeDebtSplit(x) \in IndexState
<1> DEFINE uncovered == IF x.traderBadDebtTotal > x.insuranceCapital
                        THEN x.traderBadDebtTotal - x.insuranceCapital
                        ELSE 0
           timing == IF x.insuranceDebt > uncovered
                     THEN x.insuranceDebt - uncovered
                     ELSE 0
<1>1. uncovered \in Int
    BY DEF IndexState
<1>2. timing \in Int
    <2> HIDE DEF uncovered
    <2> QED
        BY <1>1 DEF IndexState
<1>3. recomputeDebtSplit(x) = [x EXCEPT !.uncoveredLoss = uncovered, !.timingDebt = timing]
    BY DEF recomputeDebtSplit
<1> HIDE DEF uncovered, timing
<1> QED
    BY <1>1, <1>2, <1>3 DEF IndexState

LEMMA DeltaType ==
    ASSUME NEW e \in TransferLogSet, NEW a
    PROVE  Delta(e, a) \in Int
BY DEF TransferLogSet, Delta

LEMMA TransferBalancesType ==
    ASSUME NEW x \in IndexState, NEW e \in TransferLogSet
    PROVE  TransferBalances(x, e) \in IndexState
<1>1. [a \in Account |-> x.balance[a] + Delta(e, a)] \in [Account -> Int]
    BY DeltaType DEF IndexState
<1>2. /\ x.totalSupply - Delta(e, ZERO) \in Int
      /\ x.insuranceFundBalance + Delta(e, FUND) \in Int
    BY DeltaType DEF IndexState
<1> QED
    BY <1>1, <1>2 DEF TransferBalances, IndexState

LEMMA BumpType ==
    ASSUME NEW x \in IndexState, NEW e \in TransferLogSet
    PROVE  bumpCategoryNet(x, e) \in IndexState
<1>1. DOMAIN x.flow = Account \ {FUND}
    BY DEF IndexState
<1>2. [a \in DOMAIN x.flow |-> x.flow[a] + Delta(e, a)] \in [Account \ {FUND} -> Int]
    BY <1>1, DeltaType DEF IndexState
<1> QED
    BY <1>2 DEF bumpCategoryNet, IndexState

LEMMA TransferType ==
    ASSUME NEW x \in IndexState, NEW e \in TransferLogSet
    PROVE  handleTransfer(x, e) \in IndexState
<1> DEFINE moved == TransferBalances(x, e)
<1>1. moved \in IndexState /\ e.amount \in Int
    BY TransferBalancesType DEF TransferLogSet
<1> HIDE DEF moved
<1>2. consumePendingDeposit(moved) \in IndexState
    BY <1>1 DEF consumePendingDeposit, IndexState, NoDeposit, Address
<1>3. noteBorrow(moved, e) \in IndexState
    <2> DEFINE y == [moved EXCEPT !.insuranceDebt = @ + e.amount]
    <2>1. y \in IndexState
        BY <1>1 DEF IndexState
    <2> HIDE DEF y
    <2>2. recomputeDebtSplit(bumpCategoryNet(y, e)) \in IndexState
        BY <2>1, BumpType, SplitType
    <2> QED
        BY <2>2 DEF noteBorrow, y
<1>4. noteRepay(moved, e) \in IndexState
    <2> DEFINE y == [moved EXCEPT !.insuranceDebt = @ - e.amount]
    <2>1. y \in IndexState
        BY <1>1 DEF IndexState
    <2> HIDE DEF y
    <2>2. recomputeDebtSplit(y) \in IndexState
        BY <2>1, SplitType
    <2> QED
        BY <1>1, <2>2 DEF noteRepay, y
<1>5. bumpCategoryNet(moved, e) \in IndexState
    BY <1>1, BumpType
<1> QED
    BY <1>1, <1>2, <1>3, <1>4, <1>5 DEF handleTransfer, moved

LEMMA HandledType ==
    ASSUME NEW x \in IndexState, NEW e \in LogSet, NEW c \in Int
    PROVE  Handled(x, e, c) \in IndexState
<1>1. CASE e \in TransferLogSet
    <2>1. e.event = "Transfer"
        BY <1>1 DEF TransferLogSet
    <2> QED
        BY <1>1, <2>1, TransferType DEF Handled
<1>2. CASE e \in BadDebtLogSet
    <2>1. e.event = "BadDebt" /\ e.amount \in Int
        BY <1>2 DEF BadDebtLogSet
    <2> DEFINE y == [x EXCEPT !.traderBadDebtTotal = @ + e.amount]
    <2>2. y \in IndexState
        BY <2>1 DEF IndexState
    <2> HIDE DEF y
    <2>3. recomputeDebtSplit(y) \in IndexState
        BY <2>2, SplitType
    <2>4. handleBadDebt(x, e) \in IndexState
        BY <2>3 DEF handleBadDebt, y
    <2> QED
        BY <2>1, <2>4 DEF Handled
<1>3. CASE e \in UserLogSet
    <2>1. e.amount \in Int /\ e.user \in Address
        BY <1>3 DEF UserLogSet
    <2>2. /\ x.flow \in [Account \ {FUND} -> Int]
          /\ [user |-> e.user, amount |-> e.amount] \in [user : Address, amount : Int]
        BY <2>1 DEF IndexState
    <2>3. ASSUME NEW d \in Int
          PROVE  Flowed(x.flow, e.user, d) \in [Account \ {FUND} -> Int]
        BY <2>2 DEF Flowed
    <2>4. handleDeposited(x, e) \in IndexState
        BY <2>1, <2>2, <2>3 DEF handleDeposited, IndexState
    <2>5. handleWithdrawn(x, e) \in IndexState
        <3>1. -e.amount \in Int
            BY <2>1
        <3> QED
            BY <2>3, <3>1 DEF handleWithdrawn, IndexState
    <2>6. handleInsuranceFundDeposited(x, e) \in IndexState
        <3> DEFINE y == [x EXCEPT !.insuranceCapital = @ + e.amount]
        <3>1. y \in IndexState
            BY <2>1 DEF IndexState
        <3> HIDE DEF y
        <3>2. recomputeDebtSplit(y) \in IndexState
            BY <3>1, SplitType
        <3> QED
            BY <3>2 DEF y, handleInsuranceFundDeposited
    <2>7. handleInsuranceFundWithdrawn(x, e) \in IndexState
        <3> DEFINE y == [x EXCEPT !.insuranceCapital = @ - e.amount]
        <3>1. y \in IndexState
            BY <2>1 DEF IndexState
        <3> HIDE DEF y
        <3>2. recomputeDebtSplit(y) \in IndexState
            BY <3>1, SplitType
        <3> QED
            BY <3>2 DEF y, handleInsuranceFundWithdrawn
    <2>8. handleInitialized(x, c) \in IndexState
        <3> DEFINE y == [x EXCEPT !.insuranceCapital = c]
        <3>1. y \in IndexState
            BY <2>1 DEF IndexState
        <3> HIDE DEF y
        <3>2. recomputeDebtSplit(y) \in IndexState
            BY <3>1, SplitType
        <3> QED
            BY <3>2 DEF y, handleInitialized
    <2>9. handleVaultHalted(x) \in IndexState /\ handleVaultResumed(x) \in IndexState
        BY DEF handleVaultHalted, handleVaultResumed, IndexState
    <2>10. e.event \in {"Deposited", "Withdrawn", "InsuranceFundDeposited",
                        "InsuranceFundWithdrawn", "VaultHalted", "VaultResumed",
                        "Initialized"}
        BY <1>3 DEF UserLogSet
    <2> QED
        BY <2>4, <2>5, <2>6, <2>7, <2>8, <2>9, <2>10 DEF Handled
<1> QED
    BY <1>1, <1>2, <1>3 DEF LogSet

--------------------------------------------------------------------------------
(* What a sequence of logs, and one of calls, makes of the entities.       *)

LEMMA GreatestIndex ==
    ASSUME NEW n \in Nat, NEW T \in SUBSET (1 .. n), T # {}
    PROVE  Max(T) \in T /\ \A k \in T : k <= Max(T)
<1>1. \E m \in T : \A k \in T : m >= k
    BY GreatestNumber
<1>2. Max(T) \in T /\ \A k \in T : Max(T) >= k
    BY <1>1 DEF Max
<1> QED
    BY <1>2

HandleLogs(logs, c) == [i \in DOMAIN logs |-> [y \in IndexState |-> Handled(y, logs[i], c)]]

LEMMA CallInSteps ==
    ASSUME NEW x \in IndexState, NEW logs \in Seq(LogSet), NEW c \in Int
    PROVE  \E h : /\ InSteps(h, Len(logs), IndexState, x, HandleLogs(logs, c))
                  /\ HandledCall(x, logs, c) = h[Len(logs)]
<1> DEFINE n == Len(logs)
           step == HandleLogs(logs, c)
           pick == [T \in SUBSET (1 .. n) |-> Max(T)]
           Iterates(g) ==
              g = [T \in SUBSET (1 .. n) |->
                     IF T = {} THEN x ELSE Handled(g[T \ {Max(T)}], logs[Max(T)], c)]
           g == CHOOSE g : Iterates(g)
<1>1. n \in Nat /\ DOMAIN logs = 1 .. n /\ IsFiniteSet(1 .. n)
    BY FS_Interval
<1>2. \A i \in 1 .. n : \A y \in IndexState :
          step[i][y] = Handled(y, logs[i], c) /\ step[i][y] \in IndexState
    BY <1>1, HandledType DEF HandleLogs
<1>3. \A T \in SUBSET (1 .. n) :
          T # {} => /\ pick[T] = Max(T) /\ pick[T] \in T /\ pick[T] \in 1 .. n
                    /\ \A k \in T : k <= pick[T]
    BY <1>1, GreatestIndex
<1> HIDE DEF n, step, pick
<1>4. HandledCall(x, logs, c) = g[1 .. n]
    BY <1>1 DEF HandledCall, FoldLeft, MapThenFoldSet
<1>5. Iterates(g)
    <2>1. PICK f : Folded(f, 1 .. n, IndexState, x, step, pick)
        <3>1. Foldable(1 .. n, IndexState, x, step, pick)
            BY <1>1, <1>2, <1>3 DEF Foldable
        <3> QED
            BY <3>1, FoldExists
    <2>2. \A T \in SUBSET (1 .. n) :
              T # {} => f[T] = Handled(f[T \ {Max(T)}], logs[Max(T)], c)
        BY <1>2, <1>3, <2>1 DEF Folded
    <2>3. Iterates(f)
        BY <2>1, <2>2 DEF Folded
    <2> HIDE DEF Iterates
    <2> QED
        BY <2>3
<1> HIDE DEF g
<1>6. g[{}] = x
    BY <1>5
<1>7. \A T \in SUBSET (1 .. n) :
          T # {} /\ g[T \ {pick[T]}] \in IndexState
             => g[T] = step[pick[T]][g[T \ {pick[T]}]]
    <2> SUFFICES ASSUME NEW T \in SUBSET (1 .. n), T # {},
                        g[T \ {pick[T]}] \in IndexState
                 PROVE  g[T] = step[pick[T]][g[T \ {pick[T]}]]
        OBVIOUS
    <2>1. pick[T] = Max(T) /\ pick[T] \in 1 .. n
        BY <1>3
    <2>2. g[T] = Handled(g[T \ {Max(T)}], logs[Max(T)], c)
        BY <1>5
    <2> QED
        BY <1>2, <2>1, <2>2
<1>8. InSteps([i \in 0 .. n |-> g[1 .. i]], n, IndexState, x, step)
    <2>1. FoldsWith(g, n, IndexState, x, step, pick)
        BY <1>2, <1>6, <1>7 DEF FoldsWith
    <2>2. PicksLast(pick, n)
        BY <1>3 DEF PicksLast
    <2> QED
        BY <1>1, <2>1, <2>2, FoldInOrder
<1>9. HandledCall(x, logs, c) = [i \in 0 .. n |-> g[1 .. i]][n]
    BY <1>1, <1>4
<1> QED
    BY <1>8, <1>9 DEF n, step

LEMMA CallType ==
    ASSUME NEW x \in IndexState, NEW logs \in Seq(LogSet), NEW c \in Int
    PROVE  HandledCall(x, logs, c) \in IndexState
<1>1. Len(logs) \in 0 .. Len(logs)
    OBVIOUS
<1> QED
    BY <1>1, CallInSteps DEF InSteps

LEMMA CallOfNoLog ==
    ASSUME NEW x \in IndexState, NEW c \in Int
    PROVE  HandledCall(x, << >>, c) = x
<1>1. << >> \in Seq(LogSet) /\ Len(<< >>) = 0
    OBVIOUS
<1> DEFINE logs == << >>
<1>2. logs \in Seq(LogSet) /\ Len(logs) = 0
    OBVIOUS
<1> HIDE DEF logs
<1>3. PICK h : /\ InSteps(h, Len(logs), IndexState, x, HandleLogs(logs, c))
               /\ HandledCall(x, logs, c) = h[Len(logs)]
    BY <1>2, CallInSteps
<1>4. HandledCall(x, logs, c) = x
    BY <1>2, <1>3 DEF InSteps
<1> QED
    BY <1>4 DEF logs

LEMMA CallOfMore ==
    ASSUME NEW x \in IndexState, NEW logs \in Seq(LogSet), NEW e \in LogSet,
           NEW c \in Int
    PROVE  HandledCall(x, Append(logs, e), c) = Handled(HandledCall(x, logs, c), e, c)
<1> DEFINE more == Append(logs, e)
           n == Len(logs)
<1>1. /\ more \in Seq(LogSet) /\ n \in Nat /\ Len(more) = n + 1 /\ more[n + 1] = e
      /\ DOMAIN logs = 1 .. n /\ DOMAIN more = 1 .. n + 1
      /\ \A i \in 1 .. n : more[i] = logs[i]
    OBVIOUS
<1> HIDE DEF more, n
<1>2. PICK h : /\ InSteps(h, n, IndexState, x, HandleLogs(logs, c))
               /\ HandledCall(x, logs, c) = h[n]
    BY CallInSteps DEF n
<1>3. PICK g : /\ InSteps(g, n + 1, IndexState, x, HandleLogs(more, c))
               /\ HandledCall(x, more, c) = g[n + 1]
    BY <1>1, CallInSteps
<1>4. \A i \in 1 .. n : \A v \in IndexState :
          HandleLogs(logs, c)[i][v] = HandleLogs(more, c)[i][v]
    BY <1>1 DEF HandleLogs
<1>5. h[n] = g[n] /\ h[n] \in IndexState
    <2>1. n + 1 \in Nat /\ n <= n + 1 /\ n \in 0 .. n
        BY <1>1
    <2>2. \A i \in 0 .. n : h[i] = g[i]
        BY <1>1, <1>2, <1>3, <1>4, <2>1, SameSteps
    <2> QED
        BY <1>2, <2>1, <2>2 DEF InSteps
<1>6. g[n + 1] = HandleLogs(more, c)[n + 1][g[n]]
    <2> DEFINE last == n + 1
               step == HandleLogs(more, c)
    <2>1. last \in 1 .. last /\ last - 1 = n
        BY <1>1
    <2>2. InSteps(g, last, IndexState, x, step)
        BY <1>3
    <2> HIDE DEF last, step
    <2>3. g[last] = step[last][g[n]]
        BY <2>1, <2>2 DEF InSteps
    <2> QED
        BY <2>3 DEF last, step
<1>7. HandleLogs(more, c)[n + 1][g[n]] = Handled(g[n], e, c)
    <2>1. n + 1 \in DOMAIN more
        BY <1>1
    <2> QED
        BY <1>1, <1>5, <2>1 DEF HandleLogs
<1> QED
    BY <1>2, <1>3, <1>5, <1>6, <1>7 DEF more

CallSet == Seq(LogSet)

HandleCalls(txs, c) == [i \in DOMAIN txs |-> [y \in IndexState |-> HandledCall(y, txs[i], c)]]

\* The calls of a block likewise.
LEMMA BlockInSteps ==
    ASSUME NEW x \in IndexState, NEW txs \in Seq(CallSet), NEW c \in Int
    PROVE  \E h : /\ InSteps(h, Len(txs), IndexState, x, HandleCalls(txs, c))
                  /\ HandledBlock(x, txs, c) = h[Len(txs)]
<1> DEFINE n == Len(txs)
           step == HandleCalls(txs, c)
           pick == [T \in SUBSET (1 .. n) |-> Max(T)]
           Iterates(g) ==
              g = [T \in SUBSET (1 .. n) |->
                     IF T = {} THEN x ELSE HandledCall(g[T \ {Max(T)}], txs[Max(T)], c)]
           g == CHOOSE g : Iterates(g)
<1>1. n \in Nat /\ DOMAIN txs = 1 .. n /\ IsFiniteSet(1 .. n)
    BY FS_Interval
<1>2. \A i \in 1 .. n : \A y \in IndexState :
          step[i][y] = HandledCall(y, txs[i], c) /\ step[i][y] \in IndexState
    <2>1. \A i \in 1 .. n : txs[i] \in Seq(LogSet)
        BY <1>1 DEF CallSet
    <2> QED
        BY <1>1, <2>1, CallType DEF HandleCalls
<1>3. \A T \in SUBSET (1 .. n) :
          T # {} => /\ pick[T] = Max(T) /\ pick[T] \in T /\ pick[T] \in 1 .. n
                    /\ \A k \in T : k <= pick[T]
    BY <1>1, GreatestIndex
<1> HIDE DEF n, step, pick
<1>4. HandledBlock(x, txs, c) = g[1 .. n]
    BY <1>1 DEF HandledBlock, FoldLeft, MapThenFoldSet
<1>5. Iterates(g)
    <2>1. PICK f : Folded(f, 1 .. n, IndexState, x, step, pick)
        <3>1. Foldable(1 .. n, IndexState, x, step, pick)
            BY <1>1, <1>2, <1>3 DEF Foldable
        <3> QED
            BY <3>1, FoldExists
    <2>2. \A T \in SUBSET (1 .. n) :
              T # {} => f[T] = HandledCall(f[T \ {Max(T)}], txs[Max(T)], c)
        BY <1>2, <1>3, <2>1 DEF Folded
    <2>3. Iterates(f)
        BY <2>1, <2>2 DEF Folded
    <2> HIDE DEF Iterates
    <2> QED
        BY <2>3
<1> HIDE DEF g
<1>6. g[{}] = x
    BY <1>5
<1>7. \A T \in SUBSET (1 .. n) :
          T # {} /\ g[T \ {pick[T]}] \in IndexState
             => g[T] = step[pick[T]][g[T \ {pick[T]}]]
    <2> SUFFICES ASSUME NEW T \in SUBSET (1 .. n), T # {},
                        g[T \ {pick[T]}] \in IndexState
                 PROVE  g[T] = step[pick[T]][g[T \ {pick[T]}]]
        OBVIOUS
    <2>1. pick[T] = Max(T) /\ pick[T] \in 1 .. n
        BY <1>3
    <2>2. g[T] = HandledCall(g[T \ {Max(T)}], txs[Max(T)], c)
        BY <1>5
    <2> QED
        BY <1>2, <2>1, <2>2
<1>8. InSteps([i \in 0 .. n |-> g[1 .. i]], n, IndexState, x, step)
    <2>1. FoldsWith(g, n, IndexState, x, step, pick)
        BY <1>2, <1>6, <1>7 DEF FoldsWith
    <2>2. PicksLast(pick, n)
        BY <1>3 DEF PicksLast
    <2> QED
        BY <1>1, <2>1, <2>2, FoldInOrder
<1>9. HandledBlock(x, txs, c) = [i \in 0 .. n |-> g[1 .. i]][n]
    BY <1>1, <1>4
<1> QED
    BY <1>8, <1>9 DEF n, step

LEMMA BlockOfNoCall ==
    ASSUME NEW x \in IndexState, NEW c \in Int
    PROVE  HandledBlock(x, << >>, c) = x
<1>1. << >> \in Seq(CallSet) /\ Len(<< >>) = 0
    OBVIOUS
<1> DEFINE txs == << >>
<1>2. txs \in Seq(CallSet) /\ Len(txs) = 0
    OBVIOUS
<1> HIDE DEF txs
<1>3. PICK h : /\ InSteps(h, Len(txs), IndexState, x, HandleCalls(txs, c))
               /\ HandledBlock(x, txs, c) = h[Len(txs)]
    BY <1>2, BlockInSteps
<1>4. HandledBlock(x, txs, c) = x
    BY <1>2, <1>3 DEF InSteps
<1> QED
    BY <1>4 DEF txs

LEMMA BlockOfMore ==
    ASSUME NEW x \in IndexState, NEW txs \in Seq(CallSet), NEW e \in CallSet,
           NEW c \in Int
    PROVE  HandledBlock(x, Append(txs, e), c) = HandledCall(HandledBlock(x, txs, c), e, c)
<1> DEFINE more == Append(txs, e)
           n == Len(txs)
<1>1. /\ more \in Seq(CallSet) /\ n \in Nat /\ Len(more) = n + 1 /\ more[n + 1] = e
      /\ DOMAIN txs = 1 .. n /\ DOMAIN more = 1 .. n + 1
      /\ \A i \in 1 .. n : more[i] = txs[i]
    OBVIOUS
<1> HIDE DEF more, n
<1>2. PICK h : /\ InSteps(h, n, IndexState, x, HandleCalls(txs, c))
               /\ HandledBlock(x, txs, c) = h[n]
    BY BlockInSteps DEF n
<1>3. PICK g : /\ InSteps(g, n + 1, IndexState, x, HandleCalls(more, c))
               /\ HandledBlock(x, more, c) = g[n + 1]
    BY <1>1, BlockInSteps
<1>4. \A i \in 1 .. n : \A v \in IndexState :
          HandleCalls(txs, c)[i][v] = HandleCalls(more, c)[i][v]
    BY <1>1 DEF HandleCalls
<1>5. h[n] = g[n] /\ h[n] \in IndexState
    <2>1. n + 1 \in Nat /\ n <= n + 1 /\ n \in 0 .. n
        BY <1>1
    <2>2. \A i \in 0 .. n : h[i] = g[i]
        BY <1>1, <1>2, <1>3, <1>4, <2>1, SameSteps
    <2> QED
        BY <1>2, <2>1, <2>2 DEF InSteps
<1>6. g[n + 1] = HandleCalls(more, c)[n + 1][g[n]]
    <2> DEFINE last == n + 1
               step == HandleCalls(more, c)
    <2>1. last \in 1 .. last /\ last - 1 = n
        BY <1>1
    <2>2. InSteps(g, last, IndexState, x, step)
        BY <1>3
    <2> HIDE DEF last, step
    <2>3. g[last] = step[last][g[n]]
        BY <2>1, <2>2 DEF InSteps
    <2> QED
        BY <2>3 DEF last, step
<1>7. HandleCalls(more, c)[n + 1][g[n]] = HandledCall(g[n], e, c)
    <2>1. n + 1 \in DOMAIN more
        BY <1>1
    <2> QED
        BY <1>1, <1>5, <2>1 DEF HandleCalls
<1> QED
    BY <1>2, <1>3, <1>5, <1>6, <1>7 DEF more

--------------------------------------------------------------------------------
(* Only the upgrade's log reads the contract.                              *)

LEMMA CallReadsCapital ==
    ASSUME NEW x \in IndexState, NEW logs \in CallSet, NEW c \in Int, NEW d \in Int,
           \A i \in DOMAIN logs : logs[i].event # "Initialized"
    PROVE  HandledCall(x, logs, c) = HandledCall(x, logs, d)
<1>0. logs \in Seq(LogSet)
    BY DEF CallSet
<1>1. ASSUME NEW i \in 1 .. Len(logs), NEW y \in IndexState
      PROVE  HandleLogs(logs, c)[i][y] = HandleLogs(logs, d)[i][y]
    <2>1. i \in DOMAIN logs /\ logs[i] \in LogSet
        BY <1>0
    <2> DEFINE e == logs[i]
    <2>2. e.event \in {"Transfer", "Deposited", "Withdrawn", "InsuranceFundDeposited",
                       "InsuranceFundWithdrawn", "BadDebt", "VaultHalted",
                       "VaultResumed"}
        BY <2>1 DEF LogSet, TransferLogSet, UserLogSet, BadDebtLogSet
    <2> HIDE DEF e
    <2>3. Handled(y, e, c) = Handled(y, e, d)
        BY <2>2 DEF Handled
    <2> QED
        BY <2>1, <2>3 DEF HandleLogs, e
<1>2. PICK h : /\ InSteps(h, Len(logs), IndexState, x, HandleLogs(logs, c))
               /\ HandledCall(x, logs, c) = h[Len(logs)]
    BY <1>0, CallInSteps
<1>3. PICK g : /\ InSteps(g, Len(logs), IndexState, x, HandleLogs(logs, d))
               /\ HandledCall(x, logs, d) = g[Len(logs)]
    BY <1>0, CallInSteps
<1>4. Len(logs) \in Nat /\ Len(logs) <= Len(logs) /\ Len(logs) \in 0 .. Len(logs)
    BY <1>0
<1>5. \A i \in 0 .. Len(logs) : h[i] = g[i]
    BY <1>1, <1>2, <1>3, <1>4, SameSteps
<1> QED
    BY <1>2, <1>3, <1>4, <1>5

LEMMA BlockReadsCapital ==
    ASSUME NEW x \in IndexState, NEW txs \in Seq(CallSet), NEW c \in Int, NEW d \in Int,
           ~Has(txs, {"Initialized"})
    PROVE  HandledBlock(x, txs, c) = HandledBlock(x, txs, d)
<1>1. ASSUME NEW i \in 1 .. Len(txs), NEW y \in IndexState
      PROVE  HandleCalls(txs, c)[i][y] = HandleCalls(txs, d)[i][y]
    <2>1. i \in DOMAIN txs /\ txs[i] \in CallSet
        OBVIOUS
    <2>2. \A j \in DOMAIN txs[i] : txs[i][j].event # "Initialized"
        BY <2>1 DEF Has
    <2>3. HandledCall(y, txs[i], c) = HandledCall(y, txs[i], d)
        BY <2>1, <2>2, CallReadsCapital
    <2> QED
        BY <2>1, <2>3 DEF HandleCalls
<1>2. PICK h : /\ InSteps(h, Len(txs), IndexState, x, HandleCalls(txs, c))
               /\ HandledBlock(x, txs, c) = h[Len(txs)]
    BY BlockInSteps
<1>3. PICK g : /\ InSteps(g, Len(txs), IndexState, x, HandleCalls(txs, d))
               /\ HandledBlock(x, txs, d) = g[Len(txs)]
    BY BlockInSteps
<1>4. Len(txs) \in Nat /\ Len(txs) <= Len(txs) /\ Len(txs) \in 0 .. Len(txs)
    OBVIOUS
<1>5. \A i \in 0 .. Len(txs) : h[i] = g[i]
    BY <1>1, <1>2, <1>3, <1>4, SameSteps
<1> QED
    BY <1>2, <1>3, <1>4, <1>5

LEMMA HasMore ==
    ASSUME NEW txs \in Seq(CallSet), NEW logs \in CallSet, NEW events
    PROVE  Has(Append(txs, logs), events)
              <=> Has(txs, events) \/ \E j \in DOMAIN logs : logs[j].event \in events
<1> DEFINE more == Append(txs, logs)
           n == Len(txs)
<1>1. /\ n \in Nat /\ DOMAIN txs = 1 .. n /\ DOMAIN more = 1 .. n + 1
      /\ more[n + 1] = logs /\ \A i \in 1 .. n : more[i] = txs[i]
    OBVIOUS
<1>2. 1 .. n + 1 = (1 .. n) \cup {n + 1}
    BY <1>1
<1> HIDE DEF more, n
<1> QED
    BY <1>1, <1>2 DEF Has, more

--------------------------------------------------------------------------------
(* What each log does to entities that mirror a ledger.                    *)

Uncovered(bad, capital) == IF bad > capital THEN bad - capital ELSE 0

Timing(debt, bad, capital) ==
    IF debt > Uncovered(bad, capital) THEN debt - Uncovered(bad, capital) ELSE 0

\* The entities hold these balances, and what follows from them.
Mirrors(x, bal, supply, debt, bad, capital, stop) ==
    /\ x \in IndexState
    /\ x.balance = bal
    /\ x.totalSupply = supply
    /\ x.insuranceFundBalance = bal[FUND]
    /\ x.insuranceDebt = debt
    /\ x.traderBadDebtTotal = bad
    /\ x.insuranceCapital = capital
    /\ x.halted = stop
    /\ x.pendingDeposit = NoDeposit
    /\ x.uncoveredLoss = Uncovered(bad, capital)
    /\ x.timingDebt = Timing(debt, bad, capital)
    /\ \A a \in Account \ {FUND} : x.flow[a] = bal[a]

Shift(bal, from, to, n) ==
    [a \in Account |-> bal[a] + Delta(TransferLog(from, to, n), a)]

\* y has the entities of x, with the split that belongs to them.
Resplit(y, x) ==
    /\ y \in IndexState
    /\ y.uncoveredLoss = Uncovered(x.traderBadDebtTotal, x.insuranceCapital)
    /\ y.timingDebt = Timing(x.insuranceDebt, x.traderBadDebtTotal, x.insuranceCapital)
    /\ y.balance = x.balance /\ y.flow = x.flow
    /\ y.totalSupply = x.totalSupply
    /\ y.insuranceFundBalance = x.insuranceFundBalance
    /\ y.insuranceDebt = x.insuranceDebt
    /\ y.traderBadDebtTotal = x.traderBadDebtTotal
    /\ y.insuranceCapital = x.insuranceCapital
    /\ y.halted = x.halted /\ y.pendingDeposit = x.pendingDeposit

LEMMA SplitMirrors ==
    ASSUME NEW x \in IndexState
    PROVE  Resplit(recomputeDebtSplit(x), x)
<1> DEFINE u == Uncovered(x.traderBadDebtTotal, x.insuranceCapital)
           t == Timing(x.insuranceDebt, x.traderBadDebtTotal, x.insuranceCapital)
<1>1. recomputeDebtSplit(x) = [x EXCEPT !.uncoveredLoss = u, !.timingDebt = t]
    BY DEF recomputeDebtSplit, Uncovered, Timing
<1> HIDE DEF u, t
<1>2. recomputeDebtSplit(x) \in IndexState
    BY SplitType
<1> QED
    BY <1>1, <1>2 DEF IndexState, Resplit, u, t

\* y has the entities of x, with the balances that a transfer leaves.
Transferred(y, x, from, to, n) ==
    /\ y \in IndexState
    /\ y.balance = Shift(x.balance, from, to, n)
    /\ y.totalSupply = x.totalSupply - Delta(TransferLog(from, to, n), ZERO)
    /\ y.insuranceFundBalance
          = x.insuranceFundBalance + Delta(TransferLog(from, to, n), FUND)
    /\ y.flow = x.flow
    /\ y.insuranceDebt = x.insuranceDebt
    /\ y.traderBadDebtTotal = x.traderBadDebtTotal
    /\ y.insuranceCapital = x.insuranceCapital
    /\ y.uncoveredLoss = x.uncoveredLoss /\ y.timingDebt = x.timingDebt
    /\ y.halted = x.halted /\ y.pendingDeposit = x.pendingDeposit

LEMMA MovedMirrors ==
    ASSUME NEW x \in IndexState, NEW from \in Address, NEW to \in Address,
           NEW n \in Int
    PROVE  /\ TransferLog(from, to, n) \in TransferLogSet
           /\ Transferred(TransferBalances(x, TransferLog(from, to, n)), x, from, to, n)
<1> DEFINE e == TransferLog(from, to, n)
<1>1. e \in TransferLogSet
    BY DEF TransferLog, TransferLogSet
<1> DEFINE moved == Shift(x.balance, from, to, n)
<1>2. TransferBalances(x, e) =
          [x EXCEPT !.balance = moved,
                    !.totalSupply = @ - Delta(e, ZERO),
                    !.insuranceFundBalance = @ + Delta(e, FUND)]
    BY DEF TransferBalances, Shift
<1>3. TransferBalances(x, e) \in IndexState
    BY <1>1, TransferBalancesType
<1> HIDE DEF moved, e
<1> QED
    BY <1>1, <1>2, <1>3 DEF IndexState, Transferred, moved, e

\* y has the entities of x, but for the flows, where a transfer is counted.
Bumped(y, x, e) ==
    /\ y \in IndexState
    /\ \A a \in Account \ {FUND} : y.flow[a] = x.flow[a] + Delta(e, a)
    /\ y.balance = x.balance /\ y.totalSupply = x.totalSupply
    /\ y.insuranceFundBalance = x.insuranceFundBalance
    /\ y.insuranceDebt = x.insuranceDebt
    /\ y.traderBadDebtTotal = x.traderBadDebtTotal
    /\ y.insuranceCapital = x.insuranceCapital
    /\ y.uncoveredLoss = x.uncoveredLoss /\ y.timingDebt = x.timingDebt
    /\ y.halted = x.halted /\ y.pendingDeposit = x.pendingDeposit

LEMMA BumpMirrors ==
    ASSUME NEW x \in IndexState, NEW e \in TransferLogSet
    PROVE  Bumped(bumpCategoryNet(x, e), x, e)
<1>1. bumpCategoryNet(x, e) \in IndexState
    BY BumpType
<1> DEFINE flowed == [a \in DOMAIN x.flow |-> x.flow[a] + Delta(e, a)]
<1>2. bumpCategoryNet(x, e) = [x EXCEPT !.flow = flowed]
    BY DEF bumpCategoryNet
<1>3. DOMAIN x.flow = Account \ {FUND}
    BY DEF IndexState
<1>4. \A a \in Account \ {FUND} : flowed[a] = x.flow[a] + Delta(e, a)
    BY <1>3
<1> HIDE DEF flowed
<1> QED
    BY <1>1, <1>2, <1>4 DEF IndexState, Bumped

LEMMA ShiftType ==
    ASSUME NEW bal \in [Account -> Int], NEW from, NEW to, NEW n \in Int
    PROVE  /\ Shift(bal, from, to, n) \in [Account -> Int]
           /\ \A a \in Account :
                Shift(bal, from, to, n)[a] = bal[a] + Delta(TransferLog(from, to, n), a)
           /\ \A a : Delta(TransferLog(from, to, n), a)
                        = (IF to = a THEN n ELSE 0) - (IF from = a THEN n ELSE 0)
<1>1. \A a : Delta(TransferLog(from, to, n), a)
                = (IF to = a THEN n ELSE 0) - (IF from = a THEN n ELSE 0)
    BY DEF Delta, TransferLog
<1> HIDE DEF Delta, TransferLog
<1> QED
    BY <1>1 DEF Shift

\* A transfer between accounts.
LEMMA TransferSeen ==
    ASSUME NEW x, NEW bal \in [Account -> Int], NEW supply \in Int, NEW debt \in Int,
           NEW bad \in Int, NEW capital \in Int, NEW stop, NEW c,
           Mirrors(x, bal, supply, debt, bad, capital, stop),
           NEW from \in Account, NEW to \in Account, NEW n \in Int
    PROVE  Mirrors(Handled(x, TransferLog(from, to, n), c), Shift(bal, from, to, n),
                   supply, debt, bad, capital, stop)
<1> DEFINE e == TransferLog(from, to, n)
           y == TransferBalances(x, e)
           z == bumpCategoryNet(y, e)
<1>1. /\ e.event = "Transfer" /\ e.from = from /\ e.to = to /\ e.amount = n
      /\ from # ZERO /\ to # ZERO /\ from \in Address /\ to \in Address
    BY NobodyAtZero DEF TransferLog, Address
<1>2. Handled(x, e, c) = z
    BY <1>1 DEF Handled, handleTransfer
<1>3. Delta(e, ZERO) = 0
    BY <1>1 DEF Delta
<1>4. x \in IndexState
    BY DEF Mirrors
<1>5. e \in TransferLogSet /\ Transferred(y, x, from, to, n)
    BY <1>1, <1>4, MovedMirrors
<1> HIDE DEF y
<1>6. Bumped(z, y, e)
    BY <1>5, BumpMirrors DEF Transferred
<1>7. /\ \A a \in Account : Shift(bal, from, to, n)[a] = bal[a] + Delta(e, a)
      /\ FUND \in Account
    BY ShiftType, FundIsAccount
<1> HIDE DEF z
<1>8. Mirrors(z, Shift(bal, from, to, n), supply, debt, bad, capital, stop)
    BY <1>3, <1>5, <1>6, <1>7 DEF Mirrors, Transferred, Bumped
<1> QED
    BY <1>2, <1>8

\* A burn from the fund of no more than the debt.
LEMMA RepaySeen ==
    ASSUME NEW x, NEW bal \in [Account -> Int], NEW supply \in Int, NEW debt \in Int,
           NEW bad \in Int, NEW capital \in Int, NEW stop, NEW c,
           Mirrors(x, bal, supply, debt, bad, capital, stop),
           NEW n \in Int, 0 < n, n <= debt
    PROVE  Mirrors(Handled(x, TransferLog(FUND, ZERO, n), c), Shift(bal, FUND, ZERO, n),
                   supply - n, debt - n, bad, capital, stop)
<1> DEFINE e == TransferLog(FUND, ZERO, n)
           y == TransferBalances(x, e)
           w == [y EXCEPT !.insuranceDebt = @ - n]
           z == recomputeDebtSplit(w)
<1>1. /\ e.event = "Transfer" /\ e.from = FUND /\ e.to = ZERO /\ e.amount = n
      /\ FUND # ZERO /\ FUND \in Account /\ FUND \in Address /\ ZERO \in Address
    BY NobodyAtZero, FundIsAccount DEF TransferLog, Address
<1>2. Delta(e, ZERO) = n /\ Delta(e, FUND) = 0 - n
    BY <1>1 DEF Delta
<1>3. x \in IndexState
    BY DEF Mirrors
<1>4. Transferred(y, x, FUND, ZERO, n)
    BY <1>1, <1>3, MovedMirrors
<1> HIDE DEF y
<1>5. Handled(x, e, c) = z
    <2>1. Handled(x, e, c) = noteRepay(y, e)
        BY <1>1 DEF Handled, handleTransfer, y
    <2>2. y.insuranceDebt = debt
        BY <1>4 DEF Mirrors, Transferred
    <2> QED
        BY <1>1, <2>1, <2>2 DEF noteRepay
<1>6. /\ w \in IndexState /\ w.insuranceDebt = y.insuranceDebt - n
      /\ w.balance = y.balance /\ w.flow = y.flow
      /\ w.totalSupply = y.totalSupply
      /\ w.insuranceFundBalance = y.insuranceFundBalance
      /\ w.traderBadDebtTotal = y.traderBadDebtTotal
      /\ w.insuranceCapital = y.insuranceCapital
      /\ w.halted = y.halted /\ w.pendingDeposit = y.pendingDeposit
    BY <1>4 DEF IndexState, Transferred
<1> HIDE DEF w
<1>7. Resplit(z, w)
    BY <1>6, SplitMirrors
<1>8. /\ \A a \in Account : Shift(bal, FUND, ZERO, n)[a] = bal[a] + Delta(e, a)
      /\ \A a \in Account \ {FUND} : Delta(e, a) = 0
    BY <1>1, NobodyAtZero, ShiftType
<1> HIDE DEF z
<1>9. Mirrors(z, Shift(bal, FUND, ZERO, n), supply - n, debt - n, bad, capital, stop)
    <2>1. \A a \in Account \ {FUND} : bal[a] \in Int
        OBVIOUS
    <2> QED
        BY <1>1, <1>2, <1>4, <1>6, <1>7, <1>8, <2>1 DEF Mirrors, Transferred, Resplit
<1> QED
    BY <1>5, <1>9

\* A mint to anybody but the fund that no deposit announced.
LEMMA BorrowSeen ==
    ASSUME NEW x, NEW bal \in [Account -> Int], NEW supply \in Int, NEW debt \in Int,
           NEW bad \in Int, NEW capital \in Int, NEW stop, NEW c,
           Mirrors(x, bal, supply, debt, bad, capital, stop),
           NEW to \in Account \ {FUND}, NEW n \in Int
    PROVE  Mirrors(Handled(x, TransferLog(ZERO, to, n), c), Shift(bal, ZERO, to, n),
                   supply + n, debt + n, bad, capital, stop)
<1> DEFINE e == TransferLog(ZERO, to, n)
           y == TransferBalances(x, e)
           w == [y EXCEPT !.insuranceDebt = @ + n]
           v == bumpCategoryNet(w, e)
           z == recomputeDebtSplit(v)
<1>1. /\ e.event = "Transfer" /\ e.from = ZERO /\ e.to = to /\ e.amount = n
      /\ FUND # ZERO /\ FUND \in Account /\ to # FUND /\ to # ZERO
      /\ to \in Address /\ ZERO \in Address
    BY NobodyAtZero, FundIsAccount DEF TransferLog, Address
<1>2. Delta(e, ZERO) = 0 - n /\ Delta(e, FUND) = 0
    BY <1>1 DEF Delta
<1>3. x \in IndexState
    BY DEF Mirrors
<1>4. e \in TransferLogSet /\ Transferred(y, x, ZERO, to, n)
    BY <1>1, <1>3, MovedMirrors
<1>5. Handled(x, e, c) = z
    <2>1. ~MarkedDeposit(x, e)
        <3>1. x.pendingDeposit.user = ZERO
            BY DEF Mirrors, NoDeposit
        <3>2. MarkedDeposit(x, e) => x.pendingDeposit.user = to
            BY <1>1 DEF MarkedDeposit
        <3> QED
            BY <1>1, <3>1, <3>2
    <2>2. Handled(x, e, c) = noteBorrow(y, e)
        BY <1>1, <2>1 DEF Handled, handleTransfer
    <2> HIDE DEF y
    <2> QED
        BY <1>1, <2>2 DEF noteBorrow
<1> HIDE DEF y
<1>6. /\ w \in IndexState /\ w.insuranceDebt = y.insuranceDebt + n
      /\ w.balance = y.balance /\ w.flow = y.flow
      /\ w.totalSupply = y.totalSupply
      /\ w.insuranceFundBalance = y.insuranceFundBalance
      /\ w.traderBadDebtTotal = y.traderBadDebtTotal
      /\ w.insuranceCapital = y.insuranceCapital
      /\ w.halted = y.halted /\ w.pendingDeposit = y.pendingDeposit
    BY <1>4 DEF IndexState, Transferred
<1> HIDE DEF w
<1>7. Bumped(v, w, e)
    BY <1>4, <1>6, BumpMirrors
<1> HIDE DEF v
<1>8. Resplit(z, v)
    BY <1>7, SplitMirrors DEF Bumped
<1>9. \A a \in Account : Shift(bal, ZERO, to, n)[a] = bal[a] + Delta(e, a)
    BY ShiftType
<1> HIDE DEF z
<1>10. Mirrors(z, Shift(bal, ZERO, to, n), supply + n, debt + n, bad, capital, stop)
    BY <1>1, <1>2, <1>4, <1>6, <1>7, <1>8, <1>9
       DEF Mirrors, Transferred, Bumped, Resplit
<1> QED
    BY <1>5, <1>10

\* A deposit: its mark, then its mint.
LEMMA DepositSeen ==
    ASSUME NEW x, NEW bal \in [Account -> Int], NEW supply \in Int, NEW debt \in Int,
           NEW bad \in Int, NEW capital \in Int, NEW stop, NEW c,
           Mirrors(x, bal, supply, debt, bad, capital, stop),
           NEW account \in Account, NEW n \in Int
    PROVE  Mirrors(Handled(Handled(x, Log("Deposited", account, n), c),
                           TransferLog(ZERO, account, n), c),
                   Shift(bal, ZERO, account, n), supply + n, debt, bad, capital, stop)
<1> DEFINE m == Log("Deposited", account, n)
           e == TransferLog(ZERO, account, n)
           w == handleDeposited(x, m)
           y == TransferBalances(w, e)
           z == consumePendingDeposit(y)
<1>1. /\ e.event = "Transfer" /\ e.from = ZERO /\ e.to = account /\ e.amount = n
      /\ m.event = "Deposited" /\ m.user = account /\ m.amount = n
      /\ FUND # ZERO /\ FUND \in Account /\ account # ZERO
      /\ account \in Address /\ ZERO \in Address
    BY NobodyAtZero, FundIsAccount DEF TransferLog, Log, Address
<1>2. /\ Delta(e, ZERO) = 0 - n
      /\ \A a \in Account : Delta(e, a) = IF a = account THEN n ELSE 0
    BY <1>1, NobodyAtZero DEF Delta
<1>3. x \in IndexState /\ m \in LogSet
    <2>1. m \in UserLogSet
        BY <1>1 DEF Log, UserLogSet
    <2> QED
        BY <2>1 DEF Mirrors, LogSet
<1>4. Handled(x, m, c) = w
    BY <1>1 DEF Handled
<1>5. /\ w \in IndexState
      /\ w.pendingDeposit = [user |-> account, amount |-> n]
      /\ \A a \in Account \ {FUND} :
            w.flow[a] = IF a = account THEN x.flow[a] + n ELSE x.flow[a]
      /\ w.balance = x.balance
      /\ w.totalSupply = x.totalSupply
      /\ w.insuranceFundBalance = x.insuranceFundBalance
      /\ w.insuranceDebt = x.insuranceDebt
      /\ w.traderBadDebtTotal = x.traderBadDebtTotal
      /\ w.insuranceCapital = x.insuranceCapital
      /\ w.uncoveredLoss = x.uncoveredLoss /\ w.timingDebt = x.timingDebt
      /\ w.halted = x.halted
    <2> DEFINE flowed == Flowed(x.flow, account, n)
    <2>1. /\ flowed \in [Account \ {FUND} -> Int]
          /\ \A a \in Account \ {FUND} :
                flowed[a] = IF a = account THEN x.flow[a] + n ELSE x.flow[a]
        BY <1>3 DEF IndexState, Flowed
    <2>2. w = [x EXCEPT !.flow = flowed,
                        !.pendingDeposit = [user |-> account, amount |-> n]]
        BY <1>1 DEF handleDeposited
    <2>3. [user |-> account, amount |-> n] \in [user : Address, amount : Int]
        BY <1>1
    <2> HIDE DEF flowed
    <2> QED
        BY <1>3, <2>1, <2>2, <2>3 DEF IndexState
<1>6. Handled(w, e, c) = z
    <2>1. MarkedDeposit(w, e)
        BY <1>1, <1>5 DEF MarkedDeposit
    <2> QED
        BY <1>1, <2>1 DEF Handled, handleTransfer
<1> HIDE DEF w
<1>7. Transferred(y, w, ZERO, account, n)
    BY <1>1, <1>5, MovedMirrors
<1> HIDE DEF y
<1>8. /\ z \in IndexState
      /\ z.pendingDeposit = NoDeposit
      /\ z.balance = y.balance /\ z.flow = y.flow
      /\ z.totalSupply = y.totalSupply
      /\ z.insuranceFundBalance = y.insuranceFundBalance
      /\ z.insuranceDebt = y.insuranceDebt
      /\ z.traderBadDebtTotal = y.traderBadDebtTotal
      /\ z.insuranceCapital = y.insuranceCapital
      /\ z.uncoveredLoss = y.uncoveredLoss /\ z.timingDebt = y.timingDebt
      /\ z.halted = y.halted
    BY <1>1, <1>7 DEF consumePendingDeposit, NoDeposit, IndexState, Transferred
<1>9. \A a \in Account : Shift(bal, ZERO, account, n)[a] = bal[a] + Delta(e, a)
    BY ShiftType
<1> HIDE DEF z
<1>10. Mirrors(z, Shift(bal, ZERO, account, n), supply + n, debt, bad, capital, stop)
    <2>1. \A a \in Account : bal[a] \in Int
        OBVIOUS
    <2> QED
        BY <1>1, <1>2, <1>5, <1>7, <1>8, <1>9, <2>1 DEF Mirrors, Transferred
<1> QED
    BY <1>4, <1>6, <1>10

\* A withdrawal: its burn, then its log.  The fund is out of debt when it can be
\* withdrawn from, so that the burn is not taken for a repayment.
LEMMA WithdrawSeen ==
    ASSUME NEW x, NEW bal \in [Account -> Int], NEW supply \in Int, NEW debt \in Int,
           NEW bad \in Int, NEW capital \in Int, NEW stop, NEW c,
           Mirrors(x, bal, supply, debt, bad, capital, stop),
           NEW account \in Account, NEW n \in Int, account = FUND => debt = 0
    PROVE  Mirrors(Handled(Handled(x, TransferLog(account, ZERO, n), c),
                           Log("Withdrawn", account, n), c),
                   Shift(bal, account, ZERO, n), supply - n, debt, bad, capital, stop)
<1> DEFINE m == Log("Withdrawn", account, n)
           e == TransferLog(account, ZERO, n)
           y == TransferBalances(x, e)
           z == handleWithdrawn(y, m)
<1>1. /\ e.event = "Transfer" /\ e.from = account /\ e.to = ZERO /\ e.amount = n
      /\ m.event = "Withdrawn" /\ m.user = account /\ m.amount = n
      /\ FUND # ZERO /\ FUND \in Account /\ account # ZERO
      /\ account \in Address /\ ZERO \in Address
    BY NobodyAtZero, FundIsAccount DEF TransferLog, Log, Address
<1>2. /\ Delta(e, ZERO) = n
      /\ \A a \in Account : Delta(e, a) = IF a = account THEN 0 - n ELSE 0
    BY <1>1, NobodyAtZero DEF Delta
<1>3. x \in IndexState
    BY DEF Mirrors
<1>4. Transferred(y, x, account, ZERO, n)
    BY <1>1, <1>3, MovedMirrors
<1>5. Handled(x, e, c) = y
    <2>1. CASE account = FUND
        <3>1. Handled(x, e, c) = noteRepay(y, e)
            BY <1>1, <2>1 DEF Handled, handleTransfer
        <3>2. y.insuranceDebt = 0
            BY <1>4, <2>1 DEF Mirrors, Transferred
        <3> HIDE DEF y
        <3> QED
            BY <3>1, <3>2 DEF noteRepay
    <2>2. CASE account # FUND
        BY <1>1, <2>2 DEF Handled, handleTransfer
    <2> QED
        BY <2>1, <2>2
<1> HIDE DEF y
<1>6. Handled(y, m, c) = z
    BY <1>1 DEF Handled
<1>7. /\ z \in IndexState
      /\ \A a \in Account \ {FUND} :
            z.flow[a] = IF a = account THEN y.flow[a] + (-n) ELSE y.flow[a]
      /\ z.balance = y.balance
      /\ z.totalSupply = y.totalSupply
      /\ z.insuranceFundBalance = y.insuranceFundBalance
      /\ z.insuranceDebt = y.insuranceDebt
      /\ z.traderBadDebtTotal = y.traderBadDebtTotal
      /\ z.insuranceCapital = y.insuranceCapital
      /\ z.uncoveredLoss = y.uncoveredLoss /\ z.timingDebt = y.timingDebt
      /\ z.halted = y.halted /\ z.pendingDeposit = y.pendingDeposit
    <2> DEFINE flowed == Flowed(y.flow, account, -n)
    <2>1. /\ flowed \in [Account \ {FUND} -> Int]
          /\ \A a \in Account \ {FUND} :
                flowed[a] = IF a = account THEN y.flow[a] + (-n) ELSE y.flow[a]
        BY <1>4 DEF IndexState, Flowed, Transferred
    <2>2. z = [y EXCEPT !.flow = flowed]
        BY <1>1 DEF handleWithdrawn
    <2> HIDE DEF flowed
    <2> QED
        BY <1>4, <2>1, <2>2 DEF IndexState, Transferred
<1>8. \A a \in Account : Shift(bal, account, ZERO, n)[a] = bal[a] + Delta(e, a)
    BY ShiftType
<1> HIDE DEF z
<1>9. Mirrors(z, Shift(bal, account, ZERO, n), supply - n, debt, bad, capital, stop)
    <2>1. \A a \in Account : bal[a] \in Int
        OBVIOUS
    <2> QED
        BY <1>1, <1>2, <1>4, <1>7, <1>8, <2>1 DEF Mirrors, Transferred
<1> QED
    BY <1>5, <1>6, <1>9

--------------------------------------------------------------------------------
(* The logs that move no balance.                                          *)

LEMMA CapitalSeen ==
    ASSUME NEW x, NEW bal \in [Account -> Int], NEW supply \in Int, NEW debt \in Int,
           NEW bad \in Int, NEW capital \in Int, NEW stop, NEW c \in Int,
           Mirrors(x, bal, supply, debt, bad, capital, stop),
           NEW user, NEW n \in Int
    PROVE  /\ Mirrors(Handled(x, Log("InsuranceFundDeposited", user, n), c), bal,
                      supply, debt, bad, capital + n, stop)
           /\ Mirrors(Handled(x, Log("InsuranceFundWithdrawn", user, n), c), bal,
                      supply, debt, bad, capital - n, stop)
           /\ Mirrors(Handled(x, Log("Initialized", user, n), c), bal,
                      supply, debt, bad, c, stop)
<1> DEFINE w(v) == [x EXCEPT !.insuranceCapital = v]
           z(v) == recomputeDebtSplit(w(v))
<1>1. x \in IndexState
    BY DEF Mirrors
<1>2. ASSUME NEW v \in Int
      PROVE  Mirrors(z(v), bal, supply, debt, bad, v, stop)
    <2>1. /\ w(v) \in IndexState /\ w(v).insuranceCapital = v
          /\ w(v).balance = x.balance /\ w(v).flow = x.flow
          /\ w(v).totalSupply = x.totalSupply
          /\ w(v).insuranceFundBalance = x.insuranceFundBalance
          /\ w(v).insuranceDebt = x.insuranceDebt
          /\ w(v).traderBadDebtTotal = x.traderBadDebtTotal
          /\ w(v).halted = x.halted /\ w(v).pendingDeposit = x.pendingDeposit
        BY <1>1 DEF IndexState
    <2> HIDE DEF w
    <2>2. Resplit(z(v), w(v))
        BY <2>1, SplitMirrors
    <2> HIDE DEF z
    <2> QED
        BY <2>1, <2>2 DEF Mirrors, Resplit
<1>3. x.insuranceCapital = capital
    BY DEF Mirrors
<1>4. Handled(x, Log("InsuranceFundDeposited", user, n), c) = z(capital + n)
    BY <1>3 DEF Log, Handled, handleInsuranceFundDeposited
<1>5. Handled(x, Log("InsuranceFundWithdrawn", user, n), c) = z(capital - n)
    BY <1>3 DEF Log, Handled, handleInsuranceFundWithdrawn
<1>6. Handled(x, Log("Initialized", user, n), c) = z(c)
    BY DEF Log, Handled, handleInitialized
<1> HIDE DEF z
<1> QED
    BY <1>2, <1>4, <1>5, <1>6

LEMMA BadDebtSeen ==
    ASSUME NEW x, NEW bal \in [Account -> Int], NEW supply \in Int, NEW debt \in Int,
           NEW bad \in Int, NEW capital \in Int, NEW stop, NEW c,
           Mirrors(x, bal, supply, debt, bad, capital, stop),
           NEW from, NEW to, NEW n \in Int, NEW e,
           e = [event |-> "BadDebt", user |-> from, receiver |-> to, amount |-> n]
    PROVE  Mirrors(Handled(x, e, c), bal, supply, debt,
                   IF to = FUND THEN bad + n ELSE bad, capital, stop)
<1> DEFINE w == [x EXCEPT !.traderBadDebtTotal = @ + n]
           z == recomputeDebtSplit(w)
<1>1. x \in IndexState /\ e.event = "BadDebt" /\ e.receiver = to /\ e.amount = n
    BY DEF Mirrors
<1>2. Handled(x, e, c) = IF to = FUND THEN z ELSE x
    BY <1>1 DEF Handled, handleBadDebt
<1>3. /\ w \in IndexState /\ w.traderBadDebtTotal = x.traderBadDebtTotal + n
      /\ w.balance = x.balance /\ w.flow = x.flow
      /\ w.totalSupply = x.totalSupply
      /\ w.insuranceFundBalance = x.insuranceFundBalance
      /\ w.insuranceDebt = x.insuranceDebt
      /\ w.insuranceCapital = x.insuranceCapital
      /\ w.halted = x.halted /\ w.pendingDeposit = x.pendingDeposit
    BY <1>1 DEF IndexState
<1> HIDE DEF w
<1>4. Resplit(z, w)
    BY <1>3, SplitMirrors
<1> HIDE DEF z
<1>5. Mirrors(z, bal, supply, debt, bad + n, capital, stop)
    BY <1>3, <1>4 DEF Mirrors, Resplit
<1> QED
    BY <1>2, <1>5

LEMMA SwitchSeen ==
    ASSUME NEW x, NEW bal \in [Account -> Int], NEW supply \in Int, NEW debt \in Int,
           NEW bad \in Int, NEW capital \in Int, NEW stop, NEW c,
           Mirrors(x, bal, supply, debt, bad, capital, stop)
    PROVE  /\ Mirrors(Handled(x, Log("VaultHalted", ZERO, 0), c), bal, supply, debt,
                      bad, capital, TRUE)
           /\ Mirrors(Handled(x, Log("VaultResumed", ZERO, 0), c), bal, supply, debt,
                      bad, capital, FALSE)
<1>1. x \in IndexState
    BY DEF Mirrors
<1>2. /\ Handled(x, Log("VaultHalted", ZERO, 0), c) = [x EXCEPT !.halted = TRUE]
      /\ Handled(x, Log("VaultResumed", ZERO, 0), c) = [x EXCEPT !.halted = FALSE]
    BY DEF Log, Handled, handleVaultHalted, handleVaultResumed
<1> QED
    BY <1>1, <1>2 DEF Mirrors, IndexState

--------------------------------------------------------------------------------
(* The logs of a call, one after the other.                                *)

UserEvent == {"Deposited", "Withdrawn", "InsuranceFundDeposited",
              "InsuranceFundWithdrawn", "VaultHalted", "VaultResumed",
              "Initialized"}

LEMMA TransferLogType ==
    ASSUME NEW from \in Address, NEW to \in Address, NEW n \in Int
    PROVE  /\ TransferLog(from, to, n) \in LogSet
           /\ TransferLog(from, to, n).event = "Transfer"
<1>1. TransferLog(from, to, n) \in TransferLogSet
    BY DEF TransferLog, TransferLogSet
<1> QED
    BY <1>1 DEF LogSet, TransferLog

LEMMA UserLogType ==
    ASSUME NEW event \in UserEvent, NEW user \in Address, NEW n \in Int
    PROVE  Log(event, user, n) \in LogSet /\ Log(event, user, n).event = event
<1>1. Log(event, user, n) \in UserLogSet /\ Log(event, user, n).event = event
    BY DEF Log, UserLogSet, UserEvent
<1> QED
    BY <1>1 DEF LogSet

LEMMA BadDebtLogType ==
    ASSUME NEW from \in Address, NEW to \in Address, NEW n \in Int, NEW e,
           e = [event |-> "BadDebt", user |-> from, receiver |-> to, amount |-> n]
    PROVE  e \in LogSet /\ e.event = "BadDebt"
BY DEF LogSet, BadDebtLogSet

LEMMA PairOfLogs ==
    ASSUME NEW S, NEW d \in S, NEW e \in S
    PROVE  <<d>> \o <<e>> = <<d, e>>
<1> DEFINE two == <<d, e>>
           s == <<d>>
           t == <<e>>
<1>1. /\ s \in Seq(S) /\ Len(s) = 1 /\ s[1] = d
      /\ t \in Seq(S) /\ Len(t) = 1 /\ t[1] = e
    OBVIOUS
<1>2. two \in Seq(S) /\ Len(two) = 2 /\ two[1] = d /\ two[2] = e
    OBVIOUS
<1> HIDE DEF two, s, t
<1>3. s \o t \in Seq(S) /\ Len(s \o t) = 2 /\ (s \o t)[1] = d /\ (s \o t)[2] = e
    BY <1>1, ConcatProperties
<1>4. \A i \in 1 .. 2 : (s \o t)[i] = two[i]
    BY <1>2, <1>3
<1>5. s \o t = two
    BY <1>2, <1>3, <1>4, SeqEqual
<1> QED
    BY <1>5 DEF s, t, two

Emits(logs, events) == \E j \in DOMAIN logs : logs[j].event \in events

LEMMA OneLogMore ==
    ASSUME NEW x \in IndexState, NEW logs \in CallSet, NEW e \in LogSet, NEW c \in Int
    PROVE  /\ logs \o <<e>> \in CallSet /\ logs \o << >> = logs
           /\ HandledCall(x, logs \o <<e>>, c) = Handled(HandledCall(x, logs, c), e, c)
           /\ \A events : Emits(logs \o <<e>>, events)
                             <=> Emits(logs, events) \/ e.event \in events
<1>1. logs \in Seq(LogSet)
    BY DEF CallSet
<1>2. logs \o <<e>> = Append(logs, e) /\ logs \o << >> = logs
    BY <1>1
<1>3. Append(logs, e) \in Seq(LogSet)
    BY <1>1
<1> DEFINE more == Append(logs, e)
           n == Len(logs)
<1>4. /\ n \in Nat /\ DOMAIN logs = 1 .. n /\ DOMAIN more = 1 .. n + 1
      /\ more[n + 1] = e /\ \A i \in 1 .. n : more[i] = logs[i]
    BY <1>1
<1>5. 1 .. n + 1 = (1 .. n) \cup {n + 1}
    BY <1>4
<1> HIDE DEF more, n
<1>6. \A events : Emits(more, events) <=> Emits(logs, events) \/ e.event \in events
    BY <1>4, <1>5 DEF Emits
<1>7. HandledCall(x, more, c) = Handled(HandledCall(x, logs, c), e, c)
    BY <1>1, CallOfMore DEF more
<1> QED
    BY <1>2, <1>3, <1>6, <1>7 DEF CallSet, more

LEMMA OneLog ==
    ASSUME NEW x \in IndexState, NEW e \in LogSet, NEW c \in Int
    PROVE  /\ <<e>> \in CallSet /\ HandledCall(x, <<e>>, c) = Handled(x, e, c)
           /\ \A events : Emits(<<e>>, events) <=> e.event \in events
<1> DEFINE none == << >>
<1>1. none \in CallSet /\ \A events : ~Emits(none, events)
    BY DEF CallSet, Emits
<1>2. none \o <<e>> = <<e>>
    OBVIOUS
<1>3. HandledCall(x, none, c) = x
    BY CallOfNoLog
<1> HIDE DEF none
<1>4. /\ none \o <<e>> \in CallSet
      /\ HandledCall(x, none \o <<e>>, c) = Handled(HandledCall(x, none, c), e, c)
      /\ \A events : Emits(none \o <<e>>, events)
                        <=> Emits(none, events) \/ e.event \in events
    BY <1>1, OneLogMore
<1> QED
    BY <1>1, <1>2, <1>3, <1>4

LEMMA TwoLogs ==
    ASSUME NEW x \in IndexState, NEW d \in LogSet, NEW e \in LogSet, NEW c \in Int
    PROVE  /\ <<d, e>> \in CallSet
           /\ HandledCall(x, <<d, e>>, c) = Handled(Handled(x, d, c), e, c)
           /\ \A events : Emits(<<d, e>>, events)
                             <=> d.event \in events \/ e.event \in events
<1> DEFINE one == <<d>>
<1>1. /\ one \in CallSet /\ HandledCall(x, one, c) = Handled(x, d, c)
      /\ \A events : Emits(one, events) <=> d.event \in events
    BY OneLog
<1>2. one \o <<e>> = <<d, e>>
    BY PairOfLogs
<1> HIDE DEF one
<1>3. /\ one \o <<e>> \in CallSet
      /\ HandledCall(x, one \o <<e>>, c) = Handled(HandledCall(x, one, c), e, c)
      /\ \A events : Emits(one \o <<e>>, events)
                        <=> Emits(one, events) \/ e.event \in events
    BY <1>1, OneLogMore
<1> QED
    BY <1>1, <1>2, <1>3

--------------------------------------------------------------------------------
(* The balances a call leaves, as the shifts its logs tell of.             *)

LEMMA NoShift ==
    ASSUME NEW bal \in [Account -> Int], NEW from, NEW to
    PROVE  Shift(bal, from, to, 0) = bal
<1>1. \A a \in Account : Shift(bal, from, to, 0)[a] = bal[a]
    BY ShiftType
<1>2. DOMAIN Shift(bal, from, to, 0) = Account
    BY DEF Shift
<1>3. Shift(bal, from, to, 0) \in [Account -> Int]
    BY ShiftType
<1> QED
    BY <1>1, <1>3

LEMMA CreditShifts ==
    ASSUME NEW bal \in [Account -> Int], NEW to \in Account, NEW n \in Int,
           insuranceDebt \in Int
    PROVE  /\ Repaid(to, n) \in Int
           /\ Credit(bal, to, n) = Shift(Shift(bal, ZERO, to, n), FUND, ZERO, Repaid(to, n))
<1> DEFINE r == Repaid(to, n)
           mid == Shift(bal, ZERO, to, n)
           last == Shift(mid, FUND, ZERO, r)
<1>1. r \in Int /\ (to # FUND => r = 0)
    BY DEF Repaid, Smaller
<1>5. Credit(bal, to, n) = [bal EXCEPT ![to] = bal[to] + n - r]
    BY DEF Credit
<1> HIDE DEF r
<1>2. mid \in [Account -> Int] /\ last \in [Account -> Int]
    BY <1>1, ShiftType
<1>3. \A a \in Account :
          mid[a] = bal[a] + ((IF to = a THEN n ELSE 0) - (IF ZERO = a THEN n ELSE 0))
    BY ShiftType
<1>4. \A a \in Account :
          last[a] = mid[a] + ((IF ZERO = a THEN r ELSE 0) - (IF FUND = a THEN r ELSE 0))
    BY <1>1, <1>2, ShiftType
<1>6. \A a \in Account : a # ZERO
    BY NobodyAtZero
<1> HIDE DEF mid, last
<1>8. ASSUME NEW a \in Account
      PROVE  last[a] = [bal EXCEPT ![to] = bal[to] + n - r][a]
    <2>1. bal[a] \in Int /\ FUND \in Account /\ a # ZERO
        BY <1>6, FundIsAccount
    <2>2. CASE a = to
        BY <1>3, <1>4, <1>1, <2>1, <2>2
    <2>3. CASE a # to
        BY <1>3, <1>4, <1>1, <2>1, <2>3
    <2> QED
        BY <2>2, <2>3
<1>9. [bal EXCEPT ![to] = bal[to] + n - r] \in [Account -> Int]
    BY <1>1
<1>10. Credit(bal, to, n) = last
    BY <1>2, <1>5, <1>8, <1>9
<1> QED
    BY <1>1, <1>10 DEF last, mid, r

LEMMA DebitShifts ==
    ASSUME NEW bal \in [Account -> Int], NEW from \in Account, NEW n \in Int
    PROVE  /\ Debit(bal, from, n) = Shift(bal, from, ZERO, n)
           /\ Debit(bal, from, n) \in [Account -> Int]
<1> DEFINE last == Shift(bal, from, ZERO, n)
<1>1. last \in [Account -> Int]
    BY ShiftType
<1>2. \A a \in Account :
          last[a] = bal[a] + ((IF ZERO = a THEN n ELSE 0) - (IF from = a THEN n ELSE 0))
    BY ShiftType
<1> HIDE DEF last
<1>3. Debit(bal, from, n) \in [Account -> Int]
    BY DEF Debit
<1>4. \A a \in Account : Debit(bal, from, n)[a] = last[a]
    BY <1>2, NobodyAtZero DEF Debit
<1>5. Debit(bal, from, n) = last
    BY <1>1, <1>3, <1>4
<1> QED
    BY <1>3, <1>5 DEF last

LEMMA TwoShifts ==
    ASSUME NEW bal \in [Account -> Int], NEW from \in Account, NEW to \in Account,
           NEW n \in Int
    PROVE  Shift(Shift(bal, from, ZERO, n), ZERO, to, n) = Shift(bal, from, to, n)
<1> DEFINE mid == Shift(bal, from, ZERO, n)
           last == Shift(mid, ZERO, to, n)
           once == Shift(bal, from, to, n)
<1>1. mid \in [Account -> Int] /\ last \in [Account -> Int] /\ once \in [Account -> Int]
    BY ShiftType
<1>2. \A a \in Account :
          /\ mid[a] = bal[a] + ((IF ZERO = a THEN n ELSE 0) - (IF from = a THEN n ELSE 0))
          /\ once[a] = bal[a] + ((IF to = a THEN n ELSE 0) - (IF from = a THEN n ELSE 0))
          /\ last[a] = mid[a] + ((IF to = a THEN n ELSE 0) - (IF ZERO = a THEN n ELSE 0))
    BY <1>1, ShiftType
<1> HIDE DEF mid, last, once
<1>3. \A a \in Account : last[a] = once[a]
    BY <1>2, NobodyAtZero
<1>4. last = once
    BY <1>1, <1>3
<1> QED
    BY <1>4 DEF mid, last, once

--------------------------------------------------------------------------------
(* What the logs of a call tell of the ledger.                             *)

\* After these logs the entities mirror this ledger, and no log is the upgrade's.
Tells(logs, x, c, bal, supply, debt, bad, capital, stop) ==
    /\ logs \in CallSet
    /\ ~Emits(logs, {"Initialized"})
    /\ Mirrors(HandledCall(x, logs, c), bal, supply, debt, bad, capital, stop)

LEMMA NothingTold ==
    ASSUME NEW x, NEW bal, NEW supply, NEW debt, NEW bad, NEW capital, NEW stop,
           NEW c \in Int, Mirrors(x, bal, supply, debt, bad, capital, stop)
    PROVE  Tells(<< >>, x, c, bal, supply, debt, bad, capital, stop)
<1> DEFINE none == << >>
<1>1. none \in CallSet /\ ~Emits(none, {"Initialized"})
    BY DEF CallSet, Emits
<1>2. HandledCall(x, none, c) = x
    BY CallOfNoLog DEF Mirrors
<1> HIDE DEF none
<1>3. Tells(none, x, c, bal, supply, debt, bad, capital, stop)
    BY <1>1, <1>2 DEF Tells
<1> QED
    BY <1>3 DEF none

LEMMA TransferTold ==
    ASSUME NEW logs, NEW x \in IndexState, NEW bal \in [Account -> Int],
           NEW supply \in Int, NEW debt \in Int, NEW bad \in Int, NEW capital \in Int,
           NEW stop, NEW c \in Int,
           Tells(logs, x, c, bal, supply, debt, bad, capital, stop),
           NEW from \in Account, NEW to \in Account, NEW n \in Int
    PROVE  Tells(logs \o <<TransferLog(from, to, n)>>, x, c, Shift(bal, from, to, n),
                 supply, debt, bad, capital, stop)
<1> DEFINE e == TransferLog(from, to, n)
<1>1. e \in LogSet /\ e.event = "Transfer"
    BY TransferLogType DEF Address
<1>2. Mirrors(Handled(HandledCall(x, logs, c), e, c), Shift(bal, from, to, n),
              supply, debt, bad, capital, stop)
    BY TransferSeen DEF Tells
<1> HIDE DEF e
<1>3. /\ logs \o <<e>> \in CallSet
      /\ HandledCall(x, logs \o <<e>>, c) = Handled(HandledCall(x, logs, c), e, c)
      /\ ~Emits(logs \o <<e>>, {"Initialized"})
    BY <1>1, OneLogMore DEF Tells
<1>4. Tells(logs \o <<e>>, x, c, Shift(bal, from, to, n), supply, debt, bad, capital,
            stop)
    BY <1>2, <1>3 DEF Tells
<1> QED
    BY <1>4 DEF e

\* The second log of a movement into an indebted fund.
LEMMA RepayTold ==
    ASSUME NEW logs, NEW x \in IndexState, NEW bal \in [Account -> Int],
           NEW supply \in Int, insuranceDebt \in Nat, NEW bad \in Int,
           NEW capital \in Int, NEW stop, NEW c \in Int,
           Tells(logs, x, c, bal, supply, insuranceDebt, bad, capital, stop),
           NEW to \in Account, NEW n \in Nat
    PROVE  Tells(logs \o RepayLog(to, n), x, c, Shift(bal, FUND, ZERO, Repaid(to, n)),
                 supply - Repaid(to, n), insuranceDebt - Repaid(to, n), bad, capital,
                 stop)
<1> DEFINE r == Repaid(to, n)
<1>1. r \in Nat /\ r <= insuranceDebt
    BY DEF Repaid, Smaller
<1>2. RepayLog(to, n) = IF r > 0 THEN <<TransferLog(FUND, ZERO, r)>> ELSE << >>
    BY DEF RepayLog
<1> HIDE DEF r
<1>3. CASE r = 0
    <2>1. RepayLog(to, n) = << >>
        BY <1>2, <1>3
    <2>2. logs \o << >> = logs
        BY ConcatEmptySeq DEF Tells, CallSet
    <2>3. /\ Shift(bal, FUND, ZERO, r) = bal /\ supply - r = supply
          /\ insuranceDebt - r = insuranceDebt
        BY <1>3, NoShift
    <2> QED
        BY <2>1, <2>2, <2>3 DEF r
<1>4. CASE r > 0
    <2> DEFINE e == TransferLog(FUND, ZERO, r)
    <2>1. e \in LogSet /\ e.event = "Transfer"
        <3>1. FUND \in Address /\ ZERO \in Address /\ r \in Int
            BY <1>1, FundIsAccount DEF Address
        <3> QED
            BY <3>1, TransferLogType
    <2>2. Mirrors(Handled(HandledCall(x, logs, c), e, c), Shift(bal, FUND, ZERO, r),
                  supply - r, insuranceDebt - r, bad, capital, stop)
        BY <1>1, <1>4, RepaySeen DEF Tells
    <2>3. RepayLog(to, n) = <<e>>
        BY <1>2, <1>4
    <2> HIDE DEF e
    <2>4. /\ logs \o <<e>> \in CallSet
          /\ HandledCall(x, logs \o <<e>>, c) = Handled(HandledCall(x, logs, c), e, c)
          /\ ~Emits(logs \o <<e>>, {"Initialized"})
        BY <2>1, OneLogMore DEF Tells
    <2>5. Tells(logs \o <<e>>, x, c, Shift(bal, FUND, ZERO, r), supply - r,
                insuranceDebt - r, bad, capital, stop)
        BY <2>2, <2>4 DEF Tells
    <2> QED
        BY <2>3, <2>5 DEF r
<1> QED
    BY <1>1, <1>3, <1>4

\* The last log of a call that may latch the halt.
LEMMA LatchTold ==
    ASSUME NEW logs, NEW x \in IndexState, NEW bal \in [Account -> Int],
           NEW supply \in Int, NEW debt \in Int, NEW bad \in Int, NEW capital \in Int,
           NEW c \in Int, Tells(logs, x, c, bal, supply, debt, bad, capital, halted),
           halted \in BOOLEAN, halted' \in BOOLEAN, halted => halted'
    PROVE  Tells(logs \o LatchLog, x, c, bal, supply, debt, bad, capital, halted')
<1>1. CASE halted' /\ ~halted
    <2> DEFINE e == Log("VaultHalted", ZERO, 0)
    <2>1. e \in LogSet /\ e.event = "VaultHalted"
        <3>1. ZERO \in Address /\ 0 \in Int /\ "VaultHalted" \in UserEvent
            BY DEF Address, UserEvent
        <3> QED
            BY <3>1, UserLogType
    <2>2. Mirrors(Handled(HandledCall(x, logs, c), e, c), bal, supply, debt, bad,
                  capital, TRUE)
        BY SwitchSeen DEF Tells
    <2>3. LatchLog = <<e>>
        BY <1>1 DEF LatchLog
    <2> HIDE DEF e
    <2>4. /\ logs \o <<e>> \in CallSet
          /\ HandledCall(x, logs \o <<e>>, c) = Handled(HandledCall(x, logs, c), e, c)
          /\ ~Emits(logs \o <<e>>, {"Initialized"})
        BY <2>1, OneLogMore DEF Tells
    <2>5. Tells(logs \o <<e>>, x, c, bal, supply, debt, bad, capital, TRUE)
        BY <2>2, <2>4 DEF Tells
    <2>6. halted' = TRUE
        BY <1>1
    <2> QED
        BY <2>3, <2>5, <2>6
<1>2. CASE ~(halted' /\ ~halted)
    <2>1. LatchLog = << >>
        BY <1>2 DEF LatchLog
    <2>2. logs \o << >> = logs
        BY ConcatEmptySeq DEF Tells, CallSet
    <2>3. halted' = halted
        BY <1>2
    <2> QED
        BY <2>1, <2>2, <2>3
<1> QED
    BY <1>1, <1>2

--------------------------------------------------------------------------------
(* Every call tells what it does to the ledger.                            *)

\* The logs of a call, handled by entities that mirrored the ledger before it,
\* leave them mirroring the ledger after it.
TellsNext(logs, x) ==
    Tells(logs, x, insuranceCapital', balance', totalSupply', insuranceDebt',
          traderBadDebtTotal', insuranceCapital', halted')

MirrorsNow(x) ==
    Mirrors(x, balance, totalSupply, insuranceDebt, traderBadDebtTotal,
            insuranceCapital, halted)

\* What the vault's own invariant says that the logs depend on.
VaultSound ==
    /\ balance \in [Account -> Nat]
    /\ totalSupply \in Int /\ insuranceDebt \in Nat
    /\ traderBadDebtTotal \in Nat /\ insuranceCapital \in Int
    /\ halted \in BOOLEAN
    /\ FundEmptyWhileInDebt

LEMMA SoundVault == Inv => VaultSound
BY DEF Inv, MoneyInv, ControlInv, VaultSound

LEMMA IntBalances == VaultSound => balance \in [Account -> Int]
BY DEF VaultSound

LEMMA DepositTold ==
    ASSUME VaultSound, NEW x \in IndexState, MirrorsNow(x), NEW c \in Int,
           NEW account \in Account, NEW n \in Nat, Mint(account, n)
    PROVE  Tells(DepositLogs(account, n), x, c, balance', totalSupply', insuranceDebt',
                 traderBadDebtTotal, insuranceCapital, halted)
<1> DEFINE m == Log("Deposited", account, n)
           e == TransferLog(ZERO, account, n)
           logs == <<m, e>>
           minted == Shift(balance, ZERO, account, n)
           supply == totalSupply + n
<1>0. balance \in [Account -> Int] /\ n \in Int
    BY IntBalances
<1>1. m \in LogSet /\ e \in LogSet /\ m.event = "Deposited" /\ e.event = "Transfer"
    <2>1. account \in Address /\ ZERO \in Address /\ "Deposited" \in UserEvent
        BY DEF Address, UserEvent
    <2> QED
        BY <1>0, <2>1, TransferLogType, UserLogType
<1>2. Mirrors(Handled(Handled(x, m, c), e, c), minted, totalSupply + n, insuranceDebt,
              traderBadDebtTotal, insuranceCapital, halted)
    BY <1>0, DepositSeen DEF MirrorsNow, VaultSound
<1>3. minted \in [Account -> Int]
    BY <1>0, ShiftType
<1>4. DepositLogs(account, n) = logs \o RepayLog(account, n)
    BY DEF DepositLogs
<1>5. /\ Repaid(account, n) \in Int
      /\ balance' = Shift(minted, FUND, ZERO, Repaid(account, n))
      /\ totalSupply' = totalSupply + n - Repaid(account, n)
      /\ insuranceDebt' = insuranceDebt - Repaid(account, n)
    BY <1>0, CreditShifts DEF Mint, VaultSound
<1> HIDE DEF m, e
<1>6. /\ logs \in CallSet
      /\ HandledCall(x, logs, c) = Handled(Handled(x, m, c), e, c)
      /\ ~Emits(logs, {"Initialized"})
    BY <1>1, TwoLogs
<1> HIDE DEF logs, minted
<1>7. supply \in Int /\ totalSupply' = supply - Repaid(account, n)
    BY <1>5 DEF VaultSound
<1>8. Tells(logs, x, c, minted, supply, insuranceDebt, traderBadDebtTotal,
            insuranceCapital, halted)
    BY <1>2, <1>6 DEF Tells
<1> HIDE DEF supply
<1>9. Tells(logs \o RepayLog(account, n), x, c,
            Shift(minted, FUND, ZERO, Repaid(account, n)), supply - Repaid(account, n),
            insuranceDebt - Repaid(account, n), traderBadDebtTotal, insuranceCapital,
            halted)
    BY <1>3, <1>7, <1>8, RepayTold DEF VaultSound
<1> QED
    BY <1>4, <1>5, <1>7, <1>9

LEMMA WithdrawTold ==
    ASSUME VaultSound, NEW x \in IndexState, MirrorsNow(x), NEW c \in Int,
           NEW account \in Account, NEW n \in Nat, n > 0, Burn(account, n)
    PROVE  Tells(WithdrawLogs(account, n), x, c, balance', totalSupply', insuranceDebt',
                 traderBadDebtTotal, insuranceCapital, halted)
<1> DEFINE m == Log("Withdrawn", account, n)
           e == TransferLog(account, ZERO, n)
           logs == <<e, m>>
<1>0. balance \in [Account -> Int] /\ n \in Int
    BY IntBalances
<1>1. m \in LogSet /\ e \in LogSet /\ m.event = "Withdrawn" /\ e.event = "Transfer"
    <2>1. account \in Address /\ ZERO \in Address /\ "Withdrawn" \in UserEvent
        BY DEF Address, UserEvent
    <2> QED
        BY <1>0, <2>1, TransferLogType, UserLogType
<1>2. account = FUND => insuranceDebt = 0
    BY DEF VaultSound, FundEmptyWhileInDebt, Burn
<1>3. Mirrors(Handled(Handled(x, e, c), m, c), Shift(balance, account, ZERO, n),
              totalSupply - n, insuranceDebt, traderBadDebtTotal, insuranceCapital,
              halted)
    BY <1>0, <1>2, WithdrawSeen DEF MirrorsNow, VaultSound
<1>4. WithdrawLogs(account, n) = logs
    BY DEF WithdrawLogs
<1>5. /\ balance' = Shift(balance, account, ZERO, n)
      /\ totalSupply' = totalSupply - n /\ insuranceDebt' = insuranceDebt
    BY <1>0, DebitShifts DEF Burn
<1> HIDE DEF m, e
<1>6. /\ logs \in CallSet
      /\ HandledCall(x, logs, c) = Handled(Handled(x, e, c), m, c)
      /\ ~Emits(logs, {"Initialized"})
    BY <1>1, TwoLogs
<1> HIDE DEF logs
<1> QED
    BY <1>3, <1>4, <1>5, <1>6 DEF Tells

LEMMA MovementTold ==
    ASSUME VaultSound, NEW x \in IndexState, MirrorsNow(x), NEW c \in Int,
           NEW from \in Account, NEW to \in Account, NEW n \in Nat,
           Transfer(from, to, n)
    PROVE  Tells(TransferLogs(from, to, n), x, c, balance', totalSupply',
                 insuranceDebt', traderBadDebtTotal, insuranceCapital, halted)
<1> DEFINE e == TransferLog(from, to, n)
           logs == <<e>>
           moved == Shift(balance, from, to, n)
<1>0. balance \in [Account -> Int] /\ n \in Int
    BY IntBalances
<1>1. e \in LogSet /\ e.event = "Transfer"
    <2>1. from \in Address /\ to \in Address
        BY DEF Address
    <2> QED
        BY <1>0, <2>1, TransferLogType
<1>2. Mirrors(Handled(x, e, c), moved, totalSupply, insuranceDebt, traderBadDebtTotal,
              insuranceCapital, halted)
    BY <1>0, TransferSeen DEF MirrorsNow, VaultSound
<1>3. moved \in [Account -> Int]
    BY <1>0, ShiftType
<1>4. TransferLogs(from, to, n) = logs \o RepayLog(to, n)
    BY DEF TransferLogs
<1>5. /\ Repaid(to, n) \in Int
      /\ balance' = Shift(moved, FUND, ZERO, Repaid(to, n))
      /\ totalSupply' = totalSupply - Repaid(to, n)
      /\ insuranceDebt' = insuranceDebt - Repaid(to, n)
    <2> DEFINE left == Debit(balance, from, n)
    <2>1. left \in [Account -> Int] /\ Shift(left, ZERO, to, n) = moved
        BY <1>0, DebitShifts, TwoShifts
    <2>2. balance' = Credit(left, to, n)
        BY DEF Transfer
    <2> HIDE DEF left
    <2>3. /\ Repaid(to, n) \in Int
          /\ Credit(left, to, n) = Shift(Shift(left, ZERO, to, n), FUND, ZERO,
                                         Repaid(to, n))
        BY <1>0, <2>1, CreditShifts DEF VaultSound
    <2> QED
        BY <2>1, <2>2, <2>3 DEF Transfer
<1> HIDE DEF e
<1>6. /\ logs \in CallSet /\ HandledCall(x, logs, c) = Handled(x, e, c)
      /\ ~Emits(logs, {"Initialized"})
    BY <1>1, OneLog
<1> HIDE DEF logs, moved
<1>7. Tells(logs, x, c, moved, totalSupply, insuranceDebt, traderBadDebtTotal,
            insuranceCapital, halted)
    BY <1>2, <1>6 DEF Tells
<1>8. Tells(logs \o RepayLog(to, n), x, c, Shift(moved, FUND, ZERO, Repaid(to, n)),
            totalSupply - Repaid(to, n), insuranceDebt - Repaid(to, n),
            traderBadDebtTotal, insuranceCapital, halted)
    BY <1>3, <1>7, RepayTold DEF VaultSound
<1> QED
    BY <1>4, <1>5, <1>8

\* A settlement from somebody else than the fund: what it has, then its bad debt.
LEMMA PaymentTold ==
    ASSUME VaultSound, NEW x \in IndexState, MirrorsNow(x), NEW c \in Int,
           NEW from \in Account, NEW to \in Account, NEW n \in Nat, n > 0,
           SettleFromPayer(from, to, n)
    PROVE  Tells(SettleLogs(from, to, n), x, c, balance', totalSupply',
                 insuranceDebt', traderBadDebtTotal', insuranceCapital, halted)
<1> DEFINE paid == Smaller(balance[from], n)
           moved == IF paid > 0 THEN TransferLogs(from, to, paid) ELSE << >>
           e == [event |-> "BadDebt", user |-> from, receiver |-> to,
                 amount |-> n - paid]
           rest == IF paid < n THEN <<e>> ELSE << >>
           bad == IF to = FUND THEN traderBadDebtTotal + (n - paid)
                  ELSE traderBadDebtTotal
<1>1. /\ Transfer(from, to, paid) /\ halted' = halted /\ from # FUND
      /\ traderBadDebtTotal' = bad
    BY DEF SettleFromPayer
<1>2. paid \in Nat /\ paid <= n
    BY DEF VaultSound, Smaller
<1>3. SettleLogs(from, to, n) = (moved \o rest) \o LatchLog
    BY <1>1 DEF SettleLogs
<1>4. LatchLog = << >>
    BY <1>1 DEF LatchLog
<1> HIDE DEF paid
<1>5. Tells(moved, x, c, balance', totalSupply', insuranceDebt', traderBadDebtTotal,
            insuranceCapital, halted)
    <2>1. CASE paid > 0
        BY <1>1, <1>2, <2>1, MovementTold
    <2>2. CASE paid = 0
        <3>1. Repaid(to, 0) = 0
            BY DEF Repaid, Smaller, VaultSound
        <3>2. /\ balance' = balance /\ totalSupply' = totalSupply
              /\ insuranceDebt' = insuranceDebt
            <4>1. balance \in [Account -> Int]
                BY IntBalances
            <4>2. Debit(balance, from, 0) = balance
                BY <4>1 DEF Debit
            <4>3. /\ Credit(balance, to, 0) = Shift(Shift(balance, ZERO, to, 0), FUND,
                                                    ZERO, Repaid(to, 0))
                BY <4>1, CreditShifts DEF VaultSound
            <4>4. Credit(balance, to, 0) = balance
                BY <3>1, <4>1, <4>3, NoShift
            <4> QED
                BY <1>1, <2>2, <3>1, <4>2, <4>4 DEF Transfer, VaultSound
        <3>3. moved = << >>
            BY <2>2
        <3>4. Tells(<< >>, x, c, balance, totalSupply, insuranceDebt,
                    traderBadDebtTotal, insuranceCapital, halted)
            BY NothingTold DEF MirrorsNow
        <3> QED
            BY <3>2, <3>3, <3>4
    <2> QED
        BY <1>2, <2>1, <2>2
<1> HIDE DEF moved
<1>6. Tells(moved \o rest, x, c, balance', totalSupply', insuranceDebt', bad,
            insuranceCapital, halted)
    <2>1. CASE paid = n
        <3>1. rest = << >> /\ bad = traderBadDebtTotal
            BY <2>1 DEF VaultSound
        <3>2. moved \o << >> = moved
            BY <1>5, ConcatEmptySeq DEF Tells, CallSet
        <3> QED
            BY <1>5, <3>1, <3>2
    <2>2. CASE paid < n
        <3>1. from \in Address /\ to \in Address /\ n - paid \in Int
            BY <1>2 DEF Address
        <3>2. e \in LogSet /\ e.event = "BadDebt"
            BY <3>1, BadDebtLogType
        <3>3. rest = <<e>>
            BY <2>2
        <3>4. balance' \in [Account -> Int] /\ totalSupply' \in Int
              /\ insuranceDebt' \in Int
            BY <1>5 DEF Tells, Mirrors, IndexState
        <3>5. Mirrors(Handled(HandledCall(x, moved, c), e, c), balance', totalSupply',
                      insuranceDebt', bad, insuranceCapital, halted)
            <4>1. Mirrors(HandledCall(x, moved, c), balance', totalSupply',
                          insuranceDebt', traderBadDebtTotal, insuranceCapital, halted)
                BY <1>5 DEF Tells
            <4>2. traderBadDebtTotal \in Int /\ insuranceCapital \in Int
                BY DEF VaultSound
            <4> DEFINE rem == n - paid
            <4>3. rem \in Int
                BY <3>1
            <4>4. e = [event |-> "BadDebt", user |-> from, receiver |-> to,
                       amount |-> rem]
                OBVIOUS
            <4> HIDE DEF rem, e
            <4>5. Mirrors(Handled(HandledCall(x, moved, c), e, c), balance',
                          totalSupply', insuranceDebt',
                          IF to = FUND THEN traderBadDebtTotal + rem
                          ELSE traderBadDebtTotal,
                          insuranceCapital, halted)
                BY <3>4, <4>1, <4>2, <4>3, <4>4, BadDebtSeen
            <4> QED
                BY <4>5 DEF rem
        <3> HIDE DEF e, rest, bad
        <3>6. /\ moved \o <<e>> \in CallSet
              /\ HandledCall(x, moved \o <<e>>, c)
                    = Handled(HandledCall(x, moved, c), e, c)
              /\ ~Emits(moved \o <<e>>, {"Initialized"})
            BY <1>5, <3>2, OneLogMore DEF Tells
        <3> QED
            BY <3>3, <3>5, <3>6 DEF Tells
    <2> QED
        BY <1>2, <2>1, <2>2
<1> HIDE DEF rest, bad
<1>7. (moved \o rest) \o << >> = moved \o rest
    BY <1>6, ConcatEmptySeq DEF Tells, CallSet
<1> QED
    BY <1>1, <1>3, <1>4, <1>6, <1>7

\* A settlement that the fund pays out of what it has.
LEMMA PayoutTold ==
    ASSUME VaultSound, NEW x \in IndexState, MirrorsNow(x), NEW c \in Int,
           NEW to \in Account, to # FUND, NEW n \in Nat, n > 0,
           SettleFromCoveredFund(to, n)
    PROVE  Tells(SettleLogs(FUND, to, n), x, c, balance', totalSupply',
                 insuranceDebt', traderBadDebtTotal', insuranceCapital, halted)
<1> DEFINE logs == TransferLogs(FUND, to, n)
<1>1. Smaller(balance[FUND], n) = n
    BY FundIsAccount DEF SettleFromCoveredFund, Smaller, VaultSound
<1>2. LatchLog = << >>
    BY DEF LatchLog, SettleFromCoveredFund
<1>3. SettleLogs(FUND, to, n) = (logs \o << >>) \o << >>
    <2> HIDE DEF logs
    <2>1. n > 0 /\ ~(n < n)
        OBVIOUS
    <2>2. TransferLogs(FUND, to, n) = logs
        BY DEF logs
    <2> QED
        BY <1>1, <1>2, <2>1, <2>2 DEF SettleLogs
<1>4. Tells(logs, x, c, balance', totalSupply', insuranceDebt', traderBadDebtTotal,
            insuranceCapital, halted)
    BY FundIsAccount, MovementTold DEF SettleFromCoveredFund
<1> HIDE DEF logs
<1>5. logs \o << >> = logs
    BY <1>4, ConcatEmptySeq DEF Tells, CallSet
<1> QED
    BY <1>3, <1>4, <1>5 DEF SettleFromCoveredFund

\* One that it borrows for: what it has, the minted rest, and the latch.
LEMMA BorrowTold ==
    ASSUME VaultSound, NEW x \in IndexState, MirrorsNow(x), NEW c \in Int,
           NEW to \in Account, to # FUND, NEW n \in Nat, n > 0, Borrow(to, n)
    PROVE  Tells(SettleLogs(FUND, to, n), x, c, balance', totalSupply',
                 insuranceDebt', traderBadDebtTotal', insuranceCapital, halted')
<1> DEFINE paid == balance[FUND]
           lent == n - paid
           t == TransferLog(FUND, to, paid)
           moved == IF paid > 0 THEN <<t>> ELSE << >>
           e == TransferLog(ZERO, to, lent)
           part == Shift(balance, FUND, to, paid)
           whole == Shift(part, ZERO, to, lent)
<1>0. balance \in [Account -> Int] /\ FUND \in Account
    BY IntBalances, FundIsAccount
<1>1. paid \in Nat /\ paid < n /\ lent \in Int /\ Smaller(balance[FUND], n) = paid
    BY FundIsAccount DEF VaultSound, Borrow, Smaller
<1>2. SettleLogs(FUND, to, n) = (moved \o <<e>>) \o LatchLog
    <2>1. RepayLog(to, paid) = << >>
        BY DEF RepayLog, Repaid
    <2>2. <<t>> \o << >> = <<t>>
        OBVIOUS
    <2>3. TransferLogs(FUND, to, paid) = <<t>>
        BY <2>1, <2>2 DEF TransferLogs
    <2> HIDE DEF t, e
    <2> QED
        BY <1>1, <2>3 DEF SettleLogs, e
<1>3. part \in [Account -> Int] /\ whole \in [Account -> Int]
    BY <1>0, <1>1, ShiftType
<1>4. /\ balance' = whole /\ totalSupply' = totalSupply + lent
      /\ insuranceDebt' = insuranceDebt + lent
      /\ traderBadDebtTotal' = traderBadDebtTotal
    <2> DEFINE after == [balance EXCEPT ![FUND] = 0, ![to] = balance[to] + n]
    <2>1. /\ balance' = after /\ after \in [Account -> Int]
          /\ totalSupply' = totalSupply + (n - balance[FUND])
          /\ insuranceDebt' = insuranceDebt + (n - balance[FUND])
        BY <1>0, BorrowPays DEF VaultSound
    <2>2. \A a \in Account :
              part[a] = balance[a] + ((IF to = a THEN paid ELSE 0)
                                        - (IF FUND = a THEN paid ELSE 0))
        BY <1>0, <1>1, ShiftType
    <2>3. \A a \in Account :
              whole[a] = part[a] + ((IF to = a THEN lent ELSE 0)
                                      - (IF ZERO = a THEN lent ELSE 0))
        BY <1>1, <1>3, ShiftType
    <2>4. \A a \in Account : a # ZERO
        BY NobodyAtZero
    <2> HIDE DEF part, whole
    <2>5. \A a \in Account : after[a] = whole[a]
        BY <1>0, <1>1, <2>2, <2>3, <2>4
    <2> HIDE DEF after
    <2>6. after = whole
        BY <1>3, <2>1, <2>5
    <2> QED
        BY <2>1, <2>6 DEF Borrow
<1> HIDE DEF paid
<1>5. t \in LogSet /\ t.event = "Transfer" /\ e \in LogSet /\ e.event = "Transfer"
    <2>1. FUND \in Address /\ to \in Address /\ ZERO \in Address /\ paid \in Int
        BY <1>0, <1>1 DEF Address
    <2>2. TransferLog(FUND, to, paid) \in LogSet
          /\ TransferLog(FUND, to, paid).event = "Transfer"
        BY <2>1, TransferLogType
    <2>3. TransferLog(ZERO, to, lent) \in LogSet
          /\ TransferLog(ZERO, to, lent).event = "Transfer"
        BY <1>1, <2>1, TransferLogType
    <2> QED
        BY <2>2, <2>3
<1> HIDE DEF lent
<1>6. Tells(moved, x, c, part, totalSupply, insuranceDebt, traderBadDebtTotal,
            insuranceCapital, halted)
    <2>1. CASE paid > 0
        <3>1. Mirrors(Handled(x, t, c), part, totalSupply, insuranceDebt,
                      traderBadDebtTotal, insuranceCapital, halted)
            BY <1>0, <1>1, TransferSeen DEF MirrorsNow, VaultSound
        <3>2. moved = <<t>>
            BY <2>1
        <3> HIDE DEF t
        <3>3. /\ <<t>> \in CallSet /\ HandledCall(x, <<t>>, c) = Handled(x, t, c)
              /\ ~Emits(<<t>>, {"Initialized"})
            BY <1>5, OneLog
        <3> QED
            BY <3>1, <3>2, <3>3 DEF Tells
    <2>2. CASE paid = 0
        <3>1. part = balance
            BY <1>0, <2>2, NoShift
        <3>2. moved = << >>
            BY <2>2
        <3>3. Tells(<< >>, x, c, balance, totalSupply, insuranceDebt,
                    traderBadDebtTotal, insuranceCapital, halted)
            BY NothingTold DEF MirrorsNow
        <3> QED
            BY <3>1, <3>2, <3>3
    <2> QED
        BY <1>1, <2>1, <2>2
<1> HIDE DEF moved
<1>7. Tells(moved \o <<e>>, x, c, balance', totalSupply', insuranceDebt',
            traderBadDebtTotal', insuranceCapital, halted)
    <2>1. Mirrors(Handled(HandledCall(x, moved, c), e, c), whole, totalSupply + lent,
                  insuranceDebt + lent, traderBadDebtTotal, insuranceCapital, halted)
        BY <1>1, <1>3, <1>6, BorrowSeen DEF Tells, VaultSound
    <2> HIDE DEF e, whole
    <2>2. /\ moved \o <<e>> \in CallSet
          /\ HandledCall(x, moved \o <<e>>, c) = Handled(HandledCall(x, moved, c), e, c)
          /\ ~Emits(moved \o <<e>>, {"Initialized"})
        BY <1>5, <1>6, OneLogMore DEF Tells
    <2> QED
        BY <1>4, <2>1, <2>2 DEF Tells
<1> HIDE DEF e
<1> DEFINE logs == moved \o <<e>>
<1>8. Tells(logs \o LatchLog, x, c, balance', totalSupply', insuranceDebt',
            traderBadDebtTotal', insuranceCapital, halted')
    <2>1. /\ balance' \in [Account -> Int] /\ totalSupply' \in Int
          /\ insuranceDebt' \in Int /\ traderBadDebtTotal' \in Int
        BY <1>7 DEF Tells, Mirrors, IndexState
    <2>2. halted \in BOOLEAN /\ halted' \in BOOLEAN /\ (halted => halted')
        BY DEF Borrow, VaultSound
    <2>3. Tells(logs, x, c, balance', totalSupply', insuranceDebt',
                traderBadDebtTotal', insuranceCapital, halted)
        BY <1>7
    <2>4. insuranceCapital \in Int
        BY DEF VaultSound
    <2> HIDE DEF logs
    <2> QED
        BY <2>1, <2>2, <2>3, <2>4, LatchTold
<1> QED
    BY <1>2, <1>8

--------------------------------------------------------------------------------
(* The invariant: handling what is in the block would leave the entities   *)
(* mirroring the vault.                                                    *)

IndexInv ==
    /\ idx \in IndexState
    /\ block \in Seq(CallSet)
    /\ MirrorsNow(HandledBlock(idx, block, insuranceCapital))
    /\ Has(block, {"Initialized"}) => version = 2

LEMMA IndexInitInv == IndexInit => IndexInv
<1> SUFFICES ASSUME IndexInit PROVE IndexInv
    OBVIOUS
<1> DEFINE none == << >>
<1>1. block = none /\ none \in Seq(CallSet) /\ ~Has(none, {"Initialized"})
    BY DEF IndexInit, Has
<1>2. NoDeposit \in [user : Address, amount : Int]
    BY DEF NoDeposit, Address
<1>3. idx \in IndexState
    BY <1>2 DEF IndexInit, IndexState
<1>4. insuranceCapital = 0
    BY DEF IndexInit, Init
<1>5. HandledBlock(idx, none, 0) = idx
    BY <1>3, BlockOfNoCall
<1>6. Uncovered(0, 0) = 0 /\ Timing(0, 0, 0) = 0
    BY DEF Uncovered, Timing
<1>7. Mirrors(idx, balance, totalSupply, insuranceDebt, traderBadDebtTotal,
              insuranceCapital, halted)
    <2>1. /\ balance = [a \in Account |-> 0] /\ totalSupply = 0 /\ insuranceDebt = 0
          /\ traderBadDebtTotal = 0 /\ insuranceCapital = 0 /\ halted = FALSE
        BY DEF IndexInit, Init
    <2>2. /\ idx.balance = [a \in Account |-> 0]
          /\ idx.flow = [a \in Account \ {FUND} |-> 0]
          /\ idx.totalSupply = 0 /\ idx.insuranceFundBalance = 0
          /\ idx.insuranceDebt = 0 /\ idx.traderBadDebtTotal = 0
          /\ idx.insuranceCapital = 0 /\ idx.uncoveredLoss = 0 /\ idx.timingDebt = 0
          /\ idx.halted = FALSE /\ idx.pendingDeposit = NoDeposit
        BY DEF IndexInit
    <2> QED
        BY <1>3, <1>6, <2>1, <2>2, FundIsAccount DEF Mirrors
<1> HIDE DEF none
<1> QED
    BY <1>1, <1>3, <1>4, <1>5, <1>7 DEF IndexInv, MirrorsNow

LEMMA BlockType ==
    ASSUME NEW x \in IndexState, NEW txs \in Seq(CallSet), NEW c \in Int
    PROVE  HandledBlock(x, txs, c) \in IndexState
<1>1. Len(txs) \in 0 .. Len(txs)
    OBVIOUS
<1> QED
    BY <1>1, BlockInSteps DEF InSteps

\* The block grows by the logs of one call.  The entities may be asked for with
\* the capital after the call, because a block with the upgrade's log in it sees
\* no call that moves the capital.
LEMMA CallEmitted ==
    ASSUME IndexInv, VaultSound, VaultSound', NEW logs \in CallSet, Emit(logs),
           insuranceCapital' = insuranceCapital \/ ~Has(block, {"Initialized"}),
           version = 2 => version' = 2,
           Emits(logs, {"Initialized"}) => version' = 2,
           \A x \in IndexState :
              MirrorsNow(x) =>
                 Mirrors(HandledCall(x, logs, insuranceCapital'), balance',
                         totalSupply', insuranceDebt', traderBadDebtTotal',
                         insuranceCapital', halted')
    PROVE  IndexInv'
<1> DEFINE c == insuranceCapital
           d == insuranceCapital'
           x == HandledBlock(idx, block, c)
<1>1. c \in Int /\ d \in Int
    BY DEF VaultSound
<1>2. x \in IndexState /\ MirrorsNow(x)
    BY <1>1, BlockType DEF IndexInv
<1>3. HandledBlock(idx, block, d) = x
    <2>1. CASE d = c
        BY <2>1
    <2>2. CASE ~Has(block, {"Initialized"})
        BY <1>1, <2>2, BlockReadsCapital DEF IndexInv
    <2> QED
        BY <2>1, <2>2
<1>4. Mirrors(HandledCall(x, logs, d), balance', totalSupply', insuranceDebt',
              traderBadDebtTotal', insuranceCapital', halted')
    BY <1>2
<1>5. idx' = idx
    BY DEF Emit
<1>6. CASE logs = << >>
    <2>1. block' = block
        BY <1>6 DEF Emit
    <2>2. HandledCall(x, logs, d) = x
        BY <1>1, <1>2, <1>6, CallOfNoLog
    <2> HIDE DEF x, c, d
    <2>3. HandledBlock(idx', block', insuranceCapital') = x
        BY <1>3, <1>5, <2>1 DEF d
    <2>4. MirrorsNow(HandledBlock(idx, block, insuranceCapital))'
        BY <1>4, <2>2, <2>3 DEF MirrorsNow
    <2>5. Has(block', {"Initialized"}) => version' = 2
        BY <2>1 DEF IndexInv
    <2> QED
        BY <1>5, <2>1, <2>4, <2>5 DEF IndexInv
<1>7. CASE logs # << >>
    <2>1. block' = Append(block, logs)
        BY <1>7 DEF Emit
    <2>2. Append(block, logs) \in Seq(CallSet)
        BY DEF IndexInv
    <2>3. HandledBlock(idx, Append(block, logs), d)
              = HandledCall(HandledBlock(idx, block, d), logs, d)
        BY <1>1, BlockOfMore DEF IndexInv
    <2> HIDE DEF x, c, d
    <2>4. HandledBlock(idx', block', insuranceCapital') = HandledCall(x, logs, d)
        BY <1>3, <1>5, <2>1, <2>3 DEF d
    <2>5. MirrorsNow(HandledBlock(idx, block, insuranceCapital))'
        BY <1>4, <2>4 DEF MirrorsNow
    <2>6. Has(block', {"Initialized"}) => version' = 2
        BY <2>1, HasMore DEF IndexInv, Emits
    <2> QED
        BY <1>5, <2>1, <2>2, <2>5, <2>6 DEF IndexInv
<1> QED
    BY <1>6, <1>7

\* A call that leaves the capital and the version as they were.
LEMMA ToldEmitted ==
    ASSUME IndexInv, VaultSound, VaultSound', NEW logs, Emit(logs),
           UNCHANGED <<insuranceCapital, version>>,
           \A x \in IndexState :
              MirrorsNow(x) =>
                 Tells(logs, x, insuranceCapital, balance', totalSupply',
                       insuranceDebt', traderBadDebtTotal', insuranceCapital, halted')
    PROVE  IndexInv'
<1>1. \A x \in IndexState :
          MirrorsNow(x) =>
             /\ logs \in CallSet /\ ~Emits(logs, {"Initialized"})
             /\ Mirrors(HandledCall(x, logs, insuranceCapital'), balance',
                        totalSupply', insuranceDebt', traderBadDebtTotal',
                        insuranceCapital', halted')
    BY DEF Tells
<1>2. logs \in CallSet /\ ~Emits(logs, {"Initialized"})
    <2>1. HandledBlock(idx, block, insuranceCapital) \in IndexState
        BY BlockType DEF IndexInv, VaultSound
    <2> QED
        BY <1>1, <2>1 DEF IndexInv
<1> QED
    BY <1>1, <1>2, CallEmitted

LEMMA MoneyEmitted ==
    ASSUME IndexInv, VaultSound, VaultSound',
           NEW from \in Account, NEW to \in Account, NEW n \in Nat,
           \/ deposit(to, n) /\ Emit(DepositLogs(to, n))
           \/ withdraw(from, n) /\ Emit(WithdrawLogs(from, n))
           \/ withdrawBackstop(n) /\ Emit(WithdrawLogs(BACKSTOP, n))
           \/ internalTransfer(from, to, n) /\ Emit(TransferLogs(from, to, n))
           \/ VenueSettles(from, to, n) /\ Emit(SettleLogs(from, to, n))
    PROVE  IndexInv'
<1>0. insuranceCapital \in Int
    BY DEF VaultSound
<1>1. CASE deposit(to, n) /\ Emit(DepositLogs(to, n))
    <2>1. Mint(to, n) /\ UNCHANGED <<losses, halted, config>>
        BY <1>1 DEF deposit, DepositFor
    <2>2. /\ insuranceCapital' = insuranceCapital /\ version' = version
          /\ traderBadDebtTotal' = traderBadDebtTotal /\ halted' = halted
        BY <2>1 DEF losses, config
    <2>3. \A x \in IndexState :
              MirrorsNow(x) =>
                 Tells(DepositLogs(to, n), x, insuranceCapital, balance', totalSupply',
                       insuranceDebt', traderBadDebtTotal', insuranceCapital, halted')
        BY <1>0, <2>1, <2>2, DepositTold
    <2> QED
        BY <1>1, <2>2, <2>3, ToldEmitted
<1>2. ASSUME NEW account \in Account, Burn(account, n), n > 0,
             UNCHANGED <<losses, halted, config>>, Emit(WithdrawLogs(account, n))
      PROVE  IndexInv'
    <2>1. /\ insuranceCapital' = insuranceCapital /\ version' = version
          /\ traderBadDebtTotal' = traderBadDebtTotal /\ halted' = halted
        BY <1>2 DEF losses, config
    <2>2. \A x \in IndexState :
              MirrorsNow(x) =>
                 Tells(WithdrawLogs(account, n), x, insuranceCapital, balance',
                       totalSupply', insuranceDebt', traderBadDebtTotal',
                       insuranceCapital, halted')
        BY <1>0, <1>2, <2>1, WithdrawTold
    <2> QED
        BY <1>2, <2>1, <2>2, ToldEmitted
<1>3. CASE withdraw(from, n) /\ Emit(WithdrawLogs(from, n))
    BY <1>2, <1>3 DEF withdraw, WithdrawTo
<1>4. CASE withdrawBackstop(n) /\ Emit(WithdrawLogs(BACKSTOP, n))
    BY <1>2, <1>4, FundIsAccount DEF withdrawBackstop, WithdrawTo
<1>5. CASE internalTransfer(from, to, n) /\ Emit(TransferLogs(from, to, n))
    <2>1. Transfer(from, to, n) /\ UNCHANGED <<losses, halted, config>>
        BY <1>5 DEF internalTransfer
    <2>2. /\ insuranceCapital' = insuranceCapital /\ version' = version
          /\ traderBadDebtTotal' = traderBadDebtTotal /\ halted' = halted
        BY <2>1 DEF losses, config
    <2>3. \A x \in IndexState :
              MirrorsNow(x) =>
                 Tells(TransferLogs(from, to, n), x, insuranceCapital, balance',
                       totalSupply', insuranceDebt', traderBadDebtTotal',
                       insuranceCapital, halted')
        BY <1>0, <2>1, <2>2, MovementTold
    <2> QED
        BY <1>5, <2>2, <2>3, ToldEmitted
<1>6. CASE VenueSettles(from, to, n) /\ Emit(SettleLogs(from, to, n))
    <2>1. /\ n > 0 /\ UNCHANGED <<insuranceCapital, config>>
          /\ \/ SettleFromPayer(from, to, n)
             \/ from = FUND /\ to # FUND /\ SettleFromCoveredFund(to, n)
             \/ from = FUND /\ to # FUND /\ Borrow(to, n)
        BY <1>6 DEF VenueSettles, settleTransfer, SettleTransfer, SettleFromPayer
    <2>2. insuranceCapital' = insuranceCapital /\ version' = version
        BY <2>1 DEF config
    <2>3. \A x \in IndexState :
              MirrorsNow(x) =>
                 Tells(SettleLogs(from, to, n), x, insuranceCapital, balance',
                       totalSupply', insuranceDebt', traderBadDebtTotal',
                       insuranceCapital, halted')
        <3>1. CASE SettleFromPayer(from, to, n)
            <4>1. halted' = halted
                BY <3>1 DEF SettleFromPayer
            <4> QED
                BY <1>0, <2>1, <3>1, <4>1, PaymentTold
        <3>2. CASE from = FUND /\ to # FUND /\ SettleFromCoveredFund(to, n)
            <4>1. halted' = halted
                BY <3>2 DEF SettleFromCoveredFund
            <4> QED
                BY <1>0, <2>1, <3>2, <4>1, PayoutTold
        <3>3. CASE from = FUND /\ to # FUND /\ Borrow(to, n)
            BY <1>0, <2>1, <3>3, BorrowTold
        <3> QED
            BY <2>1, <3>1, <3>2, <3>3
    <2> QED
        BY <1>6, <2>2, <2>3, ToldEmitted
<1> QED
    BY <1>1, <1>3, <1>4, <1>5, <1>6

\* The two calls that move the capital: their last log says by how much.
LEMMA FundEmitted ==
    ASSUME IndexInv, VaultSound, VaultSound', UpgradeAlone, NEW n \in Nat,
           \/ /\ depositInsuranceFund(n)
              /\ Emit(DepositLogs(FUND, n) \o <<Log("InsuranceFundDeposited", FUND, n)>>)
           \/ /\ withdrawInsuranceFund(n)
              /\ Emit(WithdrawLogs(FUND, n) \o <<Log("InsuranceFundWithdrawn", FUND, n)>>)
    PROVE  IndexInv'
<1>0. insuranceCapital \in Int /\ n \in Int /\ FUND \in Account /\ FUND \in Address
    BY FundIsAccount DEF VaultSound, Address
<1>1. ASSUME NEW logs, NEW e \in LogSet, e.event \in FundLogs, Emit(logs \o <<e>>),
             version' = version,
             \A x \in IndexState :
                MirrorsNow(x) =>
                   /\ logs \in CallSet /\ ~Emits(logs, {"Initialized"})
                   /\ Mirrors(Handled(HandledCall(x, logs, insuranceCapital'), e,
                                      insuranceCapital'),
                              balance', totalSupply', insuranceDebt',
                              traderBadDebtTotal', insuranceCapital', halted')
      PROVE  IndexInv'
    <2> DEFINE more == logs \o <<e>>
    <2>0. HandledBlock(idx, block, insuranceCapital) \in IndexState
        BY <1>0, BlockType DEF IndexInv
    <2>1. logs \in CallSet /\ ~Emits(logs, {"Initialized"})
        BY <1>1, <2>0 DEF IndexInv
    <2>2. /\ more \in CallSet
          /\ Emits(more, FundLogs) /\ ~Emits(more, {"Initialized"})
        BY <1>0, <1>1, <2>0, <2>1, OneLogMore DEF FundLogs
    <2>3. \A x \in IndexState :
              HandledCall(x, more, insuranceCapital')
                 = Handled(HandledCall(x, logs, insuranceCapital'), e, insuranceCapital')
        BY <1>1, <2>1, OneLogMore DEF VaultSound
    <2> HIDE DEF more
    <2>4. ~Has(block, {"Initialized"})
        <3>1. more # << >>
            BY <2>2 DEF Emits
        <3>2. block' = Append(block, more)
              /\ ~(Has(block', {"Initialized"}) /\ Has(block', FundLogs))
            BY <1>1, <3>1 DEF Emit, more
        <3> QED
            BY <2>2, <3>2, HasMore DEF IndexInv, Emits
    <2>5. Emit(more)
        BY <1>1 DEF more
    <2> QED
        BY <1>1, <2>2, <2>3, <2>4, <2>5, CallEmitted
<1>2. CASE /\ depositInsuranceFund(n)
           /\ Emit(DepositLogs(FUND, n) \o <<Log("InsuranceFundDeposited", FUND, n)>>)
    <2> DEFINE logs == DepositLogs(FUND, n)
               e == Log("InsuranceFundDeposited", FUND, n)
    <2>1. /\ Mint(FUND, n) /\ insuranceCapital' = insuranceCapital + n
          /\ traderBadDebtTotal' = traderBadDebtTotal /\ halted' = halted
          /\ version' = version
        BY <1>2 DEF depositInsuranceFund, DepositFor, config
    <2>2. e \in LogSet /\ e.event = "InsuranceFundDeposited"
        BY <1>0, UserLogType DEF UserEvent
    <2>3. insuranceCapital' \in Int
        BY DEF VaultSound
    <2>4. ASSUME NEW x \in IndexState, MirrorsNow(x)
          PROVE  Tells(logs, x, insuranceCapital', balance', totalSupply',
                       insuranceDebt', traderBadDebtTotal, insuranceCapital, halted)
        BY <1>0, <2>1, <2>3, <2>4, DepositTold
    <2> HIDE DEF logs
    <2>5. ASSUME NEW x \in IndexState, MirrorsNow(x)
          PROVE  /\ logs \in CallSet /\ ~Emits(logs, {"Initialized"})
                 /\ Mirrors(Handled(HandledCall(x, logs, insuranceCapital'), e,
                                    insuranceCapital'),
                            balance', totalSupply', insuranceDebt',
                            traderBadDebtTotal', insuranceCapital', halted')
        <3> DEFINE y == HandledCall(x, logs, insuranceCapital')
        <3>1. /\ logs \in CallSet /\ ~Emits(logs, {"Initialized"})
              /\ Mirrors(y, balance', totalSupply', insuranceDebt',
                         traderBadDebtTotal, insuranceCapital, halted)
            BY <2>4, <2>5 DEF Tells
        <3>2. /\ balance' \in [Account -> Int] /\ totalSupply' \in Int
              /\ insuranceDebt' \in Int /\ traderBadDebtTotal \in Int
            BY <3>1 DEF Mirrors, IndexState
        <3> HIDE DEF y, e
        <3>3. Mirrors(Handled(y, Log("InsuranceFundDeposited", FUND, n),
                              insuranceCapital'),
                      balance', totalSupply', insuranceDebt', traderBadDebtTotal,
                      insuranceCapital + n, halted)
            BY <1>0, <2>3, <3>1, <3>2, CapitalSeen
        <3> QED
            BY <2>1, <3>1, <3>3 DEF y, e
    <2> HIDE DEF e
    <2> QED
        BY <1>1, <1>2, <2>1, <2>2, <2>5 DEF logs, e, FundLogs
<1>3. CASE /\ withdrawInsuranceFund(n)
           /\ Emit(WithdrawLogs(FUND, n) \o <<Log("InsuranceFundWithdrawn", FUND, n)>>)
    <2> DEFINE logs == WithdrawLogs(FUND, n)
               e == Log("InsuranceFundWithdrawn", FUND, n)
    <2>1. /\ Burn(FUND, n) /\ n > 0 /\ insuranceCapital' = insuranceCapital - n
          /\ traderBadDebtTotal' = traderBadDebtTotal /\ halted' = halted
          /\ version' = version
        BY <1>3 DEF withdrawInsuranceFund, WithdrawTo, config
    <2>2. e \in LogSet /\ e.event = "InsuranceFundWithdrawn"
        BY <1>0, UserLogType DEF UserEvent
    <2>3. insuranceCapital' \in Int
        BY DEF VaultSound
    <2>4. ASSUME NEW x \in IndexState, MirrorsNow(x)
          PROVE  Tells(logs, x, insuranceCapital', balance', totalSupply',
                       insuranceDebt', traderBadDebtTotal, insuranceCapital, halted)
        BY <1>0, <2>1, <2>3, <2>4, WithdrawTold
    <2> HIDE DEF logs
    <2>5. ASSUME NEW x \in IndexState, MirrorsNow(x)
          PROVE  /\ logs \in CallSet /\ ~Emits(logs, {"Initialized"})
                 /\ Mirrors(Handled(HandledCall(x, logs, insuranceCapital'), e,
                                    insuranceCapital'),
                            balance', totalSupply', insuranceDebt',
                            traderBadDebtTotal', insuranceCapital', halted')
        <3> DEFINE y == HandledCall(x, logs, insuranceCapital')
        <3>1. /\ logs \in CallSet /\ ~Emits(logs, {"Initialized"})
              /\ Mirrors(y, balance', totalSupply', insuranceDebt',
                         traderBadDebtTotal, insuranceCapital, halted)
            BY <2>4, <2>5 DEF Tells
        <3>2. /\ balance' \in [Account -> Int] /\ totalSupply' \in Int
              /\ insuranceDebt' \in Int /\ traderBadDebtTotal \in Int
            BY <3>1 DEF Mirrors, IndexState
        <3> HIDE DEF y, e
        <3>3. Mirrors(Handled(y, Log("InsuranceFundWithdrawn", FUND, n),
                              insuranceCapital'),
                      balance', totalSupply', insuranceDebt', traderBadDebtTotal,
                      insuranceCapital - n, halted)
            BY <1>0, <2>3, <3>1, <3>2, CapitalSeen
        <3> QED
            BY <2>1, <3>1, <3>3 DEF y, e
    <2> HIDE DEF e
    <2> QED
        BY <1>1, <1>3, <2>1, <2>2, <2>5 DEF logs, e, FundLogs
<1> QED
    BY <1>2, <1>3

\* The owner's calls: at most one log, of the halt or of the upgrade.
LEMMA ConfigEmitted ==
    ASSUME IndexInv, VaultSound, VaultSound',
           \/ \E a \in Venue, b \in BOOLEAN : setAuthorizedCaller(a, b) /\ Emit(<< >>)
           \/ \E e \in Engine \cup {NoEngine} : setMarginEngine(e) /\ Emit(LatchLog)
           \/ \E m \in DebtCap : setInsuranceDebtCap(m) /\ Emit(<< >>)
           \/ halt /\ Emit(LatchLog)
           \/ resume /\ Emit(<<Log("VaultResumed", ZERO, 0)>>)
    PROVE  IndexInv'
<1>0. /\ insuranceCapital \in Int /\ totalSupply \in Int /\ insuranceDebt \in Int
      /\ traderBadDebtTotal \in Int /\ balance \in [Account -> Int]
      /\ halted \in BOOLEAN /\ halted' \in BOOLEAN
    BY DEF VaultSound
<1>1. /\ insuranceCapital' = insuranceCapital /\ version' = version
      /\ balance' = balance /\ totalSupply' = totalSupply
      /\ insuranceDebt' = insuranceDebt /\ traderBadDebtTotal' = traderBadDebtTotal
    BY DEF setAuthorizedCaller, setMarginEngine, setInsuranceDebtCap, halt, resume,
           money, ledger, losses, config
<1>2. ASSUME NEW x \in IndexState, MirrorsNow(x)
      PROVE  Tells(<< >>, x, insuranceCapital, balance, totalSupply, insuranceDebt,
                   traderBadDebtTotal, insuranceCapital, halted)
    BY <1>0, <1>2, NothingTold DEF MirrorsNow
<1>3. CASE Emit(<< >>) /\ halted' = halted
    BY <1>1, <1>2, <1>3, ToldEmitted
<1>4. CASE Emit(LatchLog) /\ (halted => halted')
    <2>1. ASSUME NEW x \in IndexState, MirrorsNow(x)
          PROVE  Tells(LatchLog, x, insuranceCapital, balance, totalSupply,
                       insuranceDebt, traderBadDebtTotal, insuranceCapital, halted')
        <3> DEFINE none == << >>
        <3>1. Tells(none, x, insuranceCapital, balance, totalSupply, insuranceDebt,
                    traderBadDebtTotal, insuranceCapital, halted)
            BY <1>2, <2>1
        <3> HIDE DEF none
        <3>2. Tells(none \o LatchLog, x, insuranceCapital, balance, totalSupply,
                    insuranceDebt, traderBadDebtTotal, insuranceCapital, halted')
            BY <1>0, <1>4, <3>1, LatchTold
        <3>3. none \o LatchLog = LatchLog
            <4>1. LatchLog = << >> \/ LatchLog = <<Log("VaultHalted", ZERO, 0)>>
                BY DEF LatchLog
            <4>2. << >> \o << >> = << >>
                  /\ << >> \o <<Log("VaultHalted", ZERO, 0)>>
                        = <<Log("VaultHalted", ZERO, 0)>>
                OBVIOUS
            <4> QED
                BY <4>1, <4>2 DEF none
        <3> QED
            BY <3>2, <3>3
    <2> QED
        BY <1>1, <1>4, <2>1, ToldEmitted
<1>5. CASE resume /\ Emit(<<Log("VaultResumed", ZERO, 0)>>)
    <2> DEFINE e == Log("VaultResumed", ZERO, 0)
    <2>1. e \in LogSet /\ e.event = "VaultResumed"
        <3>1. ZERO \in Address /\ 0 \in Int /\ "VaultResumed" \in UserEvent
            BY DEF Address, UserEvent
        <3> QED
            BY <3>1, UserLogType
    <2>2. ASSUME NEW x \in IndexState, MirrorsNow(x)
          PROVE  Mirrors(Handled(x, e, insuranceCapital), balance, totalSupply,
                         insuranceDebt, traderBadDebtTotal, insuranceCapital, FALSE)
        BY <1>0, <2>2, SwitchSeen DEF MirrorsNow
    <2>3. halted' = FALSE
        BY <1>5 DEF resume
    <2> HIDE DEF e
    <2>4. ASSUME NEW x \in IndexState, MirrorsNow(x)
          PROVE  Tells(<<e>>, x, insuranceCapital, balance, totalSupply,
                       insuranceDebt, traderBadDebtTotal, insuranceCapital, FALSE)
        BY <1>0, <2>1, <2>2, <2>4, OneLog DEF Tells
    <2>5. Emit(<<e>>)
        BY <1>5 DEF e
    <2> QED
        BY <1>1, <2>3, <2>4, <2>5, ToldEmitted
<1> QED
    BY <1>3, <1>4, <1>5
       DEF setAuthorizedCaller, setMarginEngine, setInsuranceDebtCap, halt

\* The upgrade runs once, so its log is the first of its kind in the block; the
\* capital it counts is what the handler reads.
LEMMA UpgradeEmitted ==
    ASSUME IndexInv, VaultSound, VaultSound', initializeV2,
           Emit(<<Log("Initialized", ZERO, 0)>>)
    PROVE  IndexInv'
<1> DEFINE e == Log("Initialized", ZERO, 0)
           c == insuranceCapital'
<1>1. e \in LogSet /\ e.event = "Initialized"
    <2>1. ZERO \in Address /\ 0 \in Int /\ "Initialized" \in UserEvent
        BY DEF Address, UserEvent
    <2> QED
        BY <2>1, UserLogType
<1>2. /\ version < 2 /\ version' = 2 /\ balance' = balance
      /\ totalSupply' = totalSupply /\ insuranceDebt' = insuranceDebt
      /\ traderBadDebtTotal' = traderBadDebtTotal /\ halted' = halted
    BY DEF initializeV2, ledger
<1>3. ~Has(block, {"Initialized"})
    BY <1>2 DEF IndexInv
<1>4. insuranceCapital' \in Int
    BY DEF VaultSound
<1>5. ASSUME NEW x \in IndexState, MirrorsNow(x)
      PROVE  Mirrors(Handled(x, e, c), balance, totalSupply, insuranceDebt,
                     traderBadDebtTotal, c, halted)
    <2> HIDE DEF c
    <2>1. /\ balance \in [Account -> Int] /\ totalSupply \in Int /\ c \in Int
          /\ insuranceDebt \in Int /\ traderBadDebtTotal \in Int
          /\ insuranceCapital \in Int
        BY <1>4 DEF VaultSound, c
    <2>2. Mirrors(x, balance, totalSupply, insuranceDebt, traderBadDebtTotal,
                  insuranceCapital, halted)
        BY <1>5 DEF MirrorsNow
    <2> DEFINE none == 0
    <2>3. none \in Int /\ e = Log("Initialized", ZERO, none)
        OBVIOUS
    <2> HIDE DEF none, e
    <2> QED
        BY <2>1, <2>2, <2>3, CapitalSeen
<1> HIDE DEF e
<1>6. /\ <<e>> \in CallSet
      /\ \A x \in IndexState : HandledCall(x, <<e>>, c) = Handled(x, e, c)
    <2>1. ASSUME NEW x \in IndexState
          PROVE  <<e>> \in CallSet /\ HandledCall(x, <<e>>, c) = Handled(x, e, c)
        BY <1>1, <1>4, OneLog
    <2>2. HandledBlock(idx, block, insuranceCapital) \in IndexState
        BY BlockType DEF IndexInv, VaultSound
    <2> QED
        BY <2>1, <2>2
<1>7. Emit(<<e>>)
    BY DEF e
<1> DEFINE logs == <<e>>
<1>8. logs \in CallSet /\ Emit(logs)
    BY <1>6, <1>7
<1>9. \A x \in IndexState :
          MirrorsNow(x) =>
             Mirrors(HandledCall(x, logs, insuranceCapital'), balance', totalSupply',
                     insuranceDebt', traderBadDebtTotal', insuranceCapital', halted')
    BY <1>2, <1>5, <1>6
<1> HIDE DEF logs
<1> QED
    BY <1>2, <1>3, <1>8, <1>9, CallEmitted

--------------------------------------------------------------------------------
(* The whole specification.                                                *)

LEMMA VaultMoves ==
    ASSUME IndexNext
    PROVE  Next \/ UNCHANGED vars
<1>1. CASE VaultEmits /\ WithinBounds'
    <2>1. UserCall \/ VenueCall \/ FundCall \/ OwnerCall
        BY <1>1 DEF VaultEmits, UserCall, VenueCall, FundCall, OwnerCall, Configure
    <2> QED
        BY <1>1, <2>1 DEF Next
<1>2. CASE IndexBlock
    BY <1>2 DEF IndexBlock
<1> QED
    BY <1>1, <1>2 DEF IndexNext

LEMMA VaultInIndex == IndexSpec => Spec
<1>1. IndexInit => Init
    BY DEF IndexInit
<1>2. [IndexNext]_indexVars => [Next]_vars
    BY VaultMoves DEF indexVars
<1> QED
    BY <1>1, <1>2, PTL DEF IndexSpec, Spec

LEMMA IndexBlockStep ==
    ASSUME IndexInv, VaultSound, IndexBlock
    PROVE  IndexInv'
<1> DEFINE none == << >>
           x == HandledBlock(idx, block, insuranceCapital)
<1>1. idx' = x /\ block' = none /\ UNCHANGED vars
    BY DEF IndexBlock
<1>2. x \in IndexState /\ MirrorsNow(x)
    BY BlockType DEF IndexInv, VaultSound
<1>3. none \in Seq(CallSet) /\ ~Has(none, {"Initialized"})
    BY DEF Has
<1>4. HandledBlock(x, none, insuranceCapital) = x
    BY <1>2, BlockOfNoCall DEF VaultSound
<1>5. /\ balance' = balance /\ totalSupply' = totalSupply
      /\ insuranceDebt' = insuranceDebt /\ traderBadDebtTotal' = traderBadDebtTotal
      /\ insuranceCapital' = insuranceCapital /\ halted' = halted
    BY <1>1 DEF vars, ledger, losses
<1> HIDE DEF x, none
<1>6. MirrorsNow(HandledBlock(idx, block, insuranceCapital))'
    BY <1>1, <1>2, <1>4, <1>5 DEF MirrorsNow
<1> QED
    BY <1>1, <1>2, <1>3, <1>6 DEF IndexInv

LEMMA IndexStep ==
    ASSUME UpgradeAlone, IndexInv, VaultSound, VaultSound', [IndexNext]_indexVars
    PROVE  IndexInv'
<1>0. Amount \subseteq Nat
    BY Quantities
<1>1. CASE VaultEmits
    <2>1. CASE \E a \in Account, n \in Amount :
                  \/ deposit(a, n) /\ Emit(DepositLogs(a, n))
                  \/ withdraw(a, n) /\ Emit(WithdrawLogs(a, n))
        BY <1>0, <2>1, MoneyEmitted
    <2>2. CASE \E from, to \in Account, n \in Amount :
                  \/ internalTransfer(from, to, n) /\ Emit(TransferLogs(from, to, n))
                  \/ VenueSettles(from, to, n) /\ Emit(SettleLogs(from, to, n))
        BY <1>0, <2>2, MoneyEmitted
    <2>3. CASE \E n \in Amount : withdrawBackstop(n) /\ Emit(WithdrawLogs(BACKSTOP, n))
        BY <1>0, <2>3, FundIsAccount, MoneyEmitted
    <2>4. CASE \E n \in Amount :
                  \/ /\ depositInsuranceFund(n)
                     /\ Emit(DepositLogs(FUND, n)
                               \o <<Log("InsuranceFundDeposited", FUND, n)>>)
                  \/ /\ withdrawInsuranceFund(n)
                     /\ Emit(WithdrawLogs(FUND, n)
                               \o <<Log("InsuranceFundWithdrawn", FUND, n)>>)
        BY <1>0, <2>4, FundEmitted
    <2>5. CASE initializeV2 /\ Emit(<<Log("Initialized", ZERO, 0)>>)
        BY <2>5, UpgradeEmitted
    <2>6. CASE \/ \E a \in Venue, b \in BOOLEAN :
                     setAuthorizedCaller(a, b) /\ Emit(<< >>)
               \/ \E e \in Engine \cup {NoEngine} : setMarginEngine(e) /\ Emit(LatchLog)
               \/ \E m \in DebtCap : setInsuranceDebtCap(m) /\ Emit(<< >>)
               \/ halt /\ Emit(LatchLog)
               \/ resume /\ Emit(<<Log("VaultResumed", ZERO, 0)>>)
        BY <2>6, ConfigEmitted
    <2> QED
        BY <1>1, <2>1, <2>2, <2>3, <2>4, <2>5, <2>6 DEF VaultEmits
<1>2. CASE IndexBlock
    BY <1>2, IndexBlockStep
<1>3. CASE UNCHANGED indexVars
    BY <1>3 DEF IndexInv, indexVars, vars, ledger, losses, config, MirrorsNow
<1> QED
    BY <1>1, <1>2, <1>3 DEF IndexNext

\* Handling the logs that are in the block leaves the subgraph holding what the
\* vault holds, whatever calls the block is made of and in whatever order they
\* came, as long as the upgrade shares no block with a fund call
\* (indexer/src/vault.ts).
THEOREM IndexerFollows == UpgradeAlone /\ IndexSpec => [](IndexInv /\ VaultSound)
<1> SUFFICES ASSUME UpgradeAlone
             PROVE  IndexSpec => [](IndexInv /\ VaultSound)
    OBVIOUS
<1>1. IndexSpec => []Inv
    BY VaultInIndex, InductiveInvariant, PTL
<1>2. []Inv => []VaultSound
    BY SoundVault, PTL
<1>3. IndexInit => IndexInv
    BY IndexInitInv
<1>4. IndexInv /\ VaultSound /\ VaultSound' /\ [IndexNext]_indexVars => IndexInv'
    BY IndexStep
<1> QED
    BY <1>1, <1>2, <1>3, <1>4, PTL DEF IndexSpec

LEMMA CaughtUpMirrors ==
    ASSUME IndexInv, VaultSound, CaughtUp
    PROVE  MirrorsNow(idx)
<1>1. idx \in IndexState /\ MirrorsNow(HandledBlock(idx, << >>, insuranceCapital))
    BY DEF IndexInv, CaughtUp
<1>2. HandledBlock(idx, << >>, insuranceCapital) = idx
    BY <1>1, BlockOfNoCall DEF VaultSound
<1> QED
    BY <1>1, <1>2

\* Caught up, the subgraph holds what the contract holds, debt and stored split
\* included, although borrows and repayments have no event of their own.
THEOREM LosslessLedger == UpgradeAlone /\ IndexSpec => []IndexedStateMatches
<1>1. IndexInv /\ VaultSound => IndexedStateMatches
    <2> SUFFICES ASSUME IndexInv, VaultSound, CaughtUp
                 PROVE  /\ idx.balance = balance
                        /\ idx.totalSupply = totalSupply
                        /\ idx.insuranceFundBalance = balance[FUND]
                        /\ idx.insuranceDebt = insuranceDebt
                        /\ idx.traderBadDebtTotal = traderBadDebtTotal
                        /\ idx.halted = halted
                        /\ idx.pendingDeposit = NoDeposit
                        /\ idx.uncoveredLoss = uncoveredLoss
                        /\ idx.timingDebt = timingDebt
        BY DEF IndexedStateMatches
    <2>1. MirrorsNow(idx)
        BY CaughtUpMirrors
    <2>2. /\ Uncovered(traderBadDebtTotal, insuranceCapital) = uncoveredLoss
          /\ Timing(insuranceDebt, traderBadDebtTotal, insuranceCapital) = timingDebt
        BY DEF Uncovered, Timing, uncoveredLoss, timingDebt
    <2> QED
        BY <2>1, <2>2 DEF MirrorsNow, Mirrors
<1> QED
    BY <1>1, IndexerFollows, PTL

\* Caught up, every user's deposits, withdrawals and internal transfers, borrows
\* paid out included, add up to the balance the vault has for the user.
THEOREM HistoryExplains == UpgradeAlone /\ IndexSpec => []FlowsExplainBalances
<1>1. IndexInv /\ VaultSound => FlowsExplainBalances
    <2> SUFFICES ASSUME IndexInv, VaultSound, CaughtUp, NEW a \in DOMAIN idx.flow
                 PROVE  idx.flow[a] = idx.balance[a]
        BY DEF FlowsExplainBalances
    <2>1. MirrorsNow(idx)
        BY CaughtUpMirrors
    <2>2. DOMAIN idx.flow = Account \ {FUND}
        BY DEF IndexInv, IndexState
    <2> QED
        BY <2>1, <2>2 DEF MirrorsNow, Mirrors
<1> QED
    BY <1>1, IndexerFollows, PTL
================================================================================
