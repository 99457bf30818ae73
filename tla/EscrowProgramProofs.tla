------------------------ MODULE EscrowProgramProofs ------------------------
(***************************************************************************)
(* Proofs about EscrowProgram for any number of jobs, wallets and amounts, *)
(* and that it implements EscrowCustody.                                   *)
(***************************************************************************)
EXTENDS EscrowProgram, FiniteSetTheorems, FunctionTheorems, TLAPS

(* The books of a job at each stage of its life, given its account e, its  *)
(* history l and its vault's balance v: what TypeOK must be strengthened   *)
(* with for the settlement properties to be inductive.                     *)
Final(e) == e.amount = 0 /\ e.platform_fee = 0

FundedBooks(e, l) ==
  /\ e.freelancer = NoKey
  /\ l.principal = e.amount /\ l.fees = e.platform_fee
  /\ l.collected = 0 /\ l.earned = 0 /\ l.returned = 0

LockedBooks(e, l) ==
  /\ e.freelancer # NoKey /\ e.platform_fee = 0
  /\ l.principal = e.amount /\ l.collected = l.fees
  /\ l.earned = 0 /\ l.returned = 0

ReleasedBooks(e, l) ==
  /\ e.freelancer # NoKey /\ Final(e)
  /\ l.earned = l.principal - Fee(l.principal)
  /\ l.collected = l.fees + Fee(l.principal)
  /\ l.returned = 0

RefundedBooks(e, l) ==
  /\ Final(e) /\ l.earned = 0
  /\ e.freelancer = NoKey => l.returned = l.principal + l.fees /\ l.collected = 0
  /\ e.freelancer # NoKey => l.returned = l.principal /\ l.collected = l.fees

Books(e, l, v) ==
  /\ v = e.amount + e.platform_fee
  /\ 40 * l.fees <= l.principal
  /\ e.status = "None" => e = NoEscrow /\ l = NoLedger
  /\ e.status = "Funded" => FundedBooks(e, l)
  /\ e.status = "Locked" => LockedBooks(e, l)
  /\ e.status = "Released" => ReleasedBooks(e, l)
  /\ e.status = "Refunded" => RefundedBooks(e, l)

IInv == TypeOK /\ \A j \in Jobs : Books(escrow[j], ledger[j], vault[j])

-----------------------------------------------------------------------------

(* The fee of n lamports is a natural number, at most a fortieth of n. *)
LEMMA FeeBound ==
  ASSUME NEW n \in Nat
  PROVE  /\ Fee(n) \in Nat
         /\ 40 * Fee(n) <= n
         /\ Fee(n) <= n
         /\ n - Fee(n) \in Nat
BY DEF Fee, FEE_BPS, BPS_DENOMINATOR

(* A top-up of an account gives an account. *)
LEMMA ToppedUpType ==
  ASSUME NEW e \in JobEscrow, NEW n \in Nat, NEW fee \in Nat
  PROVE  ToppedUp(e, n, fee) \in JobEscrow
<1>1. e.amount + n \in Nat /\ e.platform_fee + fee \in Nat
  BY DEF JobEscrow
<1>2. QED BY <1>1 DEF ToppedUp, JobEscrow

(* An account that is not there yet has the record's default values, and   *)
(* one that has a status is a JobEscrow.                                   *)
LEMMA AccountOf ==
  ASSUME IInv, NEW j \in Jobs
  PROVE  /\ ledger[j] \in Ledger /\ vault[j] \in Nat
         /\ Books(escrow[j], ledger[j], vault[j])
         /\ escrow[j] = NoEscrow \/ escrow[j] \in JobEscrow
         /\ escrow[j].status # "None" => escrow[j] \in JobEscrow
BY DEF IInv, TypeOK, NoEscrow

(* A step that replaces the account, history and vault of one job, and     *)
(* leaves that job's books in order, keeps the invariant.                  *)
LEMMA OneJobStep ==
  ASSUME IInv, NEW j \in Jobs,
         NEW e \in JobEscrow, NEW l \in Ledger, NEW v \in Nat,
         escrow' = [escrow EXCEPT ![j] = e],
         ledger' = [ledger EXCEPT ![j] = l],
         vault' = [vault EXCEPT ![j] = v],
         feeVault' \in Nat, wallet' \in [Wallets -> Nat],
         Books(e, l, v)
  PROVE  IInv'
<1>1. TypeOK' BY DEF IInv, TypeOK
<1>2. ASSUME NEW k \in Jobs PROVE Books(escrow'[k], ledger'[k], vault'[k])
  <2>1. CASE k = j
    <3>1. escrow'[k] = e /\ ledger'[k] = l /\ vault'[k] = v
      BY <2>1 DEF IInv, TypeOK
    <3>2. QED BY <3>1
  <2>2. CASE k # j
    <3>1. escrow'[k] = escrow[k] /\ ledger'[k] = ledger[k] /\ vault'[k] = vault[k]
      BY <2>2 DEF IInv, TypeOK
    <3>2. QED BY <3>1 DEF IInv
  <2>3. QED BY <2>1, <2>2
<1>3. QED BY <1>1, <1>2 DEF IInv

(* What Charge takes from a wallet. *)
LEMMA ChargeStep ==
  ASSUME IInv, NEW w \in Wallets, NEW n \in Amounts, CanCharge(w, n), Charge(w, n)
  PROVE  /\ n \in Nat /\ Fee(n) \in Nat /\ 40 * Fee(n) <= n
         /\ wallet' \in [Wallets -> Nat]
<1>1. n \in Nat /\ Fee(n) \in Nat /\ 40 * Fee(n) <= n
  BY FeeBound, ConstantsAssumption
<1>2. wallet[w] \in Nat /\ wallet[w] >= n + Fee(n)
  BY DEF IInv, TypeOK, Charge, CanCharge, Affords
<1>3. wallet[w] - (n + Fee(n)) \in Nat
  BY <1>1, <1>2
<1>4. wallet' = [wallet EXCEPT ![w] = wallet[w] - (n + Fee(n))]
  BY DEF Charge, CanCharge
<1>5. QED BY <1>1, <1>3, <1>4 DEF IInv, TypeOK

(* Initialize opens an account whose books are in order.                   *)
LEMMA InitializeStep ==
  ASSUME IInv, NEW c \in Clients, NEW a \in Authorities, NEW j \in Jobs, NEW n \in Amounts,
         Initialize(c, a, j, n)
  PROVE  IInv'
<1> DEFINE e == Opened(c, a, n)
           l == PaidIn(ledger[j], n, Fee(n), 0)
           v == n + Fee(n)
<1>1. n \in Nat /\ Fee(n) \in Nat /\ 40 * Fee(n) <= n /\ wallet' \in [Wallets -> Nat]
  BY ChargeStep DEF Initialize, CanInitialize, Wallets
<1>2. ledger[j] = NoLedger /\ vault[j] = 0
  BY AccountOf DEF Initialize, CanInitialize, Books, NoEscrow
<1>3. e \in JobEscrow /\ l \in Ledger /\ v \in Nat
  BY <1>1, <1>2 DEF Opened, JobEscrow, Status, PaidIn, NoLedger, Ledger
<1>4. Books(e, l, v)
  BY <1>1, <1>2 DEF Books, FundedBooks, Opened, PaidIn, NoLedger
<1>5. /\ escrow' = [escrow EXCEPT ![j] = e]
      /\ ledger' = [ledger EXCEPT ![j] = l]
      /\ vault' = [vault EXCEPT ![j] = v]
      /\ feeVault' \in Nat
  <2>1. vault[j] + (n + Fee(n)) = v BY <1>1, <1>2
  <2>2. QED BY <2>1 DEF Initialize, CanInitialize, IInv, TypeOK
<1> HIDE DEF e, l, v
<1>6. QED BY <1>1, <1>3, <1>4, <1>5, OneJobStep

(* Lock sweeps the fee that was held and nothing else.                     *)
LEMMA LockStep ==
  ASSUME IInv, NEW s \in Wallets, NEW j \in Jobs, NEW f \in Freelancers, Lock(s, j, f)
  PROVE  IInv'
<1> DEFINE old == escrow[j]
           e == LockedFor(old, f)
           l == PaidOut(ledger[j], old.platform_fee, 0, 0)
           v == vault[j] - old.platform_fee
<1>1. /\ old.status = "Funded" /\ old \in JobEscrow
      /\ ledger[j] \in Ledger /\ vault[j] \in Nat
      /\ vault[j] = old.amount + old.platform_fee
      /\ FundedBooks(old, ledger[j]) /\ 40 * ledger[j].fees <= ledger[j].principal
  BY AccountOf DEF Lock, CanLock, Books
<1>2. old.amount \in Nat /\ old.platform_fee \in Nat /\ f # NoKey
  BY <1>1, ConstantsAssumption DEF JobEscrow, Wallets
<1>3. e \in JobEscrow /\ v \in Nat
  <2>1. e \in JobEscrow BY <1>1 DEF LockedFor, JobEscrow, Status
  <2>2. v \in Nat BY <1>1, <1>2
  <2>3. QED BY <2>1, <2>2
<1>4. l \in Ledger
  BY <1>1, <1>2 DEF PaidOut, Ledger
<1>5. Books(e, l, v)
  BY <1>1, <1>2 DEF Books, FundedBooks, LockedBooks, LockedFor, PaidOut, JobEscrow, Ledger
<1>6. /\ escrow' = [escrow EXCEPT ![j] = e]
      /\ ledger' = [ledger EXCEPT ![j] = l]
      /\ vault' = [vault EXCEPT ![j] = v]
      /\ feeVault' \in Nat /\ wallet' \in [Wallets -> Nat]
  BY <1>2 DEF Lock, CanLock, IInv, TypeOK
<1> HIDE DEF e, l, v
<1>7. QED BY <1>3, <1>4, <1>5, <1>6, OneJobStep

(* Release empties the vault into the fee vault and the freelancer.        *)
LEMMA ReleaseStep ==
  ASSUME IInv, NEW s \in Wallets, NEW j \in Jobs, NEW f \in Freelancers, Release(s, j, f)
  PROVE  IInv'
<1> DEFINE old == escrow[j]
           fee == Fee(old.amount)
           e == Released(old)
           l == PaidOut(ledger[j], fee, old.amount - fee, 0)
           v == vault[j] - old.amount
<1>1. /\ old.status = "Locked" /\ old \in JobEscrow
      /\ ledger[j] \in Ledger /\ vault[j] \in Nat
      /\ vault[j] = old.amount + old.platform_fee
      /\ LockedBooks(old, ledger[j]) /\ 40 * ledger[j].fees <= ledger[j].principal
  BY AccountOf DEF Release, CanRelease, MayRelease, Books
<1>2. old.amount \in Nat /\ fee \in Nat /\ old.amount - fee \in Nat
  BY <1>1, FeeBound DEF JobEscrow
<1> HIDE DEF fee
<1>3. e \in JobEscrow /\ v \in Nat
  <2>1. e \in JobEscrow BY <1>1 DEF Released, JobEscrow, Status
  <2>2. v \in Nat BY <1>1, <1>2 DEF LockedBooks
  <2>3. QED BY <2>1, <2>2
<1>4. l \in Ledger
  BY <1>1, <1>2 DEF PaidOut, Ledger
<1>5. Books(e, l, v)
  <2>1. /\ e.status = "Released" /\ e.amount = 0 /\ e.platform_fee = 0
        /\ e.freelancer = old.freelancer
    BY <1>1 DEF Released, JobEscrow, LockedBooks
  <2>2. v = 0 BY <1>1, <1>2 DEF LockedBooks
  <2>3. ReleasedBooks(e, l)
    BY <1>1, <1>2, <2>1 DEF ReleasedBooks, LockedBooks, Final, PaidOut, Ledger, fee
  <2>4. QED BY <1>1, <2>1, <2>2, <2>3 DEF Books, PaidOut
<1>6. /\ escrow' = [escrow EXCEPT ![j] = e]
      /\ ledger' = [ledger EXCEPT ![j] = l]
      /\ vault' = [vault EXCEPT ![j] = v]
  BY DEF Release, CanRelease, ReleaseFee, fee
<1>7. feeVault' \in Nat /\ wallet' \in [Wallets -> Nat]
  BY <1>2 DEF Release, CanRelease, ReleaseFee, IInv, TypeOK, Wallets, fee
<1> HIDE DEF e, l, v
<1>8. QED BY <1>3, <1>4, <1>5, <1>6, <1>7, OneJobStep

(* Both ways back to the client pay out what the account holds. *)
LEMMA PayBackStep ==
  ASSUME IInv, NEW j \in Jobs, NEW sum \in Nat, PayBack(j, sum),
         escrow[j].status \in {"Funded", "Locked"},
         sum = escrow[j].amount + escrow[j].platform_fee
  PROVE  IInv'
<1> DEFINE old == escrow[j]
           e == Refunded(old)
           l == PaidOut(ledger[j], 0, 0, sum)
           v == vault[j] - sum
<1>1. /\ old \in JobEscrow /\ ledger[j] \in Ledger /\ vault[j] \in Nat
      /\ vault[j] = sum
      /\ old.status = "Funded" => FundedBooks(old, ledger[j])
      /\ old.status = "Locked" => LockedBooks(old, ledger[j])
      /\ 40 * ledger[j].fees <= ledger[j].principal
  BY AccountOf DEF Books
<1>2. e \in JobEscrow /\ v \in Nat /\ v = 0
  <2>1. e \in JobEscrow BY <1>1 DEF Refunded, JobEscrow, Status
  <2>2. v \in Nat /\ v = 0 BY <1>1
  <2>3. QED BY <2>1, <2>2
<1>3. l \in Ledger
  BY <1>1 DEF PaidOut, Ledger
<1>4. Books(e, l, v)
  <2>1. /\ e.status = "Refunded" /\ e.amount = 0 /\ e.platform_fee = 0
        /\ e.freelancer = old.freelancer
    BY <1>1 DEF Refunded, JobEscrow
  <2>2. RefundedBooks(e, l)
    BY <1>1, <2>1 DEF RefundedBooks, FundedBooks, LockedBooks, Final, PaidOut, Ledger, JobEscrow
  <2>3. QED BY <1>1, <1>2, <2>1, <2>2 DEF Books, PaidOut
<1>5. /\ escrow' = [escrow EXCEPT ![j] = e]
      /\ ledger' = [ledger EXCEPT ![j] = l]
      /\ vault' = [vault EXCEPT ![j] = v]
      /\ feeVault' \in Nat
  BY DEF PayBack, IInv, TypeOK
<1>6. wallet' \in [Wallets -> Nat]
  <2>1. old.client \in Wallets BY <1>1 DEF JobEscrow, Wallets
  <2>2. QED BY <2>1 DEF PayBack, IInv, TypeOK
<1> HIDE DEF e, l, v
<1>7. QED BY <1>2, <1>3, <1>4, <1>5, <1>6, OneJobStep

(* Refund pays back all the account still holds.                           *)
LEMMA RefundStep ==
  ASSUME IInv, NEW s \in Wallets, NEW j \in Jobs, Refund(s, j)
  PROVE  IInv'
<1>1. /\ escrow[j].status \in {"Funded", "Locked"} /\ escrow[j] \in JobEscrow
      /\ escrow[j].status = "Locked" => escrow[j].platform_fee = 0
  BY AccountOf DEF Refund, CanRefund, Books, LockedBooks
<1>2. /\ RefundSum(escrow[j]) = escrow[j].amount + escrow[j].platform_fee
      /\ RefundSum(escrow[j]) \in Nat
  BY <1>1 DEF RefundSum, JobEscrow
<1>3. QED BY <1>1, <1>2, PayBackStep DEF Refund, CanRefund

(* Withdraw pays back principal and fee.                                   *)
LEMMA WithdrawStep ==
  ASSUME IInv, NEW s \in Wallets, NEW j \in Jobs, Withdraw(s, j)
  PROVE  IInv'
<1>1. escrow[j].status = "Funded" /\ escrow[j] \in JobEscrow
  BY AccountOf DEF Withdraw, CanWithdraw
<1>2. /\ WithdrawSum(escrow[j]) = escrow[j].amount + escrow[j].platform_fee
      /\ WithdrawSum(escrow[j]) \in Nat
  BY <1>1 DEF WithdrawSum, JobEscrow
<1>3. QED BY <1>1, <1>2, PayBackStep DEF Withdraw, CanWithdraw

(* A top-up before the hire adds to principal, fee and vault alike.        *)
LEMMA TopUpFundedStep ==
  ASSUME IInv, NEW s \in Wallets, NEW j \in Jobs, NEW n \in Amounts, TopUpFunded(s, j, n)
  PROVE  IInv'
<1> DEFINE old == escrow[j]
           fee == Fee(n)
           e == ToppedUp(old, n, fee)
           l == PaidIn(ledger[j], n, fee, 0)
           v == vault[j] + (n + fee)
<1>1. n \in Nat /\ fee \in Nat /\ 40 * fee <= n /\ wallet' \in [Wallets -> Nat]
  BY ChargeStep DEF TopUpFunded, CanTopUpFunded
<1> HIDE DEF fee
<1>2. /\ old.status = "Funded" /\ old \in JobEscrow
      /\ ledger[j] \in Ledger /\ vault[j] \in Nat
      /\ vault[j] = old.amount + old.platform_fee
      /\ FundedBooks(old, ledger[j]) /\ 40 * ledger[j].fees <= ledger[j].principal
  BY AccountOf DEF TopUpFunded, CanTopUpFunded, Books
<1>3. e \in JobEscrow /\ v \in Nat
  <2>1. e \in JobEscrow BY <1>1, <1>2, ToppedUpType
  <2>2. v \in Nat BY <1>1, <1>2
  <2>3. QED BY <2>1, <2>2
<1>4. l \in Ledger
  BY <1>1, <1>2 DEF PaidIn, Ledger
<1>5. Books(e, l, v)
  BY <1>1, <1>2 DEF Books, FundedBooks, ToppedUp, PaidIn, JobEscrow, Ledger
<1>6. /\ escrow' = [escrow EXCEPT ![j] = e]
      /\ ledger' = [ledger EXCEPT ![j] = l]
      /\ vault' = [vault EXCEPT ![j] = v]
      /\ feeVault' \in Nat
  BY DEF TopUpFunded, CanTopUpFunded, IInv, TypeOK, fee
<1> HIDE DEF e, l, v
<1>7. QED BY <1>1, <1>3, <1>4, <1>5, <1>6, OneJobStep

(* A top-up after the hire adds principal only; its fee is collected.      *)
LEMMA TopUpLockedStep ==
  ASSUME IInv, NEW s \in Wallets, NEW j \in Jobs, NEW n \in Amounts, TopUpLocked(s, j, n)
  PROVE  IInv'
<1> DEFINE old == escrow[j]
           fee == Fee(n)
           e == ToppedUp(old, n, 0)
           l == PaidIn(ledger[j], n, fee, fee)
           v == vault[j] + n
<1>1. n \in Nat /\ fee \in Nat /\ 40 * fee <= n /\ wallet' \in [Wallets -> Nat]
  BY ChargeStep DEF TopUpLocked, CanTopUpLocked
<1> HIDE DEF fee
<1>2. /\ old.status = "Locked" /\ old \in JobEscrow
      /\ ledger[j] \in Ledger /\ vault[j] \in Nat
      /\ vault[j] = old.amount + old.platform_fee
      /\ LockedBooks(old, ledger[j]) /\ 40 * ledger[j].fees <= ledger[j].principal
  BY AccountOf DEF TopUpLocked, CanTopUpLocked, Books
<1>3. e \in JobEscrow /\ v \in Nat
  <2>1. e \in JobEscrow BY <1>1, <1>2, ToppedUpType
  <2>2. v \in Nat BY <1>1, <1>2
  <2>3. QED BY <2>1, <2>2
<1>4. l \in Ledger
  BY <1>1, <1>2 DEF PaidIn, Ledger
<1>5. Books(e, l, v)
  BY <1>1, <1>2 DEF Books, LockedBooks, ToppedUp, PaidIn, JobEscrow, Ledger
<1>6. /\ escrow' = [escrow EXCEPT ![j] = e]
      /\ ledger' = [ledger EXCEPT ![j] = l]
      /\ vault' = [vault EXCEPT ![j] = v]
      /\ feeVault' \in Nat
  BY <1>1 DEF TopUpLocked, CanTopUpLocked, IInv, TypeOK, fee
<1> HIDE DEF e, l, v
<1>7. QED BY <1>1, <1>3, <1>4, <1>5, <1>6, OneJobStep

(* Withdrawing fees touches the fee vault and one wallet.                  *)
LEMMA WithdrawFeesStep ==
  ASSUME IInv, NEW s \in Wallets, NEW n \in Withdrawals, WithdrawFees(s, n)
  PROVE  IInv'
<1>1. n \in Nat /\ feeVault \in Nat /\ feeVault >= n
  BY ConstantsAssumption DEF WithdrawFees, IInv, TypeOK
<1>2. feeVault' \in Nat /\ wallet' \in [Wallets -> Nat]
  <2>1. feeVault' \in Nat BY <1>1 DEF WithdrawFees
  <2>2. wallet' \in [Wallets -> Nat] BY <1>1 DEF WithdrawFees, IInv, TypeOK
  <2>3. QED BY <2>1, <2>2
<1>3. escrow' = escrow /\ vault' = vault /\ ledger' = ledger
  BY DEF WithdrawFees
<1>4. QED BY <1>2, <1>3 DEF IInv, TypeOK

-----------------------------------------------------------------------------

(* The books of every job are in order in every reachable state: the       *)
(* inductive invariant behind the theorems below.                          *)
THEOREM BooksInOrder == Spec => []IInv
<1>1. Init => IInv
  <2> SUFFICES ASSUME Init PROVE IInv
    OBVIOUS
  <2>1. TypeOK
    <3>1. NoLedger \in Ledger BY DEF NoLedger, Ledger
    <3>2. feeVault \in Nat BY ConstantsAssumption DEF Init
    <3>3. wallet \in [Wallets -> Nat]
      BY ConstantsAssumption DEF Init
    <3>4. QED BY <3>1, <3>2, <3>3 DEF Init, TypeOK
  <2>2. ASSUME NEW j \in Jobs PROVE Books(escrow[j], ledger[j], vault[j])
    <3>1. escrow[j] = NoEscrow /\ ledger[j] = NoLedger /\ vault[j] = 0
      BY DEF Init
    <3>2. QED BY <3>1 DEF Books, NoEscrow, NoLedger
  <2>3. QED BY <2>1, <2>2 DEF IInv
<1>2. IInv /\ [Next]_vars => IInv'
  <2> SUFFICES ASSUME IInv, [Next]_vars PROVE IInv'
    OBVIOUS
  <2>1. ASSUME NEW c \in Clients, NEW a \in Authorities, NEW j \in Jobs, NEW n \in Amounts,
               Initialize(c, a, j, n)
        PROVE IInv'
    BY <2>1, InitializeStep
  <2>2. ASSUME NEW s \in Wallets, NEW j \in Jobs, NEW f \in Freelancers, Lock(s, j, f)
        PROVE IInv'
    BY <2>2, LockStep
  <2>3. ASSUME NEW s \in Wallets, NEW j \in Jobs, NEW f \in Freelancers, Release(s, j, f)
        PROVE IInv'
    BY <2>3, ReleaseStep
  <2>4. ASSUME NEW s \in Wallets, NEW j \in Jobs, Refund(s, j)
        PROVE IInv'
    BY <2>4, RefundStep
  <2>5. ASSUME NEW s \in Wallets, NEW j \in Jobs, Withdraw(s, j)
        PROVE IInv'
    BY <2>5, WithdrawStep
  <2>6. ASSUME NEW s \in Wallets, NEW j \in Jobs, NEW n \in Amounts, TopUpFunded(s, j, n)
        PROVE IInv'
    BY <2>6, TopUpFundedStep
  <2>7. ASSUME NEW s \in Wallets, NEW j \in Jobs, NEW n \in Amounts, TopUpLocked(s, j, n)
        PROVE IInv'
    BY <2>7, TopUpLockedStep
  <2>8. ASSUME NEW s \in Wallets, NEW n \in Withdrawals, WithdrawFees(s, n)
        PROVE IInv'
    BY <2>8, WithdrawFeesStep
  <2>9. CASE UNCHANGED vars
    BY <2>9 DEF vars, IInv, TypeOK
  <2>10. QED
    BY <2>1, <2>2, <2>3, <2>4, <2>5, <2>6, <2>7, <2>8, <2>9 DEF Next
<1>3. QED BY <1>1, <1>2, PTL DEF Spec

(* TypeOK: every balance stays a natural number -- no instruction pays     *)
(* out of a vault or wallet what is not in it.                             *)
THEOREM TypeCorrect == Spec => []TypeOK
<1>1. IInv => TypeOK BY DEF IInv
<1>2. QED BY <1>1, BooksInOrder, PTL

(* Solvency: the vault of every job holds what its account records, and    *)
(* every lamport paid in is in the vault, the till or was paid out.        *)
THEOREM SolvencyHolds == Spec => []Solvency
<1>1. ASSUME IInv, NEW j \in Jobs PROVE Solvent(j)
  <2>1. /\ Books(escrow[j], ledger[j], vault[j])
        /\ ledger[j] \in Ledger
        /\ escrow[j] = NoEscrow \/ escrow[j] \in JobEscrow
    BY <1>1, AccountOf
  <2>2. CASE escrow[j] = NoEscrow
    BY <2>1, <2>2 DEF Books, Solvent, NoEscrow, NoLedger
  <2>3. CASE escrow[j].status = "Funded" /\ escrow[j] \in JobEscrow
    BY <2>1, <2>3 DEF Books, FundedBooks, Solvent, Ledger, JobEscrow
  <2>4. CASE escrow[j].status = "Locked" /\ escrow[j] \in JobEscrow
    BY <2>1, <2>4 DEF Books, LockedBooks, Solvent, Ledger, JobEscrow
  <2>5. CASE escrow[j].status = "Released" /\ escrow[j] \in JobEscrow
    <3>1. ledger[j].principal \in Nat /\ Fee(ledger[j].principal) \in Nat
      BY <2>1, FeeBound DEF Ledger
    <3>2. QED BY <2>1, <2>5, <3>1 DEF Books, ReleasedBooks, Final, Solvent, Ledger
  <2>6. CASE escrow[j].status = "Refunded" /\ escrow[j] \in JobEscrow
    BY <2>1, <2>6 DEF Books, RefundedBooks, Final, Solvent, Ledger, JobEscrow
  <2>7. QED BY <2>1, <2>2, <2>3, <2>4, <2>5, <2>6 DEF JobEscrow, Status
<1>2. IInv => Solvency BY <1>1 DEF Solvency
<1>3. QED BY <1>2, BooksInOrder, PTL

(* FreeExitBeforeHire: a client who leaves before the hire leaves for free. *)
THEOREM FreeExit == Spec => []FreeExitBeforeHire
<1>1. IInv => FreeExitBeforeHire
  BY AccountOf DEF FreeExitBeforeHire, Hired, Books, RefundedBooks
<1>2. QED BY <1>1, BooksInOrder, PTL

(* DisputeReturnsPrincipal: a refund after the hire returns the principal. *)
THEOREM DisputeRefund == Spec => []DisputeReturnsPrincipal
<1>1. IInv => DisputeReturnsPrincipal
  BY AccountOf DEF DisputeReturnsPrincipal, Hired, Books, RefundedBooks
<1>2. QED BY <1>1, BooksInOrder, PTL

(* ReleasePaysPrincipalLessFee: a release pays out the sum of the deposits *)
(* less one fee on that sum.                                               *)
THEOREM ReleasePays == Spec => []ReleasePaysPrincipalLessFee
<1>1. IInv => ReleasePaysPrincipalLessFee
  BY AccountOf DEF ReleasePaysPrincipalLessFee, Hired, Books, ReleasedBooks
<1>2. QED BY <1>1, BooksInOrder, PTL

(* FivePercentCap: hire fees and release fee never exceed 5% together.     *)
THEOREM AtMostFivePercent == Spec => []FivePercentCap
<1>1. ASSUME IInv, NEW j \in Jobs
      PROVE  40 * ledger[j].collected <= 2 * ledger[j].principal
  <2>1. /\ Books(escrow[j], ledger[j], vault[j])
        /\ ledger[j] \in Ledger
        /\ escrow[j] = NoEscrow \/ escrow[j] \in JobEscrow
    BY <1>1, AccountOf
  <2>2. /\ ledger[j].principal \in Nat /\ Fee(ledger[j].principal) \in Nat
        /\ 40 * Fee(ledger[j].principal) <= ledger[j].principal
    BY <2>1, FeeBound DEF Ledger
  <2>3. \/ ledger[j].collected = 0
        \/ ledger[j].collected = ledger[j].fees
        \/ ledger[j].collected = ledger[j].fees + Fee(ledger[j].principal)
    BY <2>1 DEF Books, FundedBooks, LockedBooks, ReleasedBooks, RefundedBooks,
                NoEscrow, NoLedger, JobEscrow, Status
  <2>4. QED BY <2>1, <2>2, <2>3 DEF Books, Ledger
<1>2. ASSUME IInv, NEW j \in Jobs
      PROVE  ledger[j].collected * BPS_DENOMINATOR <= 2 * FEE_BPS * ledger[j].principal
  <2>1. ledger[j].collected \in Nat /\ ledger[j].principal \in Nat
    BY <1>2, AccountOf DEF Ledger
  <2>2. QED BY <1>1, <1>2, <2>1 DEF BPS_DENOMINATOR, FEE_BPS
<1>3. IInv => FivePercentCap BY <1>2 DEF FivePercentCap
<1>4. QED BY <1>3, BooksInOrder, PTL

-----------------------------------------------------------------------------
(* Where the lamports are *)

(* The accounts, the balance of each, and who has what: the balances b     *)
(* share out the lamports in L, each of which is in one account, and there *)
(* are no more of them than fit a u64.                                     *)
Till == <<"till", "till">>
Wallet(w) == <<"wallet", w>>
Vault(j) == <<"vault", j>>

Accounts == ({"wallet"} \X Wallets) \cup ({"vault"} \X Jobs) \cup {Till}

Balance ==
  [x \in Accounts |-> IF x[1] = "wallet" THEN wallet[x[2]]
                      ELSE IF x[1] = "vault" THEN vault[x[2]] ELSE feeVault]

Purse(owner, x) == {l \in DOMAIN owner : owner[l] = x}

Spread(L, b) ==
  /\ IsFiniteSet(L) /\ Cardinality(L) <= MaxU64
  /\ \E owner \in [L -> Accounts] : \A x \in Accounts : b[x] = Cardinality(Purse(owner, x))

(* Any part of a finite set can be picked from it.                         *)
LEMMA Picking ==
  ASSUME NEW S, IsFiniteSet(S), NEW n \in Nat, n <= Cardinality(S)
  PROVE  \E T \in SUBSET S : IsFiniteSet(T) /\ Cardinality(T) = n
<1>1. Cardinality(S) \in Nat /\ ExistsBijection(1..Cardinality(S), S)
  BY FS_CardinalityType
<1>2. PICK f \in Bijection(1..Cardinality(S), S) : TRUE
  BY <1>1 DEF ExistsBijection
<1> DEFINE T == {f[i] : i \in 1..n}
           g == [i \in 1..n |-> f[i]]
<1>3. /\ 1..n \subseteq 1..Cardinality(S)
      /\ \A i \in 1..Cardinality(S) : f[i] \in S
      /\ \A i, k \in 1..Cardinality(S) : f[i] = f[k] => i = k
  BY <1>1, <1>2, Fun_BijectionProperties
<1>4. T \in SUBSET S
  BY <1>3
<1>5. g \in [1..n -> T] /\ (\A i, k \in 1..n : g[i] = g[k] => i = k)
      /\ (\A t \in T : \E i \in 1..n : g[i] = t)
  BY <1>3
<1> HIDE DEF T, g
<1>6. ExistsBijection(1..n, T)
  BY <1>5, Fun_IsBij DEF ExistsBijection
<1>7. Cardinality(T) = n /\ IsFiniteSet(T)
  BY <1>4, <1>6, FS_CountingElements, FS_Subset
<1> QED
  BY <1>4, <1>7

(* Lamports that go from one account to another are still there.           *)
LEMMA Transfer ==
  ASSUME NEW L, NEW b, Spread(L, b), NEW x \in Accounts, NEW y \in Accounts, x # y,
         NEW n \in Nat, n <= b[x],
         NEW c, c[x] = b[x] - n, c[y] = b[y] + n,
         \A z \in Accounts \ {x, y} : c[z] = b[z]
  PROVE  Spread(L, c)
<1>1. IsFiniteSet(L) /\ Cardinality(L) <= MaxU64
  BY DEF Spread
<1>2. PICK owner \in [L -> Accounts] :
        \A z \in Accounts : b[z] = Cardinality(Purse(owner, z))
  BY DEF Spread
<1>3. \A z \in Accounts : Purse(owner, z) \subseteq L /\ IsFiniteSet(Purse(owner, z))
  BY <1>1, <1>2, FS_Subset DEF Purse
<1>4. PICK T \in SUBSET Purse(owner, x) : IsFiniteSet(T) /\ Cardinality(T) = n
  BY <1>2, <1>3, Picking
<1> DEFINE next == [l \in L |-> IF l \in T THEN y ELSE owner[l]]
<1>5. next \in [L -> Accounts]
  BY <1>2
<1>6. /\ Purse(next, x) = Purse(owner, x) \ T
      /\ Purse(next, y) = Purse(owner, y) \cup T
      /\ Purse(owner, y) \cap T = {} /\ Purse(owner, x) \cap T = T
      /\ \A z \in Accounts \ {x, y} : Purse(next, z) = Purse(owner, z)
  BY <1>2, <1>3, <1>4 DEF Purse
<1> HIDE DEF next
<1>7. \A z \in Accounts : Cardinality(Purse(owner, z)) \in Nat
  BY <1>3, FS_CardinalityType
<1>8. Cardinality(Purse(next, x)) = b[x] - n
  <2>1. Cardinality(Purse(owner, x) \ T) = Cardinality(Purse(owner, x)) - Cardinality(Purse(owner, x) \cap T)
    BY <1>3, FS_Difference
  <2> QED BY <1>2, <1>4, <1>6, <2>1
<1>9. Cardinality(Purse(next, y)) = b[y] + n
  <2>1. Cardinality(Purse(owner, y) \cup T)
          = Cardinality(Purse(owner, y)) + Cardinality(T) - Cardinality(Purse(owner, y) \cap T)
    BY <1>3, <1>4, FS_Union
  <2>2. Cardinality(Purse(owner, y) \cap T) = 0
    BY <1>6, FS_EmptySet
  <2>3. b[y] \in Nat
    BY <1>2, <1>7
  <2> QED BY <1>2, <1>4, <1>6, <2>1, <2>2, <2>3
<1>10. \A z \in Accounts : c[z] = Cardinality(Purse(next, z))
  BY <1>2, <1>6, <1>8, <1>9
<1> QED
  BY <1>1, <1>5, <1>10 DEF Spread

(* So are those that go from one account to two others.                    *)
LEMMA Split ==
  ASSUME NEW L, NEW b \in [Accounts -> Nat], Spread(L, b),
         NEW x \in Accounts, NEW y \in Accounts, NEW z \in Accounts, x # y, x # z, y # z,
         NEW m \in Nat, NEW n \in Nat, m + n <= b[x],
         NEW c, c[x] = b[x] - (m + n), c[y] = b[y] + m, c[z] = b[z] + n,
         \A w \in Accounts \ {x, y, z} : c[w] = b[w]
  PROVE  Spread(L, c)
<1> DEFINE d == [b EXCEPT ![x] = b[x] - m, ![y] = b[y] + m]
<1>1. /\ d[x] = b[x] - m /\ d[y] = b[y] + m
      /\ \A w \in Accounts \ {x, y} : d[w] = b[w]
  OBVIOUS
<1> HIDE DEF d
<1>2. b[x] \in Nat /\ m <= b[x]
  OBVIOUS
<1>3. Spread(L, d)
  BY <1>1, <1>2, Transfer
<1>4. n <= d[x] /\ c[x] = d[x] - n /\ c[z] = d[z] + n
  BY <1>1, <1>2
<1>5. \A w \in Accounts \ {x, z} : c[w] = d[w]
  BY <1>1
<1> QED
  BY <1>3, <1>4, <1>5, Transfer

(* Two accounts hold no more than there is.                                *)
LEMMA TwoFit ==
  ASSUME NEW L, NEW b, Spread(L, b), NEW x \in Accounts, NEW y \in Accounts, x # y
  PROVE  b[x] + b[y] <= MaxU64
<1>1. IsFiniteSet(L) /\ Cardinality(L) <= MaxU64
  BY DEF Spread
<1>2. PICK owner \in [L -> Accounts] :
        \A z \in Accounts : b[z] = Cardinality(Purse(owner, z))
  BY DEF Spread
<1> DEFINE X == Purse(owner, x)
           Y == Purse(owner, y)
<1>3. X \cup Y \in SUBSET L /\ X \cap Y = {} /\ X \in SUBSET L /\ Y \in SUBSET L
  BY <1>2 DEF Purse
<1>4. b[x] = Cardinality(X) /\ b[y] = Cardinality(Y)
  BY <1>2
<1> HIDE DEF X, Y
<1>5. IsFiniteSet(X) /\ IsFiniteSet(Y)
  BY <1>1, <1>3, FS_Subset
<1>6. Cardinality(X) \in Nat /\ Cardinality(Y) \in Nat /\ Cardinality(L) \in Nat
  BY <1>1, <1>5, FS_CardinalityType
<1>7. Cardinality(X \cup Y) = Cardinality(X) + Cardinality(Y) - 0
  BY <1>3, <1>5, FS_Union, FS_EmptySet
<1>8. Cardinality(X \cup Y) <= Cardinality(L)
  BY <1>1, <1>3, FS_Subset
<1> QED
  BY <1>1, <1>4, <1>6, <1>7, <1>8, ConstantsAssumption

(* What each account's balance is, and that accounts differ.               *)
LEMMA BalanceOf ==
  ASSUME TypeOK
  PROVE  /\ Balance \in [Accounts -> Nat] /\ Till \in Accounts /\ Balance[Till] = feeVault
         /\ \A w \in Wallets :
              Wallet(w) \in Accounts /\ Wallet(w) # Till /\ Balance[Wallet(w)] = wallet[w]
         /\ \A j \in Jobs :
              Vault(j) \in Accounts /\ Vault(j) # Till /\ Balance[Vault(j)] = vault[j]
         /\ \A w \in Wallets, j \in Jobs : Wallet(w) # Vault(j)
         /\ \A v, w \in Wallets : v # w => Wallet(v) # Wallet(w)
         /\ \A j, k \in Jobs : j # k => Vault(j) # Vault(k)
         /\ \A x \in Accounts :
              x = Till \/ (\E w \in Wallets : x = Wallet(w)) \/ \E j \in Jobs : x = Vault(j)
<1>1. Till \in Accounts /\ Till[1] = "till"
  BY DEF Till, Accounts
<1>2. \A w \in Wallets : Wallet(w) \in Accounts /\ Wallet(w)[1] = "wallet" /\ Wallet(w)[2] = w
  BY DEF Wallet, Accounts
<1>3. \A j \in Jobs : Vault(j) \in Accounts /\ Vault(j)[1] = "vault" /\ Vault(j)[2] = j
  BY DEF Vault, Accounts
<1>4. \A x \in Accounts :
        x = Till \/ (\E w \in Wallets : x = Wallet(w)) \/ \E j \in Jobs : x = Vault(j)
  BY DEF Accounts, Wallet, Vault
<1>5. \A x \in Accounts :
        Balance[x] = IF x[1] = "wallet" THEN wallet[x[2]]
                     ELSE IF x[1] = "vault" THEN vault[x[2]] ELSE feeVault
  BY DEF Balance
<1>6. \A x \in Accounts : Balance[x] \in Nat
  BY <1>1, <1>2, <1>3, <1>4, <1>5 DEF TypeOK
<1>7. Balance \in [Accounts -> Nat]
  BY <1>6 DEF Balance
<1> QED
  BY <1>1, <1>2, <1>3, <1>4, <1>5, <1>7

(* All lamports there are at the start are the clients' and the            *)
(* platform's.                                                             *)
LEMMA SpreadInitially == Init => \E L : Spread(L, Balance)
<1> SUFFICES ASSUME Init PROVE \E L : Spread(L, Balance)
  OBVIOUS
<1> DEFINE ours == (({"wallet"} \X Clients) \X (1..Supply))
           theirs == ({Till} \X (1..feeVault))
           lamports == ours \cup theirs
           owner == [l \in lamports |-> l[1]]
<1>1. TypeOK /\ feeVault \in Nat /\ Supply \in Nat /\ MaxU64 \in Nat
  <2>1. NoLedger \in Ledger BY DEF NoLedger, Ledger
  <2>2. feeVault \in Nat BY ConstantsAssumption DEF Init
  <2>3. wallet \in [Wallets -> Nat] BY ConstantsAssumption DEF Init
  <2> QED BY <2>1, <2>2, <2>3, ConstantsAssumption DEF Init, TypeOK
<1>2. \A x, n : n \in Nat => IsFiniteSet({x} \X (1..n)) /\ Cardinality({x} \X (1..n)) = n
  <2> TAKE x, n
  <2> HAVE n \in Nat
  <2>1. IsFiniteSet({x}) /\ Cardinality({x}) = 1
    BY FS_Singleton
  <2>2. IsFiniteSet(1..n) /\ Cardinality(1..n) = n
    BY FS_Interval
  <2>3. /\ IsFiniteSet({x} \X (1..n))
        /\ Cardinality({x} \X (1..n)) = Cardinality({x}) * Cardinality(1..n)
    BY <2>1, <2>2, FS_Product
  <2> QED BY <2>1, <2>2, <2>3
<1>3. IsFiniteSet(ours) /\ Cardinality(ours) = Cardinality(Clients) * Supply
  <2>1. IsFiniteSet({"wallet"}) /\ Cardinality({"wallet"}) = 1
    BY FS_Singleton
  <2>2. IsFiniteSet({"wallet"} \X Clients) /\ Cardinality({"wallet"} \X Clients) = 1 * Cardinality(Clients)
    BY <2>1, RuntimeAssumption, FS_Product
  <2>3. Cardinality(Clients) \in Nat
    BY RuntimeAssumption, FS_CardinalityType
  <2>4. IsFiniteSet(1..Supply) /\ Cardinality(1..Supply) = Supply
    BY <1>1, FS_Interval
  <2>5. IsFiniteSet(ours) /\ Cardinality(ours) = Cardinality({"wallet"} \X Clients) * Cardinality(1..Supply)
    BY <2>2, <2>4, FS_Product
  <2> QED BY <2>2, <2>3, <2>4, <2>5
<1>4. IsFiniteSet(lamports) /\ Cardinality(lamports) <= MaxU64
  <2>1. IsFiniteSet(theirs) /\ Cardinality(theirs) = feeVault
    BY <1>1, <1>2
  <2>2. ours \cap theirs = {}
    BY DEF Till
  <2>3. Cardinality(ours) + feeVault <= MaxU64
    BY <1>3, RuntimeAssumption DEF Init
  <2> HIDE DEF ours, theirs
  <2>4. IsFiniteSet(lamports) /\ Cardinality(lamports)
          = Cardinality(ours) + Cardinality(theirs) - Cardinality(ours \cap theirs)
    BY <1>3, <2>1, FS_Union
  <2>5. Cardinality(ours \cap theirs) = 0 /\ Cardinality(ours) \in Nat
    BY <1>3, <2>2, FS_EmptySet, FS_CardinalityType
  <2> QED BY <1>1, <2>1, <2>3, <2>4, <2>5
<1>5. owner \in [lamports -> Accounts]
  BY DEF Accounts, Wallets, Till
<1>6. ASSUME NEW x \in Accounts PROVE Balance[x] = Cardinality(Purse(owner, x))
  <2>1. Purse(owner, x) = {l \in lamports : l[1] = x}
    BY DEF Purse
  <2>2. CASE x = Till
    <3>1. {l \in lamports : l[1] = x} = {Till} \X (1..feeVault)
      BY <2>2 DEF Till
    <3>2. Cardinality({Till} \X (1..feeVault)) = feeVault
      BY <1>1, <1>2
    <3>3. Balance[Till] = feeVault
      BY <1>1, BalanceOf
    <3> QED BY <2>1, <2>2, <3>1, <3>2, <3>3
  <2>3. ASSUME NEW w \in Clients, x = Wallet(w) PROVE Balance[x] = Cardinality(Purse(owner, x))
    <3>1. {l \in lamports : l[1] = x} = {x} \X (1..Supply)
      BY <2>3 DEF Wallet, Till
    <3>2. Balance[x] = Supply
      BY <1>1, <2>3, BalanceOf DEF Init, Wallets
    <3>3. Cardinality({x} \X (1..Supply)) = Supply
      BY <1>1, <1>2
    <3> QED BY <2>1, <3>1, <3>2, <3>3
  <2>4. CASE x # Till /\ \A w \in Clients : x # Wallet(w)
    <3>1. {l \in lamports : l[1] = x} = {}
      BY <2>4 DEF Wallet
    <3>2. Balance[x] = 0
      <4>1. CASE \E w \in Wallets : x = Wallet(w)
        BY <1>1, <2>4, <4>1, BalanceOf DEF Init
      <4>2. CASE \E j \in Jobs : x = Vault(j)
        BY <1>1, <4>2, BalanceOf DEF Init
      <4> QED BY <1>1, <2>4, <4>1, <4>2, BalanceOf
    <3> QED BY <2>1, <3>1, <3>2, FS_EmptySet
  <2> QED BY <2>2, <2>3, <2>4
<1> HIDE DEF lamports, owner
<1> QED
  BY <1>4, <1>5, <1>6 DEF Spread

(* A step that moves n lamports from one account to another, and one that  *)
(* moves m and n from one account to two others, keep them all.            *)
LEMMA MoveStep ==
  ASSUME NEW L, Spread(L, Balance), NEW x \in Accounts, NEW y \in Accounts, x # y,
         NEW n \in Nat, n <= Balance[x],
         Balance'[x] = Balance[x] - n, Balance'[y] = Balance[y] + n,
         \A z \in Accounts \ {x, y} : Balance'[z] = Balance[z]
  PROVE  Spread(L, Balance)'
<1>1. PICK b : b = Balance
  OBVIOUS
<1>2. PICK c : c = Balance'
  OBVIOUS
<1>3. Spread(L, c)
  BY <1>1, <1>2, Transfer
<1> QED
  BY <1>2, <1>3

LEMMA SplitStep ==
  ASSUME TypeOK, NEW L, Spread(L, Balance),
         NEW x \in Accounts, NEW y \in Accounts, NEW z \in Accounts, x # y, x # z, y # z,
         NEW m \in Nat, NEW n \in Nat, m + n <= Balance[x],
         Balance'[x] = Balance[x] - (m + n),
         Balance'[y] = Balance[y] + m, Balance'[z] = Balance[z] + n,
         \A w \in Accounts \ {x, y, z} : Balance'[w] = Balance[w]
  PROVE  Spread(L, Balance)'
<1>1. PICK b : b = Balance
  OBVIOUS
<1>2. PICK c : c = Balance'
  OBVIOUS
<1>3. b \in [Accounts -> Nat]
  BY <1>1, BalanceOf
<1>4. /\ m + n <= b[x] /\ c[x] = b[x] - (m + n) /\ c[y] = b[y] + m /\ c[z] = b[z] + n
      /\ \A w \in Accounts \ {x, y, z} : c[w] = b[w]
      /\ Spread(L, b)
  BY <1>1, <1>2
<1>5. Spread(L, c)
  BY <1>3, <1>4, Split, SMTT(30)
<1> QED
  BY <1>2, <1>5

(* What each account's balance is after a step.                            *)
LEMMA BalanceAfter ==
  ASSUME TypeOK'
  PROVE  /\ Balance'[Till] = feeVault'
         /\ \A w \in Wallets : Balance'[Wallet(w)] = wallet'[w]
         /\ \A j \in Jobs : Balance'[Vault(j)] = vault'[j]
<1>1. Till \in Accounts /\ Till[1] = "till"
  BY DEF Till, Accounts
<1>2. \A w \in Wallets : Wallet(w) \in Accounts /\ Wallet(w)[1] = "wallet" /\ Wallet(w)[2] = w
  BY DEF Wallet, Accounts
<1>3. \A j \in Jobs : Vault(j) \in Accounts /\ Vault(j)[1] = "vault" /\ Vault(j)[2] = j
  BY DEF Vault, Accounts
<1>4. \A x \in Accounts :
        Balance'[x] = IF x[1] = "wallet" THEN wallet'[x[2]]
                      ELSE IF x[1] = "vault" THEN vault'[x[2]] ELSE feeVault'
  BY DEF Balance
<1> QED
  BY <1>1, <1>2, <1>3, <1>4

(* An account keeps its lamports if its wallet, its vault or the fee vault *)
(* is left alone.                                                          *)
LEMMA OthersKeep ==
  ASSUME TypeOK, TypeOK', NEW S,
         \/ Till \in S
         \/ feeVault' = feeVault,
         \A w \in Wallets : Wallet(w) \in S \/ wallet'[w] = wallet[w],
         \A j \in Jobs : Vault(j) \in S \/ vault'[j] = vault[j]
  PROVE  \A z \in Accounts \ S : Balance'[z] = Balance[z]
<1> TAKE z \in Accounts \ S
<1>1. z = Till \/ (\E w \in Wallets : z = Wallet(w)) \/ \E j \in Jobs : z = Vault(j)
  BY BalanceOf
<1>2. CASE z = Till
  BY <1>2, BalanceOf, BalanceAfter
<1>3. ASSUME NEW w \in Wallets, z = Wallet(w) PROVE Balance'[z] = Balance[z]
  BY <1>3, BalanceOf, BalanceAfter
<1>4. ASSUME NEW j \in Jobs, z = Vault(j) PROVE Balance'[z] = Balance[z]
  BY <1>4, BalanceOf, BalanceAfter
<1> QED
  BY <1>1, <1>2, <1>3, <1>4

(* A client's payment into a vault, before the hire.                       *)
LEMMA PaidIntoVault ==
  ASSUME TypeOK, TypeOK', NEW L, Spread(L, Balance), NEW w \in Wallets, NEW j \in Jobs, NEW n \in Nat,
         n <= wallet[w],
         wallet' = [wallet EXCEPT ![w] = wallet[w] - n],
         vault' = [vault EXCEPT ![j] = vault[j] + n],
         feeVault' = feeVault
  PROVE  Spread(L, Balance)'
<1> DEFINE x == Wallet(w)
           y == Vault(j)
<1>1. /\ x \in Accounts /\ y \in Accounts /\ x # y
      /\ Balance[x] = wallet[w] /\ Balance[y] = vault[j]
  BY BalanceOf
<1>2. Balance'[x] = wallet'[w] /\ Balance'[y] = vault'[j]
  BY BalanceAfter
<1>3. wallet'[w] = wallet[w] - n /\ vault'[j] = vault[j] + n
  BY DEF TypeOK
<1>4. /\ \A v \in Wallets : Wallet(v) \in {x, y} \/ wallet'[v] = wallet[v]
      /\ \A k \in Jobs : Vault(k) \in {x, y} \/ vault'[k] = vault[k]
  BY DEF TypeOK
<1>5. \A z \in Accounts \ {x, y} : Balance'[z] = Balance[z]
  BY <1>4, OthersKeep
<1> HIDE DEF x, y
<1> QED
  BY <1>1, <1>2, <1>3, <1>5, MoveStep

(* A payment out of a vault to one wallet.                                 *)
LEMMA PaidOutOfVault ==
  ASSUME TypeOK, TypeOK', NEW L, Spread(L, Balance), NEW w \in Wallets, NEW j \in Jobs, NEW n \in Nat,
         n <= vault[j],
         vault' = [vault EXCEPT ![j] = vault[j] - n],
         wallet' = [wallet EXCEPT ![w] = wallet[w] + n],
         feeVault' = feeVault
  PROVE  Spread(L, Balance)'
<1> DEFINE x == Vault(j)
           y == Wallet(w)
<1>1. /\ x \in Accounts /\ y \in Accounts /\ x # y
      /\ Balance[x] = vault[j] /\ Balance[y] = wallet[w]
  BY BalanceOf
<1>2. Balance'[x] = vault'[j] /\ Balance'[y] = wallet'[w]
  BY BalanceAfter
<1>3. wallet'[w] = wallet[w] + n /\ vault'[j] = vault[j] - n
  BY DEF TypeOK
<1>4. /\ \A v \in Wallets : Wallet(v) \in {x, y} \/ wallet'[v] = wallet[v]
      /\ \A k \in Jobs : Vault(k) \in {x, y} \/ vault'[k] = vault[k]
  BY DEF TypeOK
<1>5. \A z \in Accounts \ {x, y} : Balance'[z] = Balance[z]
  BY <1>4, OthersKeep
<1> HIDE DEF x, y
<1> QED
  BY <1>1, <1>2, <1>3, <1>5, MoveStep

(* The sweep at the hire, and the withdrawal of collected fees.            *)
LEMMA SweptToTill ==
  ASSUME TypeOK, TypeOK', NEW L, Spread(L, Balance), NEW j \in Jobs, NEW n \in Nat,
         n <= vault[j],
         vault' = [vault EXCEPT ![j] = vault[j] - n],
         feeVault' = feeVault + n, wallet' = wallet
  PROVE  Spread(L, Balance)'
<1> DEFINE x == Vault(j)
<1>1. /\ x \in Accounts /\ Till \in Accounts /\ x # Till
      /\ Balance[x] = vault[j] /\ Balance[Till] = feeVault
  BY BalanceOf
<1>2. Balance'[x] = vault'[j] /\ Balance'[Till] = feeVault'
  BY BalanceAfter
<1>3. vault'[j] = vault[j] - n
  BY DEF TypeOK
<1>4. \A k \in Jobs : Vault(k) \in {x, Till} \/ vault'[k] = vault[k]
  BY DEF TypeOK
<1>5. \A z \in Accounts \ {x, Till} : Balance'[z] = Balance[z]
  BY <1>4, OthersKeep
<1> HIDE DEF x
<1> QED
  BY <1>1, <1>2, <1>3, <1>5, MoveStep

LEMMA PaidOutOfTill ==
  ASSUME TypeOK, TypeOK', NEW L, Spread(L, Balance), NEW w \in Wallets, NEW n \in Nat,
         n <= feeVault,
         feeVault' = feeVault - n,
         wallet' = [wallet EXCEPT ![w] = wallet[w] + n], vault' = vault
  PROVE  Spread(L, Balance)'
<1> DEFINE y == Wallet(w)
<1>1. /\ y \in Accounts /\ Till \in Accounts /\ y # Till
      /\ Balance[y] = wallet[w] /\ Balance[Till] = feeVault
  BY BalanceOf
<1>2. Balance'[y] = wallet'[w] /\ Balance'[Till] = feeVault'
  BY BalanceAfter
<1>3. wallet'[w] = wallet[w] + n
  BY DEF TypeOK
<1>4. \A v \in Wallets : Wallet(v) \in {Till, y} \/ wallet'[v] = wallet[v]
  BY DEF TypeOK
<1>5. \A z \in Accounts \ {Till, y} : Balance'[z] = Balance[z]
  BY <1>4, OthersKeep
<1> HIDE DEF y
<1> QED
  BY <1>1, <1>2, <1>3, <1>5, MoveStep

(* A release pays the fee vault m and a wallet n.                          *)
LEMMA PaidOutTwice ==
  ASSUME TypeOK, TypeOK', NEW L, Spread(L, Balance), NEW w \in Wallets, NEW j \in Jobs,
         NEW m \in Nat, NEW n \in Nat, m + n <= vault[j],
         vault' = [vault EXCEPT ![j] = vault[j] - (m + n)],
         wallet' = [wallet EXCEPT ![w] = wallet[w] + n],
         feeVault' = feeVault + m
  PROVE  Spread(L, Balance)'
<1> DEFINE x == Vault(j)
           y == Wallet(w)
<1>1. /\ x \in Accounts /\ y \in Accounts /\ x # y
      /\ Till \in Accounts /\ x # Till /\ y # Till
      /\ Balance[x] = vault[j] /\ Balance[y] = wallet[w] /\ Balance[Till] = feeVault
  BY BalanceOf
<1>2. Balance'[x] = vault'[j] /\ Balance'[y] = wallet'[w] /\ Balance'[Till] = feeVault'
  BY BalanceAfter
<1>3. wallet'[w] = wallet[w] + n /\ vault'[j] = vault[j] - (m + n)
  BY DEF TypeOK
<1>4. /\ \A v \in Wallets : Wallet(v) \in {x, Till, y} \/ wallet'[v] = wallet[v]
      /\ \A k \in Jobs : Vault(k) \in {x, Till, y} \/ vault'[k] = vault[k]
  BY DEF TypeOK
<1>5. \A z \in Accounts \ {x, Till, y} : Balance'[z] = Balance[z]
  BY <1>4, OthersKeep
<1> HIDE DEF x, y
<1>6. /\ m + n <= Balance[x] /\ Balance'[x] = Balance[x] - (m + n)
      /\ Balance'[Till] = Balance[Till] + m /\ Balance'[y] = Balance[y] + n
  BY <1>1, <1>2, <1>3
<1> QED
  BY <1>1, <1>5, <1>6, SplitStep

(* A top-up after the hire pays the fee vault m and the vault n.           *)
LEMMA PaidInTwice ==
  ASSUME TypeOK, TypeOK', NEW L, Spread(L, Balance), NEW w \in Wallets, NEW j \in Jobs,
         NEW m \in Nat, NEW n \in Nat, m + n <= wallet[w],
         wallet' = [wallet EXCEPT ![w] = wallet[w] - (m + n)],
         vault' = [vault EXCEPT ![j] = vault[j] + n],
         feeVault' = feeVault + m
  PROVE  Spread(L, Balance)'
<1> DEFINE x == Wallet(w)
           y == Vault(j)
<1>1. /\ x \in Accounts /\ y \in Accounts /\ x # y
      /\ Till \in Accounts /\ x # Till /\ y # Till
      /\ Balance[x] = wallet[w] /\ Balance[y] = vault[j] /\ Balance[Till] = feeVault
  BY BalanceOf
<1>2. Balance'[x] = wallet'[w] /\ Balance'[y] = vault'[j] /\ Balance'[Till] = feeVault'
  BY BalanceAfter
<1>3. wallet'[w] = wallet[w] - (m + n) /\ vault'[j] = vault[j] + n
  BY DEF TypeOK
<1>4. /\ \A v \in Wallets : Wallet(v) \in {x, Till, y} \/ wallet'[v] = wallet[v]
      /\ \A k \in Jobs : Vault(k) \in {x, Till, y} \/ vault'[k] = vault[k]
  BY DEF TypeOK
<1>5. \A z \in Accounts \ {x, Till, y} : Balance'[z] = Balance[z]
  BY <1>4, OthersKeep
<1> HIDE DEF x, y
<1>6. /\ m + n <= Balance[x] /\ Balance'[x] = Balance[x] - (m + n)
      /\ Balance'[Till] = Balance[Till] + m /\ Balance'[y] = Balance[y] + n
  BY <1>1, <1>2, <1>3
<1> QED
  BY <1>1, <1>5, <1>6, SplitStep

-----------------------------------------------------------------------------
(* No account holds less than the rent-exempt minimum unless it is empty.  *)
RentKept ==
  /\ \A w \in Wallets : RentOK(wallet[w])
  /\ \A j \in Jobs : RentOK(vault[j])

(* Those that share out L go on doing so.                                  *)
Shared(L) == Spread(L, Balance) /\ RentKept

(* Each instruction moves lamports, and the runtime checks the accounts it *)
(* moves them between.                                                     *)
LEMMA LamportsStep ==
  ASSUME IInv, IInv', NEW L, Shared(L), [Next]_vars
  PROVE  Shared(L)'
<1> USE DEF Shared
<1>1. TypeOK /\ TypeOK'
  BY DEF IInv
<1>2. ASSUME NEW c \in Clients, NEW a \in Authorities, NEW j \in Jobs, NEW n \in Amounts,
             Initialize(c, a, j, n)
      PROVE  Shared(L)'
  <2> DEFINE sum == n + Fee(n)
  <2>1. sum \in Nat /\ sum <= wallet[c] /\ c \in Wallets
    BY <1>1, <1>2, FeeBound, ConstantsAssumption
       DEF Initialize, CanInitialize, CanCharge, Affords, Wallets, TypeOK
  <2>2. /\ wallet' = [wallet EXCEPT ![c] = wallet[c] - sum]
        /\ vault' = [vault EXCEPT ![j] = vault[j] + sum]
        /\ feeVault' = feeVault
    BY <1>2 DEF Initialize, Charge
  <2>3. RentOK(wallet[c] - sum) /\ RentOK(vault[j] + sum)
    BY <1>2 DEF Initialize, CanInitialize, CanCharge
  <2> HIDE DEF sum
  <2>4. Spread(L, Balance)'
    BY <1>1, <2>1, <2>2, PaidIntoVault
  <2>5. RentKept'
    BY <1>1, <2>1, <2>2, <2>3 DEF RentKept, TypeOK
  <2> QED BY <2>4, <2>5
<1>3. ASSUME NEW s \in Wallets, NEW j \in Jobs, NEW f \in Freelancers, Lock(s, j, f)
      PROVE  Shared(L)'
  <2> DEFINE fee == escrow[j].platform_fee
  <2>1. fee \in Nat /\ fee <= vault[j]
    <3>1. escrow[j] \in JobEscrow /\ vault[j] >= fee
      BY <1>3, AccountOf DEF Lock, CanLock
    <3>2. vault[j] \in Nat BY <1>1 DEF TypeOK
    <3> QED BY <3>1, <3>2 DEF JobEscrow
  <2>2. /\ vault' = [vault EXCEPT ![j] = vault[j] - fee]
        /\ feeVault' = feeVault + fee /\ wallet' = wallet
    BY <1>3 DEF Lock
  <2>3. RentOK(vault[j] - fee)
    BY <1>3 DEF Lock, CanLock
  <2> HIDE DEF fee
  <2>4. Spread(L, Balance)'
    BY <1>1, <2>1, <2>2, SweptToTill
  <2>5. RentKept'
    BY <1>1, <2>2, <2>3 DEF RentKept, TypeOK
  <2> QED BY <2>4, <2>5
<1>4. ASSUME NEW s \in Wallets, NEW j \in Jobs, NEW f \in Freelancers, Release(s, j, f)
      PROVE  Shared(L)'
  <2> DEFINE amount == escrow[j].amount
             fee == Fee(amount)
             pay == amount - fee
  <2>1. amount \in Nat /\ amount <= vault[j] /\ f \in Wallets
    <3>1. escrow[j] \in JobEscrow /\ vault[j] >= amount
      BY <1>4, AccountOf DEF Release, CanRelease, MayRelease
    <3>2. vault[j] \in Nat BY <1>1 DEF TypeOK
    <3> QED BY <3>1, <3>2 DEF JobEscrow, Wallets
  <2>2. fee \in Nat /\ pay \in Nat
    BY <2>1, FeeBound
  <2>3. /\ vault' = [vault EXCEPT ![j] = vault[j] - amount]
        /\ feeVault' = feeVault + fee
        /\ wallet' = [wallet EXCEPT ![f] = wallet[f] + pay]
    BY <1>4 DEF Release, ReleaseFee
  <2>4. RentOK(vault[j] - amount) /\ RentOK(wallet[f] + pay)
    BY <1>4 DEF Release, CanRelease, ReleaseFee
  <2> HIDE DEF fee
  <2>5. fee + pay = amount
    BY <2>1, <2>2
  <2> HIDE DEF amount, pay
  <2>6. Spread(L, Balance)'
    BY <1>1, <2>1, <2>2, <2>3, <2>5, PaidOutTwice
  <2>7. RentKept'
    BY <1>1, <2>1, <2>2, <2>3, <2>4 DEF RentKept, TypeOK
  <2> QED BY <2>6, <2>7
<1>5. ASSUME NEW j \in Jobs, NEW sum \in Nat, escrow[j].status # "None",
             CanPayBack(j, sum), PayBack(j, sum)
      PROVE  Shared(L)'
  <2> DEFINE c == escrow[j].client
  <2>1. c \in Wallets
    BY <1>5, AccountOf DEF JobEscrow, Wallets
  <2>2. /\ vault[j] >= sum
        /\ vault' = [vault EXCEPT ![j] = vault[j] - sum]
        /\ wallet' = [wallet EXCEPT ![c] = wallet[c] + sum]
        /\ feeVault' = feeVault
    BY <1>5 DEF PayBack, CanPayBack
  <2>3. RentOK(vault[j] - sum) /\ RentOK(wallet[c] + sum)
    BY <1>5 DEF CanPayBack
  <2>4. sum <= vault[j]
    BY <1>1, <2>2 DEF TypeOK
  <2>5. PICK w \in Wallets : w = c
    BY <2>1
  <2> HIDE DEF c
  <2>6. Spread(L, Balance)'
    BY <1>1, <2>2, <2>4, <2>5, PaidOutOfVault
  <2>7. RentKept'
    BY <1>1, <2>2, <2>3, <2>4, <2>5 DEF RentKept, TypeOK
  <2> QED BY <2>6, <2>7
<1>6. ASSUME NEW s \in Wallets, NEW j \in Jobs, Refund(s, j)
      PROVE  Shared(L)'
  <2>1. escrow[j] \in JobEscrow /\ escrow[j].status # "None"
    BY <1>6, AccountOf DEF Refund, CanRefund
  <2>2. RefundSum(escrow[j]) \in Nat
    BY <2>1 DEF RefundSum, JobEscrow
  <2> QED BY <1>5, <1>6, <2>1, <2>2 DEF Refund, CanRefund
<1>7. ASSUME NEW s \in Wallets, NEW j \in Jobs, Withdraw(s, j)
      PROVE  Shared(L)'
  <2>1. escrow[j] \in JobEscrow /\ escrow[j].status # "None"
    BY <1>7, AccountOf DEF Withdraw, CanWithdraw
  <2>2. WithdrawSum(escrow[j]) \in Nat
    BY <2>1 DEF WithdrawSum, JobEscrow
  <2> QED BY <1>5, <1>7, <2>1, <2>2 DEF Withdraw, CanWithdraw
<1>8. ASSUME NEW s \in Wallets, NEW j \in Jobs, NEW n \in Amounts, TopUpFunded(s, j, n)
      PROVE  Shared(L)'
  <2> DEFINE sum == n + Fee(n)
  <2>1. sum \in Nat /\ sum <= wallet[s]
    BY <1>1, <1>8, FeeBound, ConstantsAssumption
       DEF TopUpFunded, CanTopUpFunded, CanCharge, Affords, TypeOK
  <2>2. /\ wallet' = [wallet EXCEPT ![s] = wallet[s] - sum]
        /\ vault' = [vault EXCEPT ![j] = vault[j] + sum]
        /\ feeVault' = feeVault
    BY <1>8 DEF TopUpFunded, Charge
  <2>3. RentOK(wallet[s] - sum) /\ RentOK(vault[j] + sum)
    BY <1>8 DEF TopUpFunded, CanTopUpFunded, CanCharge
  <2> HIDE DEF sum
  <2>4. Spread(L, Balance)'
    BY <1>1, <2>1, <2>2, PaidIntoVault
  <2>5. RentKept'
    BY <1>1, <2>1, <2>2, <2>3 DEF RentKept, TypeOK
  <2> QED BY <2>4, <2>5
<1>9. ASSUME NEW s \in Wallets, NEW j \in Jobs, NEW n \in Amounts, TopUpLocked(s, j, n)
      PROVE  Shared(L)'
  <2> DEFINE fee == Fee(n)
  <2>1. n \in Nat /\ fee \in Nat
    BY FeeBound, ConstantsAssumption
  <2>2. /\ wallet[s] >= n + fee
        /\ wallet' = [wallet EXCEPT ![s] = wallet[s] - (n + fee)]
        /\ vault' = [vault EXCEPT ![j] = vault[j] + n]
        /\ feeVault' = feeVault + fee
    BY <1>9 DEF TopUpLocked, CanTopUpLocked, Charge, CanCharge, Affords
  <2>3. RentOK(wallet[s] - (n + fee)) /\ RentOK(vault[j] + n)
    BY <1>9 DEF TopUpLocked, CanTopUpLocked, CanCharge
  <2> HIDE DEF fee
  <2>4. n + fee = fee + n /\ fee + n <= wallet[s]
    BY <1>1, <2>1, <2>2 DEF TypeOK
  <2>5. Spread(L, Balance)'
    BY <1>1, <2>1, <2>2, <2>4, PaidInTwice
  <2>6. RentKept'
    BY <1>1, <2>1, <2>2, <2>3 DEF RentKept, TypeOK
  <2> QED BY <2>5, <2>6
<1>10. ASSUME NEW s \in Wallets, NEW n \in Withdrawals, WithdrawFees(s, n)
       PROVE  Shared(L)'
  <2>1. n \in Nat /\ n <= feeVault
    BY <1>1, <1>10, ConstantsAssumption DEF WithdrawFees, TypeOK
  <2>2. /\ feeVault' = feeVault - n /\ vault' = vault
        /\ wallet' = [wallet EXCEPT ![s] = wallet[s] + n]
        /\ RentOK(wallet[s] + n)
    BY <1>10 DEF WithdrawFees
  <2>3. Spread(L, Balance)'
    BY <1>1, <2>1, <2>2, PaidOutOfTill
  <2>4. RentKept'
    BY <1>1, <2>1, <2>2 DEF RentKept, TypeOK
  <2> QED BY <2>3, <2>4
<1>11. ASSUME UNCHANGED vars PROVE Shared(L)'
  <2>1. wallet' = wallet /\ vault' = vault /\ feeVault' = feeVault
    BY <1>11 DEF vars
  <2>2. Balance' = Balance
    BY <2>1 DEF Balance
  <2>3. PICK b : b = Balance
    OBVIOUS
  <2>4. Spread(L, Balance)'
    BY <2>2, <2>3
  <2> QED BY <2>1, <2>4 DEF RentKept
<1> QED
  BY <1>2, <1>3, <1>4, <1>6, <1>7, <1>8, <1>9, <1>10, <1>11 DEF Next

(* Balances always share out a set of lamports no larger than a u64, and   *)
(* the runtime's rent rule holds of every wallet and vault.                *)
THEOREM LamportsFit == Spec => [](\E L : Shared(L))
<1>1. Init => \E L : Shared(L)
  <2> SUFFICES ASSUME Init PROVE \E L : Shared(L)
    OBVIOUS
  <2>1. RentKept
    BY RuntimeAssumption, ConstantsAssumption DEF Init, RentKept, RentOK
  <2> QED BY <2>1, SpreadInitially DEF Shared
<1>2. IInv /\ IInv' /\ (\E L : Shared(L)) /\ [Next]_vars => (\E L : Shared(L))'
  BY LamportsStep
<1> QED
  BY <1>1, <1>2, BooksInOrder, PTL DEF Spec

(* No instruction makes or loses a lamport: the very set L that the        *)
(* wallets, the vaults and the fee vault share out before a step they      *)
(* share out after it.                                                     *)
THEOREM LamportsConserved == Spec => [][\A L : Spread(L, Balance) => Spread(L, Balance)']_vars
<1>1. (\E L : Shared(L)) => RentKept
  BY DEF Shared
<1>2. ASSUME IInv, IInv', RentKept, [Next]_vars
      PROVE  \A L : Spread(L, Balance) => Spread(L, Balance)'
  BY <1>2, LamportsStep DEF Shared
<1>3. IInv /\ IInv' /\ RentKept /\ [Next]_vars
        => [\A L : Spread(L, Balance) => Spread(L, Balance)']_vars
  BY <1>2
<1> QED
  BY <1>1, <1>3, BooksInOrder, LamportsFit, PTL DEF Spec

(* RefundNeverBlocked: the authority's refund of an open escrow and its    *)
(* transfer to the client cannot fail.                                     *)
THEOREM RefundAlwaysPossible == Spec => []RefundNeverBlocked
<1>1. ASSUME IInv, NEW L, Shared(L), NEW j \in Jobs, Open(j)
      PROVE  LET sum == RefundSum(escrow[j])
             IN  /\ FitsU64(sum) /\ vault[j] = sum
                 /\ FitsU64(wallet[escrow[j].client] + sum)
                 /\ RentOK(wallet[escrow[j].client] + sum)
  <2> DEFINE sum == RefundSum(escrow[j])
             c == escrow[j].client
  <2>1. TypeOK /\ Spread(L, Balance) /\ RentKept
    BY <1>1 DEF IInv, Shared
  <2>2. escrow[j] \in JobEscrow /\ Books(escrow[j], ledger[j], vault[j])
    BY <1>1, AccountOf DEF Open
  <2>3. vault[j] = sum
    BY <1>1, <2>2 DEF Open, Books, LockedBooks, RefundSum, JobEscrow
  <2>4. c \in Wallets
    BY <2>2 DEF JobEscrow, Wallets
  <2> HIDE DEF sum, c
  <2>5. wallet[c] \in Nat /\ vault[j] \in Nat /\ MaxU64 \in Nat
    BY <2>1, <2>4, ConstantsAssumption DEF TypeOK
  <2>6. wallet[c] + vault[j] <= MaxU64
    BY <2>1, <2>4, BalanceOf, TwoFit
  <2>7. RentOK(wallet[c]) /\ RentOK(vault[j])
    BY <2>1, <2>4 DEF RentKept
  <2>8. RentOK(wallet[c] + vault[j])
    BY <2>5, <2>7, ConstantsAssumption DEF RentOK
  <2>9. FitsU64(sum) /\ FitsU64(wallet[c] + sum) /\ RentOK(wallet[c] + sum)
    BY <2>3, <2>5, <2>6, <2>8 DEF FitsU64
  <2> QED BY <2>3, <2>9 DEF sum, c
<1>2. IInv /\ (\E L : Shared(L)) => RefundNeverBlocked
  BY <1>1 DEF RefundNeverBlocked
<1> QED
  BY <1>2, BooksInOrder, LamportsFit, PTL

-----------------------------------------------------------------------------
(* The program implements EscrowCustody: each instruction is a step of it. *)

Phase == [j \in Jobs |-> escrow[j].status]
Owner == [j \in Jobs |-> escrow[j].client]
HiredFor == [j \in Jobs |-> escrow[j].freelancer]

(* The program's fee is the cut of the specification. *)
LEMMA FeeIsCut ==
  ASSUME NEW n \in Nat
  PROVE  Fee(n) = Custody!Cut(n)
BY DEF Fee, FEE_BPS, BPS_DENOMINATOR, Custody!Cut

(* An instruction that replaces the account of one job by e changes the    *)
(* abstract phase, owner and hire of that job to those of e.               *)
LEMMA MappedAccount ==
  ASSUME IInv, NEW j \in Jobs, NEW e \in JobEscrow,
         escrow' = [escrow EXCEPT ![j] = e]
  PROVE  /\ Phase' = [Phase EXCEPT ![j] = e.status]
         /\ Owner' = [Owner EXCEPT ![j] = e.client]
         /\ HiredFor' = [HiredFor EXCEPT ![j] = e.freelancer]
BY DEF IInv, TypeOK, Phase, Owner, HiredFor

(* What Charge takes from a wallet, in terms of the specification. *)
LEMMA ChargeIsCut ==
  ASSUME IInv, NEW w \in Wallets, NEW n \in Amounts, CanCharge(w, n), Charge(w, n)
  PROVE  /\ n \in 1 .. wallet[w]
         /\ Fee(n) \in Nat /\ Fee(n) = Custody!Cut(n)
         /\ n + Custody!Cut(n) <= wallet[w]
         /\ wallet' = [wallet EXCEPT ![w] = @ - (n + Custody!Cut(n))]
<1>1. n \in Nat /\ Fee(n) \in Nat /\ Fee(n) = Custody!Cut(n)
  BY FeeBound, FeeIsCut, ConstantsAssumption
<1>2. wallet[w] \in Nat /\ n > 0 /\ wallet[w] >= n + Fee(n)
  BY DEF IInv, TypeOK, Charge, CanCharge, Affords
<1>3. n \in 1 .. wallet[w]
  BY <1>1, <1>2
<1>4. wallet' = [wallet EXCEPT ![w] = @ - (n + Fee(n))]
  BY DEF Charge, CanCharge
<1>5. QED BY <1>1, <1>2, <1>3, <1>4

(* Initialize opens custody.                                               *)
LEMMA InitializeOpens ==
  ASSUME IInv, NEW c \in Clients, NEW a \in Authorities, NEW j \in Jobs, NEW n \in Amounts,
         Initialize(c, a, j, n)
  PROVE  Custody!Open(j, c)
<1>1. c \in Wallets BY DEF Wallets
<1>2. /\ n \in 1 .. wallet[c] /\ Fee(n) = Custody!Cut(n)
      /\ n + Custody!Cut(n) <= wallet[c]
      /\ wallet' = [wallet EXCEPT ![c] = @ - (n + Custody!Cut(n))]
  BY <1>1, ChargeIsCut DEF Initialize, CanInitialize
<1>3. Phase[j] = "None" BY DEF Initialize, CanInitialize, NoEscrow, Phase
<1>4. /\ Phase' = [Phase EXCEPT ![j] = "Funded"]
      /\ Owner' = [Owner EXCEPT ![j] = c]
      /\ HiredFor' = [HiredFor EXCEPT ![j] = NoKey]
  <2> DEFINE e == Opened(c, a, n)
  <2>1. escrow' = [escrow EXCEPT ![j] = e] BY DEF Initialize, CanInitialize
  <2>2. e.status = "Funded" /\ e.client = c /\ e.freelancer = NoKey BY DEF Opened
  <2>3. e \in JobEscrow
    BY FeeBound, ConstantsAssumption DEF Opened, JobEscrow, Status
  <2> HIDE DEF e
  <2>4. /\ Phase' = [Phase EXCEPT ![j] = e.status]
        /\ Owner' = [Owner EXCEPT ![j] = e.client]
        /\ HiredFor' = [HiredFor EXCEPT ![j] = e.freelancer]
    BY <2>1, <2>3, MappedAccount
  <2>5. QED BY <2>2, <2>4
<1>5. HiredFor' = HiredFor
  <2>1. HiredFor[j] = NoKey BY DEF Initialize, CanInitialize, NoEscrow, HiredFor
  <2>2. QED BY <1>4, <2>1 DEF HiredFor
<1>6. vault' = [vault EXCEPT ![j] = @ + (n + Custody!Cut(n))] /\ feeVault' = feeVault
  BY <1>2 DEF Initialize, CanInitialize
<1>7. QED BY <1>2, <1>3, <1>4, <1>5, <1>6 DEF Custody!Open, Phase, Owner, HiredFor

(* A top-up adds to custody, and before the hire holds its cut back in it. *)
LEMMA TopUpFundedAdds ==
  ASSUME IInv, NEW s \in Wallets, NEW j \in Jobs, NEW n \in Amounts, TopUpFunded(s, j, n)
  PROVE  Custody!Add(j, s)
<1> DEFINE e == ToppedUp(escrow[j], n, Fee(n))
<1>1. /\ n \in 1 .. wallet[s] /\ Fee(n) \in Nat /\ Fee(n) = Custody!Cut(n)
      /\ n + Custody!Cut(n) <= wallet[s]
      /\ wallet' = [wallet EXCEPT ![s] = @ - (n + Custody!Cut(n))]
  BY ChargeIsCut DEF TopUpFunded, CanTopUpFunded
<1>2. escrow[j] \in JobEscrow /\ escrow[j].status = "Funded" /\ escrow[j].client = s
  BY AccountOf DEF TopUpFunded, CanTopUpFunded
<1>3. Phase[j] = "Funded" /\ Owner[j] = s
  BY <1>2 DEF Phase, Owner
<1>4. Phase' = Phase /\ Owner' = Owner /\ HiredFor' = HiredFor
  <2>1. /\ e.status = escrow[j].status /\ e.client = escrow[j].client
        /\ e.freelancer = escrow[j].freelancer
    BY <1>2 DEF ToppedUp, JobEscrow
  <2>2. e \in JobEscrow
    BY <1>1, <1>2, ToppedUpType, ConstantsAssumption
  <2>3. escrow' = [escrow EXCEPT ![j] = e]
    BY DEF TopUpFunded, CanTopUpFunded
  <2> HIDE DEF e
  <2>4. /\ Phase' = [Phase EXCEPT ![j] = e.status]
        /\ Owner' = [Owner EXCEPT ![j] = e.client]
        /\ HiredFor' = [HiredFor EXCEPT ![j] = e.freelancer]
    BY <2>2, <2>3, MappedAccount
  <2>5. QED BY <2>1, <2>4 DEF Phase, Owner, HiredFor
<1>5. /\ vault' = [vault EXCEPT ![j] = @ + (n + Custody!Cut(n))]
      /\ feeVault' = feeVault + (Custody!Cut(n) - Custody!Cut(n))
  BY <1>1 DEF TopUpFunded, CanTopUpFunded, IInv, TypeOK
<1>6. QED BY <1>1, <1>3, <1>4, <1>5 DEF Custody!Add, Phase, Owner, HiredFor

(* After the hire the cut goes to the platform at once. *)
LEMMA TopUpLockedAdds ==
  ASSUME IInv, NEW s \in Wallets, NEW j \in Jobs, NEW n \in Amounts, TopUpLocked(s, j, n)
  PROVE  Custody!Add(j, s)
<1> DEFINE e == ToppedUp(escrow[j], n, 0)
<1>1. /\ n \in 1 .. wallet[s] /\ n \in Nat /\ Fee(n) \in Nat /\ Fee(n) = Custody!Cut(n)
      /\ n + Custody!Cut(n) <= wallet[s]
      /\ wallet' = [wallet EXCEPT ![s] = @ - (n + Custody!Cut(n))]
  BY ChargeIsCut, ConstantsAssumption DEF TopUpLocked, CanTopUpLocked
<1>2. escrow[j] \in JobEscrow /\ escrow[j].status = "Locked" /\ escrow[j].client = s
  BY AccountOf DEF TopUpLocked, CanTopUpLocked
<1>3. Phase[j] = "Locked" /\ Owner[j] = s
  BY <1>2 DEF Phase, Owner
<1>4. Phase' = Phase /\ Owner' = Owner /\ HiredFor' = HiredFor
  <2>1. /\ e.status = escrow[j].status /\ e.client = escrow[j].client
        /\ e.freelancer = escrow[j].freelancer
    BY <1>2 DEF ToppedUp, JobEscrow
  <2>2. e \in JobEscrow
    BY <1>1, <1>2, ToppedUpType
  <2>3. escrow' = [escrow EXCEPT ![j] = e]
    BY DEF TopUpLocked, CanTopUpLocked
  <2> HIDE DEF e
  <2>4. /\ Phase' = [Phase EXCEPT ![j] = e.status]
        /\ Owner' = [Owner EXCEPT ![j] = e.client]
        /\ HiredFor' = [HiredFor EXCEPT ![j] = e.freelancer]
    BY <2>2, <2>3, MappedAccount
  <2>5. QED BY <2>1, <2>4 DEF Phase, Owner, HiredFor
<1>5. /\ vault' = [vault EXCEPT ![j] = @ + (n + 0)]
      /\ feeVault' = feeVault + (Custody!Cut(n) - 0)
  BY <1>1 DEF TopUpLocked, CanTopUpLocked, IInv, TypeOK
<1>6. QED BY <1>1, <1>3, <1>4, <1>5 DEF Custody!Add, Phase, Owner, HiredFor

(* A lock is a hire, and sweeps no more than the specification allows:     *)
(* what is held back is at most a fortieth of the principal beside it.     *)
LEMMA LockHires ==
  ASSUME IInv, NEW s \in Wallets, NEW j \in Jobs, NEW f \in Freelancers, Lock(s, j, f)
  PROVE  Custody!Hire(j, f)
<1> DEFINE e == LockedFor(escrow[j], f)
           k == escrow[j].platform_fee
<1>1. escrow[j] \in JobEscrow /\ escrow[j].status = "Funded"
  BY AccountOf DEF Lock, CanLock
<1>2. k \in 0 .. vault[j] \div 41
  <2>1. /\ vault[j] = escrow[j].amount + k /\ 40 * k <= escrow[j].amount
        /\ escrow[j].amount \in Nat /\ k \in Nat
    BY <1>1, AccountOf DEF Books, FundedBooks, JobEscrow
  <2> HIDE DEF k
  <2>2. QED BY <2>1
<1>3. /\ Phase' = [Phase EXCEPT ![j] = "Locked"]
      /\ Owner' = Owner
      /\ HiredFor' = [HiredFor EXCEPT ![j] = f]
  <2>1. e.status = "Locked" /\ e.client = escrow[j].client /\ e.freelancer = f
    BY <1>1 DEF LockedFor, JobEscrow
  <2>2. e \in JobEscrow
    BY <1>1 DEF LockedFor, JobEscrow, Status
  <2>3. escrow' = [escrow EXCEPT ![j] = e]
    BY DEF Lock, CanLock
  <2> HIDE DEF e
  <2>4. /\ Phase' = [Phase EXCEPT ![j] = e.status]
        /\ Owner' = [Owner EXCEPT ![j] = e.client]
        /\ HiredFor' = [HiredFor EXCEPT ![j] = e.freelancer]
    BY <2>2, <2>3, MappedAccount
  <2>5. QED BY <2>1, <2>4 DEF Owner
<1>4. Phase[j] = "Funded" BY <1>1 DEF Phase
<1>5. vault' = [vault EXCEPT ![j] = @ - k] /\ feeVault' = feeVault + k /\ wallet' = wallet
  BY DEF Lock, CanLock
<1> HIDE DEF k
<1>6. QED BY <1>2, <1>3, <1>4, <1>5 DEF Custody!Hire, Phase, Owner, HiredFor

(* A release pays all that is in custody, less the cut of it, to the       *)
(* freelancer the job was locked for.                                      *)
LEMMA ReleasePaysOut ==
  ASSUME IInv, NEW s \in Wallets, NEW j \in Jobs, NEW f \in Freelancers, Release(s, j, f)
  PROVE  Custody!Pay(j, f)
<1> DEFINE e == Released(escrow[j])
           amount == escrow[j].amount
<1>1. /\ escrow[j] \in JobEscrow /\ escrow[j].status = "Locked" /\ escrow[j].freelancer = f
      /\ vault[j] = amount /\ amount \in Nat
  BY AccountOf DEF Release, CanRelease, MayRelease, Books, LockedBooks, JobEscrow
<1>2. Phase[j] = "Locked" /\ HiredFor[j] = f
  BY <1>1 DEF Phase, HiredFor
<1>3. Phase' = [Phase EXCEPT ![j] = "Released"] /\ Owner' = Owner /\ HiredFor' = HiredFor
  <2>1. /\ e.status = "Released" /\ e.client = escrow[j].client
        /\ e.freelancer = escrow[j].freelancer
    BY <1>1 DEF Released, JobEscrow
  <2>2. e \in JobEscrow
    BY <1>1 DEF Released, JobEscrow, Status
  <2>3. escrow' = [escrow EXCEPT ![j] = e]
    BY DEF Release, CanRelease
  <2> HIDE DEF e
  <2>4. /\ Phase' = [Phase EXCEPT ![j] = e.status]
        /\ Owner' = [Owner EXCEPT ![j] = e.client]
        /\ HiredFor' = [HiredFor EXCEPT ![j] = e.freelancer]
    BY <2>2, <2>3, MappedAccount
  <2>5. QED BY <2>1, <2>4 DEF Owner, HiredFor
<1>4. Fee(amount) = Custody!Cut(vault[j])
  BY <1>1, FeeIsCut
<1>5. vault' = [vault EXCEPT ![j] = 0]
  <2>1. vault' = [vault EXCEPT ![j] = vault[j] - amount] BY DEF Release, CanRelease
  <2>2. vault[j] - amount = 0 BY <1>1
  <2>3. QED BY <2>1, <2>2
<1>6. /\ wallet' = [wallet EXCEPT ![f] = @ + (vault[j] - Custody!Cut(vault[j]))]
      /\ feeVault' = feeVault + Custody!Cut(vault[j])
  BY <1>1, <1>4 DEF Release, CanRelease, ReleaseFee
<1>7. QED BY <1>2, <1>3, <1>5, <1>6 DEF Custody!Pay, Phase, Owner, HiredFor

(* Both ways back return the whole of what is in custody to the client.    *)
LEMMA PayBackReturns ==
  ASSUME IInv, NEW j \in Jobs, NEW sum \in Nat, PayBack(j, sum),
         escrow[j].status \in {"Funded", "Locked"},
         sum = escrow[j].amount + escrow[j].platform_fee,
         NEW w \in Wallets, w = escrow[j].client
  PROVE  Custody!Return(j, w)
<1> DEFINE e == Refunded(escrow[j])
<1>1. escrow[j] \in JobEscrow /\ vault[j] = sum
  BY AccountOf DEF Books
<1>2. Phase[j] \in {"Funded", "Locked"} /\ Owner[j] = w
  BY DEF Phase, Owner
<1>3. Phase' = [Phase EXCEPT ![j] = "Refunded"] /\ Owner' = Owner /\ HiredFor' = HiredFor
  <2>1. /\ e.status = "Refunded" /\ e.client = escrow[j].client
        /\ e.freelancer = escrow[j].freelancer
    BY <1>1 DEF Refunded, JobEscrow
  <2>2. e \in JobEscrow
    BY <1>1 DEF Refunded, JobEscrow, Status
  <2>3. escrow' = [escrow EXCEPT ![j] = e]
    BY DEF PayBack, CanPayBack
  <2> HIDE DEF e
  <2>4. /\ Phase' = [Phase EXCEPT ![j] = e.status]
        /\ Owner' = [Owner EXCEPT ![j] = e.client]
        /\ HiredFor' = [HiredFor EXCEPT ![j] = e.freelancer]
    BY <2>2, <2>3, MappedAccount
  <2>5. QED BY <2>1, <2>4 DEF Owner, HiredFor
<1>4. /\ vault' = [vault EXCEPT ![j] = 0]
      /\ wallet' = [wallet EXCEPT ![w] = @ + vault[j]]
      /\ feeVault' = feeVault
  <2>1. /\ vault' = [vault EXCEPT ![j] = vault[j] - sum]
        /\ wallet' = [wallet EXCEPT ![w] = @ + sum]
        /\ feeVault' = feeVault
    BY DEF PayBack, CanPayBack
  <2>2. vault[j] - sum = 0 BY <1>1
  <2>3. QED BY <1>1, <2>1, <2>2
<1>5. QED BY <1>2, <1>3, <1>4 DEF Custody!Return, Phase, Owner, HiredFor

(* A refund is such a way back ... *)
LEMMA RefundReturns ==
  ASSUME IInv, NEW s \in Wallets, NEW j \in Jobs, Refund(s, j),
         NEW w \in Wallets, w = escrow[j].client
  PROVE  Custody!Return(j, w)
<1>1. /\ escrow[j].status \in {"Funded", "Locked"} /\ escrow[j] \in JobEscrow
      /\ escrow[j].status = "Locked" => escrow[j].platform_fee = 0
  BY AccountOf DEF Refund, CanRefund, Books, LockedBooks
<1>2. /\ RefundSum(escrow[j]) = escrow[j].amount + escrow[j].platform_fee
      /\ RefundSum(escrow[j]) \in Nat
  BY <1>1 DEF RefundSum, JobEscrow
<1>3. QED BY <1>1, <1>2, PayBackReturns DEF Refund, CanRefund

(* ... and a withdrawal is the other. *)
LEMMA WithdrawReturns ==
  ASSUME IInv, NEW s \in Wallets, NEW j \in Jobs, Withdraw(s, j),
         NEW w \in Wallets, w = escrow[j].client
  PROVE  Custody!Return(j, w)
<1>1. escrow[j].status = "Funded" /\ escrow[j] \in JobEscrow
  BY AccountOf DEF Withdraw, CanWithdraw
<1>2. /\ WithdrawSum(escrow[j]) = escrow[j].amount + escrow[j].platform_fee
      /\ WithdrawSum(escrow[j]) \in Nat
  BY <1>1 DEF WithdrawSum, JobEscrow
<1>3. QED BY <1>1, <1>2, PayBackReturns DEF Withdraw, CanWithdraw

(* Withdrawn fees come out of the till and go to one wallet ... *)
LEMMA WithdrawFeesCollects ==
  ASSUME IInv, NEW s \in Wallets, NEW n \in Withdrawals, WithdrawFees(s, n)
  PROVE  Custody!Collect(s)
<1>1. n \in 1 .. feeVault
  BY ConstantsAssumption DEF WithdrawFees, IInv, TypeOK
<1>2. QED BY <1>1 DEF WithdrawFees, Custody!Collect

(* ... so that no job and no other wallet is touched, whoever signed.      *)
LEMMA WithdrawFeesAside ==
  ASSUME IInv, NEW s \in Wallets, NEW n \in Withdrawals, WithdrawFees(s, n)
  PROVE  Custody!Aside
<1>1. n \in Nat /\ wallet \in [Wallets -> Nat]
  BY ConstantsAssumption DEF IInv, TypeOK
<1>2. \A w \in Wallets : wallet'[w] >= wallet[w]
  BY <1>1 DEF WithdrawFees
<1>3. escrow' = escrow /\ vault' = vault
  BY DEF WithdrawFees
<1>4. QED BY <1>2, <1>3 DEF Custody!Aside

(* Any other instruction is a step of the promise about one job.           *)
LEMMA InstructionStep ==
  ASSUME IInv, Next
  PROVE  \/ Custody!JobStep
         \/ \E s \in Wallets, n \in Withdrawals : WithdrawFees(s, n)
<1>1. ASSUME NEW c \in Clients, NEW a \in Authorities, NEW j \in Jobs, NEW n \in Amounts,
             Initialize(c, a, j, n)
      PROVE Custody!JobStep
  <2>1. c \in Wallets BY DEF Wallets
  <2>2. QED BY <1>1, <2>1, InitializeOpens DEF Custody!JobStep
<1>2. ASSUME NEW s \in Wallets, NEW j \in Jobs, NEW f \in Freelancers, Lock(s, j, f)
      PROVE Custody!JobStep
  <2>1. f \in Wallets BY DEF Wallets
  <2>2. QED BY <1>2, <2>1, LockHires DEF Custody!JobStep
<1>3. ASSUME NEW s \in Wallets, NEW j \in Jobs, NEW f \in Freelancers, Release(s, j, f)
      PROVE Custody!JobStep
  <2>1. f \in Wallets BY DEF Wallets
  <2>2. QED BY <1>3, <2>1, ReleasePaysOut DEF Custody!JobStep
<1>4. ASSUME NEW s \in Wallets, NEW j \in Jobs, Refund(s, j)
      PROVE Custody!JobStep
  <2>1. escrow[j].client \in Wallets
    BY <1>4, AccountOf DEF Refund, CanRefund, JobEscrow, Wallets
  <2>2. PICK w \in Wallets : w = escrow[j].client
    BY <2>1
  <2>3. Custody!Return(j, w)
    BY <1>4, <2>2, RefundReturns
  <2>4. QED BY <2>3 DEF Custody!JobStep
<1>5. ASSUME NEW s \in Wallets, NEW j \in Jobs, Withdraw(s, j)
      PROVE Custody!JobStep
  <2>1. escrow[j].client \in Wallets
    BY <1>5, AccountOf DEF Withdraw, CanWithdraw, JobEscrow, Wallets
  <2>2. PICK w \in Wallets : w = escrow[j].client
    BY <2>1
  <2>3. Custody!Return(j, w)
    BY <1>5, <2>2, WithdrawReturns
  <2>4. QED BY <2>3 DEF Custody!JobStep
<1>6. ASSUME NEW s \in Wallets, NEW j \in Jobs, NEW n \in Amounts, TopUpFunded(s, j, n)
      PROVE Custody!JobStep
  BY <1>6, TopUpFundedAdds DEF Custody!JobStep
<1>7. ASSUME NEW s \in Wallets, NEW j \in Jobs, NEW n \in Amounts, TopUpLocked(s, j, n)
      PROVE Custody!JobStep
  BY <1>7, TopUpLockedAdds DEF Custody!JobStep
<1>8. QED
  BY <1>1, <1>2, <1>3, <1>4, <1>5, <1>6, <1>7 DEF Next

LEMMA CustodyInit ==
  ASSUME Init
  PROVE  Custody!Init
<1>1. feeVault \in Nat /\ wallet \in [Wallets -> Nat]
  BY ConstantsAssumption DEF Init
<1>2. QED BY <1>1 DEF Init, Custody!Init, NoEscrow

LEMMA CustodyStutters ==
  ASSUME UNCHANGED vars
  PROVE  UNCHANGED Custody!vars
BY DEF vars, Custody!vars

-----------------------------------------------------------------------------

(* KeepsJobMoney: whatever the order of the instructions and whoever signs *)
(* them, money leaves the custody of a job only as the platform's cut and  *)
(* then once, whole, for the right wallet.                                 *)
THEOREM ImplementsJobCustody == Spec => KeepsJobMoney
<1>1. IInv /\ [Next]_vars => [Custody!JobStep \/ Custody!Aside]_(Custody!vars)
  <2> SUFFICES ASSUME IInv, [Next]_vars
               PROVE  Custody!JobStep \/ Custody!Aside \/ UNCHANGED Custody!vars
    OBVIOUS
  <2>1. CASE Next
    BY <2>1, InstructionStep, WithdrawFeesAside
  <2>2. CASE UNCHANGED vars
    BY <2>2, CustodyStutters
  <2>3. QED BY <2>1, <2>2
<1>2. Init => Custody!Init
  BY CustodyInit
<1>3. QED BY <1>1, <1>2, BooksInOrder, PTL DEF Spec, KeepsJobMoney, Custody!JobsSpec

(* KeepsCustody: withdraw_fees is all that stands between the program and  *)
(* the whole promise; were it called by the platform's wallets only, the   *)
(* program would implement EscrowCustody.                                  *)
THEOREM ImplementsCustody == Spec /\ [][FeesToAuthority]_vars => KeepsCustody
<1>1. IInv /\ [Next]_vars /\ [FeesToAuthority]_vars => [Custody!Next]_(Custody!vars)
  <2> SUFFICES ASSUME IInv, [Next]_vars, [FeesToAuthority]_vars
               PROVE  Custody!Next \/ UNCHANGED Custody!vars
    OBVIOUS
  <2>1. CASE UNCHANGED vars
    BY <2>1, CustodyStutters
  <2>2. CASE Next /\ FeesToAuthority
    <3>1. ASSUME NEW s \in Wallets, NEW n \in Withdrawals, WithdrawFees(s, n)
          PROVE  Custody!Next
      <4>1. s \in Authorities
        BY <2>2, <3>1 DEF FeesToAuthority
      <4>2. QED BY <3>1, <4>1, WithdrawFeesCollects DEF Custody!Next
    <3>2. QED BY <2>2, <3>1, InstructionStep DEF Custody!Next
  <2>3. QED BY <2>1, <2>2
<1>2. Init => Custody!Init
  BY CustodyInit
<1>3. QED BY <1>1, <1>2, BooksInOrder, PTL DEF Spec, KeepsCustody, Custody!Spec
=============================================================================
