--------------------------- MODULE EscrowProgram ---------------------------
(***************************************************************************)
(* The on-chain escrow program: one JobEscrow account and one vault per    *)
(* job (a milestone's escrow is keyed by its own id and is a job here),    *)
(* one platform fee vault for all of them, and the wallets lamports come   *)
(* from and go to.                                                         *)
(*                                                                         *)
(* A transaction is atomic: a failed require!, a checked operation that    *)
(* overflows, an account constraint or a transfer that cannot be made      *)
(* aborts the whole of it.  Hence every instruction is one action whose    *)
(* guard is the conjunction of everything that can abort it.               *)
(*                                                                         *)
(* Not part of the ledger: network fees and the rent deposit of the        *)
(* JobEscrow account itself.                                               *)
(***************************************************************************)
EXTENDS Naturals, FiniteSets

CONSTANTS
  Jobs,         \* job and milestone ids (their 36-character UUIDs)
  Clients,      \* wallets that post jobs
  Freelancers,  \* wallets that are hired
  Authorities,  \* platform wallets named as `authority` by initialize
  Amounts,      \* the amounts deposits are made of
  Withdrawals,  \* the amounts withdraw_fees is called with
  Supply,       \* lamports in each client wallet at the start
  FeeVaultStart,\* lamports the platform fee vault may hold at the start
  MaxU64,       \* largest u64
  RentMin,      \* smallest balance the runtime lets a non-empty account keep
  NoKey         \* Pubkey::default()

Wallets == Clients \cup Freelancers \cup Authorities

ASSUME ConstantsAssumption ==
  /\ Amounts \subseteq Nat
  /\ Withdrawals \subseteq Nat
  /\ Supply \in Nat
  /\ FeeVaultStart \subseteq Nat
  /\ MaxU64 \in Nat
  /\ RentMin \in Nat
  /\ NoKey \notin Wallets

(* The runtime: all lamports there are fit a u64, and no account holds     *)
(* less than the minimum unless it holds nothing.                          *)
ASSUME RuntimeAssumption ==
  /\ IsFiniteSet(Clients)
  /\ \A n \in FeeVaultStart : Cardinality(Clients) * Supply + n <= MaxU64
  /\ Supply = 0 \/ Supply >= RentMin

VARIABLES
  escrow,    \* the JobEscrow account of each job
  vault,     \* lamports of each job's vault PDA
  feeVault,  \* lamports of the platform fee vault PDA
  wallet,    \* lamports of each wallet
  ledger     \* history: what each job has taken in and where it went

vars == <<escrow, vault, feeVault, wallet, ledger>>

FEE_BPS == 250
BPS_DENOMINATOR == 10000

Status == {"Funded", "Locked", "Released", "Refunded"}

JobEscrow == [status: Status, client: Clients, authority: Authorities,
              freelancer: Freelancers \cup {NoKey},
              amount: Nat, platform_fee: Nat]

NoEscrow == [status |-> "None", client |-> NoKey, authority |-> NoKey,
             freelancer |-> NoKey, amount |-> 0, platform_fee |-> 0]

(* principal and fees: paid in by the client; collected: moved to the fee  *)
(* vault; earned: paid to the freelancer; returned: paid back to the client*)
Ledger == [principal: Nat, fees: Nat, collected: Nat, earned: Nat, returned: Nat]

NoLedger == [principal |-> 0, fees |-> 0, collected |-> 0, earned |-> 0, returned |-> 0]

(* Balances never go negative and account fields keep their types: no      *)
(* instruction pays out of a wallet or a vault what is not in it.          *)
TypeOK ==
  /\ escrow \in [Jobs -> JobEscrow \cup {NoEscrow}]
  /\ vault \in [Jobs -> Nat]
  /\ feeVault \in Nat
  /\ wallet \in [Wallets -> Nat]
  /\ ledger \in [Jobs -> Ledger]

Init ==
  /\ escrow = [j \in Jobs |-> NoEscrow]
  /\ vault = [j \in Jobs |-> 0]
  /\ feeVault \in FeeVaultStart
  /\ wallet = [w \in Wallets |-> IF w \in Clients THEN Supply ELSE 0]
  /\ ledger = [j \in Jobs |-> NoLedger]

-----------------------------------------------------------------------------

FitsU64(n) == n <= MaxU64

(* floor(amount * 250 / 10000); the multiplication is the checked one *)
Fee(amount) == (amount * FEE_BPS) \div BPS_DENOMINATOR
FeeFits(amount) == FitsU64(amount * FEE_BPS)

(* The runtime refuses a transaction that leaves an account between empty  *)
(* and the rent-exempt minimum.                                            *)
RentOK(balance) == balance = 0 \/ balance >= RentMin

(* The JobEscrow account after each instruction. *)
Opened_TotalAsPrincipal(c, a, amount) ==
  [status |-> "Funded", client |-> c, authority |-> a, freelancer |-> NoKey,
   amount |-> amount + Fee(amount), platform_fee |-> Fee(amount)]
Opened_KeysSwapped(c, a, amount) ==
  [status |-> "Funded", client |-> a, authority |-> c, freelancer |-> NoKey,
   amount |-> amount, platform_fee |-> Fee(amount)]
Opened(c, a, amount) ==
  [status |-> "Funded", client |-> c, authority |-> a, freelancer |-> NoKey,
   amount |-> amount, platform_fee |-> Fee(amount)]

LockedFor_FeeKept(e, f) == [e EXCEPT !.status = "Locked", !.freelancer = f]
LockedFor(e, f) == [e EXCEPT !.status = "Locked", !.freelancer = f, !.platform_fee = 0]
ToppedUp(e, n, fee) == [e EXCEPT !.amount = @ + n, !.platform_fee = @ + fee]
Released(e) == [e EXCEPT !.status = "Released", !.amount = 0]
Refunded(e) == [e EXCEPT !.status = "Refunded", !.amount = 0, !.platform_fee = 0]

(* The history after a deposit of n plus fee, of which the platform takes  *)
(* `taken` at once, and after a payment out of the vault.                  *)
PaidIn(l, n, fee, taken) ==
  [principal |-> l.principal + n, fees |-> l.fees + fee, collected |-> l.collected + taken,
   earned |-> l.earned, returned |-> l.returned]
PaidOut(l, taken, earned, returned) ==
  [principal |-> l.principal, fees |-> l.fees, collected |-> l.collected + taken,
   earned |-> l.earned + earned, returned |-> l.returned + returned]

(* What leaves the vault. *)
ReleaseFee_RoundedUp(e) == Fee(e.amount + 39)
ReleaseFee_Whole5Percent(e) == 2 * Fee(e.amount)
ReleaseFee(e) == Fee(e.amount)
RefundSum_FeeTakenAgain(e) == e.amount - Fee(e.amount)
RefundSum(e) == IF e.status = "Funded" THEN e.amount + e.platform_fee ELSE e.amount
WithdrawSum_PrincipalOnly(e) == e.amount
WithdrawSum(e) == e.amount + e.platform_fee

MayRelease_AnyPayee(e, signer, f) ==
  e.status = "Locked" /\ signer \in {e.client, e.authority}
MayRelease(e, signer, f) ==
  /\ e.status = "Locked"
  /\ signer \in {e.client, e.authority}
  /\ f = e.freelancer

(* Each instruction is a predicate, the conjunction of everything that can *)
(* abort it, and what it does.  The predicate is what a node's preflight   *)
(* finds out by running the transaction.                                   *)

(* A client is charged the amount and 2.5% on top of it. *)
Affords(w, amount) == wallet[w] >= amount + Fee(amount)

CanCharge(w, amount) ==
  /\ amount > 0
  /\ FeeFits(amount) /\ Fee(amount) > 0 /\ FitsU64(amount + Fee(amount))
  /\ Affords(w, amount)
  /\ RentOK(wallet[w] - (amount + Fee(amount)))

Charge(w, amount) == wallet' = [wallet EXCEPT ![w] = @ - (amount + Fee(amount))]

CanInitialize(c, j, amount) ==
  /\ escrow[j] = NoEscrow                \* `init`: the account is new
  /\ CanCharge(c, amount)
  /\ RentOK(vault[j] + (amount + Fee(amount)))

Initialize(c, a, j, amount) ==
  /\ CanInitialize(c, j, amount)
  /\ Charge(c, amount)
  /\ escrow' = [escrow EXCEPT ![j] = Opened(c, a, amount)]
  /\ vault' = [vault EXCEPT ![j] = @ + (amount + Fee(amount))]
  /\ ledger' = [ledger EXCEPT ![j] = PaidIn(@, amount, Fee(amount), 0)]
  /\ UNCHANGED feeVault

CanLock(signer, j) ==
  LET fee == escrow[j].platform_fee
  IN /\ escrow[j].status = "Funded"
     /\ signer = escrow[j].authority
     /\ vault[j] >= fee
     /\ RentOK(vault[j] - fee) /\ RentOK(feeVault + fee)

Lock(signer, j, f) ==
  LET fee == escrow[j].platform_fee
  IN /\ CanLock(signer, j)
     /\ escrow' = [escrow EXCEPT ![j] = LockedFor(@, f)]
     /\ vault' = [vault EXCEPT ![j] = @ - fee]
     /\ feeVault' = feeVault + fee
     /\ ledger' = [ledger EXCEPT ![j] = PaidOut(@, fee, 0, 0)]
     /\ UNCHANGED wallet

CanRelease(signer, j, f) ==
  LET amount == escrow[j].amount
      fee == ReleaseFee(escrow[j])
  IN /\ MayRelease(escrow[j], signer, f)
     /\ FeeFits(amount)
     /\ vault[j] >= amount
     /\ RentOK(vault[j] - amount) /\ RentOK(feeVault + fee) /\ RentOK(wallet[f] + (amount - fee))

Release(signer, j, f) ==
  LET amount == escrow[j].amount
      fee == ReleaseFee(escrow[j])
  IN /\ CanRelease(signer, j, f)
     /\ escrow' = [escrow EXCEPT ![j] = Released(@)]
     /\ vault' = [vault EXCEPT ![j] = @ - amount]
     /\ feeVault' = feeVault + fee
     /\ wallet' = [wallet EXCEPT ![f] = @ + (amount - fee)]
     /\ ledger' = [ledger EXCEPT ![j] = PaidOut(@, fee, amount - fee, 0)]

(* The authority's refund and the client's withdrawal pay the client back  *)
(* and finalise the escrow the same way.                                   *)
CanPayBack(j, sum) ==
  /\ FitsU64(sum)
  /\ vault[j] >= sum
  /\ RentOK(vault[j] - sum) /\ RentOK(wallet[escrow[j].client] + sum)

PayBack(j, sum) ==
  /\ escrow' = [escrow EXCEPT ![j] = Refunded(@)]
  /\ vault' = [vault EXCEPT ![j] = @ - sum]
  /\ wallet' = [wallet EXCEPT ![escrow[j].client] = @ + sum]
  /\ ledger' = [ledger EXCEPT ![j] = PaidOut(@, 0, 0, sum)]
  /\ UNCHANGED feeVault

CanRefund(signer, j) ==
  /\ escrow[j].status \in {"Funded", "Locked"}
  /\ signer = escrow[j].authority
  /\ CanPayBack(j, RefundSum(escrow[j]))

Refund(signer, j) == CanRefund(signer, j) /\ PayBack(j, RefundSum(escrow[j]))

CanWithdraw(signer, j) ==
  /\ escrow[j].status = "Funded"
  /\ signer = escrow[j].client
  /\ CanPayBack(j, WithdrawSum(escrow[j]))

Withdraw(signer, j) == CanWithdraw(signer, j) /\ PayBack(j, WithdrawSum(escrow[j]))

(* Before the hire the fee of a top-up waits in the vault with the rest... *)
CanTopUpFunded(signer, j, amount) ==
  /\ escrow[j].status = "Funded"
  /\ signer = escrow[j].client
  /\ CanCharge(signer, amount)
  /\ FitsU64(escrow[j].amount + amount) /\ FitsU64(escrow[j].platform_fee + Fee(amount))
  /\ RentOK(vault[j] + (amount + Fee(amount)))

TopUpFunded(signer, j, amount) ==
  LET fee == Fee(amount)
  IN /\ CanTopUpFunded(signer, j, amount)
     /\ Charge(signer, amount)
     /\ escrow' = [escrow EXCEPT ![j] = ToppedUp(@, amount, fee)]
     /\ vault' = [vault EXCEPT ![j] = @ + (amount + fee)]
     /\ ledger' = [ledger EXCEPT ![j] = PaidIn(@, amount, fee, 0)]
     /\ UNCHANGED feeVault

(* ... and after it goes to the platform at once. *)
CanTopUpLocked(signer, j, amount) ==
  /\ escrow[j].status = "Locked"
  /\ signer = escrow[j].client
  /\ CanCharge(signer, amount)
  /\ FitsU64(escrow[j].amount + amount)
  /\ RentOK(vault[j] + amount) /\ RentOK(feeVault + Fee(amount))

TopUpLocked(signer, j, amount) ==
  LET fee == Fee(amount)
  IN /\ CanTopUpLocked(signer, j, amount)
     /\ Charge(signer, amount)
     /\ escrow' = [escrow EXCEPT ![j] = ToppedUp(@, amount, 0)]
     /\ vault' = [vault EXCEPT ![j] = @ + amount]
     /\ feeVault' = feeVault + fee
     /\ ledger' = [ledger EXCEPT ![j] = PaidIn(@, amount, fee, fee)]

(* The fee vault pays whoever signs: no constraint ties the signer of      *)
(* withdraw_fees to the platform.                                          *)
WithdrawFees(signer, amount) ==
  /\ amount > 0
  /\ feeVault >= amount
  /\ RentOK(feeVault - amount) /\ RentOK(wallet[signer] + amount)
  /\ feeVault' = feeVault - amount
  /\ wallet' = [wallet EXCEPT ![signer] = @ + amount]
  /\ UNCHANGED <<escrow, vault, ledger>>

Next ==
  \/ \E c \in Clients, a \in Authorities, j \in Jobs, n \in Amounts : Initialize(c, a, j, n)
  \/ \E s \in Wallets, j \in Jobs, f \in Freelancers : Lock(s, j, f)
  \/ \E s \in Wallets, j \in Jobs, f \in Freelancers : Release(s, j, f)
  \/ \E s \in Wallets, j \in Jobs : Refund(s, j)
  \/ \E s \in Wallets, j \in Jobs : Withdraw(s, j)
  \/ \E s \in Wallets, j \in Jobs, n \in Amounts : TopUpFunded(s, j, n)
  \/ \E s \in Wallets, j \in Jobs, n \in Amounts : TopUpLocked(s, j, n)
  \/ \E s \in Wallets, n \in Withdrawals : WithdrawFees(s, n)

Spec == Init /\ [][Next]_vars

-----------------------------------------------------------------------------
(* Properties *)

Open(j) == escrow[j].status \in {"Funded", "Locked"}
Hired(j) == escrow[j].freelancer # NoKey

(* Every vault holds exactly what its account records, principal and fee   *)
(* still to be swept, and that is what came in less what went out: no      *)
(* instruction lets the JobEscrow fields and the lamports drift apart, and *)
(* a finalised escrow leaves nothing behind.                               *)
Solvent(j) ==
  /\ vault[j] = escrow[j].amount + escrow[j].platform_fee
  /\ ledger[j].principal + ledger[j].fees
       = vault[j] + ledger[j].collected + ledger[j].earned + ledger[j].returned
Solvency == \A j \in Jobs : Solvent(j)

(* A client who leaves before anyone is hired gets back every lamport of   *)
(* principal and fee, however often the escrow was topped up and whichever *)
(* of withdraw and refund closed it.                                       *)
FreeExitBeforeHire ==
  \A j \in Jobs : escrow[j].status = "Refunded" /\ ~Hired(j) =>
    /\ ledger[j].returned = ledger[j].principal + ledger[j].fees
    /\ ledger[j].collected = 0 /\ ledger[j].earned = 0

(* A dispute refund after the hire returns exactly the principal, and the  *)
(* platform keeps exactly the fees charged on the way in.                  *)
DisputeReturnsPrincipal ==
  \A j \in Jobs : escrow[j].status = "Refunded" /\ Hired(j) =>
    /\ ledger[j].returned = ledger[j].principal
    /\ ledger[j].collected = ledger[j].fees
    /\ ledger[j].earned = 0

(* A release pays the freelancer the whole principal less one release fee  *)
(* computed on the sum of all deposits, and gives the client nothing back. *)
ReleasePaysPrincipalLessFee ==
  \A j \in Jobs : escrow[j].status = "Released" =>
    /\ Hired(j)
    /\ ledger[j].earned = ledger[j].principal - Fee(ledger[j].principal)
    /\ ledger[j].collected = ledger[j].fees + Fee(ledger[j].principal)
    /\ ledger[j].returned = 0

(* "2.5% collected at hire and 2.5% at release = 5% total": whatever the   *)
(* mix of deposits and rounding, the platform never takes more from a job. *)
FivePercentCap ==
  \A j \in Jobs : ledger[j].collected * BPS_DENOMINATOR
                     <= 2 * FEE_BPS * ledger[j].principal

(* Money in escrow is never trapped: as long as an escrow is open, nothing *)
(* the authority's refund and its transfer check (overflow of the sum and  *)
(* of the client's balance, vault balance, the rent rule for the vault and *)
(* for the client's wallet) can make it fail.  This is not so of release,  *)
(* whose fee multiplication overflows first.                               *)
RefundNeverBlocked ==
  \A j \in Jobs : Open(j) =>
    LET sum == RefundSum(escrow[j])
    IN /\ FitsU64(sum) /\ vault[j] = sum
       /\ FitsU64(wallet[escrow[j].client] + sum)
       /\ RentOK(wallet[escrow[j].client] + sum)

Custody == INSTANCE EscrowCustody WITH
  Platform <- Authorities,
  phase <- [j \in Jobs |-> escrow[j].status],
  owner <- [j \in Jobs |-> escrow[j].client],
  hired <- [j \in Jobs |-> escrow[j].freelancer],
  custody <- vault,
  purse <- wallet,
  till <- feeVault

(* Seen from the wallets and vaults alone, every instruction on a job is a *)
(* step of EscrowCustody: custody of one job changes at a time, its cut    *)
(* goes to the platform, the rest leaves it once, whole, and for the right *)
(* wallet; withdraw_fees touches no job.                                   *)
KeepsJobMoney == Custody!JobsSpec

(* "Authority withdraws accumulated platform fees from the fee vault"      *)
(* (lib.rs, withdraw_fees.rs): all of EscrowCustody, where the till opens  *)
(* only for the platform's wallets.                                        *)
KeepsCustody == Custody!Spec

(* What would have to be so for that: nobody else calls withdraw_fees.     *)
FeesToAuthority ==
  \A s \in Wallets \ Authorities, n \in Withdrawals : ~WithdrawFees(s, n)
=============================================================================
