--------------------------- MODULE EscrowCustody ---------------------------
(***************************************************************************)
(* What the escrow promises, without its accounts and instructions: money  *)
(* a client puts in custody for a job leaves it only as the platform's cut *)
(* (one lamport in forty, rounded down) and then, all at once, for one     *)
(* wallet: the hired freelancer's if the job was locked, else the client's *)
(* own.  A job that was settled stays settled.  Only the platform's own    *)
(* wallets take what it has earned.                                        *)
(***************************************************************************)
EXTENDS Naturals

CONSTANTS
  Jobs, Wallets,
  Platform,  \* the wallets that may take the platform's earnings
  NoKey

VARIABLES
  phase,    \* "None", "Funded", "Locked", "Released" or "Refunded"
  owner,    \* the wallet that funded each job
  hired,    \* the wallet each job was locked for
  custody,  \* lamports held for each job
  purse,    \* lamports of each wallet
  till      \* lamports of the platform

vars == <<phase, owner, hired, custody, purse, till>>

Init ==
  /\ phase = [j \in Jobs |-> "None"]
  /\ owner = [j \in Jobs |-> NoKey]
  /\ hired = [j \in Jobs |-> NoKey]
  /\ custody = [j \in Jobs |-> 0]
  /\ purse \in [Wallets -> Nat]
  /\ till \in Nat

Cut(n) == n \div 40

(* The first deposit: the cut is held back beside the principal. *)
Open(j, w) ==
  /\ phase[j] = "None"
  /\ phase' = [phase EXCEPT ![j] = "Funded"]
  /\ owner' = [owner EXCEPT ![j] = w]
  /\ \E n \in 1 .. purse[w] :
       /\ n + Cut(n) <= purse[w]
       /\ purse' = [purse EXCEPT ![w] = @ - (n + Cut(n))]
       /\ custody' = [custody EXCEPT ![j] = @ + (n + Cut(n))]
  /\ UNCHANGED <<hired, till>>

(* A later one: held back before the hire, taken at once after it. *)
Add(j, w) ==
  /\ phase[j] \in {"Funded", "Locked"}
  /\ owner[j] = w
  /\ \E n \in 1 .. purse[w] :
       LET held == IF phase[j] = "Funded" THEN Cut(n) ELSE 0
       IN /\ n + Cut(n) <= purse[w]
          /\ purse' = [purse EXCEPT ![w] = @ - (n + Cut(n))]
          /\ custody' = [custody EXCEPT ![j] = @ + (n + held)]
          /\ till' = till + (Cut(n) - held)
  /\ UNCHANGED <<phase, owner, hired>>

(* The platform takes what was held back, at most a fortieth of the rest. *)
Hire(j, f) ==
  /\ phase[j] = "Funded"
  /\ phase' = [phase EXCEPT ![j] = "Locked"]
  /\ hired' = [hired EXCEPT ![j] = f]
  /\ \E k \in 0 .. custody[j] \div 41 :
       /\ custody' = [custody EXCEPT ![j] = @ - k]
       /\ till' = till + k
  /\ UNCHANGED <<owner, purse>>

Pay(j, f) ==
  /\ phase[j] = "Locked"
  /\ hired[j] = f
  /\ phase' = [phase EXCEPT ![j] = "Released"]
  /\ purse' = [purse EXCEPT ![f] = @ + (custody[j] - Cut(custody[j]))]
  /\ custody' = [custody EXCEPT ![j] = 0]
  /\ till' = till + Cut(custody[j])
  /\ UNCHANGED <<owner, hired>>

Return(j, w) ==
  /\ phase[j] \in {"Funded", "Locked"}
  /\ owner[j] = w
  /\ phase' = [phase EXCEPT ![j] = "Refunded"]
  /\ purse' = [purse EXCEPT ![w] = @ + custody[j]]
  /\ custody' = [custody EXCEPT ![j] = 0]
  /\ UNCHANGED <<owner, hired, till>>

(* "Authority withdraws accumulated platform fees": nobody else does. *)
Collect(w) ==
  /\ \E n \in 1 .. till :
       /\ till' = till - n
       /\ purse' = [purse EXCEPT ![w] = @ + n]
  /\ UNCHANGED <<phase, owner, hired, custody>>

JobStep ==
  \E j \in Jobs, w \in Wallets :
    Open(j, w) \/ Add(j, w) \/ Hire(j, w) \/ Pay(j, w) \/ Return(j, w)

Next == JobStep \/ \E w \in Platform : Collect(w)

Spec == Init /\ [][Next]_vars

(* The part of the promise that is about jobs.  Whatever else happens to   *)
(* the till, it touches no job and takes from no wallet.                   *)
Aside ==
  /\ UNCHANGED <<phase, owner, hired, custody>>
  /\ \A w \in Wallets : purse'[w] >= purse[w]

JobsSpec == Init /\ [][JobStep \/ Aside]_vars
=============================================================================
