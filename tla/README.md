# Verification of mint-jobs-be

TLA+ models of the MintJobs backend (NestJS services over RabbitMQ, PostgreSQL
and Solana, with an Anchor program), TLC configurations that check them on small
instances, and TLAPS proofs. Every definition is translated from the source;
`PROJECT.json` maps each one to its lines, lists the runs, the mutants that show
that a property can fail, the hazards the properties are for, and the findings.

## 1. Inventory

### The system

A client posts a job and pays for it into an on-chain escrow; the job then goes
live. Freelancers apply. The client offers the job with a wallet signature, the
applicant accepts with another one, which locks the escrow for the freelancer and
produces a contract (a PDF, and an account on chain). The client releases the
escrow, or the platform refunds it; a release completes the job and its contract.

Services talk only through one RabbitMQ topic exchange. A request carries a
`requestId` and is answered by a response event; the rest are events. A message is
acknowledged when its handlers have returned, so that a service that stops is sent
the message again; a handler that throws sends the message to the dead-letter
queue. Each service has its own tables and keeps almost nothing in memory.
Node's event loop interleaves handlers at every `await`, up to the prefetch limit.

| component | state | operations | talks to | what is hard | what makes it correct |
|---|---|---|---|---|---|
| Escrow program (Rust, `programs/mint-jobs-escrow`) | a `JobEscrow` account and a vault per job, the platform fee vault | initialize, lock, release, refund, withdraw, top_up, withdraw_fees (by anyone) | called by the escrow service and by wallets | integer rounding and overflow, rent, mixes of top-ups before and after the hire | vault and account agree; each way out pays exactly what it should; refunds are never blocked |
| Job contract accounts (same program) | one account per job | create_contract, complete_contract | called by the escrow service, and by anyone | init once, by whoever comes first | permanent once written; an account the service made fits its tables |
| Escrow service, job escrows | table `escrows`, transactions in flight | fund, top up, withdraw, release, lock (on PROPOSAL_HIRED), refund, confirm (any signature, any job, by any user), withdraw fees; signed by the server, the client's wallet, or relayed | chain through an RPC node; publishes JOB_SET_ACTIVE, JOB_COMPLETED, ESCROW_RELEASED | the chain moves between guard, broadcast, wait and record; transactions fail after preflight, expire, or land after the wait threw; redelivery | the row never claims what the chain did not do; one charge per delivery; others are told |
| Escrow service, milestones | table `milestones` | create, fund, lock, release, refund, withdraw, top up, confirm (as above) | as above; publishes JOB_SET_ACTIVE from a count | guards read the row, not the account; a hire locks several milestones one after another; count, then publish | rows never run ahead of the program; a hire locks all it listed; the job is shown while anything is funded |
| Job service, proposals | table `proposals` | create, updateStatus, acceptProposal | publishes PROPOSAL_HIRED, NOTIFICATION_SEND | read-check-save with a stale object; count before insert; a crash between save and publish | two signatures behind every hire; decisions stand; the hire is announced |
| Job service, contracts | table `contracts`, PDFs in S3 and IPFS | createAndGenerate, completeByJobId, apply on-chain results | hears PROPOSAL_HIRED and JOB_COMPLETED, sends ONCHAIN_CONTRACT_CREATE/COMPLETE to the escrow service | long uploads between read and save; events delivered twice; failures halfway | one document per hire; certificate, row and chain agree |
| Job service, jobs and drafts | tables `jobs`, `saved_jobs` | create, update, updateStatus, saveDraft, setActive and completion (events), bookmarks | hears the escrow service | the whole object is saved over a row that others change | edits do not take back announcements; jobs paid by milestones have some; bookmarks are not lost |
| Messaging library | handler table, pending requests, response subscription | publish, subscribe, request, respond, timeout | everything | late answers, duplicate deliveries, messages before their handlers are registered, lost connections, the lazy subscription of a requester | a request is settled once, with an answer a handler came to; nothing published is lost |
| Chat service | `conversations`, `messages` | sendMessage, markRead (findOrCreateConversation is never reached) | hears PROPOSAL_HIRED and drops it; pushes counts to the gateway | counts pushed later; redelivery | a hire should open a conversation, and does not; counts agree with the rows |
| Notification service | `notifications` | create on events, markRead, markAllRead | hears most events; pushes counts | counts read and pushed later | counts agree with the rows |
| API gateway | sockets, pending requests | controllers, two socket gateways | all services | sockets that leave while their token is verified | the registry holds the live sockets |
| User and launchpad services | `users`, profiles, `follows`, communities, tokens | look up and insert or update; upsert (communities are joined on a socket) | gateway | concurrent and repeated requests for one key | one row per key; asking again is safe |
| Upload and auth services | files | forwarding to S3 | gateway | nothing | |

### Hard behaviours

`PROJECT.json` "hazards" lists each at its line. They fall into six groups: the
arithmetic of the program; the gap between broadcasting a transaction and recording
it; objects and counts that are stale when they are saved or pushed; events delivered
twice, late or never; look-ups before inserts; and steps after which a crash leaves
something half done.

## 2. What is modelled

### EscrowProgram, EscrowCustody (and EscrowProgramProofs)

`EscrowProgram` models the escrow instructions. A Solana transaction is atomic, so
each instruction is one action: what it does, under a predicate of its own (`CanInitialize`,
`CanLock`, ...) that names everything that can abort it: account
constraints, `require!`s, checked u64 arithmetic (`FitsU64`), balances (`Affords`)
and the runtime's rent rule for every account it leaves non-empty (`RentOK`).
`escrow`, `vault`, `feeVault` and `wallet` are accounts; `ledger` is history: what a
job took in and where it went. A milestone's escrow is the same account keyed by
the milestone's id, hence a "job" of this module. `top_up` has two branches and is
two actions. Anyone may sign anything.

`EscrowCustody` is what the program promises, without accounts and instructions:
money of a job leaves custody only as the platform's cut and then, once and whole, for
the hired freelancer or the client; and only the platform's wallets take what it has earned (`Collect`).
`KeepsCustody` is the refinement. It fails, because `withdraw_fees` takes any signer (section 6). What does hold is
the promise about the jobs, `KeepsJobMoney`: beside its own steps it allows what leaves every job's money
where it is (`Aside`). `FeesToAuthority` names the one condition under which the whole promise holds.

Not part of the ledger: network fees, the rent deposit of the account itself,
and lamports a third party sends to a vault PDA unasked.

### EscrowService (and EscrowServiceProofs)

`EscrowService` INSTANCEs `EscrowProgram` as `Chain` and adds the service's side: the
row of each job (`db`), the calls and how far their handlers are (`call`), the
transactions a node has accepted (`net`), and what was published. A handler goes
through `Check` (read account or row, guard), `Send` (broadcast; the node's
preflight, `Passes`, asks the instruction's predicate whether it would fail now), wait (`Settled`), for wallets and relays
`Reread`, then `Record` (the row) and `Tell` (the events); `topUpJob` also reads the
row it updates (`ReadRow`). Each is a step because the code awaits between them.
The network decides each transaction: `Land`, `Flop` (included, but by then the
predicate is false and the program returned an error) or `Expire`. With `Outages` a read may return null (as
`fetchOnChainEscrow` does on any error) and a wait may throw while the transaction
is still under way (`LoseTouch`). `Crash` delivers a call's message again; the
handler starts over.

In client and relay mode a fund, top-up, withdrawal or release confirms its own transaction. The endpoint of that
confirmation (`POST escrow/confirm`) asks no more of a signature than that its transaction exists and did not fail, so that
any user may also confirm any job at any time. That is the call "Confirm": `Verify` (there is such a signature, or
not), then `Reread`, `Record` and `Tell` as for any other. If no account is read the row becomes FUNDED with the amount 0 and the job is
announced, whether or not it was paid. `strays` is the history of jobs confirmed by a wallet that had no escrow
there (`Owns`); `orderly` says that calls came one at a time, that reads answered, and that nothing failed or crashed.

`WithdrawFees` is the program's instruction by any wallet. It also stands for `withdrawPlatformFees` of the service, which
signs it with the platform's key and writes no row; that handler's own awaits are left out.

The fields kept of a row are status, amount, client wallet and freelancer. The
freelancer's wallet is identified with the freelancer; the client's id is left
out. A call's parameters come from the gateway: a release can be asked for by any
client wallet and is refused by the program.

### Proposals (and ProposalsProofs)

`Proposals` models `ProposalService` and its message handler. A proposal is
identified with its applicant and job; the row keeps the status and whether each
signature is there. Creation is three awaited steps (`Apply`, `Count`, `Insert`)
and `Notify`; the two status changes are `Load` (guards and edit, no await in
between), then TypeORM's `save`, itself a read (`Reload`, which decides what
columns differ) and an update (`Write`), and for an acceptance `Publish`. `Crash` redelivers
all that was in progress. Calls are numbered as they arrive, which is a renaming
and not a restriction. Whether the job exists and is active is a
nondeterministic answer. A request with an invalid or missing signature changes
nothing and is not sent. `agreed` (whose signatures were accepted) and `overlapped`
(proposals on which two calls worked at a time) are history.

### Contracts (and ContractsProofs)

`Contracts` models the job service's contract module together with the escrow
service's two contract handlers and the program's contract account. `work` holds
the messages not acknowledged, each with its handler's progress. `JOB_COMPLETED`
is bound both to JOB_QUEUE and to CONTRACT_QUEUE; both consumers live in one
process and look handlers up in one table (`consumer.service.ts`), so that every
event runs the completion twice: `Published` has two deliveries per release.
`Insert` relies on the unique column; `Generate` and `Certify` stand for building
and uploading a document; `Save` writes the columns the object holds (those it
never set are left alone, those it loaded are written back) and publishes the
on-chain request. That a publish is skipped because Pinata failed, or lost because
the service stopped right after the save, is one alternative of `Save`. `Preflight`
and `Land` are the transaction, whose result is reported without a look at its
error. `create_contract` and `complete_contract` do not ask who signs either, so that someone else may
create the account of a job first and complete it (`StrangerCreates`, `StrangerCompletes`); the account's `authority` is
whoever made it, and the service's own creation then fails. A certificate is a number: its place in the order of making. `early` and
`twice` are history: jobs completed while a contract was still being generated, and
jobs whose completion was handled twice at a time. TypeORM's read and update are one step
here (two in `Proposals`), because the object was loaded long before.

`generateTerminationNotice` has no caller in the repository and is left out.

### Milestones (and MilestonesProofs)

`Milestones` is the milestone half of the escrow service, on the transactions of the
same `EscrowProgram` (INSTANCEd with the milestones as its jobs: a milestone's account
is keyed by its id). Unlike the job escrow its guards look at the row and never at the
account. A call goes through `Check` (row, guard), `Send`, `Settled`, for wallets
`Reread` (`confirmMilestoneTransaction`, which takes an account it cannot read as
funded), `Record`, and `Announce`, or `Count` and `Publish`: the count of
`updateJobActiveFromMilestones` and its publication are separate awaits. A hire
(`ProposalHired`) lists the funded milestones once (`ListFunded`) and locks them one
after another (`Turn`), whatever becomes of each. `Passes`, `Land`, `Flop`, `Expire`, `LoseTouch`
and `Crash` are as in `EscrowService`. What a wallet signs and what a relay carries have
the same effects on the row, so both are the mode "client". "Confirm" that stands alone, `Verify`, `Owns`, `strays` and
`WithdrawFees` are as in `EscrowService`; without an account the confirmation writes FUNDED and the caller's
wallet over whatever the row says, which refuses the real funding from then on. `drained` remembers whether the fee vault was
ever `Low`, which is when the rent rule refuses a hire its fee.

Because of how the code is written, some of what the endpoints offer never takes effect, and
the model says so rather than repairs it. `topUpMilestone` passes four accounts to an instruction that needs
five, so that `Submit` has no top-up (`MILESTONES_FRONTEND.md:317` describes a working one). A milestone
funded after the hire is never locked. Confirming late can write FUNDED over LOCKED.
Releasing the last milestone leaves the job active, against `MILESTONES_FRONTEND.md:1288`.

### JobListing (and JobListingProofs)

`JobListing` has the rows of `jobs` (owner, draft or not, payment type, whether there are
milestones, `isActive`) and of `saved_jobs`, and the handlers that change them query by
query: `Find` (the row is loaded, checked and edited), `Compare` (TypeORM's `save` reads the
row again to see which columns differ) and `Write`. `JOB_SET_ACTIVE` and `JOB_COMPLETED`
are calls without a user. Bookmarks are rows with an id, because removal is by
the id found. `Listed`, `Mine`, `Drafts` and `Bookmarks` are what the lists return;
the properties are stated with them. What a job says beyond payment is left out, since
nothing decides on it.

Seen on the way: the public list includes drafts; drafts never become
jobs; a draft saved without a payment type fails on a NOT NULL column; a late JOB_SET_ACTIVE
reactivates a completed job; and client statistics count a proposal once per contract of
its job.

### Messaging, Rpc (proved about in RegistryProofs)

`Rpc` is what a caller of another service may rely on, without queues: it is told one
thing, an answer that an execution of its request came to, or a failure only if there
never is one; a time limit promises nothing. `Messaging` is the library between
gateway instances and a service: the lazy subscription of the response queue that all first requests
wait for (`Ask`, `Subscribe`), the pending map and its timers (`Receive`, `Timeout`), publishing
while the connection is down (`outbox`), the consumer (`Deliver` up to the prefetch,
`Execute`, `Respond`, `Acknowledge`), the window at start-up in which messages are
acknowledged without a handler (`Swallow`), and lost connections and crashes on both sides.
`Execute` leaves open what a handler answers. `KeepsPromise` is the refinement.

The response to a request is published to every instance's queue and dropped by those that
did not ask. A subscription that failed is never tried again: the rejected promise is kept,
and every later request of the instance fails until it restarts. After a
reconnection the old channel's acknowledgement throws, and so does the rejection in the
`catch`, which ends the process; the message is then delivered again.

### Registry (and RegistryProofs)

`Registry` EXTENDS `Messaging` and says what the handlers do: the operations
of the user and launchpad services that look up a row and insert, update or delete it,
relying on a unique index for what happens in between (`Refused`). One key of one table,
chosen by `Init`, is looked at, because no operation reads another. Its users are followed (`follows`),
have a client's or freelancer's profile (`profiles`), a launchpad profile (`defi`), or are created by `GET /users/me` (`users`), which gives
the user the role asked for and calls Privy twice. `Body` has one action per query, and every
query a step of its own inside `Execute`'s handler; handlers cut short by a crash start over.

### Realtime (and RealtimeProofs)

`Realtime` is the conversation of one client and one freelancer, their notifications, the
unread counts and the gateway's sockets. Each thing going on is an activity. A hire ends at the handler's guard
(`Hired`): it wants a `freelancerId`, which PROPOSAL_HIRED as published does not have (`HiredFields`), and so
`findOrCreateConversation` and the system messages are never reached and are left out. Whether there is a conversation (one
from before, or made by hand) is chosen by `Init`. Sending, reading and notifying have a leg per
user whose count is pushed: a change (`Add`, `Read`, `ReadAll`), `Count`, `Push`; the two
recipients of "notify both" interleave. A socket is `Verified` while it may already have hung up
(`Disconnect`). `Crash` delivers a service's messages again, and redelivery posts again
what the first handler had posted.

`chat-service/src/chat.gateway.ts` and the notification service's gateway are provided by
no module and are left out. The latest message of `getConversations` is always null
(`CHAT_FRONTEND.md:99`). With several gateway instances a push reaches only the one that takes
it from the shared queue; the model has one.

## 3. Runs

| run | what it checks |
|---|---|
| program | two jobs, clients and freelancers; the accounts' safety properties and `KeepsJobMoney` |
| service | three calls on one job, one after another or at once, two clients, a crash, outages: rows never claim more than the program did, name the wallet that is paid, one charge per delivery; row, account and events agree when calls were orderly |
| service_progress | two calls in all modes, fee withdrawals, a crash, outages: every call ends, a funded job is announced |
| milestones | two milestones, three calls or hires at once, stray confirmations, fee withdrawals, a crash, outages: rows trail the program, a hire locks what it listed, orderly calls agree |
| proposals | three calls of any kind, two at a time, one crash |
| contracts | two hires of one job, one announced twice, one release (two deliveries), a stranger at the program, one crash, outages |
| listing | three calls on one job or draft, two at a time, query by query |
| calls | two requests to any table of `Registry` over `Messaging`, faults of either side: the promise of `Rpc`, nothing lost, rows unique, retries safe |
| realtime | three activities of any kind, two per service at a time, a crash: counts and the socket registry |
| fees, service_released, realtime_hired | findings, see section 6 |

### What the passing properties show, and their limits

* Money: `Solvency`, `FreeExitBeforeHire`, `DisputeReturnsPrincipal`,
  `ReleasePaysPrincipalLessFee`, `FivePercentCap`, `KeepsJobMoney` and
  `RefundNeverBlocked`: an open escrow can always be refunded, though a release can
  overflow.
* Rows: `RecordTrailsChain`, `RecordNamesPayee` and `RowTrailsChain` hold for jobs and milestones of which no
  transaction failed after preflight; the run service_released shows what happens otherwise. A confirmation by a wallet
  without an escrow there (`strays`) can make up that something is funded, and the properties say that it can make up no more
  than that: no hire, no release, no refund, and no freelancer.
* `AgreesWhenQuiet` and `ToldWhenQuiet` are for jobs whose calls came one at a time, with
  a node that answers (`orderly`), and which only their client confirmed. Overlapping top-ups do lose an amount. `AgreesWhenOrderly` is for
  milestones what both are for jobs, and names the made-up funding (`MadeUp`) as the only disagreement a
  confirmation can cause; two overlapping withdrawals can publish their counts in
  the wrong order.
* `HireLocksListed`: a hire passes over a milestone that fails and still locks the
  others; only milestones with trouble of their own, or confirmed by someone who had not paid, stay open to withdrawal. It
  also needs a fee vault that was never drained below the rent minimum (`drained`).
* `FundedJobGoesLive` leaves out crashes, calls that lost touch with their
  transaction, and a job already locked when the client's own funding is
  confirmed: `confirm` tells what the account is by then, and tells nobody of a lock.
* `AgreedByBoth`: whatever overlaps, stale saves and redeliveries included, nobody is
  hired or announced without both signatures. `RejectedIsFinal` and
  `SignaturesFitStatus` hold for proposals whose calls do not overlap; an overlapping
  decline and acceptance both succeed, the later save wins, and the hire is announced
  either way (`HireIsAnnounced`). `LimitOvershoot` states the exact price of counting
  before inserting: the prefetch less one.
* `CompletedIsFinal` and `CertificateAgrees` leave out jobs completed during generation
  and, for the latter, completions handled twice at a time. `HireGetsContract` allows a
  contract that stays GENERATING only after a crash. `RowTrailsAccount` holds of every row,
  but of accounts only where the service made them: the URI and hash in a stranger's account are the stranger's.
* `ListedAsAnnounced` leaves out jobs written while another handler held the row: then
  the last save wins. `MilestoneJobsHaveMilestones` survives even that, because the whole object
  is saved, unless the two queries of two saves interleave. `BookmarkStays` has no proviso.
* `KeepsPromise` and `NothingIsLost` cover every fault of the model. What
  `NothingIsLost` excepts is what the code does lose: the outbox of an instance that stops, and what
  a service is sent before its handlers are registered. `CreatedOnce` and `RetryIsSafe` say that
  time limits and redelivery do no harm to these tables.
* `BadgeAgrees` leaves out counts blurred by an overlap. `RegistryHoldsTheLive` makes the leak of the gateway exact: what the registry keeps beyond
  the live sockets are those that hung up during verification.

### Bounds

* program: amounts 39 (fee 0), 799/800 (rounding), 1600 and 2400 (sums that round
  differently), `RentMin` 40 between the fees of those, `MaxU64` 599750 so that the
  release fee of a topped-up escrow overflows while deposits fit. `Supply` lets a
  client make two or three deposits. Jobs share only wallets and the fee vault, so two
  suffice for their interference.
* fees: one job and one wallet of each kind are enough for a wallet that is not the platform's to be paid.
* service: three calls are two that race and one that prepared the state or
  meddles with both, and one after another they are a funding, a hire and a settlement, or a top-up or withdrawal in their place;
  one job, because rows, accounts and guards are per job; two clients, so that there is one who confirms
  what the other pays or does not pay. `Deposit` 40 makes the fee 1; `RentMin` 0 leaves rent to the other runs.
* service_progress: two calls, because a call waits for nobody; relays, whose confirmation differs after a crash, and
  fee withdrawals are in this run.
* proposals: a limit of one a day and four jobs let the limit be exceeded by concurrent
  applications; one job was applied to before, so that offers, acceptances and
  rejections fit in the three calls.
* contracts: one job and two proposals, since different jobs share nothing; the stranger acts at any time.
* milestones: two milestones are what a count and a hire's list need to be wrong about one of them; three
  calls allow a hire, a withdrawal and a funding to meet. `Supply` pays for both once. `RentMin` 30 is in force
  for every account, and the fee vault starts with it, as on a network on which the platform has been used before;
  a withdrawal of 31, possible once a fee came in, empties it.
* listing: one row suffices, since no handler touches two; three calls, two at a time, let a third run after a race.
* calls: two requests can compete for one key or retry one another, from one instance or two.
  `MaxFaults` 1 and `MaxRuns` 2 bound crashes and lost connections, and executions of a request: the first and one
  after a redelivery. The proofs have no bound on either; with three executions `RetryIsSafe` held as well.
* realtime: the shortest interference is a reader, a sender and a third that leaves a count
  stale; two users are all a conversation has.
* Symmetry is used only where no liveness is checked; in realtime also of the two users, since nobody's
  name is kept of a hire or of a notification for both.

### Fairness

Weak fairness of each handler: Node runs a handler whose awaited promise has
settled. In `EscrowService` also of the network's decision on each transaction: a
blockhash is valid for a bounded number of blocks, so a transaction lands, fails or
expires. No fairness of calls arriving, crashes or outages. Modules other than `EscrowService` and `Proposals` have safety
properties only. `CHECK_DEADLOCK FALSE`: each system may simply have
nothing more to do within its bounds.

## 4. What is proved

Every safety property that a passing run checks is also a theorem, for every value of the
constants that satisfies the named assumptions. One has a hypothesis besides: `HireLocksListed` needs
deposits that the rent rule lets through (below). What a run shows of two jobs and three calls thus holds of any
number. The constants are subject to named assumptions, which TLC evaluates in every run: amounts,
deposits, limits and supplies are natural numbers, `NoKey` and `NoUser` are nobody's, and
(`RuntimeAssumption`) there are finitely many clients, all lamports there are fit a u64, and no wallet starts below
the rent minimum, which the Solana runtime guarantees. `EscrowService` and `Milestones` assume the same of
the program they run (`ProgramAssumption`), so that its theorems apply to them. `MaxCrashes`, `MaxRuns` and the like are any
natural numbers, so the proofs do not bound faults.

None of the properties is inductive. In each case the invariant has to speak of what is
under way: of the object a handler holds, the transaction a node has accepted, the answer in a
queue. How it does is the subject of the rest of this section.

### The program (EscrowProgramProofs)

What a refund returns depends on what the fee field
held, which depends on every deposit before and on whether the lock swept it. The
invariant `IInv` therefore keeps *books* for each job: the vault is the sum of the
account's two fields; the fees are at most a fortieth of the principal; and, by
status, where every lamport of the history is (`FundedBooks`, `LockedBooks`,
`ReleasedBooks`, `RefundedBooks`). One lemma per instruction (`InitializeStep`, ...) shows
that it keeps the books of its job, `OneJobStep` that the other jobs are untouched,
`BooksInOrder` puts them together, and each settlement property follows from the books.

`RefundAlwaysPossible` also needs that the client's wallet and the vault together fit a u64, which is an argument about all
accounts at once. A sum over them would need induction, so lamports are
counted as things: `Spread(L, b)` says that the balances `b` share out the set `L`, each of whose members is in one
account. Each instruction moves members of `L` from one account to another or to two (`Transfer`, `Split`), hence
`LamportsConserved`; and since `L` is no larger than a u64, neither are two of its parts (`TwoFit`).

`ImplementsJobCustody` is the refinement `KeepsJobMoney`: the initial states map to initial states, and each
instruction to `Open`, `Add`, `Hire`, `Pay` or `Return`, or, for `withdraw_fees`, to `Aside`. `ImplementsCustody` adds what is
missing for the whole promise: a behaviour in which only the platform's wallets withdraw fees (`FeesToAuthority`) implements
`KeepsCustody`, so that the missing check is the only gap. The refinement needs the books
because the account's fields, not the sum in custody, decide what an instruction moves:
that the fee swept at the hire is at most a forty-first of what is held, that a release
charges one cut on all that is held, and that a refund or withdrawal empties the vault,
hold only because of what earlier instructions left in those fields.

### The escrow service (EscrowServiceProofs, MilestonesProofs)

* `RecordTrails`, `RecordNames`. Accounts only move forward (`Follows`), so that what a
  handler saw (`Reported`) and what its transaction did (`Accomplished`) stay true. A call past its transaction
  has its result (`Backed`), and a transaction is what its call asked for, however often that was
  started over (`Sent`). With these, `Inv`, the row a handler writes never runs ahead (`Trails`);
  a confirmation is backed by the account it read or, if it made the funding up, by the history (`strays`).
* `ChargedOnce`. `Tally` counts charges made, transactions that may still charge and calls about to send one, together no more than
  calls plus crashes; `Single` adds that the program opens an account only once.
* `QuietAgrees`, `QuietTold`. As long as the history is `orderly`, row and account of a job nobody else
  confirmed agree but for the call under way, and
  `InTurn` says how far the row is behind (`Behind`) and what remains to be told. This needs that no transaction fails after
  its preflight, which the invariant `Tidy` includes (`flops = {}`): the one call under way has the only transaction
  there is, nothing else moves an account, and so what passed preflight passes still (`StillPasses`, `PassesStays`).
* `RunsTheProgram`, `MilestonesRunTheProgram`. Whatever is interleaved or repeated, a step of `EscrowService` or
  `Milestones` is an instruction of `EscrowProgram`, with wallets there are (`WalletsKnown`), a withdrawal of fees included, or leaves the accounts alone.
  With an INSTANCE of `EscrowProgramProofs`, what is proved of the program is therefore proved under the services:
  `MoneyInOrder` and `MilestoneMoneyInOrder` (the five settlement properties),
  `ServiceKeepsCustody` and `MilestonesKeepCustody` (`KeepsJobMoney`: no interleaving of the services' handlers, and no withdrawal of
  fees, moves a job's money otherwise), and, stronger than `RefundNeverBlocked`, `RefundPasses` and
  `MilestoneRefundPasses`: in every state the service can reach, the predicate of the refund holds of every open escrow.
* `RowNeverRunsAhead` and `OrderlyAgrees` are for milestones what `RecordTrails` and `QuietAgrees` are for jobs. `Orderly` is a
  condition on the history and not on the constants, so `Tidy` is kept by every step that does not
  end the order, and it includes how the listing of the job fits the rows (`Shown`) while the count is on its way.
* `HireLocksAll` is `HireLocksListed`. The invariant (`Hunted`) accounts for each milestone a hire listed and
  did not lose to trouble: it is still to come, or being locked now, or no longer open to withdrawal; its row was funded once and its account
  is there, so that neither the guard nor the program takes it for unpaid. A lock that reaches the node while the account is
  funded is never refused (`LockPasses`): the account holds the deposit and its fee (`Deposits`), `Solvency` says that the vault
  has both, and the rent rule is met by the hypothesis, `Deposit >= RentMin`, and because the fee vault was never `Low` (`drained` is in the
  property). Both are needed: see section 6.
* `RowNamesTheClient` has no run of its own. Unless a transaction of the milestone failed after its preflight, or someone who had not paid confirmed it, the row names
  the client of the account, so that the refund, which passes the row's wallet to the program, goes through. The row's wallet is written by the call that
  funds, and what a wallet signed pays from that wallet (`NamesInv`); the platform's key is assumed to be no client's wallet.

### The job service (ProposalsProofs, ContractsProofs, JobListingProofs)

* `HiredByBoth`, `DecisionsStand`. That the row is backed by signatures is not inductive, since a handler
  saves an object it decided on long before; the invariant (`AgreementKept`) says the same of
  every object in the hands of a handler, and of every hire about to be published. It is
  kept because the accepted signatures only grow (`BackedByMore`), because
  `acceptProposal` edits only a row that was awaiting acceptance (`EditedIsBacked`), and because
  TypeORM's column-wise merge takes the status from the object or from the row, and both are
  backed (`WriteStep`).
* `OvershootBounded`. An application that has passed the count and is not inserted is one the count of others does not show;
  there are no more of these than handlers, so that the two together stay `Within` the bound.
* `SignaturesAgree`, `RejectionStands`. Of a proposal whose calls do not overlap (`Orderly`), the object in hand is what the
  handler would make of the row as it is now (`Current`), the row's signatures fit its status (`Fits`), and an accepted
  hire is published or about to be (`Announced`).
* `NeverTwoPdfs`, `RowNeverAhead`. What a message in flight carries is true of the rows and accounts it will be
  written to (`MessageOK`), because these only grow (`Grows`), and what strangers do to an
  account of their own touches none that the service made (`StrangerOnly`); and the unique column leaves a proposal one handler at most that
  is past the insert (`HireOK`).
* `HireFollowedUp`, `OneCertificate`, `CompletedForGood`. A hire has a contract or a message (`Followed`); a contract being generated
  stays so unless its job is completed early (`Undisturbed`); and every certificate of it on its way to the chain or there is the
  one in the row (`Agrees`).
* `ListedAsAnnouncedAlways`, `MilestonesKept`, `BookmarkStaysAlways`. `Base` has the types and says of every handler that it runs its
  own operation's queries (`Stage`) and that the row it holds is there (`Held`). A handler saves an object it loaded before, so
  `JobsKept` also speaks of that object: unless another handler wrote the row
  meanwhile, its status is the row's or what the handler was asked to make of it (`StatusKept`); unless two saves
  interleaved, payment type and milestones of the object fit each other (`ProperKept`); and a save leaves out
  only columns that are equal by then. Of bookmarks `MarksKept` says that the row a caller was told of is
  there, or was removed by its own id.

### Messaging and the tables (RegistryProofs)

* `PromiseKept`: `Messaging` implements `Rpc`. The promise is about what callers are told, so the invariant (`AnswersBacked`)
  follows an answer from the handler to the caller: what is in a response queue or about
  to be sent was come to by a handler of that request (`Backed`), only a settled request was told something
  (`Untold`), and a request that was not published, or was refused, is in no queue, outbox or handler
  (`Nowhere`), which is why a failure may be reported. Each action has a lemma that it keeps the invariant and is a
  step of `Rpc` or stutters. `NothingIsLostAlways` needs one more (`Followed`): a
  handler that goes on to respond has come to an answer.
* `RunsOnMessaging`: a step of `Registry` is one of `Messaging` or changes nothing of it, hence
  `RegistryKeepsPromise` and `RegistryLosesNothing`.
* `CreatedOnceAlways`: handlers run only their own operation's queries (`OwnQueries`), nothing is deleted from the
  tables concerned (`OneTable`), and a request told it created the row finds it there (`Granted`).
* `RetryIsSafeAlways`: as long as all who asked agree (`Agreed`), the table is what they asked for once one of them was granted
  it, or found no row where there is one by now (`Served`): a handler about to create what another just
  created will change nothing.

### Conversations, sockets and counts (RealtimeProofs)

`Kinds` says which steps an activity may be at; one lemma per way of moving
(`Going`, `Stepping`, `Crashing`, ...) says what a step leaves alone. `RegistryKept` says that what is left over belongs to activities that have ended and never move again.
`BadgeKept` says of each user and service that, unless the count is blurred or somebody owes it (`Owes`), the count in the hands
of whoever is about to push it is right, or the badge is if there is nobody (`Accurate`).

### Only model-checked

The liveness properties `EveryCallEnds`, `FundedJobGoesLive` and
`HireIsAnnounced`, which hold by fairness, and the findings, which are counterexamples. Inductions over data
and RECURSIVE operators are out of reach as well; there are none. No module uses ENABLED but through WF.

## 5. Plan

Done, in this order: the escrow program and its proofs, escrow service, proposals, contracts, milestones,
messaging, registry, job listing and realtime, each with its proofs. Each module composes what it needs:
`EscrowService` and `Milestones` the program, `Registry` the messaging.

Left: a composition of `Proposals`, the lock of `EscrowService` and `Contracts`, in which escrow, contract row and
on-chain contract name one freelancer unless two proposals of a job are hired; each of the three
states its part today.

Runs are few so that each answers its own question; a module has one passing
run unless bounds must differ.

## 6. Findings

Shown by a run:

* A release that passes preflight and then fails in its block is recorded as RELEASED
  and announced, because `signAndBroadcast` does not look at the error of a confirmed
  transaction; `confirmClientTransaction` does. (service_released)
* Anyone takes the platform's earnings: `withdraw_fees` pays whoever signs (`withdraw_fees.rs:12`), while `withdraw_fees.rs:7`,
  `lib.rs:58` and `escrow.service.ts:1235` speak of the authority. The jobs' money is not touched. (fees)
* No hire opens a conversation: `chat.message-handler.ts:182` wants a `freelancerId`, which PROPOSAL_HIRED is published
  without (`proposal.message-handler.ts:245-278`), so that nothing of `CHAT_FRONTEND.md:39-44` happens. (realtime_hired)

Read in the code, and followed by the models:

* The confirmation endpoints "verify the tx landed on-chain" (`escrow.service.ts:714-805`, `1119-1175`) and nothing else about
  it: not whose it is, nor which job it is about. With any signature a user can have an unpaid job recorded as FUNDED with the
  amount 0 and announced; `fundJob` then refuses the real payment, and so does a milestone that is no longer pending. Confirming a
  funded milestone leaves the caller's wallet in the row, and the program refuses the refund to it. `strays` keeps the
  properties exact about this.
* `create_contract` lets anyone create the contract account of any job, though `create_contract.rs` and `lib.rs` name the
  authority: a stranger who is first keeps the job from ever having the service's record on chain.
* `proposal.received` is never sent: the client is looked up on a job reference that
  holds only an id (`proposal.message-handler.ts:87`), against `NOTIFICATIONS_FRONTEND.md:46`. `Notify` is that step.

Besides those named in section 2, the program's test
(`tests/mint-jobs-escrow.ts:208`) expects a release to pay the whole amount while the program
keeps 2.5%; a release confirmed in client mode never notifies the freelancer
(`NOTIFICATIONS_FRONTEND.md:44`); and the second hire of a job gets no on-chain contract
(`CHANGELOG_FRONTEND.md:269`), because the account is one per job.

Found while proving `HireLocksListed`: the rent rule can refuse the lock of a hire. Locking pays
the fee into the platform's fee vault, and as long as that vault with the fee is below the rent minimum (a new
network and a small deposit, or a vault that was just emptied by `withdraw_fees`) the runtime fails the transaction. The hire
passes over the milestone as it does over any failure, and it stays funded and open to withdrawal under a contract. Without
`~drained` TLC violates the property; hence that condition, and the hypothesis on `Deposit`.

## 7. Not modelled

A foreign transaction relayed through a confirmation (it is any transaction to the program, and anybody can send those; what
it does to the row is that of a confirmation); the awaits of the fee withdrawal's handler; `findOrCreateConversation` and
`handleHired`, which nothing reaches; joining a community, which is an event on a socket of the launchpad service
(`launchpad-chat.gateway.ts:56-76`) and no request; messages published before the queue of their
service was ever declared, which the broker drops.

Formatting of documents and notifications, authentication, validation of DTOs,
pagination and other reads, statistics; `generateTerminationNotice` and the unused socket gateways; a broker
that refuses a publish (the client library buffers it); the
notifications ESCROW_FUNDED and ESCROW_REFUNDED, published beside JOB_SET_ACTIVE. Of the launchpad service, tokens
and direct messages: plain inserts that no second actor touches and uploads to Pinata. Of the user service, the
methods without a caller (create, remove, updateLastLogin). The upload and auth services and the configuration,
logging, DTO, PDF and Privy libraries keep no state of the protocol. `PROJECT.json` gives the reason per component.

## 8. Running

`tlc -config EscrowProgram_main.cfg MCEscrowProgram.tla`, and so on for each `.cfg` with
the `MC` module of its name; `tlapm` with each `*Proofs.tla`.
